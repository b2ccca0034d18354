---------------------------- MODULE MCPortfolio ----------------------------
(* A small instance of Portfolio for TLC: two projects on two threads, and *)
(* two more processes with one project each.                               *)
EXTENDS Portfolio

TwoOneOne == <<<<1, 2>>, <<3>>, <<4>>>>
TwoThreads == <<2, 1, 1>>
=============================================================================
