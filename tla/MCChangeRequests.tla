-------------------------- MODULE MCChangeRequests --------------------------
(* Small instances of ChangeRequests for TLC.                              *)
EXTENDS ChangeRequests

\* Two tickets of one story, one of another; a third story has none.
TwoAndOne == <<"A", "A", "B">>
=============================================================================
