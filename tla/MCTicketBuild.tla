--------------------------- MODULE MCTicketBuild ---------------------------
(* Small instances of TicketBuild for TLC.                                 *)
EXTENDS TicketBuild

\* Two independent tickets and one that depends on them.
TwoThenOne == <<1, 1, 2>>

\* Two independent tickets.
TwoAtOnce == <<1, 1>>
=============================================================================
