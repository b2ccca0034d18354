---------------------------- MODULE MCSprintPlan ----------------------------
(* Small instances of SprintPlan for TLC.                                  *)
EXTENDS SprintPlan

MCPoints == [w \in Ids |-> IF w = "w1" THEN 2 ELSE IF w \in Known THEN 1 ELSE 0]

InOrder == {<<1, 2>>}

\* Kept is the SelectSeq of the items of S, on every short sequence.
ASSUME KeptIsSelectSeq ==
    \A s \in SeqOf(Ids, 4) : \A S \in SUBSET Ids :
        Kept(s, S) = SelectSeq(s, LAMBDA n : n \in S)
=============================================================================
