------------------------- MODULE SharedResourceProofs -------------------------
(***************************************************************************)
(* Theorems about the two things the ticket workers of a project check     *)
(* without a lock and use later: the budget of their LLM calls             *)
(* (MeteredCalls) and the proxy of their sandboxed commands                *)
(* (SandboxEgress), each for any number of workers.                        *)
(*                                                                         *)
(* MeteredCalls, for any workers, stages, caps and prices.                 *)
(*                                                                         *)
(* The overshoot: what is spent and what the workers past the check may    *)
(* still spend, one call each, is below the cap and one call per worker    *)
(* (StageHeadroom, ProjectHeadroom).  A check is passed below the cap, by  *)
(* a worker that is counted from then on, until its call is recorded.      *)
(*                                                                         *)
(* The bill: what is charged and not committed to the file is the sum of   *)
(* the answers the workers hold, what a crash lost and what requests and   *)
(* writes that raised lost; what the connection sees is never less than    *)
(* what the file holds (OpenRows).  The sum over a set of workers is any   *)
(* function on sets of workers that adds up the costs (Adds), so that no   *)
(* recursion is needed.                                                    *)
(*                                                                         *)
(* SandboxEgress, as long as docker commands only fail for what other runs *)
(* did: a half-built proxy always has a run that completes it, and the     *)
(* runs never all make each other fail.                                    *)
(***************************************************************************)
EXTENDS MeteredCalls, SandboxEgress, FiniteSetTheorems, TLAPS

\* The workers whose call may still be recorded under stage s.
Committed(s) == {w \in Workers : pc[w] # "idle" /\ stage[w] = s}

\* The workers past both checks.
Charging == {w \in Workers : pc[w] \in {"calling", "answered"}}

Answered(s) == {w \in Workers : pc[w] = "answered" /\ stage[w] = s}

Fleet == MaxCost * Cardinality(Workers)

StageHeadroom ==
    \A s \in Capped :
        spend[s] > 0 \/ Committed(s) # {} =>
            spend[s] + MaxCost * Cardinality(Committed(s)) < StageCap[s] + Fleet

ProjectHeadroom ==
    total > 0 \/ Charging # {} =>
        total + MaxCost * Cardinality(Charging) < ProjectCap + Fleet

\* sum gives for every set of workers the total of the prices in price.
Adds(sum, price) ==
    /\ sum \in [SUBSET Workers -> Nat]
    /\ sum[{}] = 0
    /\ \A S \in SUBSET Workers : \A w \in S : sum[S] = sum[S \ {w}] + price[w]
    /\ \A S \in SUBSET Workers : sum[S] <= MaxCost * Cardinality(S)

\* The connection sees the committed rows and those of the open transaction;
\* what agents got the answer of is committed.
OpenRows ==
    /\ \A s \in Stages : returned[s] <= kept[s] /\ kept[s] <= spend[s]
    /\ keptTotal <= total

\* What crashes and exceptions can have lost so far.
Lost == crashes * Fleet + failed * MaxCost

\* What is charged is committed, held by a worker, or lost.
Balanced(sum) ==
    \A s \in Stages :
        /\ spend[s] + sum[Answered(s)] <= billed[s]
        /\ billed[s] <= kept[s] + sum[Answered(s)] + Lost

Bill == \E sum \in [SUBSET Workers -> Nat] : Adds(sum, cost) /\ Balanced(sum)

IInv == TypeOK /\ OpenRows /\ StageHeadroom /\ ProjectHeadroom /\ Bill

-----------------------------------------------------------------------------
(* Arithmetic of the caps and sets of workers                              *)

\* A price per member: products that the steps compare.
LEMMA Products ==
    ASSUME NEW k \in Nat, NEW m \in Nat, NEW n \in Nat
    PROVE  /\ k * m \in Nat
           /\ k * (n + 1) = k * n + k
           /\ k * 0 = 0
           /\ m <= n => k * m <= k * n
<1>1. m <= n => \E d \in Nat : n = m + d
    <2> HAVE m <= n
    <2> QED BY n - m \in Nat, n = m + (n - m)
<1>2. \A d \in Nat : k * (m + d) = k * m + k * d /\ k * d \in Nat
    OBVIOUS
<1> QED BY <1>1, <1>2

\* Sets of workers are finite and no larger than the pool.
LEMMA WorkersCounted ==
    ASSUME NEW S \in SUBSET Workers
    PROVE  /\ IsFiniteSet(S)
           /\ Cardinality(S) \in Nat
           /\ Cardinality(Workers) \in Nat
           /\ Cardinality(S) <= Cardinality(Workers)
BY FS_Subset, FS_CardinalityType, CapAssumption

\* One worker more or less.
LEMMA OneWorker ==
    ASSUME NEW S \in SUBSET Workers, NEW w \in Workers
    PROVE  /\ w \notin S => Cardinality(S \cup {w}) = Cardinality(S) + 1
           /\ w \in S => Cardinality(S) = Cardinality(S \ {w}) + 1
<1>1. IsFiniteSet(S) /\ Cardinality(S) \in Nat
    BY WorkersCounted
<1>2. Cardinality(S \cup {w}) = IF w \in S THEN Cardinality(S) ELSE Cardinality(S) + 1
    BY <1>1, FS_AddElement
<1>3. Cardinality(S \ {w}) = IF w \in S THEN Cardinality(S) - 1 ELSE Cardinality(S)
    BY <1>1, FS_RemoveElement
<1> QED BY <1>1, <1>2, <1>3

\* What one call per worker of a set costs.
LEMMA PriceOf ==
    ASSUME NEW S \in SUBSET Workers
    PROVE  /\ MaxCost * Cardinality(S) \in Nat
           /\ Fleet \in Nat
           /\ MaxCost * Cardinality(S) <= Fleet
           /\ MaxCost \in Nat
           /\ S = {} => MaxCost * Cardinality(S) = 0
           /\ \A w \in Workers \ S :
                MaxCost * Cardinality(S \cup {w}) = MaxCost * Cardinality(S) + MaxCost
           /\ \A w \in S :
                MaxCost * Cardinality(S) = MaxCost * Cardinality(S \ {w}) + MaxCost
<1>1. MaxCost \in Nat
    BY CapAssumption
<1>2. /\ Cardinality(S) \in Nat /\ Cardinality(Workers) \in Nat
      /\ Cardinality(S) <= Cardinality(Workers)
    BY WorkersCounted
<1>3. S = {} => Cardinality(S) = 0
    BY FS_EmptySet
<1>4. \A w \in Workers \ S : Cardinality(S \cup {w}) = Cardinality(S) + 1
    BY OneWorker
<1>5. \A w \in S : /\ Cardinality(S \ {w}) \in Nat
                   /\ Cardinality(S) = Cardinality(S \ {w}) + 1
    BY OneWorker, WorkersCounted
<1> QED BY <1>1, <1>2, <1>3, <1>4, <1>5, Products DEF Fleet

-----------------------------------------------------------------------------
(* Types                                                                   *)

LEMMA InitTypeOK == Init => TypeOK
BY CapAssumption DEF Init, TypeOK

\* The step of one worker, or of the ledger or the process as a whole.
LEMMA StepCases ==
    ASSUME [Next]_vars
    PROVE  \/ \E w \in Workers, s \in Stages : CheckStage(w, s)
           \/ \E w \in Workers : \/ CheckProject(w) \/ CallFails(w)
                                 \/ Record(w) \/ RecordFails(w)
           \/ \E w \in Workers, c \in 1..MaxCost : Answer(w, c) \/ AnswerLost(w, c)
           \/ OtherProject
           \/ Crash
           \/ UNCHANGED vars
BY DEF Next

LEMMA TypeStep == TypeOK /\ [Next]_vars => TypeOK'
<1> SUFFICES ASSUME TypeOK, [Next]_vars PROVE TypeOK'
    OBVIOUS
<1> USE CapAssumption DEF TypeOK
<1>1. ASSUME NEW w \in Workers, NEW s \in Stages, CheckStage(w, s) PROVE TypeOK'
    BY <1>1 DEF CheckStage, rows
<1>2. ASSUME NEW w \in Workers, CheckProject(w) PROVE TypeOK'
    BY <1>2 DEF CheckProject, rows
<1>3. ASSUME NEW w \in Workers, CallFails(w) PROVE TypeOK'
    BY <1>3 DEF CallFails, rows
<1>4. ASSUME NEW w \in Workers, Record(w) PROVE TypeOK'
    BY <1>4 DEF Record, AddRow, CommitRows
<1>5. ASSUME NEW w \in Workers, RecordFails(w) PROVE TypeOK'
    BY <1>5 DEF RecordFails, AddRow, RollBack, rows
<1>6. ASSUME NEW w \in Workers, NEW c \in 1..MaxCost, Answer(w, c) PROVE TypeOK'
    BY <1>6 DEF Answer, rows
<1>7. ASSUME NEW w \in Workers, NEW c \in 1..MaxCost, AnswerLost(w, c) PROVE TypeOK'
    BY <1>7 DEF AnswerLost, rows
<1>8. CASE OtherProject
    BY <1>8 DEF OtherProject, CommitRows, RollBack
<1>9. CASE Crash
    BY <1>9 DEF Crash, RollBack
<1>10. CASE UNCHANGED vars
    BY <1>10 DEF vars, rows
<1> QED BY <1>1, <1>2, <1>3, <1>4, <1>5, <1>6, <1>7, <1>8, <1>9, <1>10, StepCases

-----------------------------------------------------------------------------
(* The file                                                                *)

\* A commit covers every open row, and rows only leave with the transaction.
LEMMA OpenRowsStep == TypeOK /\ OpenRows /\ [Next]_vars => OpenRows'
<1> SUFFICES ASSUME TypeOK, OpenRows, [Next]_vars PROVE OpenRows'
    OBVIOUS
<1> USE DEF TypeOK, OpenRows
<1>1. ASSUME UNCHANGED <<rows, returned>> PROVE OpenRows'
    BY <1>1 DEF rows
<1>2. ASSUME RollBack, UNCHANGED returned PROVE OpenRows'
    BY <1>2 DEF RollBack
<1>3. \A w \in Workers : cost[w] \in Nat
    BY CapAssumption
<1>4. ASSUME NEW w \in Workers, Record(w) PROVE OpenRows'
    BY <1>3, <1>4 DEF Record, AddRow, CommitRows
<1>5. ASSUME NEW w \in Workers, RecordFails(w) PROVE OpenRows'
    <2>1. CASE AddRow(w) /\ UNCHANGED <<kept, keptTotal>>
        BY <1>3, <1>5, <2>1 DEF RecordFails, AddRow
    <2> QED BY <1>1, <1>2, <1>5, <2>1 DEF RecordFails
<1>6. CASE OtherProject
    <2>1. CASE UNCHANGED <<spend, total>> /\ CommitRows
        BY <1>6, <2>1 DEF OtherProject, CommitRows
    <2> QED BY <1>2, <1>6, <2>1 DEF OtherProject
<1>7. ASSUME NEW w \in Workers,
             \/ \E s \in Stages : CheckStage(w, s)
             \/ CheckProject(w)
             \/ CallFails(w)
             \/ \E c \in 1..MaxCost : Answer(w, c) \/ AnswerLost(w, c)
      PROVE  OpenRows'
    BY <1>1, <1>7 DEF CheckStage, CheckProject, CallFails, Answer, AnswerLost
<1>8. CASE Crash
    BY <1>2, <1>8 DEF Crash
<1>9. CASE UNCHANGED vars
    BY <1>1, <1>9 DEF vars
<1> QED BY <1>4, <1>5, <1>6, <1>7, <1>8, <1>9, StepCases

-----------------------------------------------------------------------------
(* The caps                                                                *)

\* No step spends what was not set aside when the stage check was passed.
LEMMA StageStep == TypeOK /\ OpenRows /\ StageHeadroom /\ [Next]_vars => StageHeadroom'
<1> SUFFICES ASSUME TypeOK, OpenRows, StageHeadroom, [Next]_vars, NEW s \in Capped,
                    spend'[s] > 0 \/ Committed(s)' # {}
             PROVE  (spend[s] + MaxCost * Cardinality(Committed(s))
                        < StageCap[s] + Fleet)'
    BY DEF StageHeadroom
<1> USE DEF TypeOK
<1>1. /\ s \in Stages /\ StageCap[s] \in Nat /\ spend[s] \in Nat
      /\ Committed(s) \in SUBSET Workers /\ Committed(s)' \in SUBSET Workers
      /\ Fleet' = Fleet /\ spend'[s] \in Nat /\ kept[s] <= spend[s]
    BY CapAssumption, TypeStep DEF Committed, Fleet, OpenRows
<1>2. /\ MaxCost * Cardinality(Committed(s)) \in Nat /\ Fleet \in Nat /\ MaxCost \in Nat
      /\ MaxCost * Cardinality(Committed(s)') \in Nat
      /\ MaxCost * Cardinality(Committed(s)') <= Fleet
    BY <1>1, PriceOf
\* The workers set aside are the same or fewer, and no money is spent.
<1>3. ASSUME spend'[s] <= spend[s], Committed(s)' = Committed(s)
      PROVE  (spend[s] + MaxCost * Cardinality(Committed(s)) < StageCap[s] + Fleet)'
    BY <1>1, <1>2, <1>3 DEF StageHeadroom
<1>4. ASSUME spend'[s] <= spend[s],
             NEW w \in Committed(s), Committed(s)' = Committed(s) \ {w}
      PROVE  (spend[s] + MaxCost * Cardinality(Committed(s)) < StageCap[s] + Fleet)'
    BY <1>1, <1>2, <1>4, PriceOf DEF StageHeadroom
<1>5. ASSUME NEW w \in Workers, NEW r \in Stages, CheckStage(w, r)
      PROVE  (spend[s] + MaxCost * Cardinality(Committed(s)) < StageCap[s] + Fleet)'
    <2>1. CASE r = s
        BY <1>1, <1>2, <1>5, <2>1 DEF CheckStage, UnderStageCap, rows
    <2>2. CASE r # s
        <3>1. Committed(s)' = Committed(s) /\ spend'[s] <= spend[s]
            BY <1>1, <1>5, <2>2 DEF CheckStage, Committed, rows
        <3> QED BY <3>1, <1>3
    <2> QED BY <2>1, <2>2
<1>6. ASSUME NEW w \in Workers, pc[w] # "idle",
             UNCHANGED stage, spend'[s] <= spend[s],
             \/ UNCHANGED pc
             \/ pc' = [pc EXCEPT ![w] = "calling"]
             \/ pc' = [pc EXCEPT ![w] = "answered"]
             \/ pc' = [pc EXCEPT ![w] = "idle"]
      PROVE  (spend[s] + MaxCost * Cardinality(Committed(s)) < StageCap[s] + Fleet)'
    <2>1. \/ Committed(s)' = Committed(s)
          \/ w \in Committed(s) /\ Committed(s)' = Committed(s) \ {w}
        BY <1>6 DEF Committed
    <2> QED BY <2>1, <1>3, <1>4, <1>6
\* A row is added: the worker's share is spent.
<1>7. ASSUME NEW w \in Workers, pc[w] = "answered", AddRow(w),
             pc' = [pc EXCEPT ![w] = "idle"], UNCHANGED stage
      PROVE  (spend[s] + MaxCost * Cardinality(Committed(s)) < StageCap[s] + Fleet)'
    <2>1. CASE stage[w] = s
        <3>1. w \in Committed(s) /\ Committed(s)' = Committed(s) \ {w}
            BY <1>7, <2>1 DEF Committed
        <3>2. spend'[s] = spend[s] + cost[w] /\ cost[w] \in Nat /\ cost[w] <= MaxCost
            BY <1>1, <1>2, <1>7, <2>1 DEF AddRow
        <3>3. spend[s] + MaxCost * Cardinality(Committed(s)) < StageCap[s] + Fleet
            BY <3>1 DEF StageHeadroom
        <3>4. MaxCost * Cardinality(Committed(s))
                = MaxCost * Cardinality(Committed(s)') + MaxCost
            BY <1>1, <3>1, PriceOf
        <3> QED BY <1>1, <1>2, <3>2, <3>3, <3>4
    <2>2. CASE stage[w] # s
        <3>1. Committed(s)' = Committed(s) /\ spend'[s] <= spend[s]
            BY <1>1, <1>7, <2>2 DEF AddRow, Committed
        <3> QED BY <3>1, <1>3
    <2> QED BY <2>1, <2>2
<1>8. ASSUME NEW w \in Workers, Record(w)
      PROVE  (spend[s] + MaxCost * Cardinality(Committed(s)) < StageCap[s] + Fleet)'
    BY <1>7, <1>8 DEF Record
<1>9. ASSUME NEW w \in Workers, RecordFails(w)
      PROVE  (spend[s] + MaxCost * Cardinality(Committed(s)) < StageCap[s] + Fleet)'
    <2>1. CASE AddRow(w)
        BY <1>7, <1>9, <2>1 DEF RecordFails
    <2>2. CASE UNCHANGED rows \/ RollBack
        <3>1. spend'[s] <= spend[s]
            BY <1>1, <2>2 DEF rows, RollBack
        <3> QED BY <1>6, <1>9, <3>1 DEF RecordFails
    <2> QED BY <1>9, <2>1, <2>2 DEF RecordFails
<1>10. ASSUME NEW w \in Workers,
              \/ CheckProject(w)
              \/ CallFails(w)
              \/ \E c \in 1..MaxCost : Answer(w, c) \/ AnswerLost(w, c)
       PROVE  (spend[s] + MaxCost * Cardinality(Committed(s)) < StageCap[s] + Fleet)'
    <2>1. spend'[s] <= spend[s] /\ UNCHANGED stage /\ pc[w] # "idle"
        BY <1>1, <1>10 DEF CheckProject, CallFails, Answer, AnswerLost, rows
    <2>2. \/ UNCHANGED pc
          \/ pc' = [pc EXCEPT ![w] = "calling"]
          \/ pc' = [pc EXCEPT ![w] = "answered"]
          \/ pc' = [pc EXCEPT ![w] = "idle"]
        BY <1>10 DEF CheckProject, CallFails, Answer, AnswerLost
    <2> QED BY <1>6, <2>1, <2>2
<1>11. CASE OtherProject
    <2>1. Committed(s)' = Committed(s) /\ spend'[s] <= spend[s]
        BY <1>1, <1>11 DEF OtherProject, RollBack, Committed
    <2> QED BY <1>3, <2>1
<1>12. CASE Crash
    <2>1. Committed(s)' = {} /\ spend'[s] <= spend[s]
        BY <1>1, <1>12 DEF Crash, RollBack, Committed
    <2>2. MaxCost * Cardinality(Committed(s)') = 0
        BY <1>1, <2>1, PriceOf
    <2> QED BY <1>1, <1>2, <2>1, <2>2 DEF StageHeadroom
<1>13. CASE UNCHANGED vars
    <2>1. Committed(s)' = Committed(s) /\ spend'[s] <= spend[s]
        BY <1>1, <1>13 DEF vars, rows, Committed
    <2> QED BY <1>3, <2>1
<1> QED BY <1>5, <1>8, <1>9, <1>10, <1>11, <1>12, <1>13, StepCases

\* The same of the project cap: counted are the workers past both checks.
LEMMA ProjectStep == TypeOK /\ OpenRows /\ ProjectHeadroom /\ [Next]_vars => ProjectHeadroom'
<1> SUFFICES ASSUME TypeOK, OpenRows, ProjectHeadroom, [Next]_vars,
                    total' > 0 \/ Charging' # {}
             PROVE  (total + MaxCost * Cardinality(Charging) < ProjectCap + Fleet)'
    BY DEF ProjectHeadroom
<1> USE DEF TypeOK
<1>1. /\ ProjectCap \in Nat /\ total \in Nat
      /\ Charging \in SUBSET Workers /\ Charging' \in SUBSET Workers
      /\ Fleet' = Fleet /\ total' \in Nat /\ keptTotal <= total
    BY CapAssumption, TypeStep DEF Charging, Fleet, OpenRows
<1>2. /\ MaxCost * Cardinality(Charging) \in Nat /\ Fleet \in Nat /\ MaxCost \in Nat
      /\ MaxCost * Cardinality(Charging') \in Nat
      /\ MaxCost * Cardinality(Charging') <= Fleet
    BY <1>1, PriceOf
<1>3. ASSUME total' <= total, Charging' = Charging
      PROVE  (total + MaxCost * Cardinality(Charging) < ProjectCap + Fleet)'
    BY <1>1, <1>2, <1>3 DEF ProjectHeadroom
<1>4. ASSUME total' <= total, NEW w \in Charging, Charging' = Charging \ {w}
      PROVE  (total + MaxCost * Cardinality(Charging) < ProjectCap + Fleet)'
    BY <1>1, <1>2, <1>4, PriceOf DEF ProjectHeadroom
<1>5. ASSUME NEW w \in Workers, NEW s \in Stages, CheckStage(w, s)
      PROVE  (total + MaxCost * Cardinality(Charging) < ProjectCap + Fleet)'
    <2>1. total' <= total /\ Charging' = Charging
        BY <1>1, <1>5 DEF CheckStage, Charging, rows
    <2> QED BY <1>3, <2>1
<1>6. ASSUME NEW w \in Workers, CheckProject(w)
      PROVE  (total + MaxCost * Cardinality(Charging) < ProjectCap + Fleet)'
    <2>1. CASE total < ProjectCap
        BY <1>1, <1>2, <1>6, <2>1 DEF CheckProject, rows
    <2>2. CASE ~ (total < ProjectCap)
        <3>1. total' <= total /\ Charging' = Charging
            BY <1>1, <1>6, <2>2 DEF CheckProject, Charging, rows
        <3> QED BY <3>1, <1>3
    <2> QED BY <2>1, <2>2
<1>7. ASSUME NEW w \in Workers,
             \/ CallFails(w)
             \/ \E c \in 1..MaxCost : Answer(w, c) \/ AnswerLost(w, c)
      PROVE  (total + MaxCost * Cardinality(Charging) < ProjectCap + Fleet)'
    <2>1. total' <= total /\ w \in Charging
        BY <1>1, <1>7 DEF CallFails, Answer, AnswerLost, Charging, rows
    <2>2. Charging' = Charging \/ Charging' = Charging \ {w}
        BY <1>7 DEF CallFails, Answer, AnswerLost, Charging
    <2> QED BY <2>1, <2>2, <1>3, <1>4
<1>8. ASSUME NEW w \in Workers, pc[w] = "answered", AddRow(w),
             pc' = [pc EXCEPT ![w] = "idle"]
      PROVE  (total + MaxCost * Cardinality(Charging) < ProjectCap + Fleet)'
    <2>1. w \in Charging /\ Charging' = Charging \ {w}
        BY <1>8 DEF Charging
    <2>2. total' = total + cost[w] /\ cost[w] \in Nat /\ cost[w] <= MaxCost
        BY <1>2, <1>8 DEF AddRow
    <2>3. total + MaxCost * Cardinality(Charging) < ProjectCap + Fleet
        BY <2>1 DEF ProjectHeadroom
    <2>4. MaxCost * Cardinality(Charging) = MaxCost * Cardinality(Charging') + MaxCost
        BY <1>1, <2>1, PriceOf
    <2> QED BY <1>1, <1>2, <2>2, <2>3, <2>4
<1>9. ASSUME NEW w \in Workers, Record(w)
      PROVE  (total + MaxCost * Cardinality(Charging) < ProjectCap + Fleet)'
    BY <1>8, <1>9 DEF Record
<1>10. ASSUME NEW w \in Workers, RecordFails(w)
       PROVE  (total + MaxCost * Cardinality(Charging) < ProjectCap + Fleet)'
    <2>1. CASE AddRow(w)
        BY <1>8, <1>10, <2>1 DEF RecordFails
    <2>2. CASE UNCHANGED rows \/ RollBack
        <3>1. /\ total' <= total
              /\ w \in Charging /\ Charging' = Charging \ {w}
            BY <1>1, <1>10, <2>2 DEF RecordFails, rows, RollBack, Charging
        <3> QED BY <1>4, <3>1
    <2> QED BY <1>10, <2>1, <2>2 DEF RecordFails
<1>11. CASE OtherProject
    <2>1. total' <= total /\ Charging' = Charging
        BY <1>1, <1>11 DEF OtherProject, RollBack, Charging
    <2> QED BY <1>3, <2>1
<1>12. CASE Crash
    <2>1. Charging' = {} /\ total' <= total
        BY <1>1, <1>12 DEF Crash, RollBack, Charging
    <2>2. MaxCost * Cardinality(Charging') = 0
        BY <1>1, <2>1, PriceOf
    <2> QED BY <1>1, <1>2, <2>1, <2>2 DEF ProjectHeadroom
<1>13. CASE UNCHANGED vars
    <2>1. total' <= total /\ Charging' = Charging
        BY <1>1, <1>13 DEF vars, rows, Charging
    <2> QED BY <1>3, <2>1
<1> QED BY <1>5, <1>6, <1>7, <1>9, <1>10, <1>11, <1>12, <1>13, StepCases

-----------------------------------------------------------------------------
(* The bill                                                                *)

\* A worker's price changes: the sums of the sets it is in follow.
LEMMA Repriced ==
    ASSUME NEW sum, NEW price, Adds(sum, price),
           NEW w \in Workers, NEW c \in 0..MaxCost, price \in [Workers -> 0..MaxCost]
    PROVE  LET new == [S \in SUBSET Workers |->
                          IF w \in S THEN sum[S \ {w}] + c ELSE sum[S]]
           IN  Adds(new, [price EXCEPT ![w] = c])
<1> DEFINE new == [S \in SUBSET Workers |->
                      IF w \in S THEN sum[S \ {w}] + c ELSE sum[S]]
<1>1. MaxCost \in Nat /\ c \in Nat /\ c <= MaxCost
    BY CapAssumption
<1>2. \A S \in SUBSET Workers : S \ {w} \in SUBSET Workers /\ sum[S \ {w}] \in Nat
    BY DEF Adds
<1>3. new \in [SUBSET Workers -> Nat]
    BY <1>1, <1>2 DEF Adds
<1>4. new[{}] = 0
    BY DEF Adds
<1>5. ASSUME NEW S \in SUBSET Workers, NEW v \in S
      PROVE  new[S] = new[S \ {v}] + [price EXCEPT ![w] = c][v]
    <2>1. CASE v = w
        BY <1>1, <1>2, <2>1
    <2>2. CASE v # w /\ w \in S
        <3>1. sum[S \ {w}] = sum[(S \ {w}) \ {v}] + price[v]
            BY <2>2 DEF Adds
        <3>2. new[S] = sum[S \ {w}] + c
            BY <2>2
        <3>3. (S \ {v}) \ {w} = (S \ {w}) \ {v} /\ S \ {v} \in SUBSET Workers /\ w \in S \ {v}
            BY <2>2
        <3>4. new[S \ {v}] = sum[(S \ {w}) \ {v}] + c
            BY <3>3
        <3>5. sum[(S \ {w}) \ {v}] \in Nat
            BY DEF Adds
        <3>6. [price EXCEPT ![w] = c][v] = price[v] /\ price[v] \in Nat
            BY <2>2
        <3> HIDE DEF new
        <3> QED BY <1>1, <3>1, <3>2, <3>4, <3>5, <3>6
    <2>3. CASE v # w /\ w \notin S
        BY <2>3 DEF Adds
    <2> QED BY <2>1, <2>2, <2>3
<1>6. ASSUME NEW S \in SUBSET Workers
      PROVE  new[S] <= MaxCost * Cardinality(S)
    <2>1. CASE w \in S
        <3>1. MaxCost * Cardinality(S) = MaxCost * Cardinality(S \ {w}) + MaxCost
            BY <2>1, PriceOf
        <3>2. sum[S \ {w}] <= MaxCost * Cardinality(S \ {w})
            BY <1>2 DEF Adds
        <3>3. MaxCost * Cardinality(S \ {w}) \in Nat
            BY <1>2, PriceOf
        <3>4. new[S] = sum[S \ {w}] + c
            BY <2>1
        <3>5. sum[S \ {w}] \in Nat
            BY <1>2
        <3> DEFINE rest == MaxCost * Cardinality(S \ {w})
                   all == MaxCost * Cardinality(S)
        <3>6. all = rest + MaxCost /\ rest \in Nat /\ sum[S \ {w}] <= rest
            BY <3>1, <3>2, <3>3
        <3> HIDE DEF new, rest, all
        <3>7. new[S] <= all
            BY <1>1, <3>4, <3>5, <3>6
        <3> QED BY <3>7 DEF all
    <2>2. CASE w \notin S
        BY <2>2 DEF Adds
    <2> QED BY <2>1, <2>2
<1> HIDE DEF new
<1>7. Adds(new, [price EXCEPT ![w] = c])
    BY <1>3, <1>4, <1>5, <1>6 DEF Adds
<1> QED BY <1>7 DEF new

\* What can be lost, and what one more crash or exception adds.
LEMMA LostGrows ==
    ASSUME TypeOK
    PROVE  /\ Fleet \in Nat /\ Fleet' = Fleet /\ MaxCost \in Nat /\ Lost \in Nat
           /\ UNCHANGED <<crashes, failed>> => Lost' = Lost
           /\ crashes' = crashes + 1 /\ failed' = failed => Lost' = Lost + Fleet
           /\ crashes' = crashes /\ failed' = failed + 1 => Lost' = Lost + MaxCost
<1>1. Fleet \in Nat /\ MaxCost \in Nat /\ Fleet' = Fleet
    <2>1. {} \in SUBSET Workers
        OBVIOUS
    <2> QED BY <2>1, PriceOf DEF Fleet
<1>2. crashes \in Nat /\ failed \in Nat
    BY CapAssumption DEF TypeOK
<1>3. ASSUME NEW n \in Nat, NEW k \in Nat
      PROVE  n * k \in Nat /\ (n + 1) * k = n * k + k
    OBVIOUS
<1>4. /\ crashes * Fleet \in Nat /\ (crashes + 1) * Fleet = crashes * Fleet + Fleet
      /\ failed * MaxCost \in Nat /\ (failed + 1) * MaxCost = failed * MaxCost + MaxCost
    BY <1>1, <1>2, <1>3
<1> DEFINE ended == crashes * Fleet
           raised == failed * MaxCost
<1>5. Lost = ended + raised
    BY DEF Lost
<1>6. /\ UNCHANGED <<crashes, failed>> => Lost' = ended + raised
      /\ crashes' = crashes + 1 /\ failed' = failed => Lost' = (ended + Fleet) + raised
      /\ crashes' = crashes /\ failed' = failed + 1 => Lost' = ended + (raised + MaxCost)
    BY <1>1, <1>4 DEF Lost
<1>7. ended \in Nat /\ raised \in Nat
    BY <1>4
<1> HIDE DEF ended, raised
<1> QED BY <1>1, <1>5, <1>6, <1>7

\* A step that charges nothing, takes no row from the file and loses no answer.
LEMMA BillUntouched ==
    ASSUME TypeOK, TypeOK', Bill, UNCHANGED <<cost, billed, failed, crashes>>,
           \A s \in Stages : /\ Answered(s)' = Answered(s)
                             /\ spend'[s] <= spend[s]
                             /\ kept[s] <= kept'[s]
    PROVE  Bill'
<1>1. PICK sum \in [SUBSET Workers -> Nat] : Adds(sum, cost) /\ Balanced(sum)
    BY DEF Bill
<1>2. Adds(sum, cost)'
    BY <1>1 DEF Adds
<1>3. ASSUME NEW s \in Stages
      PROVE  /\ spend'[s] + sum[Answered(s)'] <= billed'[s]
             /\ billed'[s] <= kept'[s] + sum[Answered(s)'] + Lost'
    <2>1. sum[Answered(s)] \in Nat
        BY DEF Answered
    <2>2. /\ spend[s] \in Nat /\ spend'[s] \in Nat /\ billed[s] \in Nat
          /\ kept[s] \in Nat /\ kept'[s] \in Nat
        BY DEF TypeOK
    <2>3. Lost' = Lost /\ Lost \in Nat
        BY LostGrows
    <2> QED BY <1>1, <2>1, <2>2, <2>3 DEF Balanced
<1> QED BY <1>2, <1>3 DEF Bill, Balanced

\* The answer w holds is given up: it is in the file or counted as lost.
LEMMA BillSettled ==
    ASSUME TypeOK, TypeOK', Bill,
           NEW w \in Workers, pc[w] = "answered", pc' = [pc EXCEPT ![w] = "idle"],
           UNCHANGED <<stage, cost, billed, crashes>>,
           \A s \in Stages :
              spend'[s] <= spend[s] + (IF s = stage[w] THEN cost[w] ELSE 0),
           \/ /\ failed' = failed
              /\ \A s \in Stages :
                    kept[s] + (IF s = stage[w] THEN cost[w] ELSE 0) <= kept'[s]
           \/ /\ failed' = failed + 1
              /\ \A s \in Stages : kept[s] <= kept'[s]
    PROVE  Bill'
<1>1. PICK sum \in [SUBSET Workers -> Nat] : Adds(sum, cost) /\ Balanced(sum)
    BY DEF Bill
<1>2. Adds(sum, cost)'
    BY <1>1 DEF Adds
<1>3. ASSUME NEW s \in Stages
      PROVE  /\ spend'[s] + sum[Answered(s)'] <= billed'[s]
             /\ billed'[s] <= kept'[s] + sum[Answered(s)'] + Lost'
    <2>1. /\ spend[s] \in Nat /\ spend'[s] \in Nat /\ billed[s] \in Nat
          /\ kept[s] \in Nat /\ kept'[s] \in Nat /\ billed' = billed
          /\ cost[w] \in Nat /\ cost[w] <= MaxCost
        BY CapAssumption DEF TypeOK
    <2>2. /\ Lost \in Nat /\ Lost' \in Nat /\ MaxCost \in Nat
          /\ failed' = failed => Lost' = Lost
          /\ failed' = failed + 1 => Lost' = Lost + MaxCost
        BY LostGrows
    <2>3. /\ spend[s] + sum[Answered(s)] <= billed[s]
          /\ billed[s] <= kept[s] + sum[Answered(s)] + Lost
        BY <1>1 DEF Balanced
    <2>4. sum[Answered(s)] \in Nat /\ sum[Answered(s)'] \in Nat
        BY DEF Answered
    <2>5. CASE s = stage[w]
        <3>1. w \in Answered(s) /\ Answered(s)' = Answered(s) \ {w}
            BY <2>5 DEF Answered, TypeOK
        <3>2. sum[Answered(s)] = sum[Answered(s)'] + cost[w]
            <4>1. Answered(s) \in SUBSET Workers
                BY DEF Answered
            <4> QED BY <1>1, <3>1, <4>1 DEF Adds
        <3>3. /\ spend'[s] <= spend[s] + cost[w]
              /\ \/ failed' = failed /\ kept[s] + cost[w] <= kept'[s]
                 \/ failed' = failed + 1 /\ kept[s] <= kept'[s]
            BY <2>5
        <3> QED BY <2>1, <2>2, <2>3, <2>4, <3>2, <3>3
    <2>6. CASE s # stage[w]
        <3>1. Answered(s)' = Answered(s)
            BY <2>6 DEF Answered, TypeOK
        <3>2. /\ spend'[s] <= spend[s]
              /\ failed' = failed \/ failed' = failed + 1
              /\ kept[s] <= kept'[s]
            BY <2>1, <2>6
        <3> QED BY <2>1, <2>2, <2>3, <2>4, <3>1, <3>2
    <2> QED BY <2>5, <2>6
<1> QED BY <1>2, <1>3 DEF Bill, Balanced

\* Charging, recording and losing an answer keep the bill balanced.
LEMMA BillStep == TypeOK /\ OpenRows /\ Bill /\ [Next]_vars => Bill'
<1> SUFFICES ASSUME TypeOK, OpenRows, Bill, [Next]_vars PROVE Bill'
    OBVIOUS
<1> USE DEF TypeOK
<1>1. PICK sum \in [SUBSET Workers -> Nat] : Adds(sum, cost) /\ Balanced(sum)
    BY DEF Bill
<1>2. /\ Fleet \in Nat /\ Fleet' = Fleet /\ Lost \in Nat /\ MaxCost \in Nat
      /\ \A w \in Workers : cost[w] \in Nat /\ stage[w] \in Stages
      /\ \A s \in Stages : /\ spend[s] \in Nat /\ billed[s] \in Nat /\ kept[s] \in Nat
                           /\ kept[s] <= spend[s]
                           /\ Answered(s) \in SUBSET Workers
    BY LostGrows, CapAssumption DEF Answered, OpenRows
<1>3. TypeOK'
    BY TypeStep
<1>4. ASSUME NEW w \in Workers,
             \/ \E s \in Stages : CheckStage(w, s)
             \/ CheckProject(w)
             \/ CallFails(w)
      PROVE Bill'
    <2>1. UNCHANGED <<cost, rows, billed, failed, crashes>>
        BY <1>4 DEF CheckStage, CheckProject, CallFails
    <2>2. \A r \in Stages : Answered(r)' = Answered(r)
        BY <1>4 DEF CheckStage, CheckProject, CallFails, Answered
    <2>3. \A r \in Stages : spend'[r] <= spend[r] /\ kept[r] <= kept'[r]
        BY <1>2, <2>1 DEF rows
    <2> QED BY <1>3, <2>1, <2>2, <2>3, BillUntouched
<1>5. ASSUME NEW w \in Workers, NEW c \in 1..MaxCost, AnswerLost(w, c) PROVE Bill'
    <2>1. Adds(sum, cost)'
        BY <1>1, <1>5 DEF Adds, AnswerLost
    <2>2. Lost' = Lost + MaxCost
        BY <1>5, LostGrows DEF AnswerLost
    <2>3. ASSUME NEW s \in Stages
          PROVE  /\ spend'[s] + sum[Answered(s)'] <= billed'[s]
                 /\ billed'[s] <= kept'[s] + sum[Answered(s)'] + Lost'
        <3>1. Answered(s)' = Answered(s) /\ spend' = spend /\ kept' = kept
            BY <1>5 DEF AnswerLost, Answered, rows
        <3>2. billed'[s] = billed[s] \/ billed'[s] = billed[s] + c
            BY <1>5 DEF AnswerLost
        <3>3. c \in Nat /\ c <= MaxCost /\ sum[Answered(s)] \in Nat
            BY <1>2
        <3> QED BY <1>1, <1>2, <2>2, <3>1, <3>2, <3>3 DEF Balanced
    <2> QED BY <2>1, <2>3 DEF Bill, Balanced
<1>6. ASSUME NEW w \in Workers, NEW c \in 1..MaxCost, Answer(w, c) PROVE Bill'
    <2> DEFINE new == [S \in SUBSET Workers |->
                          IF w \in S THEN sum[S \ {w}] + c ELSE sum[S]]
    <2>1. c \in 0..MaxCost /\ c \in Nat
        BY <1>2
    <2>2. Adds(new, cost')
        BY <1>1, <1>6, <2>1, Repriced DEF Answer
    <2>3. Lost' = Lost /\ spend' = spend /\ kept' = kept
        BY <1>6, LostGrows DEF Answer, rows
    <2>4. ASSUME NEW s \in Stages
          PROVE  /\ spend'[s] + new[Answered(s)'] <= billed'[s]
                 /\ billed'[s] <= kept'[s] + new[Answered(s)'] + Lost'
        <3>1. CASE s = stage[w]
            <4>1. /\ w \notin Answered(s)
                  /\ Answered(s)' = Answered(s) \cup {w}
                BY <1>6, <3>1 DEF Answer, Answered
            <4>2. new[Answered(s)'] = sum[Answered(s)] + c
                <5>1. Answered(s)' \ {w} = Answered(s) /\ w \in Answered(s)'
                    BY <4>1
                <5>2. Answered(s)' \in SUBSET Workers
                    BY DEF Answered
                <5> QED BY <5>1, <5>2
            <4>3. billed'[s] = billed[s] + c
                BY <1>6, <3>1 DEF Answer
            <4>4. sum[Answered(s)] \in Nat
                BY <1>2
            <4> HIDE DEF new
            <4> QED BY <1>1, <1>2, <2>1, <2>3, <4>2, <4>3, <4>4 DEF Balanced
        <3>2. CASE s # stage[w]
            <4>1. w \notin Answered(s) /\ Answered(s)' = Answered(s)
                BY <1>6, <3>2 DEF Answer, Answered
            <4>2. new[Answered(s)'] = sum[Answered(s)]
                BY <1>2, <4>1
            <4>3. billed'[s] = billed[s]
                BY <1>2, <1>6, <3>2 DEF Answer
            <4> HIDE DEF new
            <4> QED BY <1>1, <1>2, <2>3, <4>2, <4>3 DEF Balanced
        <3> QED BY <3>1, <3>2
    <2>5. new \in [SUBSET Workers -> Nat]
        BY <2>2 DEF Adds
    <2> HIDE DEF new
    <2>6. Adds(new, cost)' /\ Balanced(new)'
        BY <2>2, <2>4 DEF Adds, Balanced
    <2> QED BY <2>5, <2>6 DEF Bill
<1>7. ASSUME NEW w \in Workers, Record(w) PROVE Bill'
    <2>1. \A s \in Stages :
             spend'[s] = spend[s] + (IF s = stage[w] THEN cost[w] ELSE 0)
        BY <1>2, <1>7 DEF Record, AddRow
    <2>2. \A s \in Stages :
             kept[s] + (IF s = stage[w] THEN cost[w] ELSE 0) <= kept'[s]
        BY <1>2, <1>7, <2>1 DEF Record, CommitRows
    <2>3. \A s \in Stages :
             spend'[s] <= spend[s] + (IF s = stage[w] THEN cost[w] ELSE 0)
        BY <1>2, <1>3, <2>1
    <2> QED BY <1>3, <1>7, <2>2, <2>3, BillSettled DEF Record
<1>8. ASSUME NEW w \in Workers, RecordFails(w) PROVE Bill'
    <2>1. kept' = kept
        BY <1>8 DEF RecordFails, RollBack, rows
    <2>2. \A s \in Stages :
             spend'[s] <= spend[s] + (IF s = stage[w] THEN cost[w] ELSE 0)
        <3>1. CASE AddRow(w)
            BY <1>2, <3>1 DEF AddRow
        <3>2. CASE UNCHANGED rows \/ RollBack
            <4>1. \A s \in Stages : spend'[s] <= spend[s] /\ spend'[s] \in Nat
                BY <1>2, <3>2 DEF RollBack, rows
            <4> QED BY <1>2, <4>1
        <3> QED BY <1>8, <3>1, <3>2 DEF RecordFails
    <2>3. \A s \in Stages : kept[s] <= kept'[s]
        BY <1>2, <2>1
    <2> QED BY <1>3, <1>8, <2>2, <2>3, BillSettled DEF RecordFails
<1>9. CASE OtherProject
    <2>1. \A s \in Stages : Answered(s)' = Answered(s)
        BY <1>9 DEF OtherProject, Answered
    <2>2. \A s \in Stages : spend'[s] <= spend[s] /\ kept[s] <= kept'[s]
        BY <1>2, <1>9 DEF OtherProject, CommitRows, RollBack
    <2> QED BY <1>3, <1>9, <2>1, <2>2, BillUntouched DEF OtherProject
<1>10. CASE Crash
    <2>1. Adds(sum, cost)'
        BY <1>1, <1>10 DEF Adds, Crash
    <2>2. Lost' = Lost + Fleet
        BY <1>10, LostGrows DEF Crash
    <2>3. ASSUME NEW s \in Stages
          PROVE  /\ spend'[s] + sum[Answered(s)'] <= billed'[s]
                 /\ billed'[s] <= kept'[s] + sum[Answered(s)'] + Lost'
        <3>1. Answered(s)' = {} /\ spend' = kept /\ kept' = kept /\ billed' = billed
            BY <1>10 DEF Crash, RollBack, Answered
        <3>2. sum[Answered(s)'] = 0
            BY <1>1, <3>1 DEF Adds
        <3>3. sum[Answered(s)] \in Nat /\ sum[Answered(s)] <= Fleet
            <4> DEFINE held == MaxCost * Cardinality(Answered(s))
            <4>1. held \in Nat /\ held <= Fleet /\ sum[Answered(s)] <= held
                BY <1>1, <1>2, PriceOf DEF Adds
            <4>2. sum[Answered(s)] \in Nat
                BY <1>2
            <4> HIDE DEF held
            <4> QED BY <1>2, <4>1, <4>2
        <3>4. /\ spend[s] + sum[Answered(s)] <= billed[s]
              /\ billed[s] <= kept[s] + sum[Answered(s)] + Lost
            BY <1>1 DEF Balanced
        <3> QED BY <1>2, <2>2, <3>1, <3>2, <3>3, <3>4
    <2> QED BY <2>1, <2>3 DEF Bill, Balanced
<1>11. CASE UNCHANGED vars
    <2>1. \A s \in Stages : Answered(s)' = Answered(s)
        BY <1>11 DEF vars, Answered
    <2>2. \A s \in Stages : spend'[s] <= spend[s] /\ kept[s] <= kept'[s]
        BY <1>2, <1>11 DEF vars, rows
    <2> QED BY <1>3, <1>11, <2>1, <2>2, BillUntouched DEF vars
<1> QED BY <1>4, <1>5, <1>6, <1>7, <1>8, <1>9, <1>10, <1>11, StepCases

-----------------------------------------------------------------------------
(* The invariant and the theorems                                          *)

LEMMA InitIInv == Init => IInv
<1> SUFFICES ASSUME Init PROVE IInv
    OBVIOUS
<1>1. TypeOK
    BY InitTypeOK
<1>2. StageHeadroom
    BY CapAssumption DEF Init, StageHeadroom, Committed
<1>3. ProjectHeadroom
    BY DEF Init, ProjectHeadroom, Charging
<1>4. OpenRows
    BY DEF Init, OpenRows
<1>5. Bill
    <2> DEFINE none == [S \in SUBSET Workers |-> 0]
    <2>1. \A S \in SUBSET Workers : MaxCost * Cardinality(S) \in Nat
        BY PriceOf
    <2>2. none \in [SUBSET Workers -> Nat]
        OBVIOUS
    <2>3. Adds(none, cost)
        BY <2>1 DEF Adds, Init
    <2>4. \A s \in Stages : Answered(s) \in SUBSET Workers
        BY DEF Answered
    <2>5. Fleet \in Nat
        BY PriceOf, CapAssumption
    <2>6. Lost = 0
        BY <2>5, CapAssumption DEF Init, Lost
    <2>7. Balanced(none)
        BY <2>4, <2>6 DEF Balanced, Init
    <2> HIDE DEF none
    <2> QED BY <2>2, <2>3, <2>7 DEF Bill
<1> QED BY <1>1, <1>2, <1>3, <1>4, <1>5 DEF IInv

LEMMA NextIInv == IInv /\ [Next]_vars => IInv'
BY TypeStep, OpenRowsStep, StageStep, ProjectStep, BillStep DEF IInv

\* The inductive invariant holds in every reachable state.
THEOREM MeteredInvariant == Spec => []IInv
<1> QED BY InitIInv, NextIInv, PTL DEF Spec

\* Worker, price, ledger and bill keep their types.
THEOREM MeteredTypeOK == Spec => []TypeOK
<1>1. IInv => TypeOK
    BY DEF IInv
<1> QED BY <1>1, MeteredInvariant, PTL

\* check_budget before and record after each call of any number of workers
\* keep the spend of a capped stage below its cap plus one call per worker.
THEOREM MeteredStageOvershoot == Spec => []StageOvershootBounded
<1>1. IInv => StageOvershootBounded
    <2> SUFFICES ASSUME IInv, NEW s \in Capped, spend[s] > 0
                 PROVE  spend[s] < StageCap[s] + Fleet
        BY DEF StageOvershootBounded, Fleet
    <2> DEFINE aside == MaxCost * Cardinality(Committed(s))
    <2>1. Committed(s) \in SUBSET Workers
        BY DEF Committed
    <2>2. aside \in Nat /\ Fleet \in Nat
        BY <2>1, PriceOf
    <2>3. spend[s] + aside < StageCap[s] + Fleet
        BY DEF IInv, StageHeadroom
    <2>4. spend[s] \in Nat /\ StageCap[s] \in Nat
        BY CapAssumption DEF IInv, TypeOK
    <2> HIDE DEF aside
    <2> QED BY <2>2, <2>3, <2>4
<1> QED BY <1>1, MeteredInvariant, PTL

\* And the spend of the project below the project cap plus as much.
THEOREM MeteredProjectOvershoot == Spec => []ProjectOvershootBounded
<1>1. IInv => ProjectOvershootBounded
    <2> SUFFICES ASSUME IInv, total > 0
                 PROVE  total < ProjectCap + Fleet
        BY DEF ProjectOvershootBounded, Fleet
    <2> DEFINE aside == MaxCost * Cardinality(Charging)
    <2>1. Charging \in SUBSET Workers
        BY DEF Charging
    <2>2. aside \in Nat /\ Fleet \in Nat
        BY <2>1, PriceOf
    <2>3. total + aside < ProjectCap + Fleet
        BY DEF IInv, ProjectHeadroom
    <2>4. total \in Nat /\ ProjectCap \in Nat
        BY CapAssumption DEF IInv, TypeOK
    <2> HIDE DEF aside
    <2> QED BY <2>2, <2>3, <2>4
<1> QED BY <1>1, MeteredInvariant, PTL

\* Every answer an agent got is paid for in the file, and the file misses no
\* more than the calls under way, the charged requests that raised and those
\* that the end of a process cut off.
THEOREM MeteredLedger == Spec => []LedgerTracksBill
<1>1. IInv => LedgerTracksBill
    <2> SUFFICES ASSUME IInv, NEW s \in Stages
                 PROVE  /\ returned[s] <= kept[s]
                        /\ spend[s] <= billed[s]
                        /\ billed[s] <= kept[s] + MaxCost * (Cardinality(Answered(s)) + failed
                                            + crashes * Cardinality(Workers))
        BY DEF LedgerTracksBill, Answered
    <2>1. PICK sum \in [SUBSET Workers -> Nat] : Adds(sum, cost) /\ Balanced(sum)
        BY DEF IInv, Bill
    <2>2. Answered(s) \in SUBSET Workers
        BY DEF Answered
    <2> DEFINE n == Cardinality(Answered(s))
               size == Cardinality(Workers)
               held == MaxCost * n
    <2>3. n \in Nat /\ size \in Nat /\ MaxCost \in Nat /\ crashes \in Nat /\ failed \in Nat
        BY <2>2, WorkersCounted, CapAssumption DEF IInv, TypeOK
    <2>4. MaxCost * (n + failed + crashes * size) = held + Lost
        <3>1. ASSUME NEW k \in Nat, NEW a \in Nat, NEW b \in Nat, NEW c \in Nat, NEW d \in Nat
              PROVE  k * (a + b + c * d) = k * a + (c * (k * d) + b * k)
            <4>1. c * d \in Nat /\ k * (c * d) = c * (k * d)
                OBVIOUS
            <4> QED BY <4>1
        <3> HIDE DEF n, size
        <3> QED BY <2>3, <3>1 DEF Fleet, Lost, size
    <2>5. held \in Nat /\ Lost \in Nat
        BY <2>2, <2>3, PriceOf, LostGrows DEF IInv
    <2>6. sum[Answered(s)] \in Nat /\ sum[Answered(s)] <= held
        BY <2>1, <2>2 DEF Adds
    <2>7. /\ spend[s] + sum[Answered(s)] <= billed[s]
          /\ billed[s] <= kept[s] + sum[Answered(s)] + Lost
        BY <2>1 DEF Balanced
    <2>8. /\ spend[s] \in Nat /\ billed[s] \in Nat /\ kept[s] \in Nat
          /\ returned[s] <= kept[s]
        BY DEF IInv, TypeOK, OpenRows
    <2>9. spend[s] <= billed[s] /\ billed[s] <= kept[s] + (held + Lost)
        <3> HIDE DEF held
        <3> QED BY <2>5, <2>6, <2>7, <2>8
    <2> QED BY <2>4, <2>8, <2>9
<1> QED BY <1>1, MeteredInvariant, PTL

-----------------------------------------------------------------------------
(* SandboxEgress                                                           *)

\* The steps a run takes before it has touched the proxy.
Early == {"inspectNetwork", "inspectProxy", "remove"}

\* While there is no proxy, a run is on the way to start one.
AbsentHasStarter ==
    proxy = "absent" =>
        \E r \in Runs : \/ command[r] \in Early \cup {"start"}
                        \/ command[r] = "createNetwork" /\ ~ network

\* A stopped proxy is one of before: no run has touched it.
StoppedIsOld ==
    proxy = "stopped" => network /\ \A r \in Runs : command[r] \in Early

\* A half-built proxy has a run that is about to complete it.
HalfBuilt ==
    proxy = "running" /\ ~ bridged => \E r \in Runs : command[r] = "connect"

\* A complete proxy has a run that gets, or got, to its task.
CompleteIsUsed ==
    proxy = "running" /\ bridged =>
        \E r \in Runs : command[r] \in {"inspectNetwork", "inspectProxy", "task", "done"}

\* Without the network no run is past creating it.
NetworkFirst ==
    ~ network => /\ proxy = "absent"
                 /\ \A r \in Runs : command[r] \in {"inspectNetwork", "createNetwork"}

\* Every state has a run that the others cannot make fail.
Survivor == AbsentHasStarter /\ StoppedIsOld /\ CompleteIsUsed /\ NetworkFirst

\* Inductive: what the runs promise each other holds until something fails of
\* its own, types hold for ever.
EgressIInv == EgressTypeOK /\ (~ faulted => HalfBuilt /\ Survivor)

\* Types are kept by every step, whatever fails.
LEMMA EgressTypeStep == EgressTypeOK /\ [EgressNext]_egressVars => EgressTypeOK'
<1> SUFFICES ASSUME EgressTypeOK, [EgressNext]_egressVars PROVE EgressTypeOK'
    OBVIOUS
<1>1. CASE ProxyDies
    BY <1>1 DEF ProxyDies, EgressTypeOK
<1>2. ASSUME NEW r \in Runs, Step(r) PROVE EgressTypeOK'
    <2>1. CASE InspectNetwork(r)
        BY <2>1 DEF InspectNetwork, Goto, EgressTypeOK
    <2>2. CASE CreateNetwork(r)
        BY <2>2 DEF CreateNetwork, Goto, EgressTypeOK
    <2>3. CASE InspectProxy(r)
        BY <2>3 DEF InspectProxy, Goto, EgressTypeOK
    <2>4. CASE RemoveProxy(r)
        BY <2>4 DEF RemoveProxy, Goto, EgressTypeOK
    <2>5. CASE StartProxy(r)
        BY <2>5 DEF StartProxy, Goto, EgressTypeOK
    <2>6. CASE ConnectBridge(r)
        <3>1. CASE bridged' = TRUE /\ proxy # "absent"
            BY <2>6, <3>1 DEF ConnectBridge, Goto, EgressTypeOK
        <3>2. CASE UNCHANGED bridged
            BY <2>6, <3>2 DEF ConnectBridge, Goto, EgressTypeOK
        <3> QED BY <2>6, <3>1, <3>2 DEF ConnectBridge
    <2>7. CASE RunTask(r)
        BY <2>7 DEF RunTask, HasRoute, Goto, EgressTypeOK
    <2> QED BY <1>2, <2>1, <2>2, <2>3, <2>4, <2>5, <2>6, <2>7 DEF Step
<1>3. ASSUME NEW r \in Runs, CommandFails(r) PROVE EgressTypeOK'
    BY <1>3 DEF CommandFails, Goto, EgressTypeOK
<1>4. CASE UNCHANGED egressVars
    BY <1>4 DEF egressVars, EgressTypeOK
<1> QED BY <1>1, <1>2, <1>3, <1>4 DEF EgressNext

LEMMA InitEgressIInv == EgressInit => EgressIInv
<1> SUFFICES ASSUME EgressInit PROVE EgressIInv
    OBVIOUS
<1>1. EgressTypeOK
    BY DEF EgressInit, EgressTypeOK
<1>2. HalfBuilt
    BY DEF EgressInit, HalfBuilt
<1>3. Survivor
    <2>1. PICK r \in Runs : command[r] = "inspectNetwork"
        BY EgressAssumption DEF EgressInit
    <2> QED BY <2>1 DEF EgressInit, Survivor, AbsentHasStarter, StoppedIsOld,
                        CompleteIsUsed, NetworkFirst, Early
<1> QED BY <1>1, <1>2, <1>3 DEF EgressIInv

\* No step of a run takes away the only run that completes the proxy.
LEMMA HalfBuiltStep ==
    ASSUME EgressTypeOK, HalfBuilt, NEW r \in Runs, Step(r)
    PROVE  HalfBuilt'
<1>1. CASE InspectNetwork(r)
    BY <1>1 DEF InspectNetwork, Goto, HalfBuilt, EgressTypeOK
<1>2. CASE CreateNetwork(r)
    BY <1>2 DEF CreateNetwork, Goto, HalfBuilt, EgressTypeOK
<1>3. CASE InspectProxy(r)
    BY <1>3 DEF InspectProxy, Goto, HalfBuilt, EgressTypeOK
<1>4. CASE RemoveProxy(r)
    BY <1>4 DEF RemoveProxy, HalfBuilt
<1>5. CASE StartProxy(r)
    BY <1>5 DEF StartProxy, Goto, HalfBuilt, EgressTypeOK
<1>6. CASE ConnectBridge(r)
    BY <1>6 DEF ConnectBridge, Goto, HalfBuilt, EgressTypeOK
<1>7. CASE RunTask(r)
    BY <1>7 DEF RunTask, HasRoute, Goto, HalfBuilt, EgressTypeOK
<1> QED BY <1>1, <1>2, <1>3, <1>4, <1>5, <1>6, <1>7 DEF Step

\* After every step of a run some run is left that cannot be made to fail.
LEMMA SurvivorStep ==
    ASSUME EgressTypeOK, Survivor, HalfBuilt, NEW r \in Runs, Step(r)
    PROVE  Survivor'
<1> USE DEF Survivor, AbsentHasStarter, StoppedIsOld, CompleteIsUsed,
            NetworkFirst, Early, Goto, EgressTypeOK
<1>1. CASE InspectNetwork(r)
    BY <1>1 DEF InspectNetwork
<1>2. CASE CreateNetwork(r)
    BY <1>2 DEF CreateNetwork
<1>3. CASE InspectProxy(r)
    BY <1>3 DEF InspectProxy
<1>4. CASE RemoveProxy(r)
    BY <1>4 DEF RemoveProxy
<1>5. CASE StartProxy(r)
    BY <1>5 DEF StartProxy
<1>6. CASE ConnectBridge(r)
    BY <1>6 DEF ConnectBridge
<1>7. CASE RunTask(r)
    BY <1>7 DEF RunTask, HasRoute
<1> QED BY <1>1, <1>2, <1>3, <1>4, <1>5, <1>6, <1>7 DEF Step

LEMMA NextEgressIInv == EgressIInv /\ [EgressNext]_egressVars => EgressIInv'
<1> SUFFICES ASSUME EgressIInv, [EgressNext]_egressVars PROVE EgressIInv'
    OBVIOUS
<1>1. EgressTypeOK'
    BY EgressTypeStep DEF EgressIInv
<1>2. CASE UNCHANGED egressVars
    BY <1>1, <1>2 DEF egressVars, EgressIInv, HalfBuilt, Survivor, AbsentHasStarter,
                      StoppedIsOld, CompleteIsUsed, NetworkFirst
<1>3. CASE ProxyDies
    BY <1>1, <1>3 DEF ProxyDies, EgressIInv
<1>4. ASSUME NEW r \in Runs, CommandFails(r) PROVE EgressIInv'
    BY <1>1, <1>4 DEF CommandFails, EgressIInv
<1>5. ASSUME NEW r \in Runs, Step(r) PROVE EgressIInv'
    <2>1. faulted' = faulted
        BY <1>5 DEF Step, InspectNetwork, CreateNetwork, InspectProxy,
                    RemoveProxy, StartProxy, ConnectBridge, RunTask
    <2>2. ~ faulted => HalfBuilt'
        BY <1>5, HalfBuiltStep DEF EgressIInv
    <2>3. ~ faulted => Survivor'
        BY <1>5, SurvivorStep DEF EgressIInv
    <2> QED BY <1>1, <2>1, <2>2, <2>3 DEF EgressIInv
<1> QED BY <1>2, <1>3, <1>4, <1>5 DEF EgressNext

\* The inductive invariant holds in every reachable state.
THEOREM EgressInvariant == EgressSpec => []EgressIInv
<1> QED BY InitEgressIInv, NextEgressIInv, PTL DEF EgressSpec

\* The proxy container, its legs and the place of every run keep their types,
\* and a container that is gone has no leg, whatever fails of its own.
THEOREM EgressTypes == EgressSpec => []EgressTypeOK
<1>1. EgressIInv => EgressTypeOK
    BY DEF EgressIInv
<1> QED BY <1>1, EgressInvariant, PTL

\* _ensure_allowlist_infra, for any number of runs at once: no run leaves a
\* proxy without its second leg behind for the next to take for finished.
THEOREM EgressHalfBuilt == EgressSpec => []HalfBuiltHasBuilder
<1>1. EgressIInv => HalfBuiltHasBuilder
    BY DEF EgressIInv, HalfBuilt, HalfBuiltHasBuilder
<1> QED BY <1>1, EgressInvariant, PTL

\* Runs that tear down each other's proxy never all fail: one reaches its task
\* and leaves the infrastructure complete.
THEOREM EgressOneGetsThrough == EgressSpec => []OneGetsThrough
<1>1. EgressIInv => OneGetsThrough
    <2> SUFFICES ASSUME EgressIInv, ~ faulted, Over
                 PROVE  /\ \E r \in Runs : command[r] = "done"
                        /\ proxy = "running" /\ bridged
        BY DEF OneGetsThrough
    <2>1. proxy # "absent"
        BY DEF EgressIInv, Survivor, AbsentHasStarter, Early, Over
    <2>2. proxy # "stopped"
        BY EgressAssumption DEF EgressIInv, Survivor, StoppedIsOld, Early, Over
    <2>3. proxy = "running"
        BY <2>1, <2>2 DEF EgressIInv, EgressTypeOK
    <2>4. bridged
        BY <2>3 DEF EgressIInv, HalfBuilt, Over
    <2> QED BY <2>3, <2>4 DEF EgressIInv, Survivor, CompleteIsUsed, Over
<1> QED BY <1>1, EgressInvariant, PTL
=============================================================================
