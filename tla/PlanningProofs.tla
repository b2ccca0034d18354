---------------------------- MODULE PlanningProofs ----------------------------
(***************************************************************************)
(* Theorems about the two loops a plan goes through on its way to tickets: *)
(* the validation and ordering of the sprint plan (SprintPlan), for any    *)
(* plan over any finite set of items, and the human gate (SlackGate), for  *)
(* any number of rounds, timeout, poll interval and lateness.              *)
(***************************************************************************)
EXTENDS SprintPlan, SlackGate, FiniteSetTheorems, TLAPS

\* A set of numbers that is not empty has a least one.
LEMMA LeastNumber ==
    ASSUME NEW S \in SUBSET Nat, S # {}
    PROVE  \E n \in S : \A m \in S : n <= m
<1>1. PICK n \in S : \A m \in S : ~ (<<m, n>> \in OpToRel(<, Nat))
    BY NatLessThanWellFounded, WFMin
<1>2. \A m \in S : ~ (m < n)
    BY <1>1 DEF OpToRel
<1> QED BY <1>2

LEMMA MinIsLeast ==
    ASSUME NEW S \in SUBSET Nat, S # {}
    PROVE  Min(S) \in S /\ \A m \in S : Min(S) <= m
BY LeastNumber DEF Min

\* A bounded set of numbers that is not empty has a greatest one.
LEMMA MaxIsGreatest ==
    ASSUME NEW S \in SUBSET Nat, S # {}, NEW b \in Nat, \A n \in S : n <= b
    PROVE  Max(S) \in S /\ \A n \in S : Max(S) >= n
<1> DEFINE Bounds == {m \in Nat : \A n \in S : n <= m}
<1>1. PICK m \in Bounds : \A k \in Bounds : m <= k
    BY LeastNumber
<1>2. m \in S
    <2> SUFFICES ASSUME m \notin S PROVE FALSE
        OBVIOUS
    <2>1. \A n \in S : n <= m - 1
        BY <1>1
    <2>2. m - 1 \in Nat
        <3>1. PICK n \in S : n <= m - 1
            BY <2>1
        <3> QED BY <1>1, <3>1
    <2> QED BY <1>1, <2>1, <2>2
<1> QED BY <1>1, <1>2 DEF Max

\* A sequence and one more element.
LEMMA Longer ==
    ASSUME NEW S, NEW s \in Seq(S), NEW e \in S
    PROVE  /\ Len(s) \in Nat /\ DOMAIN s = 1..Len(s)
           /\ \A n \in DOMAIN s : s[n] \in S
           /\ Append(s, e) \in Seq(S)
           /\ DOMAIN Append(s, e) = 1..(Len(s) + 1)
           /\ \A n \in 1..Len(s) : Append(s, e)[n] = s[n]
           /\ Append(s, e)[Len(s) + 1] = e
OBVIOUS

LEMMA Places ==
    ASSUME NEW S, NEW s \in Seq(S)
    PROVE  /\ Len(s) \in Nat /\ DOMAIN s = 1..Len(s)
           /\ \A n \in DOMAIN s : s[n] \in S
OBVIOUS

-----------------------------------------------------------------------------
(* SlackGate                                                               *)

\* Where round r may begin at the latest.
Begins(r) == (r - 1) * (Timeout + Poll + 3 * Latency)

\* How late each call can be.
OnTime ==
    /\ call = "post" => due <= Begins(round) + Latency
    /\ call \in {"fetch", "sleep"} =>
           deadline[round] <= Begins(round) + Latency + Timeout
    /\ call = "fetch" => due <= deadline[round] + Latency
    /\ call = "sleep" => due <= deadline[round] + Poll + 2 * Latency
    /\ NoCallAfterLatest

\* Only rounds that are over have an answer, and no timeout came early.
AnsweredInTurn ==
    \A r \in Rounds : answers[r] # "none" =>
        /\ r < round \/ (r = round /\ call = "over")
        /\ answers[r] = "timeout" => deadline[r] <= now

\* While the loop sleeps, whoever decided did so after the last poll.
SleptThrough ==
    call = "sleep" =>
        /\ due <= now + Poll + Latency
        /\ \A n \in Deciding(threads[round]) :
               due <= threads[round][n].at + Poll + Latency

\* Inductive.
GateIInv ==
    /\ GateTypeOK /\ OnTime /\ AnsweredInTurn /\ SleptThrough
    /\ FirstWordDecides /\ InTimeIsHeard

LEMMA GateConstants ==
    /\ MaxRounds \in Nat \ {0} /\ Timeout \in Nat \ {0} /\ Poll \in Nat \ {0}
    /\ Latency \in Nat
BY GateAssumption

\* A round lasts for its timeout, one poll and three late calls.
LEMMA RoundLasts ==
    ASSUME NEW r \in Rounds
    PROVE  /\ Begins(r) \in Nat
           /\ Begins(r) + Timeout + Poll + 3 * Latency = Begins(r + 1)
           /\ Begins(r) + Timeout + Poll + 3 * Latency <= Latest
           /\ Latest \in Nat
<1> DEFINE span == Timeout + Poll + 3 * Latency
<1>1. span \in Nat /\ r \in Nat \ {0} /\ MaxRounds \in Nat /\ r <= MaxRounds
    BY GateConstants DEF Rounds
<1>2. (r - 1) * span \in Nat /\ (r - 1) * span + span = r * span
    BY <1>1
<1>3. r * span <= MaxRounds * span /\ MaxRounds * span \in Nat
    <2>1. (MaxRounds - r) * span \in Nat
        BY <1>1
    <2>2. MaxRounds * span = r * span + (MaxRounds - r) * span
        BY <1>1
    <2> QED BY <1>1, <1>2, <2>1, <2>2
<1> QED BY <1>1, <1>2, <1>3, GateConstants DEF Begins, Latest

\* Decision is what the first deciding reply says.
LEMMA DecisionIsFirst ==
    ASSUME NEW thread \in Seq(Message)
    PROVE  /\ Decision(thread) \in {"none", "approve", "reject"}
           /\ Decision(thread) = "none" => Deciding(thread) = {}
           /\ Decision(thread) # "none" =>
                \E n \in DOMAIN thread :
                    /\ thread[n].word = Decision(thread)
                    /\ \A m \in 1..(n - 1) : thread[m].word = "other"
<1>1. CASE Deciding(thread) = {}
    BY <1>1 DEF Decision
<1>2. CASE Deciding(thread) # {}
    <2> DEFINE n == Min(Deciding(thread))
    <2>0. DOMAIN thread = 1..Len(thread) /\ Len(thread) \in Nat
        OBVIOUS
    <2>1. n \in Deciding(thread) /\ \A m \in Deciding(thread) : n <= m
        <3>1. Deciding(thread) \in SUBSET Nat
            BY <2>0 DEF Deciding
        <3> QED BY <1>2, <3>1, MinIsLeast
    <2> HIDE DEF n
    <2>2. n \in DOMAIN thread /\ thread[n].word \in {"approve", "reject"}
        <3>1. n \in DOMAIN thread /\ thread[n].word # "other"
            BY <2>1 DEF Deciding
        <3>2. thread[n] \in Message
            BY <3>1, Places
        <3> QED BY <3>1, <3>2 DEF Words, Message
    <2>3. \A m \in 1..(n - 1) : thread[m].word = "other"
        <3> SUFFICES ASSUME NEW m \in 1..(n - 1), thread[m].word # "other"
                     PROVE  FALSE
            OBVIOUS
        <3>1. m \in DOMAIN thread
            BY <2>0, <2>2
        <3> QED BY <2>0, <2>1, <2>2, <3>1 DEF Deciding
    <2>4. Decision(thread) = thread[n].word
        BY <1>2 DEF Decision, n
    <2> QED BY <1>2, <2>2, <2>3, <2>4
<1> QED BY <1>1, <1>2

LEMMA InitGateIInv == GateInit => GateIInv
<1> SUFFICES ASSUME GateInit PROVE GateIInv
    OBVIOUS
<1>1. 1 \in Rounds
    BY GateConstants DEF Rounds
<1>2. GateTypeOK
    BY <1>1, GateConstants DEF GateInit, GateTypeOK, Words
<1>3. OnTime
    BY <1>1, RoundLasts, GateConstants DEF GateInit, OnTime, NoCallAfterLatest, Begins
<1> QED BY <1>1, <1>2, <1>3 DEF GateInit, GateIInv, AnsweredInTurn, SleptThrough,
                               FirstWordDecides, InTimeIsHeard

\* A reply changes no earlier one and is as young as can be.
LEMMA ReplyAdds ==
    ASSUME GateTypeOK, NEW r \in Rounds, NEW w \in Words,
           threads' = [threads EXCEPT ![r] = Append(@, [word |-> w, at |-> now])]
    PROVE  /\ threads' \in [Rounds -> Seq(Message)]
           /\ \A q \in Rounds :
                /\ DOMAIN threads[q] \subseteq DOMAIN threads'[q]
                /\ DOMAIN threads[q] = 1..Len(threads[q])
                /\ \A n \in DOMAIN threads[q] : threads'[q][n] = threads[q][n]
                /\ \A n \in DOMAIN threads'[q] :
                       n \notin DOMAIN threads[q] => threads'[q][n].at = now
<1> DEFINE e == [word |-> w, at |-> now]
<1>1. e \in Message
    BY DEF GateTypeOK, Message
<1>2. \A q \in Rounds : threads[q] \in Seq(Message)
    BY DEF GateTypeOK
<1> HIDE DEF e
<1>3. Append(threads[r], e) \in Seq(Message)
    BY <1>1, <1>2, Longer
<1>4. \A q \in Rounds : threads'[q] = IF q = r THEN Append(threads[r], e) ELSE threads[q]
    BY DEF GateTypeOK, e
<1>5. threads' \in [Rounds -> Seq(Message)]
    BY <1>3 DEF GateTypeOK, e
<1>6. ASSUME NEW q \in Rounds
      PROVE  /\ DOMAIN threads[q] \subseteq DOMAIN threads'[q]
             /\ DOMAIN threads[q] = 1..Len(threads[q])
             /\ \A n \in DOMAIN threads[q] : threads'[q][n] = threads[q][n]
             /\ \A n \in DOMAIN threads'[q] :
                    n \notin DOMAIN threads[q] => threads'[q][n].at = now
    <2>1. CASE q = r
        <3>1. DOMAIN threads[q] = 1..Len(threads[q]) /\ Len(threads[q]) \in Nat
            BY <1>2
        <3>a. threads'[q] = Append(threads[q], e) /\ threads[q] \in Seq(Message) /\ e \in Message
            BY <1>1, <1>2, <1>4, <2>1
        <3>2. /\ DOMAIN threads'[q] = 1..(Len(threads[q]) + 1)
              /\ \A n \in 1..Len(threads[q]) : threads'[q][n] = threads[q][n]
              /\ threads'[q][Len(threads[q]) + 1] = e
            BY <3>a, Longer
        <3>3. \A n \in DOMAIN threads'[q] :
                  n \notin DOMAIN threads[q] => n = Len(threads[q]) + 1
            BY <3>1, <3>2
        <3> QED BY <3>1, <3>2, <3>3 DEF e
    <2>2. CASE q # r
        BY <1>2, <1>4, <2>2
    <2> QED BY <2>1, <2>2
<1> QED BY <1>5, <1>6

LEMMA ReplyStep == GateIInv /\ Reply => GateIInv'
<1> SUFFICES ASSUME GateIInv, Reply PROVE GateIInv'
    OBVIOUS
<1>1. PICK r \in Rounds, w \in Words :
         /\ threads' = [threads EXCEPT ![r] = Append(@, [word |-> w, at |-> now])]
         /\ UNCHANGED <<now, call, due, round, deadline, answers>>
    BY DEF Reply
<1>2. /\ threads' \in [Rounds -> Seq(Message)]
      /\ \A q \in Rounds :
           /\ DOMAIN threads[q] \subseteq DOMAIN threads'[q]
           /\ DOMAIN threads[q] = 1..Len(threads[q])
           /\ \A n \in DOMAIN threads[q] : threads'[q][n] = threads[q][n]
           /\ \A n \in DOMAIN threads'[q] :
                  n \notin DOMAIN threads[q] => threads'[q][n].at = now
    BY <1>1, ReplyAdds DEF GateIInv
<1>3. GateTypeOK'
    BY <1>1, <1>2 DEF GateIInv, GateTypeOK
<1>4. OnTime' /\ AnsweredInTurn'
    BY <1>1 DEF GateIInv, OnTime, NoCallAfterLatest, AnsweredInTurn
<1>5. SleptThrough'
    <2> SUFFICES ASSUME call = "sleep"
                 PROVE  /\ due <= now + Poll + Latency
                        /\ \A n \in Deciding(threads'[round]) :
                               due <= threads'[round][n].at + Poll + Latency
        BY <1>1 DEF SleptThrough
    <2>1. due <= now + Poll + Latency
        BY DEF GateIInv, SleptThrough
    <2>2. ASSUME NEW n \in Deciding(threads'[round])
          PROVE  due <= threads'[round][n].at + Poll + Latency
        <3>1. round \in Rounds
            BY DEF GateIInv, GateTypeOK
        <3>2. CASE n \in DOMAIN threads[round]
            BY <1>2, <2>2, <3>1, <3>2 DEF GateIInv, SleptThrough, Deciding
        <3>3. CASE n \notin DOMAIN threads[round]
            BY <1>2, <2>1, <2>2, <3>1, <3>3 DEF Deciding
        <3> QED BY <3>2, <3>3
    <2> QED BY <2>1, <2>2
<1>6. FirstWordDecides'
    <2> SUFFICES ASSUME NEW q \in Rounds, answers[q] \in {"approve", "reject"}
                 PROVE  \E n \in DOMAIN threads'[q] :
                            /\ threads'[q][n].word = answers[q]
                            /\ \A m \in 1..(n - 1) : threads'[q][m].word = "other"
        BY <1>1 DEF FirstWordDecides
    <2>1. PICK n \in DOMAIN threads[q] :
             /\ threads[q][n].word = answers[q]
             /\ \A m \in 1..(n - 1) : threads[q][m].word = "other"
        BY DEF GateIInv, FirstWordDecides
    <2>2. \A m \in 1..(n - 1) : m \in DOMAIN threads[q]
        <3>1. Len(threads[q]) \in Nat
            BY DEF GateIInv, GateTypeOK
        <3> QED BY <1>2, <2>1, <3>1
    <2>3. n \in DOMAIN threads'[q] /\ threads'[q][n] = threads[q][n]
        BY <1>2
    <2>4. \A m \in 1..(n - 1) : threads'[q][m] = threads[q][m]
        BY <1>2, <2>2
    <2> QED BY <2>1, <2>3, <2>4
<1>7. InTimeIsHeard'
    <2> SUFFICES ASSUME NEW q \in Rounds, answers[q] = "timeout",
                        NEW n \in DOMAIN threads'[q], threads'[q][n].word # "other"
                 PROVE  threads'[q][n].at + Poll + Latency >= deadline[q]
        BY <1>1 DEF InTimeIsHeard
    <2>1. CASE n \in DOMAIN threads[q]
        BY <1>2, <2>1 DEF GateIInv, InTimeIsHeard
    <2>2. CASE n \notin DOMAIN threads[q]
        <3>1. deadline[q] <= now /\ deadline[q] \in Nat /\ now \in Nat
            BY DEF GateIInv, AnsweredInTurn, GateTypeOK
        <3> QED BY <1>2, <2>2, <3>1, GateConstants
    <2> QED BY <2>1, <2>2
<1> QED BY <1>3, <1>4, <1>5, <1>6, <1>7 DEF GateIInv

LEMMA TickStep == GateIInv /\ Tick => GateIInv'
<1> SUFFICES ASSUME GateIInv, Tick PROVE GateIInv'
    OBVIOUS
<1>1. GateTypeOK'
    BY DEF GateIInv, GateTypeOK, Tick
<1>2. OnTime'
    BY DEF GateIInv, OnTime, NoCallAfterLatest, Tick
<1>3. AnsweredInTurn'
    <2> SUFFICES ASSUME NEW r \in Rounds, answers[r] # "none"
                 PROVE  /\ r < round \/ (r = round /\ call = "over")
                        /\ answers[r] = "timeout" => deadline[r] <= now + 1
        BY DEF AnsweredInTurn, Tick
    <2>1. deadline[r] \in Nat /\ now \in Nat
        BY DEF GateIInv, GateTypeOK
    <2> QED BY <2>1 DEF GateIInv, AnsweredInTurn
<1>4. SleptThrough'
    <2> SUFFICES ASSUME call = "sleep"
                 PROVE  /\ due <= now + 1 + Poll + Latency
                        /\ \A n \in Deciding(threads[round]) :
                               due <= threads[round][n].at + Poll + Latency
        BY DEF SleptThrough, Tick
    <2> QED BY GateConstants DEF GateIInv, SleptThrough, GateTypeOK
<1>5. FirstWordDecides' /\ InTimeIsHeard'
    BY DEF GateIInv, FirstWordDecides, InTimeIsHeard, Tick
<1> QED BY <1>1, <1>2, <1>3, <1>4, <1>5 DEF GateIInv

LEMMA PostStep == GateIInv /\ Post => GateIInv'
<1> SUFFICES ASSUME GateIInv, Post PROVE GateIInv'
    OBVIOUS
<1>1. round \in Rounds /\ now \in Nat /\ due \in Nat /\ now <= due
    BY DEF GateIInv, GateTypeOK
<1>2. /\ Begins(round) \in Nat
      /\ Begins(round) + Timeout + Poll + 3 * Latency <= Latest /\ Latest \in Nat
    BY <1>1, RoundLasts
<1>3. /\ deadline' \in [Rounds -> Nat] /\ deadline'[round] = now + Timeout
      /\ \A r \in Rounds : r # round => deadline'[r] = deadline[r]
    BY <1>1, GateConstants DEF GateIInv, GateTypeOK, Post
<1>4. call' = "fetch" /\ due' = now + Latency
    BY DEF Post, Continue
<1>5. GateTypeOK'
    BY <1>1, <1>3, <1>4, GateConstants DEF GateIInv, GateTypeOK, Post
<1>6. due <= Begins(round) + Latency
    BY DEF GateIInv, OnTime, Post
<1>7. OnTime'
    <2>1. round' = round /\ now' = now
        BY DEF Post
    <2>2. deadline'[round] <= Begins(round) + Latency + Timeout
        BY <1>1, <1>2, <1>3, <1>6, GateConstants
    <2>3. due' <= deadline'[round] + Latency
        BY <1>1, <1>3, <1>4, GateConstants
    <2>4. due' <= Latest
        BY <1>1, <1>2, <1>4, <1>6, GateConstants
    <2>5. Begins(round') = Begins(round)
        BY <2>1 DEF Begins
    <2> QED BY <1>4, <2>1, <2>2, <2>3, <2>4, <2>5 DEF OnTime, NoCallAfterLatest
<1>8. \A r \in Rounds : answers[r] # "none" => r < round
    BY <1>1 DEF GateIInv, AnsweredInTurn, Post
<1>9. AnsweredInTurn'
    BY <1>1, <1>3, <1>8 DEF GateIInv, AnsweredInTurn, Post, Rounds
<1>10. SleptThrough' /\ FirstWordDecides'
    BY <1>4 DEF GateIInv, SleptThrough, FirstWordDecides, Post
<1>11. InTimeIsHeard'
    BY <1>1, <1>3, <1>8 DEF GateIInv, InTimeIsHeard, Post, Rounds
<1> QED BY <1>5, <1>7, <1>9, <1>10, <1>11 DEF GateIInv

\* A round ends where its answer is the first word of its thread, or nobody
\* decided before the last poll.
LEMMA SettleStep ==
    ASSUME GateIInv, call \in {"fetch", "sleep"},
           UNCHANGED <<now, deadline, threads>>,
           NEW answer \in {"approve", "reject", "timeout"}, Settle(answer),
           answer # "timeout" =>
                \E n \in DOMAIN threads[round] :
                    /\ threads[round][n].word = answer
                    /\ \A m \in 1..(n - 1) : threads[round][m].word = "other",
           answer = "timeout" =>
                /\ deadline[round] <= now
                /\ \A n \in Deciding(threads[round]) :
                       deadline[round] <= threads[round][n].at + Poll + Latency
    PROVE  GateIInv'
<1>1. /\ round \in Rounds /\ now \in Nat /\ due \in Nat /\ now <= due
      /\ deadline[round] \in Nat
    BY DEF GateIInv, GateTypeOK
<1>2. /\ Begins(round) \in Nat /\ Latest \in Nat
      /\ Begins(round) + Timeout + Poll + 3 * Latency = Begins(round + 1)
    BY <1>1, RoundLasts
<1>3. /\ answers' \in [Rounds -> {"none", "approve", "reject", "timeout"}]
      /\ answers'[round] = answer
      /\ \A r \in Rounds : r # round => answers'[r] = answers[r]
    BY <1>1 DEF GateIInv, GateTypeOK, Settle
<1>4. \/ call' = "over" /\ due' = now /\ round' = round
      \/ /\ call' = "post" /\ due' = now + Latency
         /\ round' = round + 1 /\ round # MaxRounds
    BY DEF Settle, Continue
<1>5. round' \in Rounds
    BY <1>1, <1>4, GateConstants DEF Rounds
<1>6. GateTypeOK'
    BY <1>1, <1>3, <1>4, <1>5, GateConstants DEF GateIInv, GateTypeOK
<1>7. OnTime'
    <2>1. CASE call' = "over"
        <3>1. due' <= Latest
            BY <1>1, <1>2, <1>4, <2>1 DEF GateIInv, OnTime, NoCallAfterLatest
        <3> QED BY <2>1, <3>1 DEF OnTime, NoCallAfterLatest
    <2>2. CASE call' = "post"
        <3>1. round' = round + 1 /\ due' = now + Latency
            BY <1>4, <2>2
        <3>2. /\ Begins(round') \in Nat
              /\ Begins(round') + Timeout + Poll + 3 * Latency <= Latest
            BY <1>5, RoundLasts
        <3>3. now <= deadline[round] + Poll + 2 * Latency
            BY <1>1, GateConstants DEF GateIInv, OnTime
        <3>4. deadline[round] <= Begins(round) + Latency + Timeout
            BY DEF GateIInv, OnTime
        <3>5. due' <= Begins(round') + Latency
            BY <1>1, <1>2, <3>1, <3>3, <3>4, GateConstants
        <3>6. due' <= Latest
            BY <1>1, <1>2, <3>1, <3>2, <3>5, GateConstants
        <3> QED BY <2>2, <3>5, <3>6 DEF OnTime, NoCallAfterLatest
    <2> QED BY <1>4, <2>1, <2>2
<1>8. AnsweredInTurn'
    <2> SUFFICES ASSUME NEW r \in Rounds, answers'[r] # "none"
                 PROVE  /\ r < round' \/ (r = round' /\ call' = "over")
                        /\ answers'[r] = "timeout" => deadline[r] <= now
        BY DEF AnsweredInTurn
    <2>1. CASE r = round
        BY <1>1, <1>3, <1>4, <2>1 DEF Rounds
    <2>2. CASE r # round
        BY <1>1, <1>3, <1>4, <2>2 DEF GateIInv, AnsweredInTurn, Rounds
    <2> QED BY <2>1, <2>2
<1>9. SleptThrough'
    BY <1>4 DEF SleptThrough
<1>10. FirstWordDecides'
    BY <1>1, <1>3 DEF GateIInv, FirstWordDecides
<1>11. InTimeIsHeard'
    <2> SUFFICES ASSUME NEW r \in Rounds, answers'[r] = "timeout",
                        NEW n \in DOMAIN threads[r], threads[r][n].word # "other"
                 PROVE  threads[r][n].at + Poll + Latency >= deadline[r]
        BY DEF InTimeIsHeard
    <2>1. CASE r = round
        <3>1. deadline[round] <= threads[round][n].at + Poll + Latency
            BY <1>3, <2>1 DEF Deciding
        <3> QED BY <2>1, <3>1
    <2>2. CASE r # round
        BY <1>3, <2>2 DEF GateIInv, InTimeIsHeard
    <2> QED BY <2>1, <2>2
<1> QED BY <1>6, <1>7, <1>8, <1>9, <1>10, <1>11 DEF GateIInv

LEMMA FetchStep == GateIInv /\ Fetch => GateIInv'
<1> SUFFICES ASSUME GateIInv, Fetch PROVE GateIInv'
    OBVIOUS
<1> DEFINE decision == Decision(threads[round])
<1>1. threads[round] \in Seq(Message)
    BY DEF GateIInv, GateTypeOK
<1>2. CASE decision # "none" /\ Settle(decision)
    <2>1. /\ decision \in {"approve", "reject"}
          /\ \E n \in DOMAIN threads[round] :
                 /\ threads[round][n].word = decision
                 /\ \A m \in 1..(n - 1) : threads[round][m].word = "other"
        BY <1>1, <1>2, DecisionIsFirst
    <2> HIDE DEF decision
    <2>2. decision # "timeout"
        BY <2>1
    <2> QED BY <1>2, <2>1, <2>2, SettleStep DEF Fetch
<1>3. CASE /\ decision = "none" /\ Continue("sleep", now + Poll + Latency)
           /\ UNCHANGED <<round, answers>>
    <2>1. Deciding(threads[round]) = {}
        BY <1>1, <1>3, DecisionIsFirst
    <2> HIDE DEF decision
    <2>2. /\ call' = "sleep" /\ due' = now + Poll + Latency
          /\ UNCHANGED <<now, deadline, threads, round, answers>>
        BY <1>3 DEF Continue, Fetch
    <2>3. /\ now \in Nat /\ due \in Nat /\ now <= due /\ round \in Rounds
          /\ deadline[round] \in Nat
        BY DEF GateIInv, GateTypeOK
    <2>4. GateTypeOK'
        BY <2>2, <2>3, GateConstants DEF GateIInv, GateTypeOK
    <2>5. OnTime'
        <3>1. /\ due <= deadline[round] + Latency
              /\ deadline[round] <= Begins(round) + Latency + Timeout
            BY DEF GateIInv, OnTime, Fetch
        <3>2. /\ Begins(round) \in Nat /\ Latest \in Nat
              /\ Begins(round) + Timeout + Poll + 3 * Latency <= Latest
            BY <2>3, RoundLasts
        <3>3. due' <= deadline[round] + Poll + 2 * Latency /\ due' <= Latest
            BY <2>2, <2>3, <3>1, <3>2, GateConstants
        <3> QED BY <2>2, <3>1, <3>3 DEF OnTime, NoCallAfterLatest, Begins
    <2>6. AnsweredInTurn' /\ FirstWordDecides' /\ InTimeIsHeard'
        BY <2>2 DEF GateIInv, AnsweredInTurn, FirstWordDecides, InTimeIsHeard, Fetch
    <2>7. SleptThrough'
        <3>1. due' <= now' + Poll + Latency
            BY <2>2, <2>3, GateConstants
        <3>2. Deciding(threads'[round']) = {}
            BY <2>1, <2>2
        <3> QED BY <3>1, <3>2 DEF SleptThrough
    <2> QED BY <2>4, <2>5, <2>6, <2>7 DEF GateIInv
<1> QED BY <1>2, <1>3 DEF Fetch

LEMMA WakeStep == GateIInv /\ Wake => GateIInv'
<1> SUFFICES ASSUME GateIInv, Wake PROVE GateIInv'
    OBVIOUS
<1>1. /\ now \in Nat /\ due \in Nat /\ now <= due /\ round \in Rounds
      /\ deadline[round] \in Nat /\ threads[round] \in Seq(Message)
    BY DEF GateIInv, GateTypeOK
<1>2. /\ Begins(round) \in Nat /\ Latest \in Nat
      /\ Begins(round) + Timeout + Poll + 3 * Latency <= Latest
    BY <1>1, RoundLasts
<1>3. CASE /\ now < deadline[round] /\ Continue("fetch", now + Latency)
           /\ UNCHANGED <<round, answers>>
    <2>1. /\ call' = "fetch" /\ due' = now + Latency
          /\ UNCHANGED <<now, deadline, threads, round, answers>>
        BY <1>3 DEF Continue, Wake
    <2>2. GateTypeOK'
        BY <1>1, <2>1, GateConstants DEF GateIInv, GateTypeOK
    <2>3. OnTime'
        <3>1. deadline[round] <= Begins(round) + Latency + Timeout
            BY DEF GateIInv, OnTime, Wake
        <3>2. due' <= deadline[round] + Latency /\ due' <= Latest
            BY <1>1, <1>2, <1>3, <2>1, <3>1, GateConstants
        <3> QED BY <2>1, <3>1, <3>2 DEF OnTime, NoCallAfterLatest, Begins
    <2>4. AnsweredInTurn' /\ FirstWordDecides' /\ InTimeIsHeard' /\ SleptThrough'
        BY <2>1 DEF GateIInv, AnsweredInTurn, FirstWordDecides, InTimeIsHeard,
                    SleptThrough, Wake
    <2> QED BY <2>2, <2>3, <2>4 DEF GateIInv
<1>4. CASE now >= deadline[round] /\ Settle("timeout")
    <2>1. ASSUME NEW n \in Deciding(threads[round])
          PROVE  deadline[round] <= threads[round][n].at + Poll + Latency
        <3>1. due <= threads[round][n].at + Poll + Latency
            BY <2>1 DEF GateIInv, SleptThrough, Wake
        <3>2. threads[round][n] \in Message
            BY <1>1, <2>1, Places DEF Deciding
        <3>3. threads[round][n].at \in Nat
            BY <3>2 DEF Message
        <3> QED BY <1>1, <1>4, <3>1, <3>3, GateConstants
    <2>2. deadline[round] <= now
        BY <1>1, <1>4
    <2> QED BY <1>4, <2>1, <2>2, SettleStep DEF Wake
<1> QED BY <1>3, <1>4 DEF Wake

LEMMA ApiErrorStep == GateIInv /\ ApiError => GateIInv'
<1> SUFFICES ASSUME GateIInv, ApiError PROVE GateIInv'
    OBVIOUS
<1>1. /\ call' = "raised" /\ due' = now /\ call # "over"
      /\ UNCHANGED <<now, round, deadline, threads, answers>>
    BY DEF ApiError, Continue
<1>2. GateTypeOK'
    BY <1>1 DEF GateIInv, GateTypeOK
<1>3. OnTime'
    <2>1. /\ now \in Nat /\ due \in Nat /\ now <= due /\ Latest \in Nat
          /\ due <= Latest
        BY RoundLasts DEF GateIInv, GateTypeOK, OnTime, NoCallAfterLatest
    <2>2. due' <= Latest
        BY <1>1, <2>1
    <2> QED BY <1>1, <2>2 DEF OnTime, NoCallAfterLatest
<1>4. AnsweredInTurn' /\ SleptThrough' /\ FirstWordDecides' /\ InTimeIsHeard'
    BY <1>1 DEF GateIInv, AnsweredInTurn, SleptThrough, FirstWordDecides, InTimeIsHeard
<1> QED BY <1>2, <1>3, <1>4 DEF GateIInv

LEMMA NextGateIInv == GateIInv /\ [GateNext]_gateVars => GateIInv'
<1> SUFFICES ASSUME GateIInv, UNCHANGED gateVars PROVE GateIInv'
    BY TickStep, ReplyStep, PostStep, FetchStep, WakeStep, ApiErrorStep DEF GateNext, Program
<1>1. GateTypeOK' /\ AnsweredInTurn' /\ SleptThrough'
    BY DEF gateVars, GateIInv, GateTypeOK, AnsweredInTurn, SleptThrough
<1>2. OnTime' /\ FirstWordDecides' /\ InTimeIsHeard'
    BY DEF gateVars, GateIInv, OnTime, NoCallAfterLatest, FirstWordDecides, InTimeIsHeard
<1> QED BY <1>1, <1>2 DEF GateIInv

\* The inductive invariant holds in every reachable state of the gate.
THEOREM GateInvariant == GateSpec => []GateIInv
<1> QED BY InitGateIInv, NextGateIInv, PTL DEF GateSpec

\* What the gate loop knows of time, threads and answers keeps its type.
THEOREM GateTypes == GateSpec => []GateTypeOK
<1>1. GateIInv => GateTypeOK
    BY DEF GateIInv
<1> QED BY <1>1, GateInvariant, PTL

\* request_approval returns the first word of the thread of its own message,
\* however many rounds, replies and changes of mind there are.
THEOREM GateFirstWordDecides == GateSpec => []FirstWordDecides
<1>1. GateIInv => FirstWordDecides
    BY DEF GateIInv
<1> QED BY <1>1, GateInvariant, PTL

\* For every timeout, poll interval and lateness: who decides one poll before
\* the deadline is heard.
THEOREM GateInTimeIsHeard == GateSpec => []InTimeIsHeard
<1>1. GateIInv => InTimeIsHeard
    BY DEF GateIInv
<1> QED BY <1>1, GateInvariant, PTL

\* The rounds of a gate are over within MaxRounds times the timeout, a poll
\* interval and three late calls, if the program's calls are never later than
\* Latency.
THEOREM GateBounded == GateSpec => []NoCallAfterLatest
<1>1. GateIInv => NoCallAfterLatest
    BY DEF GateIInv, OnTime
<1> QED BY <1>1, GateInvariant, PTL

-----------------------------------------------------------------------------
(* SprintPlan: the operators                                               *)

\* What is kept of a sequence: the items of S, each as often as before.
LEMMA KeptItems ==
    ASSUME NEW T, NEW s \in Seq(T), NEW S
    PROVE  /\ Kept(s, S) \in Seq(T)
           /\ ToSet(Kept(s, S)) = ToSet(s) \cap S
           /\ IsInjective(s) => IsInjective(Kept(s, S))
<1> DEFINE places == {i \in DOMAIN s : s[i] \in S}
           UpTo(i) == {j \in places : j <= i}
           N == Cardinality(places)
           rank == [i \in places |-> Cardinality(UpTo(i))]
           Place(k) == CHOOSE i \in places : Cardinality(UpTo(i)) = k
           kept == Kept(s, S)
<1>1. Len(s) \in Nat /\ DOMAIN s = 1..Len(s) /\ \A i \in DOMAIN s : s[i] \in T
    BY Places
<1>2. places \subseteq 1..Len(s) /\ IsFiniteSet(places) /\ N \in Nat
    <2>1. IsFiniteSet(1..Len(s))
        BY <1>1, FS_Interval
    <2> QED BY <1>1, <2>1, FS_Subset, FS_CardinalityType
<1>3. kept = [k \in 1..N |-> s[Place(k)]]
    BY DEF Kept
<1>4. \A i \in places : i \in Nat /\ s[i] \in S /\ s[i] \in T
    BY <1>1, <1>2
<1> HIDE DEF places
<1>5. \A i \in places : IsFiniteSet(UpTo(i)) /\ UpTo(i) \subseteq places
    BY <1>2, FS_Subset
<1>6. rank \in [places -> 1..N]
    <2> SUFFICES ASSUME NEW i \in places PROVE Cardinality(UpTo(i)) \in 1..N
        OBVIOUS
    <2>1. IsFiniteSet(UpTo(i)) /\ UpTo(i) \in SUBSET places
        BY <1>5
    <2>2. Cardinality(UpTo(i)) \in Nat /\ Cardinality(UpTo(i)) <= N
        BY <1>2, <2>1, FS_Subset, FS_CardinalityType
    <2>3. i \in UpTo(i)
        BY <1>4
    <2>4. Cardinality(UpTo(i)) # 0
        BY <2>1, <2>3, FS_EmptySet
    <2> QED BY <1>2, <2>2, <2>4
<1>7. \A i, k \in places : i < k => Cardinality(UpTo(i)) # Cardinality(UpTo(k))
    <2> SUFFICES ASSUME NEW i \in places, NEW k \in places, i < k,
                        Cardinality(UpTo(i)) = Cardinality(UpTo(k))
                 PROVE  FALSE
        OBVIOUS
    <2>1. k \in UpTo(k) /\ k \notin UpTo(i) /\ UpTo(i) \in SUBSET UpTo(k)
        BY <1>4
    <2>2. IsFiniteSet(UpTo(k))
        BY <1>5
    <2> QED BY <2>1, <2>2, FS_Subset
<1>8. rank \in Injection(places, 1..N)
    <2>1. \A i, k \in places : rank[i] = rank[k] => i = k
        <3> SUFFICES ASSUME NEW i \in places, NEW k \in places, rank[i] = rank[k], i # k
                     PROVE  FALSE
            OBVIOUS
        <3>1. i < k \/ k < i
            BY <1>4
        <3>2. Cardinality(UpTo(i)) = Cardinality(UpTo(k))
            OBVIOUS
        <3> QED BY <1>7, <3>1, <3>2
    <2> QED BY <1>6, <2>1 DEF Injection, IsInjective
<1>9. rank \in Surjection(places, 1..N)
    BY <1>2, <1>8, FS_Interval, FS_Injection
<1>10. \A k \in 1..N : Place(k) \in places /\ Cardinality(UpTo(Place(k))) = k
    <2> SUFFICES ASSUME NEW k \in 1..N
                 PROVE  \E i \in places : Cardinality(UpTo(i)) = k
        OBVIOUS
    <2> QED BY <1>9 DEF Surjection
<1>11. \A i \in places : rank[i] \in 1..N /\ Place(rank[i]) = i
    BY <1>4, <1>6, <1>7, <1>10
<1>12. DOMAIN kept = 1..N /\ \A k \in 1..N : kept[k] = s[Place(k)]
    BY <1>3
<1>13. kept \in Seq(T)
    <2>1. \A k \in 1..N : s[Place(k)] \in T
        BY <1>4, <1>10
    <2> HIDE DEF Place
    <2>2. kept \in [1..N -> T]
        BY <1>3, <2>1
    <2> HIDE DEF kept, N
    <2> QED BY <1>2, <2>2
<1> HIDE DEF kept, Place, N
<1>14. ToSet(kept) = ToSet(s) \cap S
    <2>1. ASSUME NEW x \in ToSet(kept) PROVE x \in ToSet(s) /\ x \in S
        <3>1. PICK k \in 1..N : x = s[Place(k)]
            BY <1>12, <2>1 DEF ToSet
        <3>2. Place(k) \in DOMAIN s
            BY <1>1, <1>2, <1>10
        <3> QED BY <1>4, <1>10, <3>1, <3>2 DEF ToSet
    <2>2. ASSUME NEW x \in ToSet(s), x \in S PROVE x \in ToSet(kept)
        <3>1. PICK i \in DOMAIN s : x = s[i]
            BY <2>2 DEF ToSet
        <3>2. i \in places
            BY <2>2, <3>1 DEF places
        <3>3. rank[i] \in DOMAIN kept /\ kept[rank[i]] = x
            BY <1>11, <1>12, <3>1, <3>2
        <3> HIDE DEF rank
        <3> QED BY <3>3 DEF ToSet
    <2> QED BY <2>1, <2>2
<1>15. ASSUME IsInjective(s) PROVE IsInjective(kept)
    <2> SUFFICES ASSUME NEW k \in 1..N, NEW m \in 1..N, s[Place(k)] = s[Place(m)]
                 PROVE  k = m
        BY <1>12 DEF IsInjective
    <2>1. Place(k) = Place(m)
        BY <1>1, <1>2, <1>10, <1>15 DEF IsInjective
    <2> QED BY <1>10, <2>1
<1> QED BY <1>13, <1>14, <1>15 DEF kept

\* One sequence after another.
LEMMA Joined ==
    ASSUME NEW T, NEW s \in Seq(T), NEW t \in Seq(T)
    PROVE  /\ s \o t \in Seq(T)
           /\ Len(s \o t) = Len(s) + Len(t)
           /\ DOMAIN (s \o t) = 1..(Len(s) + Len(t))
           /\ \A i \in DOMAIN s : (s \o t)[i] = s[i]
           /\ \A i \in DOMAIN t : (s \o t)[Len(s) + i] = t[i]
           /\ ToSet(s \o t) = ToSet(s) \cup ToSet(t)
           /\ IsInjective(s) /\ IsInjective(t) /\ ToSet(s) \cap ToSet(t) = {}
                => IsInjective(s \o t)
<1> DEFINE j == s \o t
<1>1. /\ Len(s) \in Nat /\ DOMAIN s = 1..Len(s)
      /\ Len(t) \in Nat /\ DOMAIN t = 1..Len(t)
    OBVIOUS
<1>2. /\ j \in Seq(T) /\ Len(j) = Len(s) + Len(t)
      /\ DOMAIN j = 1..(Len(s) + Len(t))
      /\ \A i \in DOMAIN s : j[i] = s[i]
      /\ \A i \in DOMAIN t : j[Len(s) + i] = t[i]
    OBVIOUS
<1> HIDE DEF j
<1>3. \A i \in DOMAIN j : i \in DOMAIN s \/ (i - Len(s) \in DOMAIN t /\ i = Len(s) + (i - Len(s)))
    BY <1>1, <1>2
<1>4. ToSet(j) = ToSet(s) \cup ToSet(t)
    <2>1. \A i \in DOMAIN s : i \in DOMAIN j
        BY <1>1, <1>2
    <2>2. \A i \in DOMAIN t : Len(s) + i \in DOMAIN j
        BY <1>1, <1>2
    <2> QED BY <1>2, <1>3, <2>1, <2>2 DEF ToSet
<1>5. ASSUME IsInjective(s), IsInjective(t), ToSet(s) \cap ToSet(t) = {}
      PROVE  IsInjective(j)
    <2> SUFFICES ASSUME NEW a \in DOMAIN j, NEW b \in DOMAIN j, j[a] = j[b]
                 PROVE  a = b
        BY DEF IsInjective
    <2>1. CASE a \in DOMAIN s /\ b \in DOMAIN s
        BY <1>2, <1>5, <2>1 DEF IsInjective
    <2>2. CASE a \in DOMAIN s /\ b \notin DOMAIN s
        <3>1. j[a] \in ToSet(s)
            BY <1>2, <2>2 DEF ToSet
        <3>2. j[b] \in ToSet(t)
            BY <1>2, <1>3, <2>2 DEF ToSet
        <3> QED BY <1>5, <3>1, <3>2
    <2>3. CASE a \notin DOMAIN s /\ b \in DOMAIN s
        <3>1. j[b] \in ToSet(s)
            BY <1>2, <2>3 DEF ToSet
        <3>2. j[a] \in ToSet(t)
            BY <1>2, <1>3, <2>3 DEF ToSet
        <3> QED BY <1>5, <3>1, <3>2
    <2>4. CASE a \notin DOMAIN s /\ b \notin DOMAIN s
        <3>1. t[a - Len(s)] = t[b - Len(s)]
            BY <1>2, <1>3, <2>4
        <3>2. a - Len(s) = b - Len(s)
            BY <1>3, <1>5, <2>4, <3>1 DEF IsInjective
        <3> QED BY <1>1, <1>2, <3>2
    <2> QED BY <2>1, <2>2, <2>3, <2>4
<1> QED BY <1>2, <1>4, <1>5 DEF j

-----------------------------------------------------------------------------
(* SprintPlan: the inductive invariant                                     *)

\* The items Kahn's loop has not processed.
Left == ready \cup {x \in Known : incoming[x] # {}}

\* incoming is what is left of the blockers, and nobody who waits for another
\* of a knot is ever processed.
KahnLoop ==
    /\ \A x \in ready : incoming[x] = {}
    /\ \A x \in Known : incoming[x] = BlockersAmong(Known, x) \cap Left
    /\ processed + Cardinality(Left) = Cardinality(Known)
    /\ \A S \in SUBSET Known : Knot(S) => S \subseteq Left
    /\ pc # "kahn" => ready = {}

Items(i) == ToSet(sprints[i])

\* What an item of s depends on is in base or comes before it in s.
Grounded(s, base) ==
    \A d \in deps : \A j \in DOMAIN s :
        s[j] = d[1] => d[2] \in base \/ \E i \in 1..(j - 1) : s[i] = d[2]

\* The sprint that is sorted: each of its items once, ordered or remaining.
Sorting ==
    pc = "sort" =>
        /\ sprint \in DOMAIN sprints
        /\ ToSet(ordered) \cup ToSet(remaining) = Items(sprint)
        /\ ToSet(ordered) \cap ToSet(remaining) = {}
        /\ IsInjective(ordered) /\ IsInjective(remaining)
        /\ Grounded(ordered, ToSet(tickets))

\* The sprints before it: each of their items has one ticket.
Ticketed ==
    /\ IsInjective(tickets)
    /\ ToSet(tickets) = UNION {Items(i) : i \in 1..(sprint - 1)}
    /\ Grounded(tickets, {})
    /\ pc = "derived" => sprint = Len(sprints) + 1

\* What Acceptable says of the order: every item has one place in one sprint,
\* what it depends on is in no later sprint, and no items wait for each other.
Accepted ==
    /\ \A i \in DOMAIN sprints : sprints[i] \in Seq(Known) /\ IsInjective(sprints[i])
    /\ \A i, k \in DOMAIN sprints : i # k => Items(i) \cap Items(k) = {}
    /\ UNION {Items(i) : i \in DOMAIN sprints} = Known
    /\ \A d \in deps : d[1] \in Known /\ d[2] \in Known /\ d[1] # d[2]
    /\ \A d \in deps : \A i, k \in DOMAIN sprints :
           d[1] \in Items(i) /\ d[2] \in Items(k) => k <= i
    /\ \A S \in SUBSET Known : ~ Knot(S)

Staged ==
    /\ pc \in {"kahn", "judge"} =>
           sprint = 1 /\ ordered = <<>> /\ remaining = <<>> /\ tickets = <<>>
    /\ pc \in {"sort", "derived"} => Accepted /\ Ticketed

PlanTypes ==
    /\ pc \in {"kahn", "judge", "sort", "derived", "refused"}
    /\ numbers \in Numberings
    /\ sprints \in Seq(Seq(Ids))
    /\ deps \subseteq Ids \X Ids
    /\ incoming \in [Known -> SUBSET Known]
    /\ ready \subseteq Known
    /\ processed \in Nat
    /\ sprint \in 1..(Len(sprints) + 1)
    /\ ordered \in Seq(Known) /\ remaining \in Seq(Known)
    /\ tickets \in Seq(Known)

\* Inductive.
PlanIInv == PlanTypes /\ KahnLoop /\ Staged /\ Sorting

LEMMA LeftCounted ==
    ASSUME PlanTypes
    PROVE  /\ Left \subseteq Known /\ IsFiniteSet(Left)
           /\ Cardinality(Left) \in Nat /\ Cardinality(Known) \in Nat
           /\ Cardinality(Left) <= Cardinality(Known)
           /\ Cardinality(Left) = 0 <=> Left = {}
<1>1. Left \in SUBSET Known /\ IsFiniteSet(Known)
    BY PlanAssumption DEF Left, PlanTypes
<1> QED BY <1>1, FS_Subset, FS_CardinalityType, FS_EmptySet

LEMMA InitPlanIInv == Init => PlanIInv
<1> SUFFICES ASSUME Init PROVE PlanIInv
    OBVIOUS
<1>1. numbers \in Seq(Nat) /\ DOMAIN numbers = 1..Len(numbers) /\ Len(numbers) \in Nat
    BY PlanAssumption DEF Init
<1>2. sprints \in Seq(Seq(Ids))
    <2>1. SeqOf(Ids, MaxPerSprint) \subseteq Seq(Ids)
        BY PlanAssumption DEF SeqOf
    <2>2. sprints \in [1..Len(numbers) -> Seq(Ids)]
        BY <1>1, <2>1 DEF Init
    <2> QED BY <1>1, <2>2
<1>3. deps \subseteq Ids \X Ids
    BY DEF Init, kSubset
<1>4. PlanTypes
    <2>1. incoming \in [Known -> SUBSET Known] /\ ready \subseteq Known
        BY DEF Init, BlockersAmong
    <2>2. Len(sprints) \in Nat
        BY <1>2
    <2> QED BY <1>2, <1>3, <2>1, <2>2 DEF Init, PlanTypes
<1>5. Left = Known
    BY DEF Init, Left
<1>6. KahnLoop
    <2>1. \A x \in ready : incoming[x] = {}
        BY DEF Init
    <2>2. \A x \in Known : incoming[x] = BlockersAmong(Known, x) \cap Left
        BY <1>5 DEF Init, BlockersAmong
    <2>3. processed + Cardinality(Left) = Cardinality(Known)
        BY <1>4, <1>5, LeftCounted DEF Init
    <2> QED BY <1>5, <2>1, <2>2, <2>3 DEF Init, KahnLoop
<1> QED BY <1>4, <1>6 DEF Init, PlanIInv, Staged, Sorting

\* One item is processed: the others of the loop lose one blocker at most.
LEMMA PopStep ==
    ASSUME PlanIInv, NEW x \in Known, Pop(x)
    PROVE  PlanIInv'
<1>1. /\ pc = "kahn" /\ x \in ready /\ incoming[x] = {}
      /\ processed' = processed + 1
      /\ \A y \in Known : incoming'[y] = incoming[y] \ {x}
      /\ incoming' \in [Known -> SUBSET Known]
      /\ ready' = (ready \ {x}) \cup {y \in Known : incoming[y] = {x}}
      /\ UNCHANGED <<pc, numbers, sprints, deps, sprint, ordered, remaining, tickets>>
    BY DEF Pop, PlanIInv, PlanTypes, KahnLoop, plan, sorting
<1>2. PlanTypes'
    BY <1>1 DEF PlanIInv, PlanTypes
<1>3. Left' = Left \ {x}
    <2>0. /\ ready \subseteq Known /\ \A y \in Known : incoming[y] \subseteq Known
          /\ \A y \in ready : incoming[y] = {}
        BY DEF PlanIInv, PlanTypes, KahnLoop
    <2>1. ASSUME NEW y \in Known
          PROVE  y \in Left' <=> y \in Left \ {x}
        <3>1. y \in ready' <=> (y \in ready /\ y # x) \/ incoming[y] = {x}
            BY <1>1
        <3>2. incoming'[y] = incoming[y] \ {x}
            BY <1>1
        <3>3. y \in Left' <=> y \in ready' \/ incoming'[y] # {}
            BY DEF Left
        <3>4. y \in Left <=> y \in ready \/ incoming[y] # {}
            BY DEF Left
        <3>5. CASE incoming[y] = {}
            BY <1>1, <3>1, <3>2, <3>3, <3>4, <3>5
        <3>6. CASE incoming[y] # {}
            BY <1>1, <2>0, <3>1, <3>2, <3>3, <3>4, <3>6
        <3> QED BY <3>5, <3>6
    <2>2. Left \subseteq Known /\ Left' \subseteq Known
        BY <1>1, <2>0 DEF Left
    <2> QED BY <2>1, <2>2
<1>4. x \in Left
    BY <1>1 DEF Left
<1>5. \A y \in Known : BlockersAmong(Known, y)' = BlockersAmong(Known, y)
    BY <1>1 DEF BlockersAmong
<1>6. KahnLoop'
    <2>1. \A y \in ready' : incoming'[y] = {}
        BY <1>1 DEF PlanIInv, KahnLoop, PlanTypes
    <2>2. \A y \in Known : incoming'[y] = BlockersAmong(Known, y)' \cap Left'
        BY <1>1, <1>3, <1>5 DEF PlanIInv, KahnLoop
    <2>3. processed' + Cardinality(Left') = Cardinality(Known)
        <3>1. Cardinality(Left') = Cardinality(Left) - 1
            BY <1>3, <1>4, LeftCounted, FS_RemoveElement DEF PlanIInv
        <3> QED BY <1>1, <3>1, LeftCounted DEF PlanIInv, PlanTypes, KahnLoop
    <2>4. ASSUME NEW S \in SUBSET Known, Knot(S)' PROVE S \subseteq Left'
        <3>1. Knot(S)
            BY <1>1, <2>4 DEF Knot, BlockersAmong
        <3>2. S \subseteq Left
            BY <3>1 DEF PlanIInv, KahnLoop
        <3>3. x \notin S
            <4> SUFFICES ASSUME x \in S PROVE FALSE
                OBVIOUS
            <4>1. PICK y \in S : <<x, y>> \in deps /\ x # y
                BY <3>1 DEF Knot, BlockersAmong
            <4>2. y \in incoming[x]
                BY <3>2, <4>1 DEF PlanIInv, KahnLoop, BlockersAmong
            <4> QED BY <1>1, <4>2
        <3> QED BY <1>3, <3>2, <3>3
    <2> QED BY <1>1, <2>1, <2>2, <2>3, <2>4 DEF KahnLoop
<1>7. Staged' /\ Sorting'
    BY <1>1 DEF PlanIInv, Staged, Sorting
<1> QED BY <1>2, <1>6, <1>7 DEF PlanIInv

LEMMA KahnKept ==
    ASSUME KahnLoop, UNCHANGED <<plan, kahn>>, pc' # "kahn" => ready = {}
    PROVE  KahnLoop'
<1>1. UNCHANGED <<numbers, sprints, deps, incoming, ready, processed>>
    BY DEF plan, kahn
<1>2. Left' = Left
    BY <1>1 DEF Left
<1>3. \A S, y : BlockersAmong(S, y)' = BlockersAmong(S, y)
    BY <1>1 DEF BlockersAmong
<1>4. \A S : Knot(S)' => Knot(S)
    BY <1>1 DEF Knot, BlockersAmong
<1>5. \A S \in SUBSET Known : Knot(S)' => S \subseteq Left'
    BY <1>2, <1>4 DEF KahnLoop
<1>6. \A y \in Known : incoming'[y] = BlockersAmong(Known, y)' \cap Left'
    BY <1>1, <1>2, <1>3 DEF KahnLoop
<1> QED BY <1>1, <1>2, <1>5, <1>6 DEF KahnLoop

LEMMA CycleCheckedStep == PlanIInv /\ CycleChecked => PlanIInv'
<1> SUFFICES ASSUME PlanIInv, CycleChecked PROVE PlanIInv'
    OBVIOUS
<1>1. /\ pc = "kahn" /\ pc' = "judge" /\ ready = {}
      /\ UNCHANGED <<numbers, sprints, deps, incoming, ready, processed, sprint,
                     ordered, remaining, tickets>>
    BY DEF CycleChecked, plan, kahn, sorting
<1>2. PlanTypes'
    BY <1>1 DEF PlanIInv, PlanTypes
<1>3. KahnLoop'
    BY <1>1, KahnKept DEF PlanIInv, plan, kahn
<1> QED BY <1>1, <1>2, <1>3 DEF PlanIInv, Staged, Sorting

\* The verdict on cycles, whatever was popped first.
LEMMA Verdict ==
    ASSUME PlanIInv, pc # "kahn"
    PROVE  HasCycle <=> \E S \in SUBSET Known : Knot(S)
<1>1. HasCycle <=> Left # {}
    BY LeftCounted DEF HasCycle, PlanIInv, KahnLoop, PlanTypes
<1>2. Left # {} => Knot(Left)
    BY DEF Knot, Left, PlanIInv, KahnLoop, BlockersAmong
<1>3. Left \in SUBSET Known
    BY LeftCounted DEF PlanIInv
<1>4. \A S \in SUBSET Known : Knot(S) => Left # {}
    BY DEF Knot, PlanIInv, KahnLoop
<1> QED BY <1>1, <1>2, <1>3, <1>4

LEMMA SprintPlaces ==
    ASSUME PlanTypes
    PROVE  /\ Len(sprints) \in Nat /\ DOMAIN sprints = 1..Len(sprints)
           /\ \A i \in DOMAIN sprints : sprints[i] \in Seq(Ids)
           /\ \A i \in DOMAIN sprints : Len(sprints[i]) \in Nat
                 /\ DOMAIN sprints[i] = 1..Len(sprints[i])
BY Places DEF PlanTypes

\* A plan without a defect has what the derivation of the tickets needs.
LEMMA AcceptableAccepted ==
    ASSUME PlanIInv, pc # "kahn", Acceptable
    PROVE  Accepted
<1>1. /\ numbers = [i \in DOMAIN sprints |-> i]
      /\ \A i, j \in DOMAIN sprints :
             \A k \in DOMAIN sprints[i], m \in DOMAIN sprints[j] :
                 sprints[i][k] = sprints[j][m] => i = j /\ k = m
      /\ UNION {Items(i) : i \in DOMAIN sprints} = Known
      /\ deps \subseteq Known \X Known
      /\ \A d \in deps : d[1] # d[2]
      /\ \A d \in deps : {d[1], d[2]} \subseteq Known => SprintOf(d[2]) <= SprintOf(d[1])
      /\ ~ HasCycle
    BY DEF Acceptable, ScheduledOnce, Scheduled, Items
<1>2. \A i \in DOMAIN sprints : Items(i) \subseteq Known
    BY <1>1
<1>3. \A i, k \in DOMAIN sprints : i # k => Items(i) \cap Items(k) = {}
    BY <1>1 DEF Items, ToSet
<1>4. \A i \in DOMAIN sprints : sprints[i] \in Seq(Known) /\ IsInjective(sprints[i])
    <2> SUFFICES ASSUME NEW i \in DOMAIN sprints
                 PROVE  sprints[i] \in Seq(Known) /\ IsInjective(sprints[i])
        OBVIOUS
    <2>1. /\ sprints[i] \in Seq(Ids) /\ Len(sprints[i]) \in Nat
          /\ DOMAIN sprints[i] = 1..Len(sprints[i])
        BY SprintPlaces DEF PlanIInv
    <2>2. \A k \in DOMAIN sprints[i] : sprints[i][k] \in Known
        BY <1>2 DEF Items, ToSet
    <2>3. IsInjective(sprints[i])
        BY <1>1 DEF IsInjective
    <2> QED BY <2>1, <2>2, <2>3
<1>5. \A i \in DOMAIN sprints : \A w \in Items(i) : SprintOf(w) = i
    <2> SUFFICES ASSUME NEW i \in DOMAIN sprints, NEW w \in Items(i)
                 PROVE  SprintOf(w) = i
        OBVIOUS
    <2> DEFINE LastSprint(j) == /\ w \in ToSet(sprints[j])
                                /\ \A k \in DOMAIN sprints : w \in ToSet(sprints[k]) => k <= j
    <2>1. i \in Nat
        BY SprintPlaces DEF PlanIInv
    <2>2. \A k \in DOMAIN sprints : w \in ToSet(sprints[k]) => k = i
        BY <1>3 DEF Items
    <2>3. LastSprint(i) /\ \A j \in DOMAIN sprints : LastSprint(j) => j = i
        BY <2>1, <2>2 DEF Items
    <2>4. (CHOOSE j \in DOMAIN sprints : LastSprint(j)) = i
        <3> HIDE DEF LastSprint
        <3> QED BY <2>3
    <2>5. SprintOf(w) = numbers[i]
        BY <2>4 DEF SprintOf
    <2> QED BY <1>1, <2>5
<1>6. \A d \in deps : \A i, k \in DOMAIN sprints :
          d[1] \in Items(i) /\ d[2] \in Items(k) => k <= i
    BY <1>1, <1>2, <1>5
<1>7. \A S \in SUBSET Known : ~ Knot(S)
    BY <1>1, Verdict
<1>8. \A d \in deps : d[1] \in Known /\ d[2] \in Known /\ d[1] # d[2]
    BY <1>1
<1> QED BY <1>1, <1>3, <1>4, <1>6, <1>7, <1>8 DEF Accepted

LEMMA AcceptedKept ==
    ASSUME Accepted, UNCHANGED plan
    PROVE  Accepted'
<1>1. UNCHANGED <<numbers, sprints, deps>>
    BY DEF plan
<1>2. \A S : Knot(S)' => Knot(S)
    BY <1>1 DEF Knot, BlockersAmong
<1>3. \A i : Items(i)' = Items(i)
    BY <1>1 DEF Items
<1> QED BY <1>1, <1>2, <1>3 DEF Accepted

LEMMA JudgeStep == PlanIInv /\ Judge => PlanIInv'
<1> SUFFICES ASSUME PlanIInv, Judge PROVE PlanIInv'
    OBVIOUS
<1>1. /\ pc = "judge" /\ sprint = 1 /\ ordered = <<>> /\ tickets = <<>>
      /\ pc' = IF ~ Acceptable THEN "refused"
               ELSE IF sprints = <<>> THEN "derived" ELSE "sort"
      /\ remaining' = IF Acceptable /\ sprints # <<>> THEN sprints[1] ELSE <<>>
      /\ UNCHANGED <<plan, kahn>> /\ UNCHANGED plan
      /\ UNCHANGED <<numbers, sprints, deps, incoming, ready, processed,
                     sprint, ordered, tickets>>
    BY DEF Judge, plan, kahn, PlanIInv, Staged
<1>2. KahnLoop'
    BY <1>1, KahnKept DEF PlanIInv, KahnLoop
<1>3. CASE ~ Acceptable
    <2>1. pc' = "refused" /\ remaining' = <<>>
        BY <1>1, <1>3
    <2>2. PlanTypes'
        BY <1>1, <2>1 DEF PlanIInv, PlanTypes
    <2> QED BY <1>2, <2>1, <2>2 DEF PlanIInv, Staged, Sorting
<1>4. CASE Acceptable
    <2>1. Accepted /\ Accepted'
        BY <1>1, <1>4, AcceptableAccepted, AcceptedKept
    <2>2. Len(sprints) \in Nat /\ DOMAIN sprints = 1..Len(sprints)
        BY SprintPlaces DEF PlanIInv
    <2>3. ToSet(<<>>) = {} /\ IsInjective(<<>>)
        BY DEF ToSet, IsInjective
    <2>4. Ticketed'
        <3>1. UNION {Items(i)' : i \in 1..(sprint' - 1)} = {}
            BY <1>1
        <3>2. Grounded(tickets, {})'
            BY <1>1 DEF Grounded
        <3>3. pc' = "derived" => sprint' = Len(sprints') + 1
            BY <1>1, <1>4
        <3> QED BY <1>1, <2>3, <3>1, <3>2, <3>3 DEF Ticketed
    <2>5. CASE sprints = <<>>
        <3>1. pc' = "derived" /\ remaining' = <<>>
            BY <1>1, <1>4, <2>5
        <3>2. PlanTypes'
            BY <1>1, <3>1 DEF PlanIInv, PlanTypes
        <3> QED BY <1>2, <2>1, <2>4, <3>1, <3>2 DEF PlanIInv, Staged, Sorting
    <2>6. CASE sprints # <<>>
        <3>1. pc' = "sort" /\ remaining' = sprints[1]
            BY <1>1, <1>4, <2>6
        <3>2. 1 \in DOMAIN sprints
            BY <2>2, <2>6 DEF PlanIInv, PlanTypes
        <3>3. sprints[1] \in Seq(Known) /\ IsInjective(sprints[1])
            BY <2>1, <3>2 DEF Accepted
        <3>4. PlanTypes'
            BY <1>1, <3>1, <3>3 DEF PlanIInv, PlanTypes
        <3>5. Sorting'
            <4>1. Grounded(ordered, ToSet(tickets))'
                BY <1>1 DEF Grounded
            <4>2. ToSet(remaining') = Items(sprint)'
                BY <1>1, <3>1 DEF Items
            <4> QED BY <1>1, <2>3, <3>1, <3>2, <3>3, <4>1, <4>2 DEF Sorting
        <3> QED BY <1>2, <2>1, <2>4, <3>1, <3>4, <3>5 DEF PlanIInv, Staged
    <2> QED BY <2>5, <2>6
<1> QED BY <1>3, <1>4

LEMMA GroundedJoined ==
    ASSUME NEW T, NEW s \in Seq(T), NEW t \in Seq(T), NEW base,
           Grounded(s, base), Grounded(t, base \cup ToSet(s))
    PROVE  Grounded(s \o t, base)
<1> DEFINE st == s \o t
<1>1. /\ Len(s) \in Nat /\ DOMAIN s = 1..Len(s) /\ Len(t) \in Nat /\ DOMAIN t = 1..Len(t)
      /\ DOMAIN st = 1..(Len(s) + Len(t))
      /\ \A i \in DOMAIN s : st[i] = s[i]
      /\ \A i \in DOMAIN t : st[Len(s) + i] = t[i]
    BY Places, Joined
<1> HIDE DEF st
<1> SUFFICES ASSUME NEW d \in deps, NEW j \in DOMAIN st, st[j] = d[1]
             PROVE  d[2] \in base \/ \E i \in 1..(j - 1) : st[i] = d[2]
    BY DEF Grounded, st
<1>2. CASE j \in DOMAIN s
    <2>1. d[2] \in base \/ \E i \in 1..(j - 1) : s[i] = d[2]
        BY <1>1, <1>2 DEF Grounded
    <2>2. \A i \in 1..(j - 1) : st[i] = s[i]
        BY <1>1, <1>2
    <2> QED BY <2>1, <2>2
<1>3. CASE j \notin DOMAIN s
    <2>1. PICK m \in DOMAIN t : j = Len(s) + m
        <3>1. j - Len(s) \in DOMAIN t /\ j = Len(s) + (j - Len(s))
            BY <1>1, <1>3
        <3> QED BY <3>1
    <2>2. t[m] = d[1]
        BY <1>1, <2>1
    <2>3. d[2] \in base \/ d[2] \in ToSet(s) \/ \E i \in 1..(m - 1) : t[i] = d[2]
        BY <2>2 DEF Grounded
    <2>4. ASSUME d[2] \in ToSet(s) PROVE \E i \in 1..(j - 1) : st[i] = d[2]
        <3>1. PICK i \in DOMAIN s : s[i] = d[2]
            BY <2>4 DEF ToSet
        <3>2. i \in 1..(j - 1) /\ st[i] = d[2]
            BY <1>1, <2>1, <3>1
        <3> QED BY <3>2
    <2>5. ASSUME NEW i \in 1..(m - 1), t[i] = d[2]
          PROVE  \E k \in 1..(j - 1) : st[k] = d[2]
        <3>1. i \in DOMAIN t
            BY <1>1
        <3>2. Len(s) + i \in 1..(j - 1) /\ st[Len(s) + i] = d[2]
            BY <1>1, <2>1, <2>5, <3>1
        <3> QED BY <3>2
    <2> QED BY <2>3, <2>4, <2>5
<1> QED BY <1>2, <1>3

\* What the item depends on is in its own sprint or has its ticket.
LEMMA BlockerPlaced ==
    ASSUME PlanIInv, pc = "sort", NEW d \in deps, d[1] \in Items(sprint)
    PROVE  d[2] \in ToSet(tickets) \/ d[2] \in BlockersAmong(Items(sprint), d[1])
<1>1. Accepted /\ Ticketed /\ sprint \in DOMAIN sprints
    BY DEF PlanIInv, Staged, Sorting
<1>2. /\ d[1] \in Known /\ d[2] \in Known /\ d[1] # d[2]
      /\ \A i, k \in DOMAIN sprints : d[1] \in Items(i) /\ d[2] \in Items(k) => k <= i
    BY <1>1 DEF Accepted
<1>3. PICK k \in DOMAIN sprints : d[2] \in Items(k)
    BY <1>1, <1>2 DEF Accepted
<1>4. k <= sprint
    BY <1>1, <1>2, <1>3
<1>5. d = <<d[1], d[2]>>
    BY DEF PlanIInv, PlanTypes
<1>6. CASE k = sprint
    BY <1>2, <1>3, <1>5, <1>6 DEF BlockersAmong
<1>7. CASE k # sprint
    <2>1. k \in 1..(sprint - 1)
        BY <1>1, <1>4, <1>7, SprintPlaces DEF PlanIInv
    <2> QED BY <1>1, <1>3, <2>1 DEF Ticketed
<1> QED BY <1>6, <1>7

\* topological_order never runs out of items to put in order: those that
\* remain would be a knot.
LEMMA ThereIsProgress ==
    ASSUME PlanIInv, pc = "sort", remaining # <<>>
    PROVE  Progress # {}
<1> SUFFICES ASSUME Progress = {} PROVE FALSE
    OBVIOUS
<1>1. Accepted /\ sprint \in DOMAIN sprints
      /\ ToSet(ordered) \cup ToSet(remaining) = Items(sprint)
      /\ remaining \in Seq(Known)
    BY DEF PlanIInv, PlanTypes, Staged, Sorting
<1>2. ToSet(remaining) # {} /\ ToSet(remaining) \in SUBSET Known
    <2>1. Len(remaining) \in Nat /\ DOMAIN remaining = 1..Len(remaining)
          /\ \A n \in DOMAIN remaining : remaining[n] \in Known
        BY <1>1, Places
    <2>2. 1 \in DOMAIN remaining
        BY <1>1, <2>1
    <2> QED BY <2>1, <2>2 DEF ToSet
<1>3. ASSUME NEW x \in ToSet(remaining)
      PROVE  BlockersAmong(ToSet(remaining), x) # {}
    <2>1. PICK y \in BlockersAmong(ToSet(sprints[sprint]), x) : y \notin ToSet(ordered)
        BY <1>3 DEF Progress
    <2>2. y \in Items(sprint) /\ <<x, y>> \in deps /\ x # y
        BY <2>1 DEF BlockersAmong, Items
    <2>3. y \in BlockersAmong(ToSet(remaining), x)
        BY <1>1, <2>1, <2>2 DEF BlockersAmong
    <2> QED BY <2>3
<1>4. Knot(ToSet(remaining))
    BY <1>2, <1>3 DEF Knot
<1> QED BY <1>1, <1>2, <1>4 DEF Accepted

LEMMA SortRoundStep == PlanIInv /\ SortRound => PlanIInv'
<1> SUFFICES ASSUME PlanIInv, SortRound PROVE PlanIInv'
    OBVIOUS
<1> DEFINE new == Kept(remaining, Progress)
<1>1. Progress # {} /\ pc = "sort"
    BY ThereIsProgress DEF SortRound
<1>2. /\ ordered' = ordered \o new
      /\ remaining' = Kept(remaining, ToSet(remaining) \ Progress)
      /\ UNCHANGED <<plan, kahn>> /\ UNCHANGED plan
      /\ UNCHANGED <<pc, numbers, sprints, deps, incoming, ready, processed,
                     sprint, tickets>>
    BY <1>1 DEF SortRound, plan, kahn
<1>3. /\ ordered \in Seq(Known) /\ remaining \in Seq(Known)
      /\ Accepted /\ Ticketed
      /\ sprint \in DOMAIN sprints
      /\ ToSet(ordered) \cup ToSet(remaining) = Items(sprint)
      /\ ToSet(ordered) \cap ToSet(remaining) = {}
      /\ IsInjective(ordered) /\ IsInjective(remaining)
      /\ Grounded(ordered, ToSet(tickets))
    BY <1>1 DEF PlanIInv, PlanTypes, Staged, Sorting
<1>4. Progress \subseteq ToSet(remaining)
    BY DEF Progress
<1>5. new \in Seq(Known) /\ ToSet(new) = Progress /\ IsInjective(new)
    <2> HIDE DEF new
    <2>1. new \in Seq(Known) /\ ToSet(new) = ToSet(remaining) \cap Progress /\ IsInjective(new)
        BY <1>3, KeptItems DEF new
    <2> QED BY <1>4, <2>1
<1>6. /\ remaining' \in Seq(Known) /\ ToSet(remaining') = ToSet(remaining) \ Progress
      /\ IsInjective(remaining')
    <2>1. /\ remaining' \in Seq(Known)
          /\ ToSet(remaining') = ToSet(remaining) \cap (ToSet(remaining) \ Progress)
          /\ IsInjective(remaining')
        BY <1>2, <1>3, KeptItems
    <2> QED BY <2>1
<1> HIDE DEF new
<1>7. /\ ordered' \in Seq(Known) /\ ToSet(ordered') = ToSet(ordered) \cup Progress
      /\ IsInjective(ordered')
    <2>1. ToSet(ordered) \cap ToSet(new) = {}
        BY <1>3, <1>4, <1>5
    <2> QED BY <1>2, <1>3, <1>5, <2>1, Joined
<1>8. Grounded(ordered', ToSet(tickets))
    <2>1. Grounded(new, ToSet(tickets) \cup ToSet(ordered))
        <3> SUFFICES ASSUME NEW d \in deps, NEW j \in DOMAIN new, new[j] = d[1]
                     PROVE  d[2] \in ToSet(tickets) \cup ToSet(ordered)
            BY DEF Grounded
        <3>1. d[1] \in Progress
            BY <1>5 DEF ToSet
        <3>2. d[1] \in Items(sprint)
            BY <1>3, <1>4, <3>1
        <3>3. BlockersAmong(Items(sprint), d[1]) \subseteq ToSet(ordered)
            BY <3>1 DEF Progress, Items
        <3> QED BY <1>1, <3>2, <3>3, BlockerPlaced
    <2> QED BY <1>2, <1>3, <1>5, <2>1, GroundedJoined
<1>9. PlanTypes'
    BY <1>2, <1>6, <1>7 DEF PlanIInv, PlanTypes
<1>10. KahnLoop'
    BY <1>1, <1>2, KahnKept DEF PlanIInv, KahnLoop
<1>11. Sorting'
    <2>1. Grounded(ordered, ToSet(tickets))'
        BY <1>2, <1>8 DEF Grounded
    <2>2. Items(sprint)' = Items(sprint)
        BY <1>2 DEF Items
    <2> QED BY <1>2, <1>3, <1>4, <1>6, <1>7, <2>1, <2>2 DEF Sorting
<1>12. Staged'
    <2>1. Accepted'
        BY <1>2, <1>3, AcceptedKept
    <2>2. Ticketed'
        <3>1. \A i : Items(i)' = Items(i)
            BY <1>2 DEF Items
        <3>2. Grounded(tickets, {})'
            BY <1>2, <1>3 DEF Ticketed, Grounded
        <3> QED BY <1>1, <1>2, <1>3, <3>1, <3>2 DEF Ticketed
    <2> QED BY <1>1, <1>2, <2>1, <2>2 DEF Staged
<1> QED BY <1>9, <1>10, <1>11, <1>12 DEF PlanIInv

LEMMA SprintSortedStep == PlanIInv /\ SprintSorted => PlanIInv'
<1> SUFFICES ASSUME PlanIInv, SprintSorted PROVE PlanIInv'
    OBVIOUS
<1>1. /\ pc = "sort" /\ remaining = <<>>
      /\ tickets' = tickets \o ordered
      /\ ordered' = <<>> /\ sprint' = sprint + 1
      /\ remaining' = IF sprint < Len(sprints) THEN sprints[sprint + 1] ELSE <<>>
      /\ pc' = IF sprint < Len(sprints) THEN "sort" ELSE "derived"
      /\ UNCHANGED <<plan, kahn>> /\ UNCHANGED plan
      /\ UNCHANGED <<numbers, sprints, deps, incoming, ready, processed>>
    BY DEF SprintSorted, plan, kahn
<1>2. /\ ordered \in Seq(Known) /\ tickets \in Seq(Known)
      /\ Accepted /\ Ticketed
      /\ sprint \in DOMAIN sprints
      /\ ToSet(ordered) \cup ToSet(remaining) = Items(sprint)
      /\ IsInjective(ordered)
      /\ Grounded(ordered, ToSet(tickets))
    BY <1>1 DEF PlanIInv, PlanTypes, Staged, Sorting
<1>3. ToSet(<<>>) = {} /\ IsInjective(<<>>)
    BY DEF ToSet, IsInjective
<1>4. ToSet(ordered) = Items(sprint)
    BY <1>1, <1>2, <1>3
<1>5. Len(sprints) \in Nat /\ DOMAIN sprints = 1..Len(sprints)
    BY SprintPlaces DEF PlanIInv
<1>6. /\ IsInjective(tickets)
      /\ ToSet(tickets) = UNION {Items(i) : i \in 1..(sprint - 1)}
      /\ Grounded(tickets, {})
    BY <1>2 DEF Ticketed
<1>7. ToSet(tickets) \cap ToSet(ordered) = {}
    <2>1. \A i \in 1..(sprint - 1) : i \in DOMAIN sprints /\ i # sprint
        BY <1>2, <1>5
    <2>2. \A i \in 1..(sprint - 1) : Items(i) \cap Items(sprint) = {}
        BY <1>2, <2>1 DEF Accepted
    <2> QED BY <1>4, <1>6, <2>2
<1>8. /\ tickets' \in Seq(Known) /\ IsInjective(tickets')
      /\ ToSet(tickets') = ToSet(tickets) \cup Items(sprint)
    BY <1>1, <1>2, <1>4, <1>6, <1>7, Joined
<1>9. ToSet(tickets') = UNION {Items(i) : i \in 1..(sprint' - 1)}
    <2>1. 1..(sprint' - 1) = 1..(sprint - 1) \cup {sprint}
        BY <1>1, <1>2, <1>5
    <2> QED BY <1>6, <1>8, <2>1
<1>10. Grounded(tickets', {})
    <2>1. Grounded(ordered, {} \cup ToSet(tickets))
        BY <1>2
    <2> QED BY <1>1, <1>2, <1>6, <2>1, GroundedJoined
<1>11. \A i : Items(i)' = Items(i)
    BY <1>1 DEF Items
<1>12. Accepted'
    BY <1>1, <1>2, AcceptedKept
<1>13. Ticketed'
    <2>1. Grounded(tickets, {})'
        BY <1>1, <1>10 DEF Grounded
    <2>2. pc' = "derived" => sprint' = Len(sprints') + 1
        BY <1>1, <1>2, <1>5
    <2> QED BY <1>8, <1>9, <1>11, <2>1, <2>2 DEF Ticketed
<1>14. KahnLoop'
    BY <1>1, KahnKept DEF PlanIInv, KahnLoop
<1>15. PlanTypes' /\ Sorting'
    <2>1. CASE sprint < Len(sprints)
        <3>1. sprint + 1 \in DOMAIN sprints
            BY <1>2, <1>5, <2>1
        <3>2. remaining' = sprints[sprint + 1] /\ pc' = "sort"
            BY <1>1, <2>1
        <3>3. sprints[sprint + 1] \in Seq(Known) /\ IsInjective(sprints[sprint + 1])
            BY <1>2, <3>1 DEF Accepted
        <3>4. ToSet(remaining') = Items(sprint)'
            BY <1>1, <3>2 DEF Items
        <3>5. Grounded(ordered, ToSet(tickets))'
            BY <1>1 DEF Grounded
        <3>6. Sorting'
            BY <1>1, <1>3, <3>1, <3>2, <3>3, <3>4, <3>5 DEF Sorting
        <3>7. sprint' \in 1..(Len(sprints') + 1)
            BY <1>1, <1>5, <3>1
        <3> QED BY <1>1, <1>8, <3>2, <3>3, <3>6, <3>7 DEF PlanIInv, PlanTypes
    <2>2. CASE ~ (sprint < Len(sprints))
        <3>1. remaining' = <<>> /\ pc' = "derived"
            BY <1>1, <2>2
        <3>2. sprint' \in 1..(Len(sprints') + 1)
            BY <1>1, <1>2, <1>5
        <3> QED BY <1>1, <1>8, <3>1, <3>2 DEF PlanIInv, PlanTypes, Sorting
    <2> QED BY <2>1, <2>2
<1>16. Staged'
    BY <1>1, <1>12, <1>13 DEF Staged
<1> QED BY <1>14, <1>15, <1>16 DEF PlanIInv

LEMMA NextPlanIInv == PlanIInv /\ [Next]_vars => PlanIInv'
<1> SUFFICES ASSUME PlanIInv, [Next]_vars PROVE PlanIInv'
    OBVIOUS
<1>1. CASE Next
    BY <1>1, PopStep, CycleCheckedStep, JudgeStep, SortRoundStep, SprintSortedStep DEF Next
<1>2. CASE UNCHANGED vars
    <2>1. /\ UNCHANGED <<plan, kahn>> /\ UNCHANGED plan
          /\ UNCHANGED <<pc, numbers, sprints, deps, incoming, ready, processed,
                         sprint, ordered, remaining, tickets>>
        BY <1>2 DEF vars, plan, kahn, sorting
    <2>2. KahnLoop'
        BY <2>1, KahnKept DEF PlanIInv, KahnLoop
    <2>3. PlanTypes'
        BY <2>1 DEF PlanIInv, PlanTypes
    <2>4. Accepted => Accepted'
        BY <2>1, AcceptedKept
    <2>5. \A i : Items(i)' = Items(i)
        BY <2>1 DEF Items
    <2>6. Ticketed => Ticketed'
        BY <2>1, <2>5 DEF Ticketed, Grounded
    <2>7. Sorting'
        BY <2>1, <2>5 DEF PlanIInv, Sorting, Grounded
    <2> QED BY <2>1, <2>2, <2>3, <2>4, <2>6, <2>7 DEF PlanIInv, Staged
<1> QED BY <1>1, <1>2

THEOREM PlanInvariant == Spec => []PlanIInv
BY InitPlanIInv, NextPlanIInv, PTL DEF Spec

\* Every reachable state is well typed.
THEOREM PlanIsTyped == Spec => []TypeOK
<1>1. PlanIInv => TypeOK
    <2> SUFFICES ASSUME PlanIInv PROVE TypeOK
        OBVIOUS
    <2>1. processed \in 0..Cardinality(Known)
        BY LeftCounted DEF PlanIInv, PlanTypes, KahnLoop
    <2>2. 1..(Len(sprints) + 1) = 1..Len(sprints) + 1
        OBVIOUS
    <2> QED BY <2>1, <2>2 DEF PlanIInv, PlanTypes, TypeOK
<1> QED BY <1>1, PlanInvariant, PTL

\* _has_cycle gives the same verdict whatever item its set hands out first, for
\* every plan over every finite set of items: a cycle exactly where some items
\* wait for each other.
THEOREM PlanCycleVerdict == Spec => []CycleVerdictExact
<1>1. PlanIInv => CycleVerdictExact
    BY Verdict DEF CycleVerdictExact
<1> QED BY <1>1, PlanInvariant, PTL

-----------------------------------------------------------------------------
(* SprintPlan: the tickets and their waves                                 *)

\* Every item has its place among the tickets, behind what it depends on.
LEMMA DerivedOrder ==
    ASSUME PlanIInv, pc = "derived"
    PROVE  /\ Len(tickets) \in Nat /\ Len(tickets) = Cardinality(Known)
           /\ ToSet(tickets) = Known
           /\ \A x \in Known : Position(x) \in 1..Len(tickets)
           /\ \A x, y \in Known : Position(x) = Position(y) => x = y
           /\ \A d \in deps : /\ d[1] \in Known /\ d[2] \in Known
                              /\ Position(d[2]) < Position(d[1])
<1>1. /\ Accepted /\ IsInjective(tickets) /\ Grounded(tickets, {})
      /\ ToSet(tickets) = UNION {Items(i) : i \in 1..(sprint - 1)}
      /\ sprint = Len(sprints) + 1 /\ tickets \in Seq(Known)
    BY DEF PlanIInv, PlanTypes, Staged, Ticketed
<1>2. Len(sprints) \in Nat /\ DOMAIN sprints = 1..Len(sprints)
    BY SprintPlaces DEF PlanIInv
<1>3. ToSet(tickets) = Known
    <2>1. 1..(sprint - 1) = DOMAIN sprints
        BY <1>1, <1>2
    <2> QED BY <1>1, <2>1 DEF Accepted
<1>4. /\ Len(tickets) \in Nat /\ DOMAIN tickets = 1..Len(tickets)
      /\ \A i \in DOMAIN tickets : tickets[i] \in Known
    BY <1>1, Places
<1>5. Len(tickets) = Cardinality(Known)
    <2>1. tickets \in [1..Len(tickets) -> Known]
        BY <1>1, <1>4
    <2>2. tickets \in Injection(1..Len(tickets), Known)
        BY <1>1, <2>1 DEF Injection
    <2>3. tickets \in Surjection(1..Len(tickets), Known)
        BY <1>3, <1>4, <2>1 DEF Surjection, ToSet
    <2>4. ExistsBijection(1..Len(tickets), Known)
        BY <2>2, <2>3 DEF Bijection, ExistsBijection
    <2> QED BY <1>4, <2>4, FS_CountingElements
<1>6. \A x \in Known : Position(x) \in DOMAIN tickets /\ tickets[Position(x)] = x
    BY <1>3 DEF ToSet, Position
<1>7. ASSUME NEW d \in deps
      PROVE  d[1] \in Known /\ d[2] \in Known /\ Position(d[2]) < Position(d[1])
    <2>1. d[1] \in Known /\ d[2] \in Known
        BY <1>1 DEF Accepted
    <2>2. PICK i \in 1..(Position(d[1]) - 1) : tickets[i] = d[2]
        BY <1>1, <1>6, <2>1 DEF Grounded
    <2>3. Position(d[1]) \in 1..Len(tickets)
        BY <1>4, <1>6, <2>1
    <2>4. i \in DOMAIN tickets /\ i < Position(d[1])
        BY <1>4, <2>3
    <2>5. Position(d[2]) = i
        BY <1>1, <1>6, <2>1, <2>2, <2>4 DEF IsInjective
    <2> QED BY <2>1, <2>4, <2>5
<1> QED BY <1>3, <1>4, <1>5, <1>6, <1>7

\* A measure that falls along every dependency falls from an item to all it
\* depends on.
LEMMA FallsToBlockers ==
    ASSUME NEW height, \A d \in deps : d[1] \in Known /\ d[2] \in Known,
           \A z \in Known : height[z] \in Nat,
           \A d \in deps : height[d[2]] < height[d[1]],
           NEW x \in Known, NEW y \in Known, DependsOn(x, y)
    PROVE  height[y] < height[x]
<1> DEFINE S == {z \in Known : height[z] < height[x]}
<1>1. \A d \in deps : d[1] \in S \cup {x} => d[2] \in S
    <2> SUFFICES ASSUME NEW d \in deps, d[1] \in S \cup {x} PROVE d[2] \in S
        OBVIOUS
    <2>1. height[d[1]] \in Nat /\ height[d[2]] \in Nat /\ height[x] \in Nat
        OBVIOUS
    <2>2. height[d[1]] <= height[x]
        BY <2>1
    <2> QED BY <2>1, <2>2
<1>2. S \in SUBSET Known
    OBVIOUS
<1>3. y \in S
    <2> HIDE DEF S
    <2> QED BY <1>1, <1>2 DEF DependsOn
<1> QED BY <1>3

\* _derive_tickets keeps the order of the whole plan, though each sprint is
\* sorted on its own: for every plan over every finite set of items, every item
\* has one ticket, after the tickets of everything it depends on.
THEOREM PlanDependencyOrder == Spec => []TicketsInDependencyOrder
<1>1. PlanIInv => TicketsInDependencyOrder
    <2> SUFFICES ASSUME PlanIInv, pc = "derived",
                        NEW x \in Known, NEW y \in Known, DependsOn(x, y)
                 PROVE  Position(y) < Position(x)
        BY DerivedOrder DEF TicketsInDependencyOrder
    <2> DEFINE height == [z \in Known |-> Position(z)]
    <2>1. /\ \A d \in deps : d[1] \in Known /\ d[2] \in Known
          /\ \A z \in Known : height[z] \in Nat
          /\ \A d \in deps : height[d[2]] < height[d[1]]
        BY DerivedOrder
    <2>2. height[y] < height[x]
        <3> HIDE DEF height
        <3> QED BY <2>1, FallsToBlockers
    <2> QED BY <2>2
<1> QED BY <1>1, PlanInvariant, PTL

Blockers(x) == {y \in ToSet(tickets) : <<x, y>> \in deps}

\* What compute returns for p if its calls return the levels of f.
Lifted(f, p) ==
    IF p[1] \in p[2] THEN 0
    ELSE Max({0} \cup {f[<<b, p[2] \cup {p[1]}>>] + 1 : b \in Blockers(p[1])})

\* The calls for items up to place n.
UpTo(n) == {p \in Known \X SUBSET Known : Position(p[1]) <= n}

\* f is what compute returns for them, at most the item's place.
Computed(f, n) ==
    /\ f \in [UpTo(n) -> Nat]
    /\ \A p \in UpTo(n) : f[p] <= n /\ f[p] = Lifted(f, p)

\* What a call makes depends on the calls for earlier items.
LEMMA LiftedLevels ==
    ASSUME PlanIInv, pc = "derived", NEW n \in Nat, NEW f,
           \A p \in UpTo(n) : f[p] \in 0..n,
           NEW p \in UpTo(n + 1)
    PROVE  /\ Lifted(f, p) \in 0..(n + 1)
           /\ \A b \in Blockers(p[1]) : <<b, p[2] \cup {p[1]}>> \in UpTo(n)
<1>1. p[1] \in Known /\ p[2] \in SUBSET Known /\ Position(p[1]) <= n + 1
    BY DEF UpTo
<1>2. ASSUME NEW b \in Blockers(p[1]) PROVE <<b, p[2] \cup {p[1]}>> \in UpTo(n)
    <2>1. <<p[1], b>> \in deps
        BY DEF Blockers
    <2>2. /\ b \in Known /\ Position(b) \in Nat /\ Position(p[1]) \in Nat
          /\ Position(b) < Position(p[1])
        BY <1>1, <2>1, DerivedOrder
    <2>3. Position(b) <= n
        BY <1>1, <2>2
    <2> QED BY <1>1, <2>2, <2>3 DEF UpTo
<1>3. Lifted(f, p) \in 0..(n + 1)
    <2>1. CASE p[1] \in p[2]
        BY <2>1 DEF Lifted
    <2>2. CASE p[1] \notin p[2]
        <3> DEFINE L == {0} \cup {f[<<b, p[2] \cup {p[1]}>>] + 1 : b \in Blockers(p[1])}
        <3>1. L \in SUBSET (0..(n + 1)) /\ L # {}
            <4> DEFINE called(b) == f[<<b, p[2] \cup {p[1]}>>]
            <4>1. \A b \in Blockers(p[1]) : called(b) + 1 \in 0..(n + 1)
                BY <1>2
            <4> HIDE DEF called
            <4>2. {0} \cup {called(b) + 1 : b \in Blockers(p[1])} \subseteq 0..(n + 1)
                BY <4>1
            <4> QED BY <4>2 DEF called
        <3> HIDE DEF L
        <3>2. Max(L) \in L
            <4>1. L \in SUBSET Nat /\ n + 1 \in Nat /\ \A m \in L : m <= n + 1
                BY <3>1
            <4> QED BY <3>1, <4>1, MaxIsGreatest
        <3> QED BY <2>2, <3>1, <3>2 DEF Lifted, L
    <2> QED BY <2>1, <2>2
<1> QED BY <1>2, <1>3

\* What a call makes is a matter of the levels its own calls return.
LEMMA LiftedSame ==
    ASSUME NEW f, NEW g, NEW p,
           \A b \in Blockers(p[1]) :
               f[<<b, p[2] \cup {p[1]}>>] = g[<<b, p[2] \cup {p[1]}>>]
    PROVE  Lifted(f, p) = Lifted(g, p)
<1> DEFINE called(b) == <<b, p[2] \cup {p[1]}>>
<1>1. \A b \in Blockers(p[1]) : f[called(b)] = g[called(b)]
    OBVIOUS
<1> HIDE DEF called
<1>2. {f[called(b)] + 1 : b \in Blockers(p[1])} = {g[called(b)] + 1 : b \in Blockers(p[1])}
    BY <1>1
<1> QED BY <1>2 DEF Lifted, called

\* compute comes to an end for the items up to any place.
LEMMA SomeComputed ==
    ASSUME PlanIInv, pc = "derived", NEW n \in Nat
    PROVE  \E f : Computed(f, n)
<1> DEFINE Failing == {m \in Nat : ~ \E f : Computed(f, m)}
<1> SUFFICES ASSUME Failing # {} PROVE FALSE
    OBVIOUS
<1>1. PICK m \in Failing : \A k \in Failing : m <= k
    BY LeastNumber
<1>2. m # 0
    <2> SUFFICES ASSUME m = 0 PROVE FALSE
        OBVIOUS
    <2>1. UpTo(0) = {}
        <3>1. \A x \in Known : Position(x) \in Nat /\ Position(x) > 0
            BY DerivedOrder
        <3> QED BY <3>1 DEF UpTo
    <2>2. Computed([p \in UpTo(0) |-> 0], 0)
        BY <2>1 DEF Computed
    <2> QED BY <1>1, <2>2
<1>3. PICK k \in Nat : m = k + 1
    <2>1. m - 1 \in Nat /\ m = (m - 1) + 1
        BY <1>1, <1>2
    <2> QED BY <2>1
<1>4. PICK f : Computed(f, k)
    BY <1>1, <1>3
<1> DEFINE g == [p \in UpTo(k + 1) |-> IF p \in UpTo(k) THEN f[p] ELSE Lifted(f, p)]
<1>5. \A p \in UpTo(k) : p \in UpTo(k + 1) /\ g[p] = f[p]
    <2>1. \A p \in UpTo(k) : p \in UpTo(k + 1)
        <3> SUFFICES ASSUME NEW p \in UpTo(k) PROVE p \in UpTo(k + 1)
            OBVIOUS
        <3>1. p \in Known \X SUBSET Known /\ p[1] \in Known /\ Position(p[1]) <= k
            BY DEF UpTo
        <3>2. Position(p[1]) \in Nat
            BY <3>1, DerivedOrder
        <3> QED BY <3>1, <3>2 DEF UpTo
    <2> QED BY <2>1
<1>6. \A p \in UpTo(k) : f[p] \in 0..k /\ f[p] = Lifted(f, p)
    BY <1>4 DEF Computed
<1>7. ASSUME NEW p \in UpTo(k + 1)
      PROVE  g[p] \in 0..(k + 1) /\ g[p] = Lifted(g, p)
    <2>1. /\ Lifted(f, p) \in 0..(k + 1)
          /\ \A b \in Blockers(p[1]) : <<b, p[2] \cup {p[1]}>> \in UpTo(k)
        BY <1>6, LiftedLevels
    <2>2. Lifted(f, p) = Lifted(g, p)
        <3> HIDE DEF g
        <3> QED BY <1>5, <2>1, LiftedSame
    <2>3. g[p] = Lifted(f, p)
        BY <1>6
    <2> QED BY <2>1, <2>2, <2>3
<1>8. Computed(g, k + 1)
    <2>1. g = [p \in UpTo(k + 1) |-> g[p]]
        OBVIOUS
    <2> HIDE DEF g
    <2>2. \A p \in UpTo(k + 1) : g[p] \in Nat /\ g[p] <= k + 1
        BY <1>7
    <2>3. g \in [UpTo(k + 1) -> Nat]
        BY <2>1, <2>2
    <2> QED BY <1>7, <2>2, <2>3 DEF Computed
<1> QED BY <1>1, <1>3, <1>8

\* Level is the function compute is: of these calls there is one result.
LEMMA LevelComputed ==
    ASSUME PlanIInv, pc = "derived"
    PROVE  /\ \A p \in Known \X SUBSET Known : Level[p] \in 0..Len(tickets)
           /\ \A p \in Known \X SUBSET Known : Level[p] = Lifted(Level, p)
<1> DEFINE calls == Known \X SUBSET Known
<1>1. /\ Len(tickets) \in Nat
      /\ \A x \in Known : Position(x) \in Nat /\ Position(x) <= Len(tickets)
    BY DerivedOrder
<1>2. calls = UpTo(Len(tickets))
    BY <1>1 DEF UpTo
<1>3. PICK f : Computed(f, Len(tickets))
    BY <1>1, SomeComputed
<1>4. /\ f \in [calls -> Nat]
      /\ \A p \in calls : f[p] \in 0..Len(tickets) /\ f[p] = Lifted(f, p)
    BY <1>1, <1>2, <1>3 DEF Computed
<1>5. f = [p \in calls |-> Lifted(f, p)]
    BY <1>4
<1>6. Level = CHOOSE g : g = [p \in calls |-> Lifted(g, p)]
    BY DEF Level, Lifted, Blockers
<1>7. Level = [p \in calls |-> Lifted(Level, p)]
    <2> HIDE DEF calls
    <2> QED BY <1>5, <1>6
<1>8. \A p \in calls : Level[p] = Lifted(Level, p)
    <2> HIDE DEF calls
    <2> QED BY <1>7
<1> DEFINE Odd == {m \in Nat : \E p \in calls : Position(p[1]) = m /\ Level[p] # f[p]}
<1>9. Odd = {}
    <2> SUFFICES ASSUME Odd # {} PROVE FALSE
        OBVIOUS
    <2>1. PICK m \in Odd : \A k \in Odd : m <= k
        BY LeastNumber
    <2>2. PICK p \in calls : Position(p[1]) = m /\ Level[p] # f[p]
        BY <2>1
    <2>3. ASSUME NEW b \in Blockers(p[1])
          PROVE  Level[<<b, p[2] \cup {p[1]}>>] = f[<<b, p[2] \cup {p[1]}>>]
        <3>1. <<p[1], b>> \in deps
            BY DEF Blockers
        <3>2. b \in Known /\ Position(b) \in Nat /\ Position(b) < m
            BY <1>1, <2>2, <3>1, DerivedOrder
        <3>3. Position(b) \notin Odd
            BY <2>1, <3>2
        <3>4. <<b, p[2] \cup {p[1]}>> \in calls
            BY <2>2, <3>2
        <3> HIDE DEF calls
        <3> QED BY <3>2, <3>3, <3>4
    <2>4. Lifted(Level, p) = Lifted(f, p)
        BY <2>3, LiftedSame
    <2> QED BY <1>4, <1>8, <2>2, <2>4
<1>10. \A p \in calls : Level[p] = f[p]
    <2> SUFFICES ASSUME NEW p \in calls, Level[p] # f[p] PROVE FALSE
        OBVIOUS
    <2>1. Position(p[1]) \in Nat
        BY <1>1
    <2> HIDE DEF calls
    <2>2. Position(p[1]) \in Odd
        BY <2>1
    <2> QED BY <1>9, <2>2
<1> QED BY <1>4, <1>8, <1>10

\* No item is met on the way to itself: what compute has seen does not matter.
LEMMA SeenDoesNotMatter ==
    ASSUME PlanIInv, pc = "derived", NEW x \in Known, NEW seen \in SUBSET Known,
           \A z \in seen : Position(z) > Position(x)
    PROVE  Level[<<x, seen>>] = WaveOf(x)
<1> DEFINE Later(w, s) == \A z \in s : Position(z) > Position(w)
           Odd == {m \in Nat : \E w \in Known, s \in SUBSET Known :
                       Position(w) = m /\ Later(w, s) /\ Level[<<w, s>>] # WaveOf(w)}
<1>1. \A w \in Known : Position(w) \in Nat
    BY DerivedOrder
<1>2. Odd = {}
    <2> SUFFICES ASSUME Odd # {} PROVE FALSE
        OBVIOUS
    <2>1. PICK m \in Odd : \A k \in Odd : m <= k
        BY LeastNumber
    <2>2. PICK w \in Known, s \in SUBSET Known :
              Position(w) = m /\ Later(w, s) /\ Level[<<w, s>>] # WaveOf(w)
        BY <2>1
    <2>3. w \notin s
        BY <1>1, <2>2
    <2>4. ASSUME NEW b \in Blockers(w), NEW t \in {s, {}}
          PROVE  Level[<<b, t \cup {w}>>] = WaveOf(b)
        <3>1. <<w, b>> \in deps
            BY DEF Blockers
        <3>2. b \in Known /\ Position(b) \in Nat /\ Position(b) < m
            BY <1>1, <2>2, <3>1, DerivedOrder
        <3>3. Position(b) \notin Odd
            BY <2>1, <3>2
        <3>4. Later(b, t \cup {w})
            BY <1>1, <2>2, <3>2
        <3>5. t \cup {w} \in SUBSET Known
            BY <2>2
        <3> HIDE DEF Later
        <3> QED BY <3>2, <3>3, <3>4, <3>5
    <2>5. \A t \in {s, {}} :
              Lifted(Level, <<w, t>>) = Max({0} \cup {WaveOf(b) + 1 : b \in Blockers(w)})
        <3> SUFFICES ASSUME NEW t \in {s, {}}
                     PROVE  Lifted(Level, <<w, t>>)
                                = Max({0} \cup {WaveOf(b) + 1 : b \in Blockers(w)})
            OBVIOUS
        <3> DEFINE called(b) == Level[<<b, t \cup {w}>>]
        <3>1. Lifted(Level, <<w, t>>) = Max({0} \cup {called(b) + 1 : b \in Blockers(w)})
            BY <2>3 DEF Lifted
        <3>2. \A b \in Blockers(w) : called(b) = WaveOf(b)
            BY <2>4
        <3> HIDE DEF called
        <3>3. {called(b) + 1 : b \in Blockers(w)} = {WaveOf(b) + 1 : b \in Blockers(w)}
            BY <3>2
        <3> QED BY <3>1, <3>3
    <2>6. Level[<<w, s>>] = Level[<<w, {}>>]
        <3>1. /\ Level[<<w, s>>] = Lifted(Level, <<w, s>>)
              /\ Level[<<w, {}>>] = Lifted(Level, <<w, {}>>)
            BY LevelComputed
        <3> QED BY <2>5, <3>1
    <2> QED BY <2>2, <2>6 DEF WaveOf
<1>3. Position(x) \notin Odd
    BY <1>2
<1>4. Later(x, seen)
    OBVIOUS
<1> HIDE DEF Later
<1> QED BY <1>1, <1>3, <1>4

\* An item's wave is one more than the highest among what it depends on.
LEMMA WaveLifted ==
    ASSUME PlanIInv, pc = "derived", NEW x \in Known
    PROVE  /\ WaveOf(x) \in Nat
           /\ \A b \in Blockers(x) : b \in Known /\ WaveOf(b) < WaveOf(x)
           /\ WaveOf(x) # 0 => \E b \in Blockers(x) : WaveOf(x) = WaveOf(b) + 1
<1> DEFINE L == {0} \cup {WaveOf(b) + 1 : b \in Blockers(x)}
<1>1. \A z \in Known : WaveOf(z) \in 0..Len(tickets) /\ Len(tickets) \in Nat
    BY LevelComputed, DerivedOrder DEF WaveOf
<1>2. \A b \in Blockers(x) : b \in Known /\ Level[<<b, {x}>>] = WaveOf(b)
    <2> SUFFICES ASSUME NEW b \in Blockers(x)
                 PROVE  b \in Known /\ Level[<<b, {x}>>] = WaveOf(b)
        OBVIOUS
    <2>1. <<x, b>> \in deps
        BY DEF Blockers
    <2>2. /\ b \in Known /\ Position(b) < Position(x)
          /\ Position(b) \in Nat /\ Position(x) \in Nat
        BY <2>1, DerivedOrder
    <2>3. \A z \in {x} : Position(z) > Position(b)
        BY <2>2
    <2> QED BY <2>2, <2>3, SeenDoesNotMatter
<1>3. WaveOf(x) = Max(L)
    <2> DEFINE called(b) == Level[<<b, {} \cup {x}>>]
    <2>1. WaveOf(x) = Lifted(Level, <<x, {}>>)
        BY LevelComputed DEF WaveOf
    <2>2. Lifted(Level, <<x, {}>>) = Max({0} \cup {called(b) + 1 : b \in Blockers(x)})
        BY DEF Lifted
    <2>3. \A b \in Blockers(x) : called(b) = WaveOf(b)
        <3>1. {} \cup {x} = {x}
            OBVIOUS
        <3> QED BY <1>2, <3>1
    <2> HIDE DEF called
    <2>4. {called(b) + 1 : b \in Blockers(x)} = {WaveOf(b) + 1 : b \in Blockers(x)}
        BY <2>3
    <2> QED BY <2>1, <2>2, <2>4
<1>4. Max(L) \in L /\ \A m \in L : Max(L) >= m
    <2>1. Len(tickets) \in Nat /\ Len(tickets) + 1 \in Nat
        BY DerivedOrder
    <2>2. ASSUME NEW b \in Blockers(x) PROVE WaveOf(b) + 1 \in 0..(Len(tickets) + 1)
        <3>1. b \in Known
            BY <1>2
        <3>2. WaveOf(b) \in 0..Len(tickets)
            BY <1>1, <3>1
        <3> QED BY <2>1, <3>2
    <2>3. L \subseteq 0..(Len(tickets) + 1) /\ L # {}
        BY <2>1, <2>2
    <2> HIDE DEF L
    <2>4. L \in SUBSET Nat /\ \A m \in L : m <= Len(tickets) + 1
        BY <2>1, <2>3
    <2> QED BY <2>1, <2>3, <2>4, MaxIsGreatest
<1>5. \A b \in Blockers(x) : WaveOf(b) + 1 \in L
    OBVIOUS
<1>6. \A m \in L : m = 0 \/ \E b \in Blockers(x) : m = WaveOf(b) + 1
    OBVIOUS
<1> HIDE DEF L
<1>7. WaveOf(x) \in Nat /\ \A b \in Blockers(x) : WaveOf(b) \in Nat
    <2>1. \A z \in Known : WaveOf(z) \in Nat
        BY <1>1
    <2>2. \A b \in Blockers(x) : b \in Known
        BY <1>2
    <2> QED BY <2>1, <2>2
<1>8. \A b \in Blockers(x) : WaveOf(b) < WaveOf(x)
    <2> SUFFICES ASSUME NEW b \in Blockers(x) PROVE WaveOf(b) < WaveOf(x)
        OBVIOUS
    <2>1. WaveOf(x) >= WaveOf(b) + 1
        BY <1>3, <1>4, <1>5
    <2> QED BY <1>7, <2>1
<1> QED BY <1>2, <1>3, <1>4, <1>6, <1>7, <1>8

\* The waves the tickets are built in: for every plan over every finite set of
\* items, a ticket is built in a later wave than everything it depends on, and
\* every wave up to the last one has a ticket.
THEOREM PlanWaves == Spec => []WavesSeparateDependents
<1>1. PlanIInv => WavesSeparateDependents
    <2> SUFFICES ASSUME PlanIInv, pc = "derived" PROVE
              /\ \A x, y \in Known : DependsOn(x, y) => WaveOf(y) < WaveOf(x)
              /\ \A x \in Known : \A k \in 0..WaveOf(x) : \E y \in Known : WaveOf(y) = k
        BY DEF WavesSeparateDependents
    <2>1. ASSUME NEW x \in Known, NEW y \in Known, DependsOn(x, y)
          PROVE  WaveOf(y) < WaveOf(x)
        <3> DEFINE height == [z \in Known |-> WaveOf(z)]
        <3>1. \A d \in deps : d[1] \in Known /\ d[2] \in Known
            BY DerivedOrder
        <3>2. \A d \in deps : d[2] \in Blockers(d[1])
            <4>1. \A d \in deps : d = <<d[1], d[2]>>
                BY DEF PlanIInv, PlanTypes
            <4> QED BY <3>1, <4>1, DerivedOrder DEF Blockers
        <3>3. /\ \A z \in Known : height[z] \in Nat
              /\ \A d \in deps : height[d[2]] < height[d[1]]
            BY <3>1, <3>2, WaveLifted
        <3>4. height[y] < height[x]
            <4> HIDE DEF height
            <4> QED BY <2>1, <3>1, <3>3, FallsToBlockers
        <3> QED BY <3>4
    <2>2. ASSUME NEW x \in Known, NEW k \in 0..WaveOf(x),
                 ~ \E y \in Known : WaveOf(y) = k
          PROVE  FALSE
        <3> DEFINE Above == {m \in Nat : m > k /\ \E z \in Known : WaveOf(z) = m}
        <3>1. WaveOf(x) \in Above
            BY <2>2, WaveLifted
        <3>2. PICK m \in Above : \A n \in Above : m <= n
            BY <3>1, LeastNumber
        <3>3. PICK z \in Known : WaveOf(z) = m
            BY <3>2
        <3>4. PICK b \in Blockers(z) : m = WaveOf(b) + 1
            BY <2>2, <3>2, <3>3, WaveLifted
        <3>5. b \in Known /\ WaveOf(b) \in Nat
            BY <3>3, <3>4, WaveLifted
        <3>6. WaveOf(b) # k
            BY <2>2, <3>5
        <3>7. WaveOf(b) \in Above
            BY <2>2, <3>2, <3>4, <3>5, <3>6
        <3> QED BY <3>2, <3>4, <3>5, <3>7
    <2> QED BY <2>1, <2>2
<1> QED BY <1>1, PlanInvariant, PTL

-----------------------------------------------------------------------------
(* SprintPlan: every loop comes to an end                                  *)

Round == Cardinality(Known) + 1

\* A bound on the steps that are left.
StepsLeft ==
    CASE pc = "kahn" -> (Len(sprints) + 1) * Round + 2 + Cardinality(Left)
      [] pc = "judge" -> (Len(sprints) + 1) * Round + 1
      [] pc = "sort" -> (Len(sprints) + 1 - sprint) * Round + Cardinality(ToSet(remaining))
      [] OTHER -> 0

\* One sprint more is worth a round, more than its items.
LEMMA RoundsFit ==
    ASSUME NEW n \in Nat
    PROVE  /\ Round \in Nat /\ Round = Cardinality(Known) + 1 /\ Cardinality(Known) \in Nat
           /\ n * Round \in Nat /\ (n + 1) * Round = n * Round + Round
<1>1. Cardinality(Known) \in Nat
    BY PlanAssumption, FS_CardinalityType
<1>2. Round \in Nat
    BY <1>1 DEF Round
<1> HIDE DEF Round
<1>3. n * Round \in Nat /\ (n + 1) * Round = n * Round + Round
    BY <1>2
<1> QED BY <1>1, <1>2, <1>3 DEF Round

LEMMA RemainingCounted ==
    ASSUME PlanTypes
    PROVE  /\ IsFiniteSet(ToSet(remaining)) /\ Cardinality(ToSet(remaining)) \in Nat
           /\ Cardinality(ToSet(remaining)) < Round
<1>1. ToSet(remaining) \in SUBSET Known
    BY Places DEF PlanTypes, ToSet
<1>2. /\ IsFiniteSet(ToSet(remaining)) /\ Cardinality(ToSet(remaining)) \in Nat
      /\ Cardinality(ToSet(remaining)) <= Cardinality(Known)
    BY <1>1, PlanAssumption, FS_Subset, FS_CardinalityType
<1> QED BY <1>2, RoundsFit

LEMMA StepsLeftNatural == PlanIInv => StepsLeft \in Nat
<1> SUFFICES ASSUME PlanIInv PROVE StepsLeft \in Nat
    OBVIOUS
<1>1. Len(sprints) + 1 \in Nat /\ Cardinality(Left) \in Nat
      /\ Cardinality(ToSet(remaining)) \in Nat
    BY SprintPlaces, LeftCounted, RemainingCounted DEF PlanIInv
<1>2. Len(sprints) + 1 - sprint \in Nat
    BY <1>1, SprintPlaces DEF PlanIInv, PlanTypes
<1>3. (Len(sprints) + 1) * Round \in Nat /\ (Len(sprints) + 1 - sprint) * Round \in Nat
    BY <1>1, <1>2, RoundsFit
<1> HIDE DEF Round
<1> QED BY <1>1, <1>3 DEF StepsLeft

RunsOut == /\ StepsLeft \in Nat /\ StepsLeft' \in Nat
           /\ StepsLeft' < StepsLeft

\* Every step brings the end nearer: what PlanSettles rests on, besides the
\* fairness that a step is taken.  A bound on the steps of any plan.
THEOREM PlanRunsOut == Spec => [][RunsOut]_vars
<1>1. ASSUME PlanIInv, PlanIInv', Next PROVE RunsOut
    <2>1. StepsLeft \in Nat /\ StepsLeft' \in Nat
        <3>1. (PlanIInv => StepsLeft \in Nat)'
            BY StepsLeftNatural, PTL
        <3> QED BY <1>1, <3>1, StepsLeftNatural
    <2>2. PlanTypes /\ PlanTypes'
        BY <1>1 DEF PlanIInv
    <2>3. Len(sprints) \in Nat /\ Len(sprints) + 1 \in Nat
        BY <2>2, SprintPlaces
    <2>4. ASSUME NEW x \in Known, Pop(x) PROVE StepsLeft' < StepsLeft
        <3>1. /\ pc = "kahn" /\ pc' = "kahn" /\ sprints' = sprints
              /\ processed' = processed + 1
            BY <2>4 DEF Pop, plan
        <3>2. Cardinality(Left)' < Cardinality(Left)
              /\ Cardinality(Left) \in Nat /\ Cardinality(Left)' \in Nat
            <4>1. /\ processed + Cardinality(Left) = Cardinality(Known)
                  /\ processed' + Cardinality(Left)' = Cardinality(Known)
                  /\ processed \in Nat /\ processed' \in Nat
                BY <1>1 DEF PlanIInv, KahnLoop, PlanTypes
            <4>2. (PlanTypes => Cardinality(Left) \in Nat)'
                BY LeftCounted, PTL
            <4>3. Cardinality(Left) \in Nat /\ Cardinality(Left)' \in Nat
                BY <2>2, <4>2, LeftCounted
            <4> QED BY <3>1, <4>1, <4>3
        <3>3. (Len(sprints) + 1) * Round \in Nat
            BY <2>3, RoundsFit
        <3>4. /\ StepsLeft = (Len(sprints) + 1) * Round + 2 + Cardinality(Left)
              /\ StepsLeft' = (Len(sprints) + 1) * Round + 2 + Cardinality(Left)'
            BY <3>1 DEF StepsLeft
        <3> HIDE DEF Round
        <3> QED BY <3>2, <3>3, <3>4
    <2>5. ASSUME CycleChecked PROVE StepsLeft' < StepsLeft
        <3>1. pc = "kahn" /\ pc' = "judge" /\ sprints' = sprints
            BY <2>5 DEF CycleChecked, plan
        <3>2. (Len(sprints) + 1) * Round \in Nat /\ Cardinality(Left) \in Nat
            BY <2>2, <2>3, RoundsFit, LeftCounted
        <3>3. /\ StepsLeft = (Len(sprints) + 1) * Round + 2 + Cardinality(Left)
              /\ StepsLeft' = (Len(sprints) + 1) * Round + 1
            BY <3>1 DEF StepsLeft
        <3> HIDE DEF Round
        <3> QED BY <3>2, <3>3
    <2>6. ASSUME Judge PROVE StepsLeft' < StepsLeft
        <3>1. /\ pc = "judge" /\ pc' \in {"refused", "derived", "sort"}
              /\ sprints' = sprints /\ sprint' = 1
            BY <1>1, <2>6 DEF Judge, plan, PlanIInv, Staged
        <3>2. /\ (Len(sprints) + 1) * Round = Len(sprints) * Round + Round
              /\ Len(sprints) * Round \in Nat /\ Round \in Nat
            BY <2>3, RoundsFit
        <3>3. Cardinality(ToSet(remaining))' \in Nat /\ Cardinality(ToSet(remaining))' < Round
            <4>1. (PlanTypes => /\ Cardinality(ToSet(remaining)) \in Nat
                                /\ Cardinality(ToSet(remaining)) < Round)'
                BY RemainingCounted, PTL
            <4> QED BY <2>2, <4>1 DEF Round
        <3>4. StepsLeft = (Len(sprints) + 1) * Round + 1
            BY <3>1 DEF StepsLeft
        <3>5. \/ StepsLeft' = 0
              \/ StepsLeft' = Len(sprints) * Round + Cardinality(ToSet(remaining))'
            <4>1. Len(sprints) + 1 - 1 = Len(sprints)
                BY <2>3
            <4> QED BY <3>1, <4>1 DEF StepsLeft
        <3> HIDE DEF Round
        <3> QED BY <3>2, <3>3, <3>4, <3>5
    <2>7. ASSUME SortRound PROVE StepsLeft' < StepsLeft
        <3>1. /\ pc = "sort" /\ pc' = "sort" /\ sprints' = sprints /\ sprint' = sprint
              /\ remaining # <<>>
            BY <2>7 DEF SortRound, plan
        <3>2. Progress # {} /\ Progress \subseteq ToSet(remaining)
            BY <1>1, <3>1, ThereIsProgress DEF Progress
        <3>3. ToSet(remaining)' = ToSet(remaining) \ Progress
            <4>1. remaining' = Kept(remaining, ToSet(remaining) \ Progress)
                BY <2>7, <3>2 DEF SortRound
            <4>2. ToSet(remaining') = ToSet(remaining) \cap (ToSet(remaining) \ Progress)
                BY <2>2, <4>1, KeptItems DEF PlanTypes
            <4> QED BY <4>2
        <3>4. /\ Cardinality(ToSet(remaining))' < Cardinality(ToSet(remaining))
              /\ Cardinality(ToSet(remaining)) \in Nat
              /\ Cardinality(ToSet(remaining))' \in Nat
            <4>1. ToSet(remaining)' \in SUBSET ToSet(remaining) /\ ToSet(remaining)' # ToSet(remaining)
                BY <3>2, <3>3
            <4> QED BY <2>2, <4>1, RemainingCounted, FS_Subset, FS_CardinalityType
        <3>5. (Len(sprints) + 1 - sprint) * Round \in Nat
            <4>1. Len(sprints) + 1 - sprint \in Nat
                BY <2>2, <2>3 DEF PlanTypes
            <4> QED BY <4>1, RoundsFit
        <3>6. /\ StepsLeft = (Len(sprints) + 1 - sprint) * Round + Cardinality(ToSet(remaining))
              /\ StepsLeft' = (Len(sprints) + 1 - sprint) * Round + Cardinality(ToSet(remaining))'
            BY <3>1 DEF StepsLeft
        <3> HIDE DEF Round
        <3> QED BY <3>4, <3>5, <3>6
    <2>8. ASSUME SprintSorted PROVE StepsLeft' < StepsLeft
        <3>1. /\ pc = "sort" /\ pc' \in {"sort", "derived"}
              /\ sprints' = sprints /\ sprint' = sprint + 1
            BY <2>8 DEF SprintSorted, plan
        <3>2. sprint \in DOMAIN sprints
            BY <1>1, <3>1 DEF PlanIInv, Sorting
        <3>3. PICK n \in Nat : Len(sprints) + 1 - sprint = n + 1
            <4>1. Len(sprints) - sprint \in Nat
                  /\ Len(sprints) + 1 - sprint = (Len(sprints) - sprint) + 1
                BY <2>2, <3>2, SprintPlaces
            <4> QED BY <4>1
        <3>4. Len(sprints) + 1 - (sprint + 1) = n
            BY <2>2, <2>3, <3>2, <3>3, SprintPlaces
        <3>5. (n + 1) * Round = n * Round + Round /\ n * Round \in Nat /\ Round \in Nat
            BY RoundsFit
        <3>6. Cardinality(ToSet(remaining))' \in Nat /\ Cardinality(ToSet(remaining))' < Round
            <4>1. (PlanTypes => /\ Cardinality(ToSet(remaining)) \in Nat
                                /\ Cardinality(ToSet(remaining)) < Round)'
                BY RemainingCounted, PTL
            <4> QED BY <2>2, <4>1 DEF Round
        <3>7. Cardinality(ToSet(remaining)) \in Nat
            BY <2>2, RemainingCounted
        <3>8. StepsLeft = (n + 1) * Round + Cardinality(ToSet(remaining))
            BY <3>1, <3>3 DEF StepsLeft
        <3>9. StepsLeft' = 0 \/ StepsLeft' = n * Round + Cardinality(ToSet(remaining))'
            BY <3>1, <3>4 DEF StepsLeft
        <3>10. Round > 0
            BY RoundsFit
        <3> HIDE DEF Round
        <3> QED BY <3>5, <3>6, <3>7, <3>8, <3>9, <3>10
    <2> QED BY <1>1, <2>1, <2>4, <2>5, <2>6, <2>7, <2>8 DEF Next, RunsOut
<1>2. PlanIInv /\ PlanIInv' /\ [Next]_vars => [RunsOut]_vars
    BY <1>1
<1> QED BY <1>2, PlanInvariant, PTL DEF Spec
=============================================================================
