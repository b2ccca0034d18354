------------------------------ MODULE SlackGate ------------------------------
(***************************************************************************)
(* SlackGate.request_approval of pm_system/gates/gate.py, called once per  *)
(* round by a gate loop of the orchestrator (_plan_with_gate1,             *)
(* _architecture_with_gate2): every round posts a message of its own and   *)
(* polls the thread of that message until a human decides in it or the     *)
(* deadline passes.  Time is discrete; the program's calls and sleeps may  *)
(* each run late by up to Latency.                                         *)
(***************************************************************************)
EXTENDS Naturals, Sequences, FiniteSetsExt

CONSTANTS
    MaxRounds,   \* OrchestratorConfig.max_retries
    Timeout,     \* SlackGate.timeout_s
    Poll,        \* SlackGate.poll_s
    Latency,     \* how late a call or a wake-up can be
    MaxReplies   \* bound: human replies, of all rounds together

ASSUME GateAssumption ==
    /\ {MaxRounds, Timeout, Poll} \subseteq Nat \ {0}
    /\ {Latency, MaxReplies} \subseteq Nat

VARIABLES
    now,       \* time.monotonic()
    call,        \* the next call of the gate loop
    due,       \* the latest time it can happen
    round,     \* the round of the gate loop
    deadline,  \* when each round stops polling, 0 where it has not begun
    threads,   \* the replies of each round's thread, oldest first
    answers    \* the answer of each round

gateVars == <<now, call, due, round, deadline, threads, answers>>

Rounds == 1..MaxRounds
Words == {"approve", "reject", "other"}    \* what the text of a reply begins with
Message == [word : Words, at : Nat]        \* and when it was sent

\* Bound on time: the most that MaxRounds rounds can take.
Latest == MaxRounds * (Timeout + Poll + 3 * Latency)

GateTypeOK ==
    /\ now \in Nat /\ due \in Nat
    /\ now <= due
    /\ call \in {"post", "fetch", "sleep", "over", "raised"}
    /\ round \in Rounds
    /\ deadline \in [Rounds -> Nat]
    /\ threads \in [Rounds -> Seq(Message)]
    /\ answers \in [Rounds -> {"none", "approve", "reject", "timeout"}]

GateInit ==
    /\ now = 0 /\ call = "post" /\ due = Latency
    /\ round = 1
    /\ deadline = [r \in Rounds |-> 0]
    /\ threads = [r \in Rounds |-> <<>>]
    /\ answers = [r \in Rounds |-> "none"]

\* Time passes, but no further than the next call can be late.
Tick ==
    /\ call \notin {"over", "raised"}
    /\ now < due /\ now < Latest
    /\ now' = now + 1
    /\ UNCHANGED <<call, due, round, deadline, threads, answers>>

\* A human replies in the thread of this round or of an earlier one.
Reply ==
    \E r \in Rounds, w \in Words :
        /\ deadline[r] # 0 /\ call \notin {"over", "raised"}
        /\ SumFunction([q \in Rounds |-> Len(threads[q])]) < MaxReplies
        /\ threads' = [threads EXCEPT ![r] = Append(@, [word |-> w, at |-> now])]
        /\ UNCHANGED <<now, call, due, round, deadline, answers>>

Continue(step, latest) == call' = step /\ due' = latest

\* chat_postMessage, then the first test of the loop's condition.
Post ==
    /\ call = "post"
    /\ deadline' = [deadline EXCEPT ![round] = now + Timeout]
    /\ Continue("fetch", now + Latency)
    /\ UNCHANGED <<now, round, threads, answers>>

Deciding(thread) == {n \in DOMAIN thread : thread[n].word # "other"}

\* Mutant of Decision: the last word counts.
LastDecision(thread) ==
    IF Deciding(thread) = {} THEN "none" ELSE thread[Max(Deciding(thread))].word

\* Mutant of Decision: only the newest reply is looked at.
NewestDecision(thread) ==
    IF Len(thread) \notin Deciding(thread) THEN "none" ELSE thread[Len(thread)].word

\* The first reply of a thread that decides.
Decision(thread) ==
    IF Deciding(thread) = {} THEN "none" ELSE thread[Min(Deciding(thread))].word

\* The round has its answer; the gate loop goes on unless it is an approval.
Settle(answer) ==
    /\ answers' = [answers EXCEPT ![round] = answer]
    /\ IF answer = "approve" \/ round = MaxRounds
       THEN Continue("over", now) /\ UNCHANGED round
       ELSE round' = round + 1 /\ Continue("post", now + Latency)

\* conversations_replies of the round's own thread.
Fetch ==
    /\ call = "fetch"
    /\ LET decision == Decision(threads[round]) IN
       \/ decision # "none" /\ Settle(decision)
       \/ /\ decision = "none"
          /\ Continue("sleep", now + Poll + Latency)
          /\ UNCHANGED <<round, answers>>
    /\ UNCHANGED <<now, deadline, threads>>

\* Mutant of Wake: the deadline is not looked at again.
WakePollsOn ==
    /\ call = "sleep" /\ now + Latency >= due
    /\ Continue("fetch", now + Latency)
    /\ UNCHANGED <<now, deadline, threads, round, answers>>

\* time.sleep is over: poll again before the deadline, time out after it.
Wake ==
    /\ call = "sleep" /\ now + Latency >= due
    /\ \/ now < deadline[round] /\ Continue("fetch", now + Latency) /\ UNCHANGED <<round, answers>>
       \/ now >= deadline[round] /\ Settle("timeout")
    /\ UNCHANGED <<now, deadline, threads>>

\* The Slack API refuses a call: nothing handles its error.
ApiError ==
    /\ call \in {"post", "fetch"}
    /\ Continue("raised", now)
    /\ UNCHANGED <<now, round, deadline, threads, answers>>

Program == Post \/ Fetch \/ Wake
GateNext == Tick \/ Reply \/ Program \/ ApiError

\* Time passes and the calls are made, whether a human replies or not.
GateSpec == GateInit /\ [][GateNext]_gateVars /\ WF_gateVars(Tick) /\ WF_gateVars(Program)

-----------------------------------------------------------------------------
\* A human's answer is the first deciding reply of the round's own thread:
\* neither a later change of mind nor a reply that comes late to an earlier
\* round's message decides this round.
FirstWordDecides ==
    \A r \in Rounds : answers[r] \in {"approve", "reject"} =>
        \E n \in DOMAIN threads[r] :
            /\ threads[r][n].word = answers[r]
            /\ \A m \in 1..(n - 1) : threads[r][m].word = "other"

\* A round times out only where no human decided by one poll (and the lateness
\* of the call and of the wake-up after it) before its deadline.
InTimeIsHeard ==
    \A r \in Rounds : answers[r] = "timeout" =>
        \A n \in DOMAIN threads[r] :
            threads[r][n].word # "other" =>
                threads[r][n].at + Poll + Latency >= deadline[r]

\* However late its calls are and whatever the humans do, the gate loop keeps
\* the run waiting for Latest at most; so the bound on time cuts nothing off.
NoCallAfterLatest == due <= Latest

\* The loop ends, with an answer or an error, without any help of a human.
RequestsEnd == <>(call \in {"over", "raised"})

\* "A threaded reply starting with 'approve' approves": up to the deadline.
ReplyBeforeDeadlineCounts ==
    \A r \in Rounds : answers[r] = "timeout" =>
        \A n \in DOMAIN threads[r] :
            threads[r][n].word # "other" => threads[r][n].at >= deadline[r]
=============================================================================
