------------------------------ MODULE Portfolio ------------------------------
(***************************************************************************)
(* run_projects of pm_system/orchestrator/multi.py, in one or several      *)
(* processes, and the Knowledge Base of pm_system/kb/store.py its projects *)
(* write to when they end.                                                 *)
(*                                                                         *)
(* A process has one KnowledgeBase: one SQLite connection and one          *)
(* threading.Lock around add.  Processes share the file.  add is SELECT    *)
(* COUNT, INSERT under the next id, commit; query takes no lock.  An       *)
(* exception inside add ends the with block, so the lock is given back,    *)
(* and ends the project; nothing rolls the connection's transaction back.  *)
(*                                                                         *)
(* SQLite's part (rollback journal, Python's deferred transactions) is     *)
(* the field lock of a connection: a statement begins a transaction, reads *)
(* inside one keep SHARED, a write takes RESERVED, a commit needs everyone *)
(* else's SHARED gone and leaves PENDING, which shuts new readers out,     *)
(* when it gives up.  A statement waits for a lock or gives up.            *)
(***************************************************************************)
EXTENDS Naturals, FiniteSets, Sequences, SequencesExt

CONSTANTS
    Processes,
    JobsOf,        \* the list of jobs each process hands to run_projects
    Workers,       \* threads of each process's pool
    MaxEntries,    \* bound: entries a retrospective writes
    MaxExits,      \* bound: processes that end before their batch is over
    Nobody         \* no job

Jobs == UNION {ToSet(JobsOf[p]) : p \in Processes}

ASSUME PortfolioAssumption ==
    /\ Workers \in [Processes -> Nat \ {0}] /\ MaxEntries \in Nat /\ MaxExits \in Nat
    /\ JobsOf \in [Processes -> Seq(Jobs)]
    /\ \A p \in Processes : IsInjective(JobsOf[p])
    /\ \A p, q \in Processes : p # q => ToSet(JobsOf[p]) \cap ToSet(JobsOf[q]) = {}
    /\ Nobody \notin Jobs

Ended == {"returned", "raised", "killed"}

VARIABLES
    file,    \* committed entries: id -> the job that added it
    conn,    \* each process's connection: its lock and its uncommitted rows
    mutex,   \* KnowledgeBase._lock of each process: the job inside add
    pc,      \* where each job is
    count,   \* the COUNT(*) of a job's add
    left,    \* entries a job has still to add
    added,   \* ids of the entries whose add returned to the job
    spoiled, \* history: jobs that the Knowledge Base made raise
    batch,   \* run_projects: "running" or over
    results  \* the jobs whose result it has collected, a prefix of the list

kb == <<file, conn, mutex>>
vars == <<kb, pc, count, left, added, spoiled, batch, results>>

Home == [j \in Jobs |-> CHOOSE p \in Processes : j \in ToSet(JobsOf[p])]
JobsIn == [p \in Processes |-> ToSet(JobsOf[p])]
Locks == {"none", "open", "shared", "reserved", "pending"}
Writers == {"reserved", "pending"}

\* Rows of the entries table: id -> the job that added the entry.
Table(f) == DOMAIN f \subseteq Nat \ {0} /\ f \in [DOMAIN f -> Jobs]

TypeOK ==
    /\ Table(file)
    /\ conn = [p \in Processes |-> [lock |-> conn[p].lock, rows |-> conn[p].rows]]
    /\ \A p \in Processes : conn[p].lock \in Locks /\ Table(conn[p].rows)
    /\ mutex \in [Processes -> Jobs \cup {Nobody}]
    /\ pc \in [Jobs -> {"queued", "planning", "building", "mining", "insert",
                        "commit"} \cup Ended]
    /\ count \in [Jobs -> Nat]
    /\ left \in [Jobs -> 0..MaxEntries]
    /\ added \in [Jobs -> SUBSET (Nat \ {0})]
    /\ spoiled \subseteq Jobs
    /\ batch \in [Processes -> {"running"} \cup Ended]
    /\ results \in [Processes -> Nat]
    /\ \A p \in Processes : results[p] <= Len(JobsOf[p])

Closed == [lock |-> "none", rows |-> <<>>]

Init ==
    /\ file = <<>>
    /\ conn = [p \in Processes |-> Closed]
    /\ mutex = [p \in Processes |-> Nobody]
    /\ pc = [j \in Jobs |-> "queued"]
    /\ count = [j \in Jobs |-> 0] /\ left = [j \in Jobs |-> 0]
    /\ added = [j \in Jobs |-> {}]
    /\ spoiled = {}
    /\ batch = [p \in Processes |-> "running"]
    /\ results = [p \in Processes |-> 0]

-----------------------------------------------------------------------------
(* SQLite                                                                  *)

Others(p) == Processes \ {p}
HasShared(p) == conn[p].lock \in {"shared"} \cup Writers

\* Another connection keeps p from reading, from writing, from committing.
ReadBarred(p) == ~ HasShared(p) /\ \E q \in Others(p) : conn[q].lock = "pending"
WriteBarred(p) == \E q \in Others(p) : conn[q].lock \in Writers
CommitBarred(p) == \E q \in Others(p) : conn[q].lock = "shared"

\* A SELECT keeps its SHARED lock only inside an open transaction.
AfterRead(p) ==
    IF conn[p].lock = "open" THEN [conn EXCEPT ![p].lock = "shared"] ELSE conn

\* What connection p sees: the file and its own uncommitted rows.
Seen(p) == DOMAIN file \cup DOMAIN conn[p].rows

\* Rows of two disjoint tables together.
Merged(f, g) ==
    [i \in DOMAIN f \cup DOMAIN g |-> IF i \in DOMAIN g THEN g[i] ELSE f[i]]

-----------------------------------------------------------------------------
(* The jobs of one process on its thread pool                              *)

\* The pool's next worker takes the first job that is queued.
Start(j) ==
    LET p == Home[j]
        busy == {i \in JobsIn[p] : pc[i] \notin Ended \cup {"queued"}}
    IN  /\ pc[j] = "queued"
        /\ Cardinality(busy) < Workers[p]
        /\ \A k \in 1..Len(JobsOf[p]) :
            pc[JobsOf[p][k]] = "queued" =>
                \E m \in 1..k : JobsOf[p][m] = j
        /\ pc' = [pc EXCEPT ![j] = "planning"]
        /\ UNCHANGED <<kb, count, left, added, spoiled, batch, results>>

\* The estimator's and the architect's query of the Knowledge Base.
Query(j) ==
    /\ pc[j] = "planning" /\ ~ ReadBarred(Home[j])
    /\ conn' = AfterRead(Home[j])
    /\ pc' = [pc EXCEPT ![j] = "building"]
    /\ UNCHANGED <<file, mutex, count, left, added, spoiled, batch, results>>

\* run_project raises what it does not catch, or comes to its retrospective.
RunRaises(j) ==
    /\ pc[j] = "building"
    /\ pc' = [pc EXCEPT ![j] = "raised"]
    /\ UNCHANGED <<kb, count, left, added, spoiled, batch, results>>

Mine(j) ==
    /\ pc[j] = "building"
    /\ pc' = [pc EXCEPT ![j] = "mining"]
    /\ \E n \in 0..MaxEntries : left' = [left EXCEPT ![j] = n]
    /\ UNCHANGED <<kb, count, added, spoiled, batch, results>>

\* Mutant of Count: the count is taken before the lock.
CountUnlocked(j) ==
    /\ pc[j] = "mining" /\ left[j] > 0
    /\ ~ ReadBarred(Home[j])
    /\ conn' = AfterRead(Home[j])
    /\ count' = [count EXCEPT ![j] = Cardinality(Seen(Home[j]))]
    /\ pc' = [pc EXCEPT ![j] = "insert"]
    /\ UNCHANGED <<file, mutex, left, added, spoiled, batch, results>>

\* add: the lock, then SELECT COUNT(*).
Count(j) ==
    LET p == Home[j]
    IN  /\ pc[j] = "mining" /\ left[j] > 0
        /\ mutex[p] = Nobody /\ ~ ReadBarred(p)
        /\ mutex' = [mutex EXCEPT ![p] = j]
        /\ conn' = AfterRead(p)
        /\ count' = [count EXCEPT ![j] = Cardinality(Seen(p))]
        /\ pc' = [pc EXCEPT ![j] = "insert"]
        /\ UNCHANGED <<file, left, added, spoiled, batch, results>>

NextId(j) == count[j] + 1

\* add: the INSERT under the next id.
Insert(j) ==
    LET p == Home[j]
    IN  /\ pc[j] = "insert" /\ ~ WriteBarred(p)
        /\ NextId(j) \notin Seen(p)
        /\ conn' = [conn EXCEPT ![p] =
               [lock |-> IF @.lock = "pending" THEN "pending" ELSE "reserved",
                rows |-> Merged(@.rows, [i \in {NextId(j)} |-> j])]]
        /\ pc' = [pc EXCEPT ![j] = "commit"]
        /\ UNCHANGED <<file, mutex, count, left, added, spoiled, batch, results>>

\* Mutant of Commit: add returns without a commit.
CommitForgotten(j) ==
    LET p == Home[j]
    IN  /\ pc[j] = "commit" /\ ~ CommitBarred(p)
        /\ mutex' = [mutex EXCEPT ![p] = Nobody]
        /\ added' = [added EXCEPT ![j] = @ \cup {NextId(j)}]
        /\ left' = [left EXCEPT ![j] = @ - 1]
        /\ pc' = [pc EXCEPT ![j] = "mining"]
        /\ count' = [count EXCEPT ![j] = 0]
        /\ UNCHANGED <<file, conn, spoiled, batch, results>>

\* add: the commit; it ends the transaction with everything that was in it.
Commit(j) ==
    LET p == Home[j]
    IN  /\ pc[j] = "commit" /\ ~ CommitBarred(p)
        /\ file' = Merged(file, conn[p].rows)
        /\ conn' = [conn EXCEPT ![p] = Closed]
        /\ mutex' = [mutex EXCEPT ![p] = Nobody]
        /\ added' = [added EXCEPT ![j] = @ \cup {NextId(j)}]
        /\ left' = [left EXCEPT ![j] = @ - 1]
        /\ pc' = [pc EXCEPT ![j] = "mining"]
        /\ count' = [count EXCEPT ![j] = 0]
        /\ UNCHANGED <<spoiled, batch, results>>

\* Mutant of Raise: add has acquire and release and no with.
RaiseInside(j, lock) ==
    /\ conn' = [conn EXCEPT ![Home[j]].lock = lock]
    /\ pc' = [pc EXCEPT ![j] = "raised"]
    /\ spoiled' = spoiled \cup {j}
    /\ UNCHANGED <<file, mutex, count, left, added, batch, results>>

\* A statement of j raises and leaves the connection with this lock: the with
\* block gives the mutex back, run_project does not catch the error.
Raise(j, lock) ==
    LET p == Home[j]
    IN  /\ conn' = [conn EXCEPT ![p].lock = lock]
        /\ mutex' = [mutex EXCEPT ![p] = IF @ = j THEN Nobody ELSE @]
        /\ pc' = [pc EXCEPT ![j] = "raised"]
        /\ spoiled' = spoiled \cup {j}
        /\ count' = [count EXCEPT ![j] = 0] /\ left' = [left EXCEPT ![j] = 0]
        /\ UNCHANGED <<file, added, batch, results>>

\* OperationalError, "database is locked": the wait of a statement was too long.
QueryLocked(j) ==
    /\ pc[j] = "planning" /\ ReadBarred(Home[j])
    /\ Raise(j, conn[Home[j]].lock)

CountLocked(j) ==
    /\ pc[j] = "mining" /\ left[j] > 0
    /\ mutex[Home[j]] = Nobody /\ ReadBarred(Home[j])
    /\ Raise(j, conn[Home[j]].lock)

\* The transaction has begun all the same.
InsertLocked(j) ==
    LET p == Home[j]
    IN  /\ pc[j] = "insert" /\ WriteBarred(p)
        /\ Raise(j, IF conn[p].lock = "none" THEN "open" ELSE conn[p].lock)

\* IntegrityError: another process has taken the id since the count.  The
\* transaction has begun and keeps the write lock.
InsertDuplicate(j) ==
    LET p == Home[j]
    IN  /\ pc[j] = "insert" /\ ~ WriteBarred(p)
        /\ NextId(j) \in Seen(p)
        /\ Raise(j, IF conn[p].lock = "pending" THEN "pending" ELSE "reserved")

\* The row stays in the transaction, and no reader may start any more.
CommitLocked(j) ==
    /\ pc[j] = "commit" /\ CommitBarred(Home[j])
    /\ Raise(j, "pending")

\* run_project returns its result.
Return(j) ==
    /\ pc[j] = "mining" /\ left[j] = 0
    /\ pc' = [pc EXCEPT ![j] = "returned"]
    /\ UNCHANGED <<kb, count, left, added, spoiled, batch, results>>

Thread(j) ==
    \/ Start(j) \/ Query(j) \/ QueryLocked(j) \/ RunRaises(j) \/ Mine(j)
    \/ Count(j) \/ CountLocked(j) \/ Insert(j) \/ InsertLocked(j)
    \/ InsertDuplicate(j) \/ Commit(j) \/ CommitLocked(j) \/ Return(j)

-----------------------------------------------------------------------------
(* run_projects                                                            *)

NextJob(p) == JobsOf[p][results[p] + 1]

\* future.result() of the next job in the order of submission.
Collect(p) ==
    /\ batch[p] = "running" /\ results[p] < Len(JobsOf[p])
    /\ pc[NextJob(p)] = "returned"
    /\ results' = [results EXCEPT ![p] = @ + 1]
    /\ UNCHANGED <<kb, pc, count, left, added, spoiled, batch>>

\* future.result() raises what the job raised, or every result is there.
LoopOver(p) ==
    \/ results[p] = Len(JobsOf[p])
    \/ results[p] < Len(JobsOf[p]) /\ pc[NextJob(p)] = "raised"

\* What the caller gets.
Outcome(p) == IF results[p] = Len(JobsOf[p]) THEN "returned" ELSE "raised"

\* Mutant of Leave: nothing waits for the pool.
LeaveEarly(p) ==
    /\ batch[p] = "running" /\ LoopOver(p)
    /\ batch' = [batch EXCEPT ![p] = Outcome(p)]
    /\ UNCHANGED <<kb, pc, count, left, added, spoiled, results>>

\* The with block is left once ThreadPoolExecutor.__exit__ has seen every job
\* end, queued ones included.
Leave(p) ==
    /\ batch[p] = "running" /\ LoopOver(p)
    /\ \A j \in JobsIn[p] : pc[j] \in Ended
    /\ batch' = [batch EXCEPT ![p] = Outcome(p)]
    /\ UNCHANGED <<kb, pc, count, left, added, spoiled, results>>

Lead(p) == Collect(p) \/ Leave(p)

\* The process ends, at any moment: SQLite drops its transaction and locks.
Exit(p) ==
    /\ batch[p] # "killed"
    /\ Cardinality({q \in Processes : batch[q] = "killed"}) < MaxExits
    /\ batch' = [batch EXCEPT ![p] = "killed"]
    /\ pc' = [j \in Jobs |->
           IF Home[j] = p /\ pc[j] \notin Ended THEN "killed" ELSE pc[j]]
    /\ conn' = [conn EXCEPT ![p] = Closed]
    /\ mutex' = [mutex EXCEPT ![p] = Nobody]
    /\ count' = [j \in Jobs |-> IF Home[j] = p THEN 0 ELSE count[j]]
    /\ left' = [j \in Jobs |-> IF Home[j] = p THEN 0 ELSE left[j]]
    /\ UNCHANGED <<file, added, spoiled, results>>

Next ==
    \/ \E j \in Jobs : Thread(j)
    \/ \E p \in Processes : Lead(p) \/ Exit(p)

Spec == Init /\ [][Next]_vars

\* The threads of a process keep running; a statement that has to wait gives
\* up in the end.
Fairness ==
    /\ \A j \in Jobs : WF_vars(Thread(j))
    /\ \A p \in Processes : WF_vars(Lead(p))

FairSpec == Spec /\ Fairness

-----------------------------------------------------------------------------
\* What add returned is in the file for good, under an id of its own, whatever
\* the other processes do and wherever a process ends; ids have no gap, so
\* that the next count is the next free id.
EntriesKept ==
    /\ \A j \in Jobs : \A i \in added[j] : i \in DOMAIN file /\ file[i] = j
    /\ DOMAIN file = 1..Cardinality(DOMAIN file)

\* No other process has written or tried to.
Alone(p) ==
    \A q \in Others(p), j \in Jobs :
        Home[j] = q =>
            /\ added[j] = {}
            /\ pc[j] \in {"queued", "planning", "building", "mining", "insert"}

\* As long as one process has the file to itself, the Knowledge Base makes none
\* of its projects fail, however many of them mine at the same time.
AloneNeverFails ==
    \A j \in spoiled : ~ Alone(Home[j])

\* run_projects is not over before all its projects are, and returns exactly
\* when each of them did, with the result of each.
OverWhenAllEnded ==
    \A p \in Processes :
        LET mine == JobsIn[p]
        IN  /\ batch[p] \in {"returned", "raised"} => \A j \in mine : pc[j] \in Ended
            /\ batch[p] = "returned" =>
                results[p] = Len(JobsOf[p]) /\ \A j \in mine : pc[j] = "returned"
            /\ batch[p] = "raised" => \E j \in mine : pc[j] = "raised"

\* run_projects ends, also when the Knowledge Base refuses every write.
BatchEnds == \A p \in Processes : <>(batch[p] \in Ended)

-----------------------------------------------------------------------------
(* What the code does not do                                               *)

\* "return {project_id: ProjectResult}" (multi.py:25): a project that returned
\* has its result returned, also when another one raised.
ResultsReturned ==
    \A p \in Processes :
        batch[p] = "raised" =>
            \A j \in JobsIn[p] :
                pc[j] = "returned" => \E k \in 1..results[p] : JobsOf[p][k] = j

\* A process that is not inside add keeps no other process from writing.
IdleDoesNotBlock ==
    \A p \in Processes : mutex[p] = Nobody => conn[p].lock = "none"

\* Two processes never bar each other: one may not write, one not commit.
NoStandoff ==
    \A p, q \in Processes :
        p # q => ~ (conn[p].lock = "pending" /\ conn[q].lock = "shared"
                    /\ mutex[p] = Nobody /\ mutex[q] = Nobody)

\* Every entry in the file is one whose add has returned or is under way.
NoUnknownEntry ==
    \A i \in DOMAIN file : i \in added[file[i]]
=============================================================================
