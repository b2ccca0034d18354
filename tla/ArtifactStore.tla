--------------------------- MODULE ArtifactStore ---------------------------
(***************************************************************************)
(* pm_system/artifacts/store.py as it runs: one SQLite connection shared   *)
(* by every thread, a threading.Lock around the writers (put, set_status), *)
(* no lock around the readers (get, get_for_consumption, _latest_row from  *)
(* Orchestrator._current_version).  A writer's UPDATE and INSERT are in    *)
(* the connection's open transaction, which every reader on that           *)
(* connection sees, until commit() makes them durable.                     *)
(*                                                                         *)
(* table is what the connection sees, disk what is committed.  A put is    *)
(* the caller's unlocked read of the version, then lock + check + UPDATE,  *)
(* then INSERT, then commit and unlock.  Crash is the end of the process   *)
(* and its restart on the same database file.                              *)
(***************************************************************************)
EXTENDS Naturals, ArtifactStatuses

CONSTANTS
    Threads, Artifacts, MaxVersion, Moves, Nobody

ASSUME StoreAssumption ==
    /\ MaxVersion \in Nat
    /\ Moves \subseteq ArtifactStatus
    /\ Nobody \notin Threads

VARIABLES
    disk,    \* committed rows:  artifact -> version -> row
    table,   \* rows the shared connection sees, the open transaction's included
    lock,    \* ArtifactStore._lock: the thread inside it, or Nobody
    pc,      \* where each thread is in its call
    call,    \* the arguments of each thread's call
    acked,   \* puts that returned to their caller: <<artifact, version, author>>
    writes   \* history: "sound" until an INSERT or a commit raises

vars == <<disk, table, lock, pc, call, acked, writes>>

Versions == 1..MaxVersion

NoRow == [status |-> "absent", author |-> Nobody, base |-> 0]

\* base is the version the author of the row had read before writing it.
Row == [status : ArtifactStatus, author : Threads, base : 0..MaxVersion]

Table == [Artifacts -> [Versions -> Row \cup {NoRow}]]

\* n is the version of the newest row of a.
IsLatest(tbl, a, n) ==
    \A v \in Versions : tbl[a][v] # NoRow <=> v <= n

\* _latest_row: ORDER BY version DESC LIMIT 1; 0 where no row exists.
Latest(tbl, a) == CHOOSE n \in 0..MaxVersion : IsLatest(tbl, a, n)

LatestStatus(tbl, a) ==
    IF Latest(tbl, a) = 0 THEN "absent" ELSE tbl[a][Latest(tbl, a)].status

TypeOK ==
    /\ disk \in Table
    /\ table \in Table
    /\ lock \in Threads \cup {Nobody}
    /\ pc \in [Threads -> {"idle", "put", "insert", "commit", "commitStatus"}]
    /\ call \in [Threads -> [a : Artifacts, expected : 0..MaxVersion]]
    /\ acked \subseteq Artifacts \X Versions \X Threads
    /\ writes \in {"sound", "failed"}

Init ==
    /\ disk = [a \in Artifacts |-> [v \in Versions |-> NoRow]]
    /\ table = disk
    /\ lock = Nobody
    /\ pc = [t \in Threads |-> "idle"]
    /\ \E a \in Artifacts : call = [t \in Threads |-> [a |-> a, expected |-> 0]]
    /\ acked = {}
    /\ writes = "sound"

-----------------------------------------------------------------------------
\* Orchestrator._current_version: an unlocked read of the version to update.
\* A missing artifact reads as 0, which put treats as None.
ReadVersion(t, a) ==
    /\ pc[t] = "idle"
    /\ Latest(table, a) < MaxVersion
    /\ pc' = [pc EXCEPT ![t] = "put"]
    /\ call' = [call EXCEPT ![t] = [a |-> a, expected |-> Latest(table, a)]]
    /\ UNCHANGED <<disk, table, lock, acked, writes>>

\* The row of version n is set to superseded; nothing where n is 0.
Supersede(a, n) ==
    [table EXCEPT ![a] = [v \in Versions |->
        IF v = n THEN [table[a][v] EXCEPT !.status = "superseded"]
                 ELSE table[a][v]]]

\* Mutants of PutBegin: the old version stays live; the last writer wins.
PutKeepsOld(t) ==
    /\ pc[t] = "put" /\ lock = Nobody
    /\ call[t].expected = Latest(table, call[t].a)
    /\ lock' = t
    /\ pc' = [pc EXCEPT ![t] = "insert"]
    /\ UNCHANGED <<disk, table, call, acked, writes>>

PutLastWriterWins(t) ==
    LET a == call[t].a
        n == Latest(table, a)
    IN  /\ pc[t] = "put" /\ lock = Nobody
        /\ n < MaxVersion
        /\ lock' = t
        /\ table' = Supersede(a, n)
        /\ pc' = [pc EXCEPT ![t] = "insert"]
        /\ UNCHANGED <<disk, call, acked, writes>>

\* put, up to the INSERT: lock, optimistic check, UPDATE of the old version.
PutBegin(t) ==
    LET a == call[t].a
        n == Latest(table, a)
    IN  /\ pc[t] = "put" /\ lock = Nobody
        /\ call[t].expected = n
        /\ lock' = t
        /\ table' = Supersede(a, n)
        /\ pc' = [pc EXCEPT ![t] = "insert"]
        /\ UNCHANGED <<disk, call, acked, writes>>

\* put raises ArtifactConflictError; the with statement releases the lock.
PutConflict(t) ==
    /\ pc[t] = "put" /\ lock = Nobody
    /\ call[t].expected # Latest(table, call[t].a)
    /\ pc' = [pc EXCEPT ![t] = "idle"]
    /\ UNCHANGED <<disk, table, lock, call, acked, writes>>

\* put's INSERT of the next version as a draft.
PutInsert(t) ==
    LET a == call[t].a
        v == Latest(table, a) + 1
    IN  /\ pc[t] = "insert"
        /\ table' = [table EXCEPT ![a][v] =
               [status |-> "draft", author |-> t, base |-> call[t].expected]]
        /\ pc' = [pc EXCEPT ![t] = "commit"]
        /\ UNCHANGED <<disk, lock, call, acked, writes>>

\* Mutant of PutCommit: put returns without a commit.
PutUncommitted(t) ==
    /\ pc[t] = "commit"
    /\ acked' = acked \cup {<<call[t].a, Latest(table, call[t].a), t>>}
    /\ lock' = Nobody
    /\ pc' = [pc EXCEPT ![t] = "idle"]
    /\ UNCHANGED <<disk, table, call, writes>>

\* put's commit, which makes the whole open transaction durable, and unlock.
PutCommit(t) ==
    /\ pc[t] = "commit"
    /\ disk' = table
    /\ acked' = acked \cup {<<call[t].a, Latest(table, call[t].a), t>>}
    /\ lock' = Nobody
    /\ pc' = [pc EXCEPT ![t] = "idle"]
    /\ UNCHANGED <<table, call, writes>>

\* Mutant of SetStatusBegin: ALLOWED_TRANSITIONS is not consulted.
SetAnyStatus(t, a, s) ==
    LET n == Latest(table, a)
    IN  /\ pc[t] = "idle" /\ lock = Nobody
        /\ n > 0
        /\ lock' = t
        /\ table' = [table EXCEPT ![a][n].status = s]
        /\ pc' = [pc EXCEPT ![t] = "commitStatus"]
        /\ call' = [call EXCEPT ![t] = [a |-> a, expected |-> n]]
        /\ UNCHANGED <<disk, acked, writes>>

\* set_status (mark_stale is set_status of "stale"), up to its commit.
SetStatusBegin(t, a, s) ==
    LET n == Latest(table, a)
    IN  /\ pc[t] = "idle" /\ lock = Nobody
        /\ n > 0
        /\ s \in AllowedTransitions(table[a][n].status)
        /\ lock' = t
        /\ table' = [table EXCEPT ![a][n].status = s]
        /\ pc' = [pc EXCEPT ![t] = "commitStatus"]
        /\ call' = [call EXCEPT ![t] = [a |-> a, expected |-> n]]
        /\ UNCHANGED <<disk, acked, writes>>

SetStatusCommit(t) ==
    /\ pc[t] = "commitStatus"
    /\ disk' = table
    /\ lock' = Nobody
    /\ pc' = [pc EXCEPT ![t] = "idle"]
    /\ UNCHANGED <<table, call, acked, writes>>

\* The INSERT or the commit raises (content json.dumps cannot encode, a full
\* disk).  The lock is released; nothing rolls the transaction back.
WriteFails(t) ==
    /\ pc[t] \in {"insert", "commit", "commitStatus"}
    /\ lock' = Nobody
    /\ pc' = [pc EXCEPT ![t] = "idle"]
    /\ writes' = "failed"
    /\ UNCHANGED <<disk, table, call, acked>>

\* The process ends and a new one opens the database: SQLite discards the
\* transaction that was open.
Crash ==
    /\ table' = disk
    /\ lock' = Nobody
    /\ pc' = [t \in Threads |-> "idle"]
    /\ UNCHANGED <<disk, call, acked, writes>>

Next ==
    \/ \E t \in Threads :
        \/ \E a \in Artifacts :
            \/ ReadVersion(t, a)
            \/ \E s \in Moves : SetStatusBegin(t, a, s)
        \/ PutBegin(t) \/ PutConflict(t) \/ PutInsert(t) \/ PutCommit(t)
        \/ SetStatusCommit(t) \/ WriteFails(t)
    \/ Crash

Spec == Init /\ [][Next]_vars

-----------------------------------------------------------------------------
Dense(tbl) == \A a \in Artifacts : \E n \in 0..MaxVersion : IsLatest(tbl, a, n)

\* Versions have no gap and no version but the newest is live, in what is
\* committed and in what a reader sees at any point of a put ("each put
\* supersedes the previous one", store.py).
OnlyLatestLive ==
    \A tbl \in {disk, table} :
        /\ Dense(tbl)
        /\ \A a \in Artifacts, v \in Versions :
            v < Latest(tbl, a) => tbl[a][v].status = "superseded"

\* The optimistic lock loses no update: the author of every committed version
\* had read the version just before it.
NoLostUpdate ==
    \A a \in Artifacts, v \in Versions :
        disk[a][v] # NoRow => disk[a][v].base + 1 = v

\* A put that returned is in the database for good, under its own author:
\* neither a later writer nor a crash removes it.
AckedDurable ==
    \A p \in acked : disk[p[1]][p[2]].author = p[3]

\* A committed artifact always has a newest version its readers can use: the
\* status superseded is only ever followed by a new row.  It holds until a
\* write fails.
LatestNotSuperseded ==
    \A a \in Artifacts : LatestStatus(disk, a) # "superseded"

\* get_for_consumption(a) raises StaleArtifactError.
ConsumptionRefused(a) == LatestStatus(table, a) \in {"stale", "superseded"}

\* get_for_consumption refuses an artifact only if it is stale or superseded:
\* committed as such, or being marked so by a set_status under way.
RefusedOnlyWhenStale ==
    \A a \in Artifacts :
        ConsumptionRefused(a) =>
            \/ LatestStatus(disk, a) \in {"stale", "superseded"}
            \/ \E t \in Threads : pc[t] = "commitStatus" /\ call[t].a = a

\* The newest version of an artifact, as ArtifactLifecycle sees it.
Newest(tbl, a) ==
    LET n == Latest(tbl, a)
    IN  IF n = 0 THEN [version |-> 0, status |-> "absent", author |-> Nobody]
        ELSE [version |-> n, status |-> tbl[a][n].status,
              author |-> tbl[a][n].author]

Lifecycle == INSTANCE ArtifactLifecycle
                 WITH current <- [a \in Artifacts |-> Newest(disk, a)],
                      broken <- (writes = "failed")

\* The locked, multi-step store implements the store whose calls are atomic,
\* through every interleaving and crash, until a write fails.
ImplementsLifecycle == Lifecycle!Spec
=============================================================================
