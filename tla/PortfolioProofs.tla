---------------------------- MODULE PortfolioProofs ----------------------------
(***************************************************************************)
(* Theorems about Portfolio, for any processes, jobs, threads and entries. *)
(*                                                                         *)
(* The inductive invariant has two layers.  Inside a process the mutex     *)
(* says which job is inside add (Inside).  Between processes SQLite's      *)
(* locks do: at most one connection may write and only that one has rows   *)
(* of its own (OneWriter, Uncommitted); so the file, and the file with the *)
(* rows of any one process, are numbered without a gap (Dense), and a row  *)
(* a job is about to commit is its own (Adding, Returned).  A connection   *)
(* that holds anything belongs to a process that has written or tried to   *)
(* (Footprint), and a count another process made stale as well (Fresh):    *)
(* that is why a process alone with the file never fails.                  *)
(***************************************************************************)
EXTENDS Portfolio, FiniteSetTheorems, WellFoundedInduction, TLAPS

Early == {"queued", "planning", "building", "mining", "insert"}

\* A job of p has written to the Knowledge Base or tried to.
Touched(p) ==
    \E j \in Jobs : Home[j] = p /\ (added[j] # {} \/ pc[j] \notin Early)

Inside ==
    /\ \A j \in Jobs : pc[j] \in {"insert", "commit"} <=> mutex[Home[j]] = j
    /\ \A p \in Processes : mutex[p] # Nobody => Home[mutex[p]] = p

OneWriter ==
    \A p, q \in Processes :
        conn[p].lock \in Writers /\ conn[q].lock \in Writers => p = q

Uncommitted ==
    \A p \in Processes :
        /\ conn[p].lock \notin Writers => DOMAIN conn[p].rows = {}
        /\ DOMAIN conn[p].rows \cap DOMAIN file = {}

Dense ==
    /\ \E n \in Nat : DOMAIN file = 1..n
    /\ \A p \in Processes : \E n \in Nat : Seen(p) = 1..n

Adding ==
    \A j \in Jobs :
        /\ pc[j] \in {"insert", "commit"} => left[j] > 0
        /\ pc[j] = "insert" => 1..count[j] \subseteq Seen(Home[j])
        /\ pc[j] = "commit" =>
            /\ conn[Home[j]].lock \in Writers
            /\ NextId(j) \in DOMAIN conn[Home[j]].rows
            /\ conn[Home[j]].rows[NextId(j)] = j

Returned == \A j \in Jobs : \A i \in added[j] : i \in DOMAIN file /\ file[i] = j

Footprint == \A p \in Processes : conn[p].lock # "none" => Touched(p)

Fresh ==
    \A j \in Jobs :
        pc[j] = "insert" /\ NextId(j) \in Seen(Home[j]) => ~ Alone(Home[j])

Collected ==
    \A p \in Processes : \A k \in 1..results[p] : pc[JobsOf[p][k]] = "returned"

IInv ==
    /\ TypeOK
    /\ Inside /\ OneWriter /\ Uncommitted /\ Dense /\ Adding /\ Returned
    /\ Footprint /\ Fresh /\ AloneNeverFails
    /\ Collected /\ OverWhenAllEnded
-----------------------------------------------------------------------------
(* Processes, jobs and connections                                         *)

\* Every job is handed to one process.
LEMMA HomeOfJob ==
    /\ \A j \in Jobs : Home[j] \in Processes /\ j \in JobsIn[Home[j]]
    /\ \A p \in Processes : \A j \in JobsIn[p] : j \in Jobs /\ Home[j] = p
    /\ \A p \in Processes : JobsIn[p] = ToSet(JobsOf[p])
<1>1. \A p \in Processes : JobsIn[p] = ToSet(JobsOf[p])
    BY DEF JobsIn
<1>2. ASSUME NEW j \in Jobs PROVE Home[j] \in Processes /\ j \in ToSet(JobsOf[Home[j]])
    <2>1. \E p \in Processes : j \in ToSet(JobsOf[p])
        BY DEF Jobs
    <2>2. Home[j] = CHOOSE p \in Processes : j \in ToSet(JobsOf[p])
        BY DEF Home
    <2> QED BY <2>1, <2>2
<1>3. ASSUME NEW p \in Processes, NEW j \in ToSet(JobsOf[p])
      PROVE  j \in Jobs /\ Home[j] = p
    <2>1. j \in Jobs
        BY DEF Jobs
    <2> QED BY <1>2, <2>1, PortfolioAssumption
<1> QED BY <1>1, <1>2, <1>3

\* The connections as records.
Connections(c) == c = [p \in Processes |-> [lock |-> c[p].lock, rows |-> c[p].rows]]

\* A step leaves every connection as it is but p's, which has this lock and
\* these rows after it.
Becomes(p, l, r) ==
    /\ Connections(conn')
    /\ conn'[p].lock = l /\ conn'[p].rows = r
    /\ \A q \in Processes \ {p} : conn'[q] = conn[q]

LEMMA EmptyTable == Table(<<>>) /\ DOMAIN <<>> = {}
<1>1. <<>> \in Seq(Jobs) /\ Len(<<>>) = 0
    OBVIOUS
<1>2. <<>> \in [1..0 -> Jobs] /\ DOMAIN <<>> = 1..0
    BY <1>1
<1> QED BY <1>2 DEF Table

LEMMA CloseConnection ==
    ASSUME TypeOK, NEW p \in Processes, conn' = [conn EXCEPT ![p] = Closed]
    PROVE  Becomes(p, "none", <<>>)
BY DEF TypeOK, Connections, Becomes, Closed

LEMMA SetLock ==
    ASSUME TypeOK, NEW p \in Processes, NEW l, conn' = [conn EXCEPT ![p].lock = l]
    PROVE  Becomes(p, l, conn[p].rows)
<1>1. Connections(conn)
    BY DEF TypeOK, Connections
<1>2. conn'[p] = [lock |-> l, rows |-> conn[p].rows]
    BY <1>1 DEF Connections
<1>3. DOMAIN conn' = Processes /\ \A q \in Processes \ {p} : conn'[q] = conn[q]
    BY <1>1 DEF Connections
<1>4. conn' = [q \in Processes |-> conn'[q]]
    BY <1>1 DEF Connections
<1>5. Connections(conn')
    BY <1>1, <1>2, <1>3, <1>4 DEF Connections
<1> QED BY <1>2, <1>3, <1>5 DEF Becomes

\* A read may turn an open transaction into a shared lock and does no more.
ReadLock(p) == IF conn[p].lock = "open" THEN "shared" ELSE conn[p].lock

LEMMA ReadConnection ==
    ASSUME TypeOK, NEW p \in Processes, conn' = AfterRead(p)
    PROVE  Becomes(p, ReadLock(p), conn[p].rows)
<1>1. CASE conn[p].lock = "open"
    <2>1. conn' = [conn EXCEPT ![p].lock = "shared"]
        BY <1>1 DEF AfterRead
    <2> QED BY <1>1, <2>1, SetLock DEF ReadLock
<1>2. CASE conn[p].lock # "open"
    BY <1>2 DEF TypeOK, Connections, Becomes, ReadLock, AfterRead
<1> QED BY <1>1, <1>2

LEMMA RaiseConnection ==
    ASSUME TypeOK, NEW j \in Jobs, NEW l, Raise(j, l)
    PROVE  Becomes(Home[j], l, conn[Home[j]].rows)
<1>1. conn' = [conn EXCEPT ![Home[j]].lock = l]
    BY DEF Raise
<1> QED BY <1>1, HomeOfJob, SetLock

InsertLock(p) == IF conn[p].lock = "pending" THEN "pending" ELSE "reserved"

LEMMA InsertConnection ==
    ASSUME TypeOK, NEW j \in Jobs, Insert(j)
    PROVE  Becomes(Home[j], InsertLock(Home[j]),
                   Merged(conn[Home[j]].rows, [i \in {NextId(j)} |-> j]))
<1> DEFINE p == Home[j]
           r == Merged(conn[p].rows, [i \in {NextId(j)} |-> j])
<1>1. p \in Processes
    BY HomeOfJob
<1>2. conn' = [conn EXCEPT ![p] = [lock |-> InsertLock(p), rows |-> r]]
    BY <1>1 DEF TypeOK, Insert, InsertLock
<1>3. Connections(conn)
    BY DEF TypeOK, Connections
<1> HIDE DEF p, r
<1>4. Becomes(p, InsertLock(p), r)
    BY <1>1, <1>2, <1>3 DEF Connections, Becomes
<1> QED BY <1>4 DEF p, r

LEMMA MergedTable ==
    ASSUME NEW f, NEW g, Table(f), Table(g)
    PROVE  /\ Table(Merged(f, g))
           /\ DOMAIN Merged(f, g) = DOMAIN f \cup DOMAIN g
           /\ \A i \in DOMAIN g : Merged(f, g)[i] = g[i]
           /\ \A i \in DOMAIN f \ DOMAIN g : Merged(f, g)[i] = f[i]
BY DEF Merged, Table
LEMMA ConnectionTypes ==
    ASSUME TypeOK, NEW p \in Processes, NEW l \in Locks, NEW r, Table(r),
           Becomes(p, l, r)
    PROVE  /\ Connections(conn')
           /\ \A q \in Processes : conn'[q].lock \in Locks /\ Table(conn'[q].rows)
<1>1. \A q \in Processes : q = p \/ q \in Processes \ {p}
    OBVIOUS
<1> QED BY <1>1 DEF TypeOK, Becomes

-----------------------------------------------------------------------------
(* What every step of a job keeps                                          *)

\* Nobody takes back what it wrote or tried to write.
Forward ==
    \A j \in Jobs :
        /\ added[j] \subseteq added'[j]
        /\ pc[j] \notin Early => pc'[j] \notin Early \/ added'[j] # {}

LEMMA StaysTouched ==
    ASSUME Forward, NEW p \in Processes, Touched(p)
    PROVE  Touched(p)'
BY DEF Forward, Touched

LEMMA AloneIsUntouched ==
    ASSUME NEW p \in Processes
    PROVE  Alone(p) <=> \A q \in Processes \ {p} : ~ Touched(q)
BY DEF Alone, Others, Touched, Early

LEMMA StaysAccompanied ==
    ASSUME Forward, NEW p \in Processes, ~ Alone(p)
    PROVE  ~ Alone(p)'
BY DEF Forward, Alone, Others, Early

LEMMA BatchesKept ==
    ASSUME IInv, NEW j \in Jobs, pc[j] \notin Ended,
           \A i \in Jobs \ {j} : pc'[i] = pc[i], UNCHANGED <<batch, results>>
    PROVE  Collected' /\ OverWhenAllEnded'
<1>1. Collected'
    <2> SUFFICES ASSUME NEW p \in Processes, NEW k \in 1..results[p]
                 PROVE  pc'[JobsOf[p][k]] = "returned"
        BY DEF Collected
    <2>1. pc[JobsOf[p][k]] = "returned"
        BY DEF IInv, Collected
    <2>2. JobsOf[p][k] \in Jobs
        <3>1. JobsOf[p] \in Seq(Jobs) /\ results[p] \in Nat /\ results[p] <= Len(JobsOf[p])
            BY PortfolioAssumption DEF IInv, TypeOK
        <3> QED BY <3>1
    <2> QED BY <2>1, <2>2 DEF Ended
<1>2. OverWhenAllEnded'
    <2>1. \A p \in Processes : batch[p] \in {"returned", "raised"} => j \notin JobsIn[p]
        BY DEF IInv, OverWhenAllEnded
    <2>2. \A p \in Processes : batch[p] \in {"returned", "raised"} =>
            \A i \in JobsIn[p] : pc'[i] = pc[i]
        BY <2>1, HomeOfJob
    <2> QED BY <2>2 DEF IInv, OverWhenAllEnded
<1> QED BY <1>1, <1>2

-----------------------------------------------------------------------------
(* A job outside add: it is started, reads, mines and ends                 *)

\* No lock and no row of any connection changes but for a read.
ReadsOnly ==
    /\ Connections(conn')
    /\ \A q \in Processes :
        /\ conn'[q].rows = conn[q].rows
        /\ conn'[q].lock = conn[q].lock
            \/ (conn[q].lock = "open" /\ conn'[q].lock = "shared")

LEMMA ReadsOnlyAfterRead ==
    ASSUME TypeOK, NEW p \in Processes, conn' = AfterRead(p) \/ conn' = conn
    PROVE  ReadsOnly
<1>1. CASE conn' = AfterRead(p)
    <2>1. Becomes(p, ReadLock(p), conn[p].rows)
        BY <1>1, ReadConnection
    <2>2. \A q \in Processes : q = p \/ q \in Processes \ {p}
        OBVIOUS
    <2> QED BY <2>1, <2>2 DEF Becomes, ReadLock, ReadsOnly
<1>2. CASE conn' = conn
    BY <1>2 DEF ReadsOnly, TypeOK, Connections
<1> QED BY <1>1, <1>2

\* After a read the same connections may write, the same hold nothing, and all
\* see the same rows.
LEMMA ReadsOnlyKeeps ==
    ASSUME IInv, ReadsOnly, Forward, UNCHANGED file
    PROVE  OneWriter' /\ Uncommitted' /\ Dense' /\ Footprint'
<1>1. \A q \in Processes :
        /\ conn'[q].lock \in Writers <=> conn[q].lock \in Writers
        /\ conn'[q].lock = "none" <=> conn[q].lock = "none"
        /\ conn'[q].rows = conn[q].rows
    BY DEF ReadsOnly, Writers
<1>2. OneWriter' /\ Uncommitted'
    BY <1>1 DEF IInv, OneWriter, Uncommitted
<1>3. Dense'
    BY <1>1 DEF IInv, Dense, Seen
<1>4. Footprint'
    <2> SUFFICES ASSUME NEW p \in Processes, conn'[p].lock # "none" PROVE Touched(p)'
        BY DEF Footprint
    <2>1. Touched(p)
        BY <1>1 DEF IInv, Footprint
    <2> QED BY <2>1, StaysTouched
<1> QED BY <1>2, <1>3, <1>4

Outside(j) ==
    /\ ReadsOnly
    /\ pc[j] \in {"queued", "planning", "building", "mining"}
    /\ \E s \in {"planning", "building", "mining", "raised", "returned"} :
        pc' = [pc EXCEPT ![j] = s]
    /\ \A i \in Jobs \ {j} : left'[i] = left[i]
    /\ left' \in [Jobs -> 0..MaxEntries]
    /\ UNCHANGED <<file, mutex, count, added, spoiled, batch, results>>

LEMMA OutsideSteps ==
    ASSUME TypeOK, NEW j \in Jobs,
           Start(j) \/ Query(j) \/ RunRaises(j) \/ Mine(j) \/ Return(j)
    PROVE  Outside(j)
<1>1. Home[j] \in Processes
    BY HomeOfJob
<1>2. ReadsOnly
    BY <1>1, ReadsOnlyAfterRead DEF Start, Query, RunRaises, Mine, Return, kb
<1>3. left' \in [Jobs -> 0..MaxEntries] /\ \A i \in Jobs \ {j} : left'[i] = left[i]
    BY DEF Start, Query, RunRaises, Mine, Return, TypeOK
<1> QED BY <1>2, <1>3 DEF Outside, Start, Query, RunRaises, Mine, Return, kb

LEMMA OutsideKeeps ==
    ASSUME IInv, NEW j \in Jobs, Outside(j)
    PROVE  IInv'
<1>1. PICK s \in {"planning", "building", "mining", "raised", "returned"} :
        pc' = [pc EXCEPT ![j] = s]
    BY DEF Outside
<1>2. /\ pc'[j] = s /\ \A i \in Jobs \ {j} : pc'[i] = pc[i]
      /\ pc[j] \in {"queued", "planning", "building", "mining"}
    BY <1>1 DEF Outside, IInv, TypeOK
<1>3. Forward
    BY <1>2 DEF Outside, Forward, Early
<1>4. OneWriter' /\ Uncommitted' /\ Dense' /\ Footprint'
    BY <1>3, ReadsOnlyKeeps DEF Outside
<1>5. TypeOK'
    <2>1. pc' \in [Jobs -> {"queued", "planning", "building", "mining", "insert",
                            "commit"} \cup Ended]
        BY <1>1 DEF IInv, TypeOK, Ended
    <2>2. \A q \in Processes : conn'[q].lock \in Locks /\ Table(conn'[q].rows)
        BY DEF Outside, ReadsOnly, IInv, TypeOK, Locks
    <2> QED BY <2>1, <2>2 DEF Outside, ReadsOnly, Connections, IInv, TypeOK
<1>6. Inside'
    BY <1>2 DEF Outside, IInv, Inside
<1>7. Adding'
    <2>1. \A q \in Processes :
            /\ conn[q].lock \in Writers => conn'[q].lock \in Writers
            /\ conn'[q].rows = conn[q].rows
        BY DEF Outside, ReadsOnly, Writers
    <2> QED BY <1>2, <2>1, HomeOfJob DEF Outside, IInv, Adding, Seen, NextId
<1>8. Returned'
    BY DEF Outside, IInv, Returned
<1>9. Fresh'
    <2> SUFFICES ASSUME NEW i \in Jobs, pc'[i] = "insert", NextId(i)' \in Seen(Home[i])'
                 PROVE  ~ Alone(Home[i])'
        BY DEF Fresh
    <2>1. pc[i] = "insert" /\ NextId(i) \in Seen(Home[i])
        BY <1>2, HomeOfJob DEF Outside, ReadsOnly, NextId, Seen
    <2> QED BY <1>3, <2>1, HomeOfJob, StaysAccompanied DEF IInv, Fresh
<1>10. AloneNeverFails'
    <2> SUFFICES ASSUME NEW i \in spoiled PROVE ~ Alone(Home[i])'
        BY DEF Outside, AloneNeverFails
    <2> QED BY <1>3, HomeOfJob, StaysAccompanied DEF IInv, TypeOK, AloneNeverFails
<1>11. Collected' /\ OverWhenAllEnded'
    BY <1>2, BatchesKept DEF Outside, Ended
<1> QED BY <1>4, <1>5, <1>6, <1>7, <1>8, <1>9, <1>10, <1>11 DEF IInv
-----------------------------------------------------------------------------
(* add                                                                     *)

\* What add changes of a job is the job's own.
LEMMA OthersInside ==
    ASSUME IInv, NEW i \in Jobs, NEW j \in Jobs, i # j,
           pc[i] \in {"insert", "commit"}, mutex[Home[j]] = j
    PROVE  Home[i] # Home[j]
BY DEF IInv, Inside

LEMMA SpoiledKept ==
    ASSUME IInv, Forward, UNCHANGED spoiled
    PROVE  AloneNeverFails'
<1> SUFFICES ASSUME NEW i \in spoiled PROVE ~ Alone(Home[i])'
    BY DEF AloneNeverFails
<1> QED BY HomeOfJob, StaysAccompanied DEF IInv, TypeOK, AloneNeverFails

LEMMA CountKeeps ==
    ASSUME IInv, NEW j \in Jobs, Count(j)
    PROVE  IInv'
<1> DEFINE p == Home[j]
<1>1. p \in Processes
    BY HomeOfJob
<1>2. /\ pc[j] = "mining" /\ left[j] > 0 /\ mutex[p] = Nobody
      /\ mutex' = [mutex EXCEPT ![p] = j]
      /\ count' = [count EXCEPT ![j] = Cardinality(Seen(p))]
      /\ pc' = [pc EXCEPT ![j] = "insert"]
      /\ conn' = AfterRead(p)
      /\ UNCHANGED <<file, left, added, spoiled, batch, results>>
    BY DEF Count
<1>3. PICK n \in Nat : Seen(p) = 1..n
    BY <1>1 DEF IInv, Dense
<1>4. Cardinality(Seen(p)) = n
    <2>1. Cardinality(1..n) = IF 1 > n THEN 0 ELSE n - 1 + 1
        BY FS_Interval
    <2> QED BY <1>3, <2>1
<1>5. /\ pc'[j] = "insert" /\ \A i \in Jobs \ {j} : pc'[i] = pc[i]
      /\ count'[j] = n /\ \A i \in Jobs \ {j} : count'[i] = count[i]
      /\ mutex'[p] = j /\ \A q \in Processes \ {p} : mutex'[q] = mutex[q]
    BY <1>1, <1>2, <1>4 DEF IInv, TypeOK
<1>6. ReadsOnly
    BY <1>1, <1>2, ReadsOnlyAfterRead DEF IInv
<1>7. Forward
    BY <1>2, <1>5 DEF Forward, Early
<1>8. OneWriter' /\ Uncommitted' /\ Dense' /\ Footprint'
    BY <1>2, <1>6, <1>7, ReadsOnlyKeeps
<1>9. TypeOK'
    <2>1. \A q \in Processes : conn'[q].lock \in Locks /\ Table(conn'[q].rows)
        BY <1>6 DEF ReadsOnly, IInv, TypeOK, Locks
    <2>2. mutex' \in [Processes -> Jobs \cup {Nobody}]
        BY <1>2 DEF IInv, TypeOK
    <2>3. count' \in [Jobs -> Nat]
        BY <1>2, <1>4 DEF IInv, TypeOK
    <2>4. pc' \in [Jobs -> {"queued", "planning", "building", "mining", "insert",
                            "commit"} \cup Ended]
        BY <1>2 DEF IInv, TypeOK
    <2> QED BY <1>2, <1>6, <2>1, <2>2, <2>3, <2>4 DEF ReadsOnly, Connections, IInv, TypeOK
<1>10. \A i \in Jobs \ {j} : Home[i] = p => pc[i] \notin {"insert", "commit"}
    BY <1>2, PortfolioAssumption DEF IInv, Inside
<1>11. Inside'
    BY <1>1, <1>2, <1>5, <1>10, HomeOfJob, PortfolioAssumption DEF IInv, Inside
<1>12. \A q \in Processes : Seen(q)' = Seen(q)
    BY <1>2, <1>6 DEF ReadsOnly, Seen
<1>13. Adding'
    <2>1. \A q \in Processes :
            /\ conn[q].lock \in Writers => conn'[q].lock \in Writers
            /\ conn'[q].rows = conn[q].rows
        BY <1>6 DEF ReadsOnly, Writers
    <2>2. 1..count'[j] \subseteq Seen(p)'
        BY <1>1, <1>3, <1>5, <1>12
    <2> QED BY <1>2, <1>5, <1>12, <2>1, <2>2, HomeOfJob DEF IInv, Adding, NextId
<1>14. Returned'
    BY <1>2 DEF IInv, Returned
<1>15. Fresh'
    <2> SUFFICES ASSUME NEW i \in Jobs, pc'[i] = "insert", NextId(i)' \in Seen(Home[i])'
                 PROVE  ~ Alone(Home[i])'
        BY DEF Fresh
    <2>1. i # j
        <3>1. n + 1 \notin 1..n
            OBVIOUS
        <3> QED BY <1>1, <1>3, <1>5, <1>12, <3>1 DEF NextId
    <2>2. pc[i] = "insert" /\ NextId(i) \in Seen(Home[i])
        BY <1>5, <1>12, <2>1, HomeOfJob DEF NextId
    <2> QED BY <1>7, <2>2, HomeOfJob, StaysAccompanied DEF IInv, Fresh
<1>16. AloneNeverFails'
    BY <1>2, <1>7, SpoiledKept
<1>17. Collected' /\ OverWhenAllEnded'
    BY <1>2, <1>5, BatchesKept DEF Ended
<1> QED BY <1>8, <1>9, <1>11, <1>13, <1>14, <1>15, <1>16, <1>17 DEF IInv

LEMMA InsertKeeps ==
    ASSUME IInv, NEW j \in Jobs, Insert(j)
    PROVE  IInv'
<1> DEFINE p == Home[j]
           row == [i \in {NextId(j)} |-> j]
           r == Merged(conn[p].rows, row)
<1>1. p \in Processes
    BY HomeOfJob
<1>2. /\ pc[j] = "insert" /\ NextId(j) \notin Seen(p)
      /\ pc' = [pc EXCEPT ![j] = "commit"]
      /\ UNCHANGED <<file, mutex, count, left, added, spoiled, batch, results>>
      /\ \A q \in Processes \ {p} : conn[q].lock \notin Writers
    BY DEF Insert, WriteBarred, Others
<1>3. mutex[p] = j
    BY <1>2 DEF IInv, Inside
<1>4. /\ pc'[j] = "commit" /\ \A i \in Jobs \ {j} : pc'[i] = pc[i]
    BY <1>2 DEF IInv, TypeOK
<1>5. Becomes(p, InsertLock(p), r)
    BY InsertConnection DEF IInv
<1>6. Table(row) /\ DOMAIN row = {NextId(j)} /\ row[NextId(j)] = j
    BY DEF IInv, TypeOK, NextId, Table
<1>7. Table(conn[p].rows)
    BY <1>1 DEF IInv, TypeOK
<1>8. Table(r) /\ DOMAIN r = DOMAIN conn[p].rows \cup {NextId(j)} /\ r[NextId(j)] = j
    <2> HIDE DEF row
    <2>1. /\ Table(Merged(conn[p].rows, row))
          /\ DOMAIN Merged(conn[p].rows, row) = DOMAIN conn[p].rows \cup DOMAIN row
          /\ \A i \in DOMAIN row : Merged(conn[p].rows, row)[i] = row[i]
        <3> DEFINE f == conn[p].rows
        <3>1. Table(f) /\ Table(row)
            BY <1>6, <1>7
        <3> HIDE DEF f
        <3>2. /\ Table(Merged(f, row))
              /\ DOMAIN Merged(f, row) = DOMAIN f \cup DOMAIN row
              /\ \A i \in DOMAIN row : Merged(f, row)[i] = row[i]
            BY <3>1, MergedTable
        <3> QED BY <3>2 DEF f
    <2>2. NextId(j) \in DOMAIN row
        BY <1>6
    <2> QED BY <1>6, <2>1, <2>2
<1>9. InsertLock(p) \in Writers /\ InsertLock(p) \in Locks
    BY DEF InsertLock, Writers, Locks
<1> HIDE DEF r, row
<1>10. /\ Connections(conn')
       /\ conn'[p].lock \in Writers /\ conn'[p].rows = r
       /\ \A q \in Processes \ {p} : conn'[q] = conn[q]
    BY <1>5, <1>9 DEF Becomes
<1>11. TypeOK'
    <2>1. \A q \in Processes : conn'[q].lock \in Locks /\ Table(conn'[q].rows)
        BY <1>1, <1>5, <1>8, <1>9, ConnectionTypes DEF IInv
    <2>2. pc' \in [Jobs -> {"queued", "planning", "building", "mining", "insert",
                            "commit"} \cup Ended]
        BY <1>2 DEF IInv, TypeOK
    <2> QED BY <1>2, <1>10, <2>1, <2>2 DEF Connections, IInv, TypeOK
<1>12. Forward
    BY <1>2, <1>4 DEF Forward, Early
<1>13. Inside'
    BY <1>2, <1>4 DEF IInv, Inside
<1>14. OneWriter'
    BY <1>2, <1>10 DEF OneWriter
<1>15. Uncommitted'
    <2>1. NextId(j) \notin DOMAIN file
        BY <1>2 DEF Seen
    <2> QED BY <1>2, <1>8, <1>10, <2>1 DEF IInv, Uncommitted
<1>16. /\ Seen(p)' = Seen(p) \cup {NextId(j)}
       /\ \A q \in Processes \ {p} : Seen(q)' = Seen(q)
    BY <1>2, <1>8, <1>10 DEF Seen
<1>17. Dense'
    <2>1. PICK n \in Nat : Seen(p) = 1..n
        BY <1>1 DEF IInv, Dense
    <2>2. count[j] \in Nat /\ 1..count[j] \subseteq 1..n /\ count[j] + 1 \notin 1..n
        BY <1>2, <2>1 DEF IInv, TypeOK, Adding, NextId
    <2>3. count[j] = n
        <3>1. count[j] = 0 \/ count[j] \in 1..n
            BY <2>2
        <3> QED BY <2>2, <3>1
    <2>4. Seen(p)' = 1..n + 1 /\ n + 1 \in Nat
        BY <1>16, <2>1, <2>3 DEF NextId
    <2>5. ASSUME NEW q \in Processes PROVE \E m \in Nat : Seen(q)' = 1..m
        <3>1. CASE q = p
            BY <2>4, <3>1
        <3>2. CASE q # p
            BY <1>16, <3>2 DEF IInv, Dense
        <3> QED BY <3>1, <3>2
    <2> QED BY <1>2, <2>5 DEF IInv, Dense
<1>18. Footprint'
    <2> SUFFICES ASSUME NEW q \in Processes, conn'[q].lock # "none" PROVE Touched(q)'
        BY DEF Footprint
    <2>1. CASE q = p
        BY <1>4, <2>1 DEF Touched, Early
    <2>2. CASE q # p
        <3>1. Touched(q)
            BY <1>10, <2>2 DEF IInv, Footprint
        <3> QED BY <1>12, <3>1, StaysTouched
    <2> QED BY <2>1, <2>2
<1>19. \A i \in Jobs \ {j} : pc[i] \in {"insert", "commit"} => Home[i] \in Processes \ {p}
    BY <1>3, HomeOfJob, OthersInside
<1>20. Adding'
    BY <1>2, <1>4, <1>8, <1>10, <1>16, <1>19 DEF IInv, Adding, NextId
<1>21. Returned'
    BY <1>2 DEF IInv, Returned
<1>22. Fresh'
    <2> SUFFICES ASSUME NEW i \in Jobs, pc'[i] = "insert", NextId(i)' \in Seen(Home[i])'
                 PROVE  ~ Alone(Home[i])'
        BY DEF Fresh
    <2>1. pc[i] = "insert" /\ NextId(i) \in Seen(Home[i])
        BY <1>2, <1>4, <1>16, <1>19 DEF NextId
    <2> QED BY <1>12, <2>1, HomeOfJob, StaysAccompanied DEF IInv, Fresh
<1>23. AloneNeverFails'
    BY <1>2, <1>12, SpoiledKept
<1>24. Collected' /\ OverWhenAllEnded'
    BY <1>2, <1>4, BatchesKept DEF Ended
<1> QED BY <1>11, <1>13, <1>14, <1>15, <1>17, <1>18, <1>20, <1>21, <1>22, <1>23, <1>24 DEF IInv
LEMMA CommitKeeps ==
    ASSUME IInv, NEW j \in Jobs, Commit(j)
    PROVE  IInv'
<1> DEFINE p == Home[j]
           rows == conn[p].rows
<1>1. p \in Processes
    BY HomeOfJob
<1>2. /\ pc[j] = "commit" /\ file' = Merged(file, rows)
      /\ conn' = [conn EXCEPT ![p] = Closed]
      /\ mutex' = [mutex EXCEPT ![p] = Nobody]
      /\ added' = [added EXCEPT ![j] = @ \cup {NextId(j)}]
      /\ left' = [left EXCEPT ![j] = @ - 1]
      /\ pc' = [pc EXCEPT ![j] = "mining"]
      /\ count' = [count EXCEPT ![j] = 0]
      /\ UNCHANGED <<spoiled, batch, results>>
    BY DEF Commit
<1>3. mutex[p] = j /\ conn[p].lock \in Writers
      /\ NextId(j) \in DOMAIN rows /\ rows[NextId(j)] = j
    BY <1>2 DEF IInv, Inside, Adding
<1>4. /\ pc'[j] = "mining" /\ \A i \in Jobs \ {j} : pc'[i] = pc[i]
      /\ \A i \in Jobs \ {j} : count'[i] = count[i] /\ left'[i] = left[i]
      /\ added'[j] = added[j] \cup {NextId(j)}
      /\ \A i \in Jobs \ {j} : added'[i] = added[i]
      /\ mutex'[p] = Nobody /\ \A q \in Processes \ {p} : mutex'[q] = mutex[q]
    BY <1>1, <1>2 DEF IInv, TypeOK
<1>5. /\ Connections(conn')
      /\ conn'[p].lock = "none" /\ conn'[p].rows = <<>>
      /\ \A q \in Processes \ {p} : conn'[q] = conn[q]
    BY <1>1, <1>2, CloseConnection DEF IInv, Becomes
<1>6. \A q \in Processes \ {p} : conn[q].lock \notin Writers /\ DOMAIN conn[q].rows = {}
    BY <1>1, <1>3 DEF IInv, OneWriter, Uncommitted
<1>7. /\ Table(file')
      /\ DOMAIN file' = DOMAIN file \cup DOMAIN rows
      /\ \A i \in DOMAIN rows : file'[i] = rows[i]
      /\ \A i \in DOMAIN file \ DOMAIN rows : file'[i] = file[i]
    <2>1. Table(file) /\ Table(rows)
        BY <1>1 DEF IInv, TypeOK
    <2> HIDE DEF rows
    <2>2. /\ Table(Merged(file, rows))
          /\ DOMAIN Merged(file, rows) = DOMAIN file \cup DOMAIN rows
          /\ \A i \in DOMAIN rows : Merged(file, rows)[i] = rows[i]
          /\ \A i \in DOMAIN file \ DOMAIN rows : Merged(file, rows)[i] = file[i]
        BY <2>1, MergedTable
    <2> QED BY <1>2, <2>2
<1>8. DOMAIN file \cap DOMAIN rows = {}
    BY <1>1 DEF IInv, Uncommitted
<1>9. \A q \in Processes : Seen(q)' = Seen(p) /\ Seen(p) = DOMAIN file'
    BY <1>1, <1>5, <1>6, <1>7, EmptyTable DEF Seen
<1>10. NextId(j) \in Nat \ {0}
    BY DEF IInv, TypeOK, NextId
<1>11. Forward
    BY <1>2, <1>4 DEF Forward
<1> HIDE DEF rows
<1>12. TypeOK'
    <2>1. \A q \in Processes : conn'[q].lock \in Locks /\ Table(conn'[q].rows)
        <3>1. Becomes(p, "none", <<>>) /\ "none" \in Locks
            BY <1>1, <1>2, CloseConnection DEF IInv, Locks
        <3> QED BY <1>1, <3>1, EmptyTable, ConnectionTypes DEF IInv
    <2>2. pc' \in [Jobs -> {"queued", "planning", "building", "mining", "insert",
                            "commit"} \cup Ended]
        BY <1>2 DEF IInv, TypeOK
    <2>3. left' \in [Jobs -> 0..MaxEntries]
        <3>1. left[j] \in 0..MaxEntries /\ left[j] > 0
            BY <1>2 DEF IInv, TypeOK, Adding
        <3>2. left[j] - 1 \in 0..MaxEntries
            BY <3>1, PortfolioAssumption
        <3> QED BY <1>2, <3>2 DEF IInv, TypeOK
    <2>4. added' \in [Jobs -> SUBSET (Nat \ {0})]
        BY <1>2, <1>10 DEF IInv, TypeOK
    <2>5. mutex' \in [Processes -> Jobs \cup {Nobody}] /\ count' \in [Jobs -> Nat]
        BY <1>2 DEF IInv, TypeOK
    <2> QED BY <1>2, <1>5, <1>7, <2>1, <2>2, <2>3, <2>4, <2>5 DEF Connections, IInv, TypeOK
<1>13. \A i \in Jobs \ {j} : pc[i] \in {"insert", "commit"} => Home[i] \in Processes \ {p}
    BY <1>3, HomeOfJob, OthersInside
<1>14. Inside'
    <2>1. \A i \in Jobs : Home[i] = p => pc'[i] \notin {"insert", "commit"} /\ mutex'[p] # i
        BY <1>4, <1>13, PortfolioAssumption
    <2>2. \A i \in Jobs : Home[i] # p => pc'[i] = pc[i] /\ mutex'[Home[i]] = mutex[Home[i]]
        BY <1>4, HomeOfJob
    <2>3. \A q \in Processes : mutex'[q] # Nobody => q # p /\ mutex'[q] = mutex[q]
        BY <1>4
    <2> QED BY <2>1, <2>2, <2>3 DEF IInv, Inside
<1>15. OneWriter' /\ Uncommitted'
    BY <1>5, <1>6, EmptyTable DEF OneWriter, Uncommitted, Writers
<1>16. Dense'
    BY <1>1, <1>9 DEF IInv, Dense
<1>17. Adding'
    <2>1. \A i \in Jobs \ {j} : pc[i] = "insert" => 1..count[i] \subseteq Seen(Home[i])'
        <3>1. \A q \in Processes : Seen(q) \subseteq DOMAIN file'
            BY <1>6, <1>7, <1>9 DEF Seen
        <3> QED BY <1>9, <3>1, HomeOfJob DEF IInv, Adding
    <2>2. \A i \in Jobs : pc'[i] # "commit"
        BY <1>4, <1>6, <1>13 DEF IInv, Adding
    <2> QED BY <1>4, <2>1, <2>2 DEF IInv, Adding
<1>18. Returned'
    <2> SUFFICES ASSUME NEW k \in Jobs, NEW i \in added'[k]
                 PROVE  i \in DOMAIN file' /\ file'[i] = k
        BY DEF Returned
    <2>1. CASE i \in added[k]
        BY <1>7, <1>8, <2>1 DEF IInv, Returned
    <2>2. CASE k = j /\ i = NextId(j)
        BY <1>3, <1>7, <2>2
    <2> QED BY <1>4, <2>1, <2>2
<1>19. Footprint'
    <2> SUFFICES ASSUME NEW q \in Processes, conn'[q].lock # "none" PROVE Touched(q)'
        BY DEF Footprint
    <2>1. Touched(q)
        BY <1>5 DEF IInv, Footprint
    <2> QED BY <1>11, <2>1, StaysTouched
<1>20. Fresh'
    <2> SUFFICES ASSUME NEW i \in Jobs, pc'[i] = "insert"
                 PROVE  ~ Alone(Home[i])'
        BY DEF Fresh
    <2>1. i # j /\ p \in Others(Home[i])
        BY <1>1, <1>4, <1>13 DEF Others
    <2>2. added'[j] # {}
        BY <1>4
    <2> QED BY <2>1, <2>2 DEF Alone, Others
<1>21. AloneNeverFails'
    BY <1>2, <1>11, SpoiledKept
<1>22. Collected' /\ OverWhenAllEnded'
    BY <1>2, <1>4, BatchesKept DEF Ended
<1> QED BY <1>12, <1>14, <1>15, <1>16, <1>17, <1>18, <1>19, <1>20, <1>21, <1>22 DEF IInv

-----------------------------------------------------------------------------
(* A statement raises                                                      *)

\* The Knowledge Base makes j raise: the connection keeps a write lock it had
\* and gets none beside another writer's, and another process was at work.
Fails(j) ==
    /\ pc[j] \notin Ended
    /\ ~ Alone(Home[j])
    /\ \E l \in Locks :
        /\ Raise(j, l)
        /\ conn[Home[j]].lock \in Writers => l \in Writers
        /\ l \in Writers => \A q \in Others(Home[j]) : conn[q].lock \notin Writers

LEMMA FailingSteps ==
    ASSUME IInv, NEW j \in Jobs,
           \/ QueryLocked(j) \/ CountLocked(j) \/ InsertLocked(j)
           \/ InsertDuplicate(j) \/ CommitLocked(j)
    PROVE  Fails(j)
<1> DEFINE p == Home[j]
<1>1. p \in Processes /\ conn[p].lock \in Locks /\ Others(p) \subseteq Processes
    BY HomeOfJob DEF IInv, TypeOK, Others
<1>2. \A q \in Others(p) : conn[q].lock # "none" => ~ Alone(p)
    BY <1>1, AloneIsUntouched DEF IInv, Footprint, Others
<1>3. conn[p].lock \in Writers => \A q \in Others(p) : conn[q].lock \notin Writers
    BY <1>1 DEF IInv, OneWriter, Others
<1> HIDE DEF p
<1>4. CASE QueryLocked(j) \/ CountLocked(j)
    <2>1. pc[j] \notin Ended /\ Raise(j, conn[p].lock) /\ ReadBarred(p)
        BY <1>4 DEF QueryLocked, CountLocked, Ended, p
    <2>2. ~ Alone(p)
        BY <1>2, <2>1 DEF ReadBarred
    <2> QED BY <1>1, <1>3, <2>1, <2>2 DEF Fails, p
<1>5. CASE InsertLocked(j)
    <2>1. pc[j] \notin Ended /\ WriteBarred(p)
          /\ Raise(j, IF conn[p].lock = "none" THEN "open" ELSE conn[p].lock)
        BY <1>5 DEF InsertLocked, Ended, p
    <2>2. ~ Alone(p)
        BY <1>2, <2>1 DEF WriteBarred, Writers
    <2>3. conn[p].lock \notin Writers
        BY <1>3, <2>1 DEF WriteBarred
    <2> QED BY <1>1, <2>1, <2>2, <2>3 DEF Fails, p, Locks, Writers
<1>6. CASE InsertDuplicate(j)
    <2>1. pc[j] = "insert" /\ ~ WriteBarred(p) /\ NextId(j) \in Seen(p)
          /\ Raise(j, IF conn[p].lock = "pending" THEN "pending" ELSE "reserved")
        BY <1>6 DEF InsertDuplicate, p
    <2>2. ~ Alone(p)
        BY <2>1 DEF IInv, Fresh, p
    <2> QED BY <2>1, <2>2 DEF Fails, WriteBarred, Locks, Writers, Ended, p
<1>7. CASE CommitLocked(j)
    <2>1. pc[j] = "commit" /\ CommitBarred(p) /\ Raise(j, "pending")
        BY <1>7 DEF CommitLocked, p
    <2>2. ~ Alone(p)
        BY <1>2, <2>1 DEF CommitBarred
    <2>3. conn[p].lock \in Writers
        BY <2>1 DEF IInv, Adding, p
    <2> QED BY <1>3, <2>1, <2>2, <2>3 DEF Fails, Locks, Writers, Ended, p
<1> QED BY <1>4, <1>5, <1>6, <1>7
LEMMA FailsKeeps ==
    ASSUME IInv, NEW j \in Jobs, Fails(j)
    PROVE  IInv'
<1> DEFINE p == Home[j]
<1>1. p \in Processes
    BY HomeOfJob
<1>2. PICK l \in Locks :
        /\ Raise(j, l)
        /\ conn[p].lock \in Writers => l \in Writers
        /\ l \in Writers => \A q \in Others(p) : conn[q].lock \notin Writers
    BY DEF Fails
<1>3. /\ mutex' = [mutex EXCEPT ![p] = IF @ = j THEN Nobody ELSE @]
      /\ pc' = [pc EXCEPT ![j] = "raised"]
      /\ spoiled' = spoiled \cup {j}
      /\ count' = [count EXCEPT ![j] = 0] /\ left' = [left EXCEPT ![j] = 0]
      /\ UNCHANGED <<file, added, batch, results>>
    BY <1>2 DEF Raise
<1>4. /\ pc'[j] = "raised" /\ \A i \in Jobs \ {j} : pc'[i] = pc[i]
      /\ \A i \in Jobs \ {j} : count'[i] = count[i] /\ left'[i] = left[i]
      /\ mutex'[p] = (IF mutex[p] = j THEN Nobody ELSE mutex[p])
      /\ \A q \in Processes \ {p} : mutex'[q] = mutex[q]
    BY <1>1, <1>3 DEF IInv, TypeOK
<1>5. Becomes(p, l, conn[p].rows)
    BY <1>2, RaiseConnection DEF IInv
<1>6. /\ Connections(conn')
      /\ conn'[p].lock = l /\ conn'[p].rows = conn[p].rows
      /\ \A q \in Processes \ {p} : conn'[q] = conn[q]
    BY <1>5 DEF Becomes
<1>7. Forward
    BY <1>3, <1>4 DEF Forward, Early
<1> HIDE DEF p
<1>8. TypeOK'
    <2>1. \A q \in Processes : conn'[q].lock \in Locks /\ Table(conn'[q].rows)
        <3>1. \A q \in Processes : q = p \/ q \in Processes \ {p}
            OBVIOUS
        <3> QED BY <1>6, <3>1 DEF IInv, TypeOK
    <2>2. pc' \in [Jobs -> {"queued", "planning", "building", "mining", "insert",
                            "commit"} \cup Ended]
        BY <1>3 DEF IInv, TypeOK, Ended
    <2>3. mutex' \in [Processes -> Jobs \cup {Nobody}]
        BY <1>3 DEF IInv, TypeOK
    <2>4. count' \in [Jobs -> Nat] /\ left' \in [Jobs -> 0..MaxEntries]
        BY <1>3, PortfolioAssumption DEF IInv, TypeOK
    <2> QED BY <1>3, <1>6, <2>1, <2>2, <2>3, <2>4 DEF Connections, IInv, TypeOK
<1>9. Inside'
    <2>1. \A i \in Jobs \ {j} : pc'[i] = pc[i] /\ (mutex'[Home[i]] = i <=> mutex[Home[i]] = i)
        BY <1>4, HomeOfJob, PortfolioAssumption
    <2>2. pc'[j] \notin {"insert", "commit"} /\ mutex'[Home[j]] # j
        BY <1>4, PortfolioAssumption DEF p
    <2>3. \A q \in Processes : mutex'[q] # Nobody => mutex'[q] = mutex[q]
        BY <1>4
    <2> QED BY <2>1, <2>2, <2>3 DEF IInv, Inside
<1>10. OneWriter'
    <2>1. l \in Writers => \A q \in Processes \ {p} : conn'[q].lock \notin Writers
        BY <1>2, <1>6 DEF Others, p
    <2> QED BY <1>6, <2>1 DEF IInv, OneWriter
<1>11. Uncommitted'
    BY <1>1, <1>2, <1>3, <1>6 DEF IInv, Uncommitted, p
<1>12. \A q \in Processes : Seen(q)' = Seen(q)
    BY <1>3, <1>6 DEF Seen
<1>13. Dense'
    BY <1>3, <1>12 DEF IInv, Dense
<1>14. Adding'
    <2>1. \A q \in Processes :
            /\ conn[q].lock \in Writers => conn'[q].lock \in Writers
            /\ conn'[q].rows = conn[q].rows
        BY <1>2, <1>6 DEF p
    <2> QED BY <1>4, <1>12, <2>1, HomeOfJob DEF IInv, Adding, NextId
<1>15. Returned'
    BY <1>3 DEF IInv, Returned
<1>16. Footprint'
    <2> SUFFICES ASSUME NEW q \in Processes, conn'[q].lock # "none" PROVE Touched(q)'
        BY DEF Footprint
    <2>1. CASE q = p
        BY <1>4, <2>1 DEF Touched, Early, p
    <2>2. CASE q # p
        <3>1. Touched(q)
            BY <1>6, <2>2 DEF IInv, Footprint
        <3> QED BY <1>7, <3>1, StaysTouched
    <2> QED BY <2>1, <2>2
<1>17. Fresh'
    <2> SUFFICES ASSUME NEW i \in Jobs, pc'[i] = "insert", NextId(i)' \in Seen(Home[i])'
                 PROVE  ~ Alone(Home[i])'
        BY DEF Fresh
    <2>1. pc[i] = "insert" /\ NextId(i) \in Seen(Home[i])
        BY <1>4, <1>12, HomeOfJob DEF NextId
    <2> QED BY <1>7, <2>1, HomeOfJob, StaysAccompanied DEF IInv, Fresh
<1>18. AloneNeverFails'
    <2> SUFFICES ASSUME NEW i \in spoiled' PROVE ~ Alone(Home[i])'
        BY DEF AloneNeverFails
    <2>1. i \in Jobs /\ ~ Alone(Home[i])
        BY <1>3 DEF IInv, TypeOK, AloneNeverFails, Fails
    <2> QED BY <1>7, <2>1, HomeOfJob, StaysAccompanied
<1>19. Collected' /\ OverWhenAllEnded'
    BY <1>3, <1>4, BatchesKept DEF Fails
<1> QED BY <1>8, <1>9, <1>10, <1>11, <1>13, <1>14, <1>15, <1>16, <1>17, <1>18, <1>19 DEF IInv

-----------------------------------------------------------------------------
(* run_projects and the end of a process                                   *)

\* All that says nothing of the batches.
BaseInv ==
    /\ Inside /\ OneWriter /\ Uncommitted /\ Dense /\ Adding /\ Returned
    /\ Footprint /\ Fresh /\ AloneNeverFails

LEMMA BaseUnchanged ==
    ASSUME BaseInv, UNCHANGED <<kb, pc, count, left, added, spoiled>>
    PROVE  BaseInv'
<1> USE DEF kb, BaseInv
<1>1. /\ Inside' /\ OneWriter' /\ Uncommitted' /\ Returned'
    BY DEF Inside, OneWriter, Uncommitted, Returned
<1>2. Dense' /\ Adding'
    BY DEF Dense, Adding, Seen, NextId
<1>3. Footprint' /\ Fresh' /\ AloneNeverFails'
    BY DEF Footprint, Touched, Fresh, Seen, NextId, Alone, Others, AloneNeverFails
<1> QED BY <1>1, <1>2, <1>3

\* The jobs of p are the members of its list.
LEMMA ListOfJobs ==
    ASSUME NEW p \in Processes
    PROVE  /\ JobsOf[p] \in Seq(Jobs) /\ Len(JobsOf[p]) \in Nat
           /\ \A k \in 1..Len(JobsOf[p]) : JobsOf[p][k] \in JobsIn[p]
           /\ \A j \in JobsIn[p] : \E k \in 1..Len(JobsOf[p]) : JobsOf[p][k] = j
<1>1. JobsOf[p] \in Seq(Jobs)
    BY PortfolioAssumption
<1>2. DOMAIN JobsOf[p] = 1..Len(JobsOf[p]) /\ Len(JobsOf[p]) \in Nat
    BY <1>1
<1>3. JobsIn[p] = {JobsOf[p][k] : k \in DOMAIN JobsOf[p]}
    BY HomeOfJob DEF ToSet
<1> QED BY <1>1, <1>2, <1>3

LEMMA LeadKeeps ==
    ASSUME IInv, NEW p \in Processes, Lead(p)
    PROVE  IInv'
<1>1. UNCHANGED <<kb, pc, count, left, added, spoiled>> /\ BaseInv
    BY DEF Lead, Collect, Leave, IInv, BaseInv
<1>2. BaseInv'
    BY <1>1, BaseUnchanged
<1>3. CASE Collect(p)
    <2>1. /\ results' = [results EXCEPT ![p] = @ + 1] /\ batch' = batch
          /\ batch[p] = "running" /\ results[p] < Len(JobsOf[p])
          /\ results[p] \in Nat /\ Len(JobsOf[p]) \in Nat
          /\ pc[JobsOf[p][results[p] + 1]] = "returned"
        BY <1>3, ListOfJobs DEF Collect, NextJob, IInv, TypeOK
    <2>2. results'[p] = results[p] + 1 /\ \A q \in Processes \ {p} : results'[q] = results[q]
        BY <2>1 DEF IInv, TypeOK
    <2>3. TypeOK'
        <3>1. results' \in [Processes -> Nat]
            BY <2>1 DEF IInv, TypeOK
        <3>2. \A q \in Processes : results'[q] <= Len(JobsOf[q])
            BY <2>1, <2>2 DEF IInv, TypeOK
        <3> QED BY <1>1, <2>1, <3>1, <3>2 DEF IInv, TypeOK, kb
    <2>4. Collected'
        <3>1. \A k \in 1..results'[p] : k \in 1..results[p] \/ k = results[p] + 1
            BY <2>1, <2>2
        <3>2. \A k \in 1..results'[p] : pc[JobsOf[p][k]] = "returned"
            BY <2>1, <3>1 DEF IInv, Collected
        <3> QED BY <1>1, <2>2, <3>2 DEF IInv, Collected
    <2>5. OverWhenAllEnded'
        BY <1>1, <2>1, <2>2 DEF IInv, OverWhenAllEnded
    <2> QED BY <1>2, <2>3, <2>4, <2>5 DEF IInv, BaseInv
<1>4. CASE Leave(p)
    <2>1. /\ batch' = [batch EXCEPT ![p] = Outcome(p)] /\ results' = results
          /\ LoopOver(p) /\ \A j \in JobsIn[p] : pc[j] \in Ended
        BY <1>4 DEF Leave
    <2>2. batch'[p] = Outcome(p) /\ \A q \in Processes \ {p} : batch'[q] = batch[q]
        BY <2>1 DEF IInv, TypeOK
    <2>3. TypeOK'
        BY <1>1, <2>1 DEF IInv, TypeOK, kb, Outcome, Ended
    <2>4. Collected'
        BY <1>1, <2>1 DEF IInv, Collected
    <2>5. results[p] = Len(JobsOf[p]) => \A j \in JobsIn[p] : pc[j] = "returned"
        BY ListOfJobs DEF IInv, Collected
    <2>6. results[p] # Len(JobsOf[p]) => \E j \in JobsIn[p] : pc[j] = "raised"
        <3>1. results[p] < Len(JobsOf[p]) => results[p] + 1 \in 1..Len(JobsOf[p])
            BY ListOfJobs DEF IInv, TypeOK
        <3> QED BY <2>1, <3>1, ListOfJobs DEF LoopOver, NextJob
    <2>7. OverWhenAllEnded'
        BY <1>1, <2>1, <2>2, <2>5, <2>6 DEF IInv, OverWhenAllEnded, Outcome
    <2> QED BY <1>2, <2>3, <2>4, <2>7 DEF IInv, BaseInv
<1> QED BY <1>3, <1>4 DEF Lead
LEMMA ExitKeeps ==
    ASSUME IInv, NEW p \in Processes, Exit(p)
    PROVE  IInv'
<1>1. /\ batch' = [batch EXCEPT ![p] = "killed"]
      /\ conn' = [conn EXCEPT ![p] = Closed]
      /\ mutex' = [mutex EXCEPT ![p] = Nobody]
      /\ UNCHANGED <<file, added, spoiled, results>>
    BY DEF Exit
<1>2. \A j \in Jobs :
        /\ Home[j] = p => pc'[j] \in Ended /\ (pc[j] \in Ended => pc'[j] = pc[j])
        /\ Home[j] # p => pc'[j] = pc[j] /\ count'[j] = count[j] /\ left'[j] = left[j]
    BY DEF Exit, Ended
<1>3. /\ batch'[p] = "killed" /\ \A q \in Processes \ {p} : batch'[q] = batch[q]
      /\ mutex'[p] = Nobody /\ \A q \in Processes \ {p} : mutex'[q] = mutex[q]
    BY <1>1 DEF IInv, TypeOK
<1>4. Becomes(p, "none", <<>>)
    BY <1>1, CloseConnection DEF IInv
<1>5. /\ Connections(conn')
      /\ conn'[p].lock = "none" /\ conn'[p].rows = <<>>
      /\ \A q \in Processes \ {p} : conn'[q] = conn[q]
    BY <1>4 DEF Becomes
<1>6. Forward
    BY <1>1, <1>2 DEF Forward, Early, Ended
<1>7. TypeOK'
    <2>1. \A q \in Processes : conn'[q].lock \in Locks /\ Table(conn'[q].rows)
        BY <1>4, EmptyTable, ConnectionTypes DEF IInv, Locks
    <2>2. pc' \in [Jobs -> {"queued", "planning", "building", "mining", "insert",
                            "commit"} \cup Ended]
        BY DEF Exit, IInv, TypeOK, Ended
    <2>3. count' \in [Jobs -> Nat] /\ left' \in [Jobs -> 0..MaxEntries]
        BY PortfolioAssumption DEF Exit, IInv, TypeOK
    <2>4. /\ mutex' \in [Processes -> Jobs \cup {Nobody}]
          /\ batch' \in [Processes -> {"running"} \cup Ended]
        BY <1>1 DEF IInv, TypeOK, Ended
    <2> QED BY <1>1, <1>5, <2>1, <2>2, <2>3, <2>4 DEF Connections, IInv, TypeOK
<1>8. Inside'
    <2>1. \A j \in Jobs : Home[j] = p => pc'[j] \notin {"insert", "commit"} /\ mutex'[p] # j
        BY <1>2, <1>3, PortfolioAssumption DEF Ended
    <2>2. \A j \in Jobs : Home[j] # p => pc'[j] = pc[j] /\ mutex'[Home[j]] = mutex[Home[j]]
        BY <1>2, <1>3, HomeOfJob
    <2>3. \A q \in Processes : mutex'[q] # Nobody => q # p /\ mutex'[q] = mutex[q]
        BY <1>3
    <2> QED BY <2>1, <2>2, <2>3 DEF IInv, Inside
<1>9. OneWriter' /\ Uncommitted'
    BY <1>1, <1>5, EmptyTable DEF IInv, OneWriter, Uncommitted, Writers
<1>10. /\ Seen(p)' = DOMAIN file
       /\ \A q \in Processes \ {p} : Seen(q)' = Seen(q)
    BY <1>1, <1>5, EmptyTable DEF Seen
<1>11. Dense'
    <2>1. ASSUME NEW q \in Processes PROVE \E n \in Nat : Seen(q)' = 1..n
        <3>1. CASE q = p
            BY <1>10, <3>1 DEF IInv, Dense
        <3>2. CASE q # p
            BY <1>10, <3>2 DEF IInv, Dense
        <3> QED BY <3>1, <3>2
    <2> QED BY <1>1, <2>1 DEF IInv, Dense
<1>12. \A j \in Jobs : pc'[j] \in {"insert", "commit"} =>
        /\ Home[j] \in Processes \ {p}
        /\ pc'[j] = pc[j] /\ count'[j] = count[j] /\ left'[j] = left[j]
    BY <1>2, HomeOfJob DEF Ended
<1>13. Adding'
    BY <1>5, <1>10, <1>12 DEF IInv, Adding, NextId
<1>14. Returned'
    BY <1>1 DEF IInv, Returned
<1>15. Footprint'
    <2> SUFFICES ASSUME NEW q \in Processes, conn'[q].lock # "none" PROVE Touched(q)'
        BY DEF Footprint
    <2>1. Touched(q)
        BY <1>5 DEF IInv, Footprint
    <2> QED BY <1>6, <2>1, StaysTouched
<1>16. Fresh'
    <2> SUFFICES ASSUME NEW j \in Jobs, pc'[j] = "insert", NextId(j)' \in Seen(Home[j])'
                 PROVE  ~ Alone(Home[j])'
        BY DEF Fresh
    <2>1. pc[j] = "insert" /\ NextId(j) \in Seen(Home[j])
        BY <1>10, <1>12 DEF NextId
    <2> QED BY <1>6, <2>1, HomeOfJob, StaysAccompanied DEF IInv, Fresh
<1>17. AloneNeverFails'
    BY <1>1, <1>6, SpoiledKept
<1>18. Collected'
    <2> SUFFICES ASSUME NEW q \in Processes, NEW k \in 1..results[q]
                 PROVE  pc'[JobsOf[q][k]] = "returned"
        BY <1>1 DEF Collected
    <2>1. pc[JobsOf[q][k]] = "returned"
        BY DEF IInv, Collected
    <2>2. JobsOf[q][k] \in Jobs
        <3>1. k \in 1..Len(JobsOf[q])
            BY ListOfJobs DEF IInv, TypeOK
        <3> QED BY <3>1, ListOfJobs
    <2> QED BY <1>2, <2>1, <2>2 DEF Ended
<1>19. OverWhenAllEnded'
    <2>1. \A q \in Processes \ {p} : \A j \in JobsIn[q] : pc'[j] = pc[j]
        BY <1>2, HomeOfJob
    <2> QED BY <1>1, <1>3, <2>1 DEF IInv, OverWhenAllEnded
<1> QED BY <1>7, <1>8, <1>9, <1>11, <1>13, <1>14, <1>15, <1>16, <1>17, <1>18, <1>19 DEF IInv

-----------------------------------------------------------------------------
(* The theorems                                                            *)

LEMMA InitIInv == Init => IInv
<1> SUFFICES ASSUME Init PROVE IInv
    OBVIOUS
<1>1. /\ file = <<>> /\ conn = [p \in Processes |-> Closed]
      /\ Closed = [lock |-> "none", rows |-> <<>>]
    BY DEF Init, Closed
<1>2. /\ DOMAIN file = {}
      /\ \A p \in Processes : conn[p].lock = "none" /\ conn[p].rows = <<>>
                              /\ DOMAIN conn[p].rows = {} /\ Seen(p) = {}
    BY <1>1, EmptyTable DEF Seen
<1>3. TypeOK
    <2>1. /\ Table(file)
          /\ \A p \in Processes : conn[p].lock \in Locks /\ Table(conn[p].rows)
        BY <1>1, <1>2, EmptyTable DEF Locks
    <2>2. conn = [p \in Processes |-> [lock |-> conn[p].lock, rows |-> conn[p].rows]]
        BY <1>1
    <2>3. \A p \in Processes : 0 <= Len(JobsOf[p])
        BY ListOfJobs
    <2> QED BY <2>1, <2>2, <2>3, PortfolioAssumption DEF Init, TypeOK, Ended
<1>4. Inside
    BY HomeOfJob, PortfolioAssumption DEF Init, Inside
<1>5. OneWriter /\ Uncommitted /\ Footprint
    BY <1>2 DEF OneWriter, Uncommitted, Footprint, Writers
<1>6. Dense
    <2>1. {} = 1..0
        OBVIOUS
    <2> QED BY <1>2, <2>1 DEF Dense
<1>7. Adding /\ Returned /\ Fresh /\ AloneNeverFails
    BY DEF Init, Adding, Returned, Fresh, AloneNeverFails
<1>8. Collected /\ OverWhenAllEnded
    BY DEF Init, Collected, OverWhenAllEnded
<1> QED BY <1>3, <1>4, <1>5, <1>6, <1>7, <1>8 DEF IInv

LEMMA StepKeepsIInv == IInv /\ [Next]_vars => IInv'
<1> SUFFICES ASSUME IInv, [Next]_vars PROVE IInv'
    OBVIOUS
<1>1. ASSUME NEW j \in Jobs, Thread(j) PROVE IInv'
    <2>1. CASE Start(j) \/ Query(j) \/ RunRaises(j) \/ Mine(j) \/ Return(j)
        BY <2>1, OutsideSteps, OutsideKeeps DEF IInv
    <2>2. CASE \/ QueryLocked(j) \/ CountLocked(j) \/ InsertLocked(j)
               \/ InsertDuplicate(j) \/ CommitLocked(j)
        BY <2>2, FailingSteps, FailsKeeps
    <2> QED BY <1>1, <2>1, <2>2, CountKeeps, InsertKeeps, CommitKeeps DEF Thread
<1>2. ASSUME NEW p \in Processes, Lead(p) \/ Exit(p) PROVE IInv'
    BY <1>2, LeadKeeps, ExitKeeps
<1>3. CASE UNCHANGED vars
    <2>1. BaseInv /\ UNCHANGED <<kb, pc, count, left, added, spoiled>>
        BY <1>3 DEF IInv, BaseInv, vars
    <2>2. BaseInv'
        BY <2>1, BaseUnchanged
    <2>3. TypeOK' /\ Collected' /\ OverWhenAllEnded'
        BY <1>3 DEF vars, kb, IInv, TypeOK, Collected, OverWhenAllEnded
    <2> QED BY <2>2, <2>3 DEF IInv, BaseInv
<1> QED BY <1>1, <1>2, <1>3 DEF Next

\* The invariant of run_projects and the Knowledge Base, for any number of
\* processes, jobs, threads and entries.
THEOREM PortfolioInvariant == Spec => []IInv
BY InitIInv, StepKeepsIInv, PTL DEF Spec

\* Every variable keeps its type.
THEOREM PortfolioTypeOK == Spec => []TypeOK
<1>1. IInv => TypeOK
    BY DEF IInv
<1> QED BY <1>1, PortfolioInvariant, PTL

\* An entry whose add returned is in the file under its id and stays there,
\* although the id is a count taken before the write lock and a process may
\* end, raise or keep its transaction open at any point; ids have no gap.
THEOREM PortfolioEntriesKept == Spec => []EntriesKept
<1>1. IInv => EntriesKept
    <2> SUFFICES ASSUME IInv PROVE EntriesKept
        OBVIOUS
    <2>1. PICK n \in Nat : DOMAIN file = 1..n
        BY DEF IInv, Dense
    <2>2. Cardinality(1..n) = IF 1 > n THEN 0 ELSE n - 1 + 1
        BY FS_Interval
    <2>3. Cardinality(DOMAIN file) = n
        BY <2>1, <2>2
    <2> QED BY <2>1, <2>3 DEF IInv, Returned, EntriesKept
<1> QED BY <1>1, PortfolioInvariant, PTL

\* A project fails on the Knowledge Base only where another process has written
\* to it or tried to: the lock around add is enough inside one process.
THEOREM PortfolioAloneNeverFails == Spec => []AloneNeverFails
<1>1. IInv => AloneNeverFails
    BY DEF IInv
<1> QED BY <1>1, PortfolioInvariant, PTL

\* run_projects is over only when all its projects are, and returns exactly
\* when each of them returned.
THEOREM PortfolioOverWhenAllEnded == Spec => []OverWhenAllEnded
<1>1. IInv => OverWhenAllEnded
    BY DEF IInv
<1> QED BY <1>1, PortfolioInvariant, PTL
-----------------------------------------------------------------------------
(* run_projects ends: its steps run out, and until then somebody can step  *)

\* The steps a job has before it at most: an entry takes three.
JobLeft(j) ==
    CASE pc[j] = "queued" -> MaxEntries * 3 + 4
      [] pc[j] = "planning" -> MaxEntries * 3 + 3
      [] pc[j] = "building" -> MaxEntries * 3 + 2
      [] pc[j] = "mining" -> left[j] * 3 + 1
      [] pc[j] = "insert" -> left[j] * 3
      [] pc[j] = "commit" -> left[j] * 3 - 1
      [] pc[j] \in Ended -> 0

\* The steps run_projects itself has before it in p; the last one ends p.
LeadLeft(p) ==
    CASE batch[p] = "running" -> Len(JobsOf[p]) - results[p] + 2
      [] batch[p] \in {"returned", "raised"} -> 1
      [] batch[p] = "killed" -> 0

\* A step takes the thread it is of nearer to its end and no thread away from
\* its own.
RunsOut ==
    /\ \A j \in Jobs : JobLeft(j) \in Nat /\ JobLeft(j)' \in Nat /\ JobLeft(j)' <= JobLeft(j)
    /\ \A p \in Processes :
        LeadLeft(p) \in Nat /\ LeadLeft(p)' \in Nat /\ LeadLeft(p)' <= LeadLeft(p)
    /\ \/ \E j \in Jobs : JobLeft(j)' < JobLeft(j)
       \/ \E p \in Processes : LeadLeft(p)' < LeadLeft(p)

LEMMA LeftNatural ==
    ASSUME IInv
    PROVE  /\ \A j \in Jobs : JobLeft(j) \in Nat
           /\ \A p \in Processes : LeadLeft(p) \in Nat
<1>1. ASSUME NEW j \in Jobs PROVE JobLeft(j) \in Nat
    <2>1. /\ left[j] \in Nat /\ MaxEntries \in Nat
          /\ pc[j] \in {"queued", "planning", "building", "mining", "insert", "commit"}
                         \cup Ended
        BY PortfolioAssumption DEF IInv, TypeOK
    <2>2. pc[j] = "commit" => left[j] > 0
        BY DEF IInv, Adding
    <2> QED BY <2>1, <2>2 DEF JobLeft, Ended
<1>2. ASSUME NEW p \in Processes PROVE LeadLeft(p) \in Nat
    <2>1. /\ results[p] \in Nat /\ results[p] <= Len(JobsOf[p])
          /\ batch[p] \in {"running", "returned", "raised", "killed"}
        BY DEF IInv, TypeOK, Ended
    <2>2. Len(JobsOf[p]) \in Nat
        BY PortfolioAssumption
    <2> QED BY <2>1, <2>2 DEF LeadLeft
<1> QED BY <1>1, <1>2

\* A job that is where it was, with the same entries to add, has as far to go.
LEMMA LeftUnchanged ==
    /\ \A j \in Jobs : pc'[j] = pc[j] /\ left'[j] = left[j] => JobLeft(j)' = JobLeft(j)
    /\ \A p \in Processes :
        batch'[p] = batch[p] /\ results'[p] = results[p] => LeadLeft(p)' = LeadLeft(p)
BY DEF JobLeft, LeadLeft

LEMMA ThreadRunsOut ==
    ASSUME IInv, NEW j \in Jobs, Thread(j)
    PROVE  /\ JobLeft(j)' < JobLeft(j)
           /\ \A i \in Jobs \ {j} : JobLeft(i)' = JobLeft(i)
           /\ \A p \in Processes : LeadLeft(p)' = LeadLeft(p)
<1>1. /\ pc \in [Jobs -> {"queued", "planning", "building", "mining", "insert", "commit"}
                          \cup Ended]
      /\ left \in [Jobs -> 0..MaxEntries] /\ MaxEntries \in Nat
    BY PortfolioAssumption DEF IInv, TypeOK
<1>2. pc[j] \in {"insert", "commit"} => left[j] > 0
    BY DEF IInv, Adding
<1>3. \/ /\ UNCHANGED left
         /\ \/ pc[j] = "queued" /\ pc' = [pc EXCEPT ![j] = "planning"]
            \/ pc[j] = "planning" /\ pc' = [pc EXCEPT ![j] = "building"]
            \/ pc[j] = "building" /\ pc' = [pc EXCEPT ![j] = "raised"]
            \/ pc[j] = "mining" /\ pc' = [pc EXCEPT ![j] = "insert"]
            \/ pc[j] = "insert" /\ pc' = [pc EXCEPT ![j] = "commit"]
            \/ pc[j] = "mining" /\ pc' = [pc EXCEPT ![j] = "returned"]
      \/ /\ pc[j] = "building" /\ pc' = [pc EXCEPT ![j] = "mining"]
         /\ \E n \in 0..MaxEntries : left' = [left EXCEPT ![j] = n]
      \/ /\ pc[j] = "commit" /\ pc' = [pc EXCEPT ![j] = "mining"]
         /\ left' = [left EXCEPT ![j] = @ - 1]
      \/ /\ pc[j] \in {"planning", "mining", "insert", "commit"}
         /\ pc' = [pc EXCEPT ![j] = "raised"] /\ left' = [left EXCEPT ![j] = 0]
    BY DEF Thread, Start, Query, QueryLocked, RunRaises, Mine, Count, CountLocked, Insert,
           InsertLocked, InsertDuplicate, Commit, CommitLocked, Return, Raise
<1>4. UNCHANGED <<batch, results>>
    BY DEF Thread, Start, Query, QueryLocked, RunRaises, Mine, Count, CountLocked, Insert,
           InsertLocked, InsertDuplicate, Commit, CommitLocked, Return, Raise
<1>5. \A i \in Jobs \ {j} : pc'[i] = pc[i] /\ left'[i] = left[i]
    BY <1>1, <1>3
<1>6. JobLeft(j)' < JobLeft(j)
    <2>1. left[j] \in 0..MaxEntries
        BY <1>1
    <2>2. \/ /\ left'[j] = left[j]
             /\ <<pc[j], pc'[j]>> \in
                  {<<"queued", "planning">>, <<"planning", "building">>,
                   <<"building", "raised">>, <<"mining", "insert">>,
                   <<"insert", "commit">>, <<"mining", "returned">>}
          \/ <<pc[j], pc'[j]>> = <<"building", "mining">> /\ left'[j] \in 0..MaxEntries
          \/ <<pc[j], pc'[j]>> = <<"commit", "mining">> /\ left'[j] = left[j] - 1
          \/ pc[j] \in {"planning", "mining", "insert", "commit"} /\ pc'[j] = "raised"
        BY <1>1, <1>3
    <2> QED BY <1>1, <1>2, <2>1, <2>2 DEF JobLeft, Ended
<1> QED BY <1>4, <1>5, <1>6, LeftUnchanged

LEMMA LeadRunsOut ==
    ASSUME IInv, NEW p \in Processes, Lead(p)
    PROVE  /\ LeadLeft(p)' < LeadLeft(p)
           /\ \A q \in Processes \ {p} : LeadLeft(q)' = LeadLeft(q)
           /\ \A j \in Jobs : JobLeft(j)' = JobLeft(j)
<1>1. /\ results \in [Processes -> Nat] /\ batch \in [Processes -> {"running"} \cup Ended]
      /\ results[p] <= Len(JobsOf[p]) /\ batch[p] = "running" /\ UNCHANGED <<pc, left>>
    BY DEF IInv, TypeOK, Lead, Collect, Leave
<1>2. Len(JobsOf[p]) \in Nat
    BY PortfolioAssumption
<1>3. CASE Collect(p)
    <2>1. /\ results'[p] = results[p] + 1 /\ batch' = batch
          /\ \A q \in Processes \ {p} : results'[q] = results[q]
        BY <1>1, <1>3 DEF Collect
    <2>2. LeadLeft(p)' < LeadLeft(p)
        BY <1>1, <1>2, <2>1 DEF LeadLeft
    <2> QED BY <1>1, <2>1, <2>2, LeftUnchanged
<1>4. CASE Leave(p)
    <2>1. /\ results' = results /\ batch'[p] \in {"returned", "raised"}
          /\ \A q \in Processes \ {p} : batch'[q] = batch[q]
        BY <1>1, <1>4 DEF Leave, Outcome
    <2>2. LeadLeft(p)' = 1 /\ LeadLeft(p) = Len(JobsOf[p]) - results[p] + 2
        BY <1>1, <2>1 DEF LeadLeft
    <2> QED BY <1>1, <1>2, <2>1, <2>2, LeftUnchanged
<1> QED BY <1>3, <1>4 DEF Lead

LEMMA ExitRunsOut ==
    ASSUME IInv, NEW p \in Processes, Exit(p)
    PROVE  /\ LeadLeft(p)' < LeadLeft(p)
           /\ \A q \in Processes \ {p} : LeadLeft(q)' = LeadLeft(q)
           /\ \A j \in Jobs : JobLeft(j)' <= JobLeft(j)
<1>1. /\ batch \in [Processes -> {"running"} \cup Ended] /\ batch[p] # "killed"
      /\ results[p] \in Nat /\ results[p] <= Len(JobsOf[p]) /\ Len(JobsOf[p]) \in Nat
      /\ results' = results /\ batch' = [batch EXCEPT ![p] = "killed"]
    BY PortfolioAssumption DEF IInv, TypeOK, Exit
<1>2. LeadLeft(p)' = 0 /\ LeadLeft(p) > 0
    BY <1>1 DEF LeadLeft, Ended
<1>3. ASSUME NEW j \in Jobs PROVE JobLeft(j)' <= JobLeft(j)
    <2>1. JobLeft(j) \in Nat
        BY LeftNatural
    <2>2. CASE Home[j] = p /\ pc[j] \notin Ended
        <3>1. pc'[j] = "killed"
            BY <2>2 DEF Exit
        <3>2. JobLeft(j)' = 0
            BY <3>1 DEF JobLeft, Ended
        <3> QED BY <2>1, <3>2
    <2>3. CASE pc[j] \in Ended
        <3>1. pc'[j] \in Ended
            BY <2>3 DEF Exit, Ended
        <3>2. JobLeft(j)' = 0
            BY <3>1 DEF JobLeft, Ended
        <3> QED BY <2>1, <3>2
    <2>4. CASE Home[j] # p
        <3>1. pc'[j] = pc[j] /\ left'[j] = left[j]
            BY <2>4 DEF Exit
        <3> QED BY <2>1, <3>1, LeftUnchanged
    <2> QED BY <2>2, <2>3, <2>4
<1>4. \A q \in Processes \ {p} : LeadLeft(q)' = LeadLeft(q)
    BY <1>1, LeftUnchanged
<1> QED BY <1>2, <1>3, <1>4

\* run_projects cannot go on for ever: statements that find the file locked end
\* their job and are not tried again.
THEOREM PortfolioRunsOut == Spec => [][RunsOut]_vars
<1>1. IInv /\ IInv' /\ [Next]_vars => [RunsOut]_vars
    <2> SUFFICES ASSUME IInv, IInv', Next PROVE RunsOut
        OBVIOUS
    <2>1. /\ \A j \in Jobs : JobLeft(j) \in Nat
          /\ \A p \in Processes : LeadLeft(p) \in Nat
        BY LeftNatural
    <2>2. /\ \A j \in Jobs : JobLeft(j)' \in Nat
          /\ \A p \in Processes : LeadLeft(p)' \in Nat
        <3>1. (IInv => /\ \A j \in Jobs : JobLeft(j) \in Nat
                       /\ \A p \in Processes : LeadLeft(p) \in Nat)'
            BY LeftNatural, PTL
        <3> QED BY <3>1
    <2>3. ASSUME NEW j \in Jobs, Thread(j) PROVE RunsOut
        <3>1. /\ \A i \in Jobs : JobLeft(i)' <= JobLeft(i)
              /\ \A p \in Processes : LeadLeft(p)' <= LeadLeft(p)
              /\ JobLeft(j)' < JobLeft(j)
            BY <2>1, <2>2, <2>3, ThreadRunsOut
        <3> QED BY <2>1, <2>2, <3>1 DEF RunsOut
    <2>4. ASSUME NEW p \in Processes, Lead(p) \/ Exit(p) PROVE RunsOut
        <3>1. /\ \A i \in Jobs : JobLeft(i)' <= JobLeft(i)
              /\ \A q \in Processes : LeadLeft(q)' <= LeadLeft(q)
              /\ LeadLeft(p)' < LeadLeft(p)
            BY <2>1, <2>2, <2>4, LeadRunsOut, ExitRunsOut
        <3> QED BY <2>1, <2>2, <3>1 DEF RunsOut
    <2> QED BY <2>3, <2>4 DEF Next
<1> QED BY <1>1, PortfolioInvariant, PTL DEF Spec

\* A job can go on by itself: a thread is free and the job is the first in the
\* queue; or it is past that, and not waiting for the lock around add.
CanGo(j) ==
    \/ /\ pc[j] = "queued"
       /\ Cardinality({i \in JobsIn[Home[j]] : pc[i] \notin Ended \cup {"queued"}})
              < Workers[Home[j]]
       /\ \A k \in 1..Len(JobsOf[Home[j]]) :
            pc[JobsOf[Home[j]][k]] = "queued" => \E m \in 1..k : JobsOf[Home[j]][m] = j
    \/ pc[j] \in {"planning", "building", "insert", "commit"}
    \/ pc[j] = "mining" /\ (left[j] = 0 \/ mutex[Home[j]] = Nobody)

\* As long as run_projects is not over, one of its jobs can go on, the result of
\* the next one can be collected, or the pool can be left.
NeverStuck ==
    \A p \in Processes : batch[p] = "running" =>
        \/ \E j \in JobsIn[p] : CanGo(j)
        \/ results[p] < Len(JobsOf[p]) /\ pc[NextJob(p)] = "returned"
        \/ LoopOver(p) /\ \A j \in JobsIn[p] : pc[j] \in Ended

\* A job that was killed had its process end.
KilledWithProcess ==
    \A j \in Jobs : pc[j] = "killed" => batch[Home[j]] = "killed"

LEMMA StepKeepsKilled ==
    ASSUME IInv, KilledWithProcess, [Next]_vars
    PROVE  KilledWithProcess'
<1>1. /\ pc \in [Jobs -> {"queued", "planning", "building", "mining", "insert", "commit"}
                          \cup Ended]
      /\ batch \in [Processes -> {"running"} \cup Ended]
    BY DEF IInv, TypeOK
<1>2. CASE UNCHANGED vars
    BY <1>2 DEF KilledWithProcess, vars
<1>3. ASSUME NEW j \in Jobs, Thread(j) PROVE KilledWithProcess'
    <2>1. batch' = batch /\ \E s \in {"planning", "building", "mining", "insert", "commit",
                                      "raised", "returned"} : pc' = [pc EXCEPT ![j] = s]
        BY <1>3 DEF Thread, Start, Query, QueryLocked, RunRaises, Mine, Count, CountLocked,
           Insert, InsertLocked, InsertDuplicate, Commit, CommitLocked, Return, Raise
    <2>2. \A i \in Jobs : pc'[i] = "killed" => pc[i] = "killed"
        BY <1>1, <2>1
    <2> QED BY <2>1, <2>2 DEF KilledWithProcess
<1>4. ASSUME NEW p \in Processes, Lead(p) PROVE KilledWithProcess'
    <2>1. /\ pc' = pc /\ batch[p] = "running"
          /\ \A q \in Processes \ {p} : batch'[q] = batch[q]
        BY <1>1, <1>4 DEF Lead, Collect, Leave
    <2> QED BY <2>1, HomeOfJob DEF KilledWithProcess
<1>5. ASSUME NEW p \in Processes, Exit(p) PROVE KilledWithProcess'
    <2>1. /\ batch'[p] = "killed" /\ \A q \in Processes \ {p} : batch'[q] = batch[q]
          /\ \A j \in Jobs : pc'[j] = "killed" => Home[j] = p \/ pc[j] = "killed"
        BY <1>1, <1>5 DEF Exit
    <2> QED BY <2>1, HomeOfJob DEF KilledWithProcess
<1> QED BY <1>2, <1>3, <1>4, <1>5 DEF Next

\* Of the jobs of a process that are queued, one is the first.
LEMMA FirstQueued ==
    ASSUME NEW p \in Processes, NEW i \in JobsIn[p], pc[i] = "queued"
    PROVE  \E k \in 1..Len(JobsOf[p]) :
             /\ pc[JobsOf[p][k]] = "queued"
             /\ \A m \in 1..Len(JobsOf[p]) : pc[JobsOf[p][m]] = "queued" => k <= m
<1> DEFINE S == {k \in 1..Len(JobsOf[p]) : pc[JobsOf[p][k]] = "queued"}
<1>1. JobsOf[p] \in Seq(Jobs) /\ Len(JobsOf[p]) \in Nat
    BY PortfolioAssumption
<1>2. PICK h \in 1..Len(JobsOf[p]) : JobsOf[p][h] = i
    <2>1. i \in ToSet(JobsOf[p])
        BY HomeOfJob
    <2> QED BY <1>1, <2>1 DEF ToSet
<1>3. S \in SUBSET Nat /\ S # {}
    BY <1>1, <1>2
<1>4. PICK k \in S : \A m \in S : ~ (<<m, k>> \in OpToRel(<, Nat))
    <2> HIDE DEF S
    <2> QED BY <1>3, NatLessThanWellFounded, WFMin
<1>5. \A m \in S : ~ (m < k)
    BY <1>3, <1>4 DEF OpToRel
<1>6. \A m \in S : k <= m
    BY <1>3, <1>5
<1> QED BY <1>6

\* A process whose threads are all idle starts the first job that is queued.
LEMMA QueueMoves ==
    ASSUME IInv, NEW p \in Processes, NEW i \in JobsIn[p], pc[i] = "queued",
           \A j \in JobsIn[p] : pc[j] \in Ended \cup {"queued"}
    PROVE  \E j \in JobsIn[p] : CanGo(j)
<1>1. PICK k \in 1..Len(JobsOf[p]) :
        /\ pc[JobsOf[p][k]] = "queued"
        /\ \A m \in 1..Len(JobsOf[p]) : pc[JobsOf[p][m]] = "queued" => k <= m
    BY FirstQueued
<1>2. JobsOf[p] \in Seq(Jobs) /\ Len(JobsOf[p]) \in Nat
    BY PortfolioAssumption
<1> DEFINE j == JobsOf[p][k]
<1>3. j \in JobsIn[p] /\ Home[j] = p
    <2>1. j \in ToSet(JobsOf[p])
        BY <1>1, <1>2 DEF ToSet
    <2> QED BY <2>1, HomeOfJob
<1>4. \A m \in 1..Len(JobsOf[p]) :
        pc[JobsOf[p][m]] = "queued" => \E n \in 1..m : JobsOf[p][n] = j
    BY <1>1, <1>2
<1>5. Cardinality({b \in JobsIn[p] : pc[b] \notin Ended \cup {"queued"}}) < Workers[p]
    <2> DEFINE busy == {b \in JobsIn[p] : pc[b] \notin Ended \cup {"queued"}}
    <2>1. busy = {}
        OBVIOUS
    <2>2. Workers[p] \in Nat \ {0}
        BY PortfolioAssumption
    <2> HIDE DEF busy
    <2>3. Cardinality(busy) < Workers[p]
        BY <2>1, <2>2, FS_EmptySet
    <2> QED BY <2>3 DEF busy
<1>6. pc[j] = "queued"
    BY <1>1
<1> HIDE DEF j
<1>7. CanGo(j)
    BY <1>3, <1>4, <1>5, <1>6 DEF CanGo
<1> QED BY <1>3, <1>7

\* No process of run_projects stands still before it is over: neither its lock
\* nor its pool nor the locks another process holds on the file keep all of its
\* jobs and its loop over the futures waiting.
THEOREM PortfolioNeverStuck == Spec => []NeverStuck
<1>1. Init => KilledWithProcess
    BY DEF Init, KilledWithProcess
<1>2. Spec => []KilledWithProcess
    BY <1>1, StepKeepsKilled, PortfolioInvariant, PTL DEF Spec
<1>3. IInv /\ KilledWithProcess => NeverStuck
    <2> SUFFICES ASSUME IInv, KilledWithProcess, NEW p \in Processes, batch[p] = "running"
                 PROVE  \/ \E j \in JobsIn[p] : CanGo(j)
                        \/ results[p] < Len(JobsOf[p]) /\ pc[NextJob(p)] = "returned"
                        \/ LoopOver(p) /\ \A j \in JobsIn[p] : pc[j] \in Ended
        BY DEF NeverStuck
    <2>1. \A j \in JobsIn[p] :
            /\ j \in Jobs /\ Home[j] = p
            /\ pc[j] \in {"queued", "planning", "building", "mining", "insert", "commit"}
                           \cup Ended
        BY HomeOfJob DEF IInv, TypeOK
    <2>2. ASSUME NEW j \in JobsIn[p], pc[j] \notin Ended \cup {"queued"}
          PROVE  \E i \in JobsIn[p] : CanGo(i)
        <3>1. CASE CanGo(j)
            BY <3>1
        <3>2. CASE ~ CanGo(j)
            <4>1. mutex[p] # Nobody
                BY <2>1, <2>2, <3>2 DEF CanGo
            <4>2. mutex[p] \in Jobs /\ Home[mutex[p]] = p
                BY <4>1 DEF IInv, TypeOK, Inside
            <4>3. pc[mutex[p]] \in {"insert", "commit"}
                BY <4>2 DEF IInv, Inside
            <4>4. mutex[p] \in JobsIn[p] /\ CanGo(mutex[p])
                BY <4>2, <4>3, HomeOfJob DEF CanGo
            <4> QED BY <4>4
        <3> QED BY <3>1, <3>2
    <2>3. CASE \E j \in JobsIn[p] : pc[j] \notin Ended \cup {"queued"}
        BY <2>2, <2>3
    <2>4. CASE /\ \A j \in JobsIn[p] : pc[j] \in Ended \cup {"queued"}
               /\ \E j \in JobsIn[p] : pc[j] = "queued"
        BY <2>4, QueueMoves
    <2>5. CASE \A j \in JobsIn[p] : pc[j] \in Ended
        <3>1. /\ results[p] \in Nat /\ results[p] <= Len(JobsOf[p])
              /\ JobsOf[p] \in Seq(Jobs) /\ Len(JobsOf[p]) \in Nat
            BY PortfolioAssumption DEF IInv, TypeOK
        <3>2. CASE results[p] = Len(JobsOf[p])
            BY <2>5, <3>2 DEF LoopOver
        <3>3. CASE results[p] < Len(JobsOf[p])
            <4>1. NextJob(p) \in JobsIn[p]
                <5>1. results[p] + 1 \in 1..Len(JobsOf[p])
                    BY <3>1, <3>3
                <5>2. NextJob(p) \in ToSet(JobsOf[p])
                    BY <3>1, <5>1 DEF NextJob, ToSet
                <5> QED BY <5>2, HomeOfJob
            <4>2. pc[NextJob(p)] # "killed"
                BY <2>1, <4>1 DEF KilledWithProcess
            <4>3. pc[NextJob(p)] \in {"returned", "raised"}
                BY <2>5, <4>1, <4>2 DEF Ended
            <4> QED BY <2>5, <3>3, <4>3 DEF LoopOver
        <3> QED BY <3>1, <3>2, <3>3
    <2> QED BY <2>3, <2>4, <2>5
<1> QED BY <1>2, <1>3, PortfolioInvariant, PTL
================================================================================
