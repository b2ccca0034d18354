------------------------- MODULE ArtifactStoreProofs -------------------------
(***************************************************************************)
(* Theorems about ArtifactStore, for any threads, artifacts, versions and  *)
(* moves, and with or without write faults.                                *)
(*                                                                         *)
(* The inductive invariant IInv says of the table and of the disk that     *)
(* they are sound (Sound), that the lock is held exactly by a thread in    *)
(* the middle of a write (LockHeld), what a thread in the middle of a put  *)
(* may rely on (PutUnderWay), and that what is committed is still in the   *)
(* table (Kept) and what is acknowledged is committed (Durable).           *)
(***************************************************************************)
EXTENDS ArtifactStore, TLAPS

\* A table every put and set_status has left in order.
Sound(tbl) ==
    /\ tbl \in Table
    /\ Dense(tbl)
    /\ \A a \in Artifacts, v \in Versions :
        v < Latest(tbl, a) => tbl[a][v].status = "superseded"
    /\ \A a \in Artifacts, v \in Versions :
        tbl[a][v] # NoRow => tbl[a][v].base + 1 = v

Writing == {"insert", "commit", "commitStatus"}

LockHeld == \A t \in Threads : lock = t <=> pc[t] \in Writing

\* What thread u, at step `step` of its call req, finds in the table.
PutSafe(u, tbl, step, req) ==
    /\ step = "put" => req.expected < MaxVersion
    /\ step = "insert" =>
        /\ req.expected = Latest(tbl, req.a) /\ Latest(tbl, req.a) < MaxVersion
        /\ \A v \in Versions :
            v <= Latest(tbl, req.a) => tbl[req.a][v].status = "superseded"
    /\ step = "commit" =>
        /\ Latest(tbl, req.a) > 0
        /\ tbl[req.a][Latest(tbl, req.a)].author = u

PutUnderWay == \A u \in Threads : PutSafe(u, table, pc[u], call[u])

Kept == \A a \in Artifacts, v \in Versions :
            disk[a][v] # NoRow => /\ table[a][v] # NoRow
                                  /\ table[a][v].author = disk[a][v].author

Durable == \A p \in acked :
            /\ disk[p[1]][p[2]] # NoRow
            /\ disk[p[1]][p[2]].author = p[3]

IInv ==
    /\ TypeOK
    /\ Sound(disk) /\ Sound(table)
    /\ LockHeld /\ PutUnderWay /\ Kept /\ Durable

-----------------------------------------------------------------------------
(* Facts about one table                                                   *)

\* There is at most one newest version.
LEMMA LatestUnique ==
    ASSUME NEW tbl, NEW a, NEW n \in 0..MaxVersion, IsLatest(tbl, a, n)
    PROVE  Latest(tbl, a) = n
<1>1. ASSUME NEW m \in 0..MaxVersion, IsLatest(tbl, a, m)
      PROVE  m = n
  <2>1. m <= n
    BY <1>1, StoreAssumption DEF IsLatest, Versions
  <2>2. n <= m
    BY <1>1, StoreAssumption DEF IsLatest, Versions
  <2>. QED
    BY <2>1, <2>2, StoreAssumption
<1>2. /\ Latest(tbl, a) \in 0..MaxVersion
      /\ IsLatest(tbl, a, Latest(tbl, a))
  BY DEF Latest
<1>. QED
  BY <1>1, <1>2

\* In a dense table Latest is what its name says.
LEMMA LatestIsNewest ==
    ASSUME NEW tbl, Dense(tbl), NEW a \in Artifacts
    PROVE  /\ Latest(tbl, a) \in 0..MaxVersion
           /\ IsLatest(tbl, a, Latest(tbl, a))
BY DEF Dense, Latest

\* NoRow is not a row.
LEMMA NoRowIsNone == NoRow \notin Row
BY DEF NoRow, Row, ArtifactStatus

\* The rows of a sound table up to the newest one are rows, and only they.
LEMMA RowsUpToLatest ==
    ASSUME NEW tbl, Sound(tbl), NEW a \in Artifacts, NEW v \in Versions
    PROVE  /\ v <= Latest(tbl, a) <=> tbl[a][v] # NoRow
           /\ v <= Latest(tbl, a) <=> tbl[a][v] \in Row
<1>1. tbl[a][v] # NoRow <=> v <= Latest(tbl, a)
  BY LatestIsNewest DEF Sound, IsLatest
<1>2. tbl[a][v] \in Row \cup {NoRow}
  BY DEF Sound, Table
<1>. QED
  BY <1>1, <1>2, NoRowIsNone

\* Superseding the newest version keeps a table sound, every newest version
\* where it was, and every row by its author.
LEMMA SupersedeSound ==
    ASSUME NEW a \in Artifacts, Sound(table)
    PROVE  LET new == Supersede(a, Latest(table, a))
           IN  /\ Sound(new)
               /\ \A b \in Artifacts : Latest(new, b) = Latest(table, b)
               /\ \A b \in Artifacts, v \in Versions :
                    /\ new[b][v] = NoRow <=> table[b][v] = NoRow
                    /\ new[b][v].author = table[b][v].author
               /\ \A v \in Versions :
                    v <= Latest(table, a) => new[a][v].status = "superseded"
<1>. DEFINE n == Latest(table, a)
            new == Supersede(a, n)
<1>1. n \in 0..MaxVersion
  BY LatestIsNewest DEF Sound
<1>2. \A b \in Artifacts, v \in Versions :
        new[b][v] = IF b = a /\ v = n THEN [table[b][v] EXCEPT !.status = "superseded"]
                    ELSE table[b][v]
  BY DEF Supersede, Sound, Table
<1>3. \A v \in Versions : v = n => table[a][v] \in Row
  BY <1>1, RowsUpToLatest, StoreAssumption DEF Versions
<1>4. \A b \in Artifacts, v \in Versions :
        /\ table[b][v] \in Row => new[b][v] \in Row
        /\ table[b][v] = NoRow => new[b][v] = NoRow
        /\ new[b][v].author = table[b][v].author
        /\ new[b][v].base = table[b][v].base
  <2>. SUFFICES ASSUME NEW b \in Artifacts, NEW v \in Versions
                PROVE  /\ table[b][v] \in Row => new[b][v] \in Row
                       /\ table[b][v] = NoRow => new[b][v] = NoRow
                       /\ new[b][v].author = table[b][v].author
                       /\ new[b][v].base = table[b][v].base
    OBVIOUS
  <2>1. CASE b = a /\ v = n
    <3>1. table[b][v] \in Row
      BY <2>1, <1>3
    <3>2. new[b][v] = [table[b][v] EXCEPT !.status = "superseded"]
      BY <2>1, <1>2
    <3>. HIDE DEF new
    <3>. QED
      BY <3>1, <3>2, NoRowIsNone DEF Row, ArtifactStatus
  <2>2. CASE ~ (b = a /\ v = n)
    BY <2>2, <1>2
  <2>. QED
    BY <2>1, <2>2
<1>5. new \in Table
  <2>1. \A b \in Artifacts, v \in Versions : new[b][v] \in Row \cup {NoRow}
    BY <1>4 DEF Sound, Table
  <2>2. new = [b \in Artifacts |-> [v \in Versions |-> new[b][v]]]
    BY DEF Supersede, Sound, Table
  <2>. HIDE DEF new
  <2>. QED
    BY <2>1, <2>2 DEF Table
<1>6. \A b \in Artifacts, v \in Versions : new[b][v] = NoRow <=> table[b][v] = NoRow
  BY <1>4, NoRowIsNone DEF Sound, Table
<1>7. \A b \in Artifacts : /\ IsLatest(new, b, Latest(table, b))
                           /\ Latest(table, b) \in 0..MaxVersion
  <2>. HIDE DEF new
  <2>. QED
    BY <1>6, LatestIsNewest DEF Sound, IsLatest
<1>8. \A b \in Artifacts : Latest(new, b) = Latest(table, b)
  <2>. HIDE DEF new
  <2>. QED
    BY <1>7, LatestUnique
<1>9. \A b \in Artifacts, v \in Versions :
        v < Latest(table, b) \/ (b = a /\ v <= Latest(table, b))
            => new[b][v].status = "superseded"
  <2>. SUFFICES ASSUME NEW b \in Artifacts, NEW v \in Versions,
                       v < Latest(table, b) \/ (b = a /\ v <= Latest(table, b))
                PROVE  new[b][v].status = "superseded"
    OBVIOUS
  <2>1. CASE b = a /\ v = n
    <3>1. new[b][v] = [table[b][v] EXCEPT !.status = "superseded"]
      BY <2>1, <1>2
    <3>2. table[b][v] \in Row
      BY <2>1, <1>3
    <3>. HIDE DEF new
    <3>. QED
      BY <3>1, <3>2 DEF Row
  <2>2. CASE ~ (b = a /\ v = n)
    <3>1. new[b][v] = table[b][v]
      BY <2>2, <1>2
    <3>2. v < Latest(table, b)
      BY <2>2, <1>1, StoreAssumption DEF Versions
    <3>. QED
      BY <3>1, <3>2 DEF Sound
  <2>. QED
    BY <2>1, <2>2
<1>10. Sound(new)
  <2>1. Dense(new)
    BY <1>7 DEF Dense
  <2>2. \A b \in Artifacts, v \in Versions :
            new[b][v] # NoRow => new[b][v].base + 1 = v
    BY <1>4, <1>6 DEF Sound
  <2>3. \A b \in Artifacts, v \in Versions :
            v < Latest(new, b) => new[b][v].status = "superseded"
    BY <1>8, <1>9
  <2>. HIDE DEF new
  <2>. QED
    BY <1>5, <2>1, <2>2, <2>3 DEF Sound
<1>. HIDE DEF new
<1>. QED
  BY <1>4, <1>6, <1>8, <1>9, <1>10 DEF new

\* The table with row as the next version of a, and with status s on the
\* newest version of a.
Inserted(a, row) == [table EXCEPT ![a][Latest(table, a) + 1] = row]
Restated(a, s) == [table EXCEPT ![a][Latest(table, a)].status = s]

\* Inserting the next version over superseded ones keeps a table sound.
LEMMA InsertSound ==
    ASSUME NEW a \in Artifacts, Sound(table), NEW row \in Row,
           Latest(table, a) < MaxVersion, row.base = Latest(table, a),
           \A v \in Versions :
               v <= Latest(table, a) => table[a][v].status = "superseded"
    PROVE  LET n == Latest(table, a)
               new == Inserted(a, row)
           IN  /\ Sound(new)
               /\ Latest(new, a) = n + 1
               /\ n + 1 \in Versions
               /\ table[a][n + 1] = NoRow
               /\ new[a][n + 1] = row
               /\ \A b \in Artifacts, v \in Versions :
                    ~ (b = a /\ v = n + 1) => new[b][v] = table[b][v]
               /\ \A b \in Artifacts : b # a => Latest(new, b) = Latest(table, b)
<1>. DEFINE n == Latest(table, a)
            new == Inserted(a, row)
<1>1. n \in 0..MaxVersion /\ n + 1 \in Versions
  BY LatestIsNewest, StoreAssumption DEF Sound, Versions
<1>2. table[a][n + 1] = NoRow
  BY <1>1, LatestIsNewest, StoreAssumption DEF Sound, IsLatest
<1>3. /\ new[a][n + 1] = row
      /\ \A b \in Artifacts, v \in Versions :
            ~ (b = a /\ v = n + 1) => new[b][v] = table[b][v]
  BY <1>1 DEF Sound, Table, Inserted
<1>4. new \in Table
  BY <1>1 DEF Sound, Table, Inserted
<1>. HIDE DEF new
<1>5. \A b \in Artifacts :
        IsLatest(new, b, IF b = a THEN n + 1 ELSE Latest(table, b))
  <2>. SUFFICES ASSUME NEW b \in Artifacts
                PROVE  IsLatest(new, b, IF b = a THEN n + 1 ELSE Latest(table, b))
    OBVIOUS
  <2>1. IsLatest(table, b, Latest(table, b)) /\ Latest(table, b) \in 0..MaxVersion
    BY LatestIsNewest DEF Sound
  <2>2. CASE b = a
    <3>. SUFFICES ASSUME NEW v \in Versions
                  PROVE  new[a][v] # NoRow <=> v <= n + 1
      BY <2>2 DEF IsLatest
    <3>1. CASE v = n + 1
      BY <3>1, <1>1, <1>3, NoRowIsNone, StoreAssumption DEF Versions
    <3>2. CASE v # n + 1
      BY <3>2, <2>1, <2>2, <1>1, <1>3, StoreAssumption DEF Versions, IsLatest
    <3>. QED
      BY <3>1, <3>2
  <2>3. CASE b # a
    BY <2>1, <2>3, <1>3 DEF IsLatest
  <2>. QED
    BY <2>2, <2>3
<1>6. \A b \in Artifacts :
        /\ Latest(new, b) = IF b = a THEN n + 1 ELSE Latest(table, b)
        /\ Latest(new, b) \in 0..MaxVersion
  <2>1. \A b \in Artifacts :
          (IF b = a THEN n + 1 ELSE Latest(table, b)) \in 0..MaxVersion
    BY <1>1, LatestIsNewest, StoreAssumption DEF Sound, Versions
  <2>. QED
    BY <2>1, <1>5, LatestUnique
<1>7. Sound(new)
  <2>1. Dense(new)
    BY <1>5, <1>6 DEF Dense
  <2>2. \A b \in Artifacts, v \in Versions :
            v < Latest(new, b) => new[b][v].status = "superseded"
    <3>. SUFFICES ASSUME NEW b \in Artifacts, NEW v \in Versions,
                         v < Latest(new, b)
                  PROVE  new[b][v].status = "superseded"
      OBVIOUS
    <3>1. CASE b = a
      <4>1. v <= n /\ v # n + 1
        BY <3>1, <1>1, <1>6, StoreAssumption DEF Versions
      <4>. QED
        BY <3>1, <4>1, <1>3
    <3>2. CASE b # a
      BY <3>2, <1>3, <1>6 DEF Sound
    <3>. QED
      BY <3>1, <3>2
  <2>3. \A b \in Artifacts, v \in Versions :
            new[b][v] # NoRow => new[b][v].base + 1 = v
    BY <1>3 DEF Sound
  <2>. QED
    BY <1>4, <2>1, <2>2, <2>3 DEF Sound
<1>. QED
  BY <1>1, <1>2, <1>3, <1>6, <1>7 DEF new

\* Giving the newest version another status keeps a table sound.
LEMMA StatusSound ==
    ASSUME NEW a \in Artifacts, Sound(table), NEW s \in ArtifactStatus,
           Latest(table, a) > 0
    PROVE  LET n == Latest(table, a)
               new == Restated(a, s)
           IN  /\ Sound(new)
               /\ \A b \in Artifacts : Latest(new, b) = Latest(table, b)
               /\ \A b \in Artifacts, v \in Versions :
                    /\ new[b][v] = NoRow <=> table[b][v] = NoRow
                    /\ new[b][v].author = table[b][v].author
                    /\ ~ (b = a /\ v = n) => new[b][v] = table[b][v]
               /\ n \in Versions
               /\ new[a][n].status = s
<1>. DEFINE n == Latest(table, a)
            new == Restated(a, s)
<1>1. n \in Versions
  BY LatestIsNewest, StoreAssumption DEF Sound, Versions
<1>2. table[a][n] \in Row
  BY <1>1, RowsUpToLatest, StoreAssumption DEF Versions
<1>3. /\ new[a][n] = [table[a][n] EXCEPT !.status = s]
      /\ \A b \in Artifacts, v \in Versions :
            ~ (b = a /\ v = n) => new[b][v] = table[b][v]
      /\ new = [b \in Artifacts |-> [v \in Versions |-> new[b][v]]]
  BY <1>1 DEF Sound, Table, Restated
<1>. HIDE DEF new
<1>4. /\ new[a][n] \in Row
      /\ new[a][n].status = s
      /\ new[a][n].author = table[a][n].author
      /\ new[a][n].base = table[a][n].base
  BY <1>2, <1>3 DEF Row
<1>5. \A b \in Artifacts, v \in Versions :
        /\ new[b][v] = NoRow <=> table[b][v] = NoRow
        /\ new[b][v].author = table[b][v].author
        /\ new[b][v].base = table[b][v].base
        /\ new[b][v] \in Row \cup {NoRow}
  <2>. SUFFICES ASSUME NEW b \in Artifacts, NEW v \in Versions
                PROVE  /\ new[b][v] = NoRow <=> table[b][v] = NoRow
                       /\ new[b][v].author = table[b][v].author
                       /\ new[b][v].base = table[b][v].base
                       /\ new[b][v] \in Row \cup {NoRow}
    OBVIOUS
  <2>1. CASE b = a /\ v = n
    BY <2>1, <1>2, <1>4, NoRowIsNone
  <2>2. CASE ~ (b = a /\ v = n)
    BY <2>2, <1>3 DEF Sound, Table
  <2>. QED
    BY <2>1, <2>2
<1>6. new \in Table
  BY <1>3, <1>5 DEF Table
<1>7. \A b \in Artifacts :
        /\ IsLatest(new, b, Latest(table, b))
        /\ Latest(table, b) \in 0..MaxVersion
        /\ Latest(new, b) = Latest(table, b)
  <2>1. \A b \in Artifacts : /\ IsLatest(new, b, Latest(table, b))
                             /\ Latest(table, b) \in 0..MaxVersion
    BY <1>5, LatestIsNewest DEF Sound, IsLatest
  <2>. QED
    BY <2>1, LatestUnique
<1>8. Sound(new)
  <2>1. Dense(new)
    BY <1>7 DEF Dense
  <2>2. \A b \in Artifacts, v \in Versions :
            v < Latest(new, b) => new[b][v].status = "superseded"
    BY <1>1, <1>3, <1>7, SMTT(20) DEF Sound, Versions
  <2>3. \A b \in Artifacts, v \in Versions :
            new[b][v] # NoRow => new[b][v].base + 1 = v
    BY <1>5 DEF Sound
  <2>. QED
    BY <1>6, <2>1, <2>2, <2>3 DEF Sound
<1>. QED
  BY <1>1, <1>3, <1>4, <1>5, <1>7, <1>8 DEF new

-----------------------------------------------------------------------------
(* The inductive invariant                                                 *)

\* The empty database is sound.
LEMMA InitIInv == Init => IInv
<1>. SUFFICES ASSUME Init PROVE IInv
  OBVIOUS
<1>1. disk \in Table /\ table \in Table
  BY DEF Init, Table
<1>2. \A a \in Artifacts, v \in Versions : disk[a][v] = NoRow /\ table[a][v] = NoRow
  BY DEF Init
<1>3. \A a \in Artifacts : IsLatest(disk, a, 0) /\ IsLatest(table, a, 0)
  BY <1>2, StoreAssumption DEF IsLatest, Versions
<1>4. \A a \in Artifacts : Latest(disk, a) = 0 /\ Latest(table, a) = 0
  BY <1>3, LatestUnique, StoreAssumption
<1>5. Sound(disk) /\ Sound(table)
  BY <1>1, <1>2, <1>3, <1>4, StoreAssumption DEF Sound, Dense, Versions
<1>6. TypeOK
  BY <1>1, StoreAssumption DEF Init, TypeOK
<1>7. LockHeld /\ PutUnderWay /\ Kept /\ Durable
  BY <1>2, StoreAssumption DEF Init, LockHeld, Writing, PutUnderWay, PutSafe, Kept, Durable
<1>. QED
  BY <1>5, <1>6, <1>7 DEF IInv

\* Reading the version to update.
LEMMA ReadVersionIInv ==
    ASSUME IInv, NEW t \in Threads, NEW a \in Artifacts, ReadVersion(t, a)
    PROVE  IInv'
<1>1. Latest(table, a) \in 0..MaxVersion
  BY LatestIsNewest DEF IInv, Sound
<1>2. TypeOK'
  BY <1>1 DEF IInv, TypeOK, ReadVersion
<1>3. Sound(disk)' /\ Sound(table)' /\ Kept' /\ Durable'
  BY DEF IInv, ReadVersion, Sound, Dense, IsLatest, Latest, Kept, Durable
<1>4. LockHeld'
  BY DEF IInv, TypeOK, ReadVersion, LockHeld, Writing
<1>5. PutUnderWay'
  <2>. SUFFICES ASSUME NEW u \in Threads
                PROVE  PutSafe(u, table, pc'[u], call'[u])
    BY DEF PutUnderWay, ReadVersion
  <2>1. CASE u = t
    BY <2>1 DEF IInv, TypeOK, ReadVersion, PutSafe
  <2>2. CASE u # t
    BY <2>2 DEF IInv, TypeOK, ReadVersion, PutUnderWay
  <2>. QED
    BY <2>1, <2>2
<1>. QED
  BY <1>2, <1>3, <1>4, <1>5 DEF IInv

\* put's check and UPDATE.
LEMMA PutBeginIInv ==
    ASSUME IInv, NEW t \in Threads, PutBegin(t)
    PROVE  IInv'
<1>. DEFINE a == call[t].a
            n == Latest(table, a)
<1>1. /\ a \in Artifacts /\ pc[t] = "put" /\ lock = Nobody
      /\ call[t].expected = n /\ n < MaxVersion
      /\ table' = Supersede(a, n) /\ lock' = t
      /\ pc' = [pc EXCEPT ![t] = "insert"]
      /\ UNCHANGED <<disk, call, acked, writes>>
  BY DEF IInv, TypeOK, PutBegin, PutUnderWay, PutSafe
<1>2. Sound(table)
  BY DEF IInv
<1>3. /\ Sound(table')
      /\ \A b \in Artifacts : Latest(table', b) = Latest(table, b)
      /\ \A b \in Artifacts, v \in Versions :
            /\ table'[b][v] = NoRow <=> table[b][v] = NoRow
            /\ table'[b][v].author = table[b][v].author
      /\ \A v \in Versions : v <= n => table'[a][v].status = "superseded"
  BY <1>1, <1>2, SupersedeSound
<1>4. TypeOK'
  BY <1>1, <1>3 DEF IInv, TypeOK, Sound
<1>5. LockHeld'
  BY <1>1, StoreAssumption DEF IInv, TypeOK, LockHeld, Writing
<1>6. PutUnderWay'
  <2>. SUFFICES ASSUME NEW u \in Threads
                PROVE  PutSafe(u, table', pc'[u], call'[u])
    BY DEF PutUnderWay
  <2>1. CASE u = t
    <3>1. pc'[u] = "insert" /\ call'[u] = call[t]
      BY <1>1, <2>1 DEF IInv, TypeOK
    <3>. QED
      BY <1>1, <1>3, <3>1 DEF PutSafe
  <2>2. CASE u # t
    <3>1. pc'[u] = pc[u] /\ call'[u] = call[u] /\ pc[u] \notin Writing
      BY <1>1, <2>2, StoreAssumption DEF IInv, TypeOK, LockHeld
    <3>. QED
      BY <3>1 DEF IInv, PutUnderWay, PutSafe, Writing
  <2>. QED
    BY <2>1, <2>2
<1>7. Kept' /\ Durable'
  BY <1>1, <1>3 DEF IInv, Kept, Durable
<1>8. Sound(disk)'
  BY <1>1 DEF IInv, Sound, Dense, IsLatest, Latest
<1>. QED
  BY <1>3, <1>4, <1>5, <1>6, <1>7, <1>8 DEF IInv

\* put's optimistic check fails.
LEMMA PutConflictIInv ==
    ASSUME IInv, NEW t \in Threads, PutConflict(t)
    PROVE  IInv'
<1>1. /\ pc[t] = "put" /\ pc' = [pc EXCEPT ![t] = "idle"]
      /\ UNCHANGED <<disk, table, lock, call, acked, writes>>
  BY DEF PutConflict
<1>2. TypeOK' /\ LockHeld' /\ Kept' /\ Durable'
  BY <1>1 DEF IInv, TypeOK, LockHeld, Writing, Kept, Durable
<1>3. Sound(disk)' /\ Sound(table)'
  BY <1>1 DEF IInv, Sound, Dense, IsLatest, Latest
<1>4. PutUnderWay'
  <2>. SUFFICES ASSUME NEW u \in Threads
                PROVE  PutSafe(u, table, pc'[u], call[u])
    BY <1>1 DEF PutUnderWay
  <2>1. pc'[u] = "idle" \/ pc'[u] = pc[u]
    BY <1>1 DEF IInv, TypeOK
  <2>. QED
    BY <2>1 DEF IInv, PutUnderWay, PutSafe
<1>. QED
  BY <1>2, <1>3, <1>4 DEF IInv

\* put's INSERT.
LEMMA PutInsertIInv ==
    ASSUME IInv, NEW t \in Threads, PutInsert(t)
    PROVE  IInv'
<1>. DEFINE a == call[t].a
            n == Latest(table, a)
            row == [status |-> "draft", author |-> t, base |-> call[t].expected]
<1>1. /\ a \in Artifacts /\ pc[t] = "insert"
      /\ call[t].expected = n /\ n < MaxVersion
      /\ \A v \in Versions : v <= n => table[a][v].status = "superseded"
      /\ table' = [table EXCEPT ![a][n + 1] = row]
      /\ pc' = [pc EXCEPT ![t] = "commit"]
      /\ UNCHANGED <<disk, lock, call, acked, writes>>
  BY DEF IInv, TypeOK, PutInsert, PutUnderWay, PutSafe
<1>2. Sound(table)
  BY DEF IInv
<1>3. row \in Row /\ row.base = n /\ row.author = t
  BY <1>1 DEF IInv, TypeOK, Row, ArtifactStatus
<1>. HIDE DEF row
<1>4. /\ Sound(table')
      /\ Latest(table', a) = n + 1
      /\ n + 1 \in Versions
      /\ table[a][n + 1] = NoRow
      /\ table'[a][n + 1] = row
      /\ \A b \in Artifacts, v \in Versions :
            ~ (b = a /\ v = n + 1) => table'[b][v] = table[b][v]
  <2>. DEFINE new == Inserted(a, row)
  <2>1. table' = new
    BY <1>1 DEF Inserted
  <2>. HIDE DEF new
  <2>2. /\ Sound(new)
        /\ Latest(new, a) = n + 1
        /\ n + 1 \in Versions
        /\ table[a][n + 1] = NoRow
        /\ new[a][n + 1] = row
        /\ \A b \in Artifacts, v \in Versions :
              ~ (b = a /\ v = n + 1) => new[b][v] = table[b][v]
    BY <1>1, <1>2, <1>3, InsertSound DEF new
  <2>. QED
    BY <2>1, <2>2
<1>5. TypeOK'
  BY <1>1, <1>4 DEF IInv, TypeOK, Sound
<1>6. LockHeld'
  BY <1>1 DEF IInv, TypeOK, LockHeld, Writing
<1>7. PutUnderWay'
  <2>. SUFFICES ASSUME NEW u \in Threads
                PROVE  PutSafe(u, table', pc'[u], call'[u])
    BY DEF PutUnderWay
  <2>1. CASE u = t
    <3>1. pc'[u] = "commit" /\ call'[u] = call[t]
      BY <1>1, <2>1 DEF IInv, TypeOK
    <3>. QED
      BY <1>3, <1>4, <2>1, <3>1, StoreAssumption DEF PutSafe, Versions
  <2>2. CASE u # t
    <3>1. pc'[u] = pc[u] /\ call'[u] = call[u] /\ pc[u] \notin Writing
      BY <1>1, <2>2 DEF IInv, TypeOK, LockHeld, Writing
    <3>. QED
      BY <3>1 DEF IInv, PutUnderWay, PutSafe, Writing
  <2>. QED
    BY <2>1, <2>2
<1>8. Kept' /\ Durable'
  BY <1>1, <1>4 DEF IInv, Kept, Durable
<1>9. Sound(disk)'
  BY <1>1 DEF IInv, Sound, Dense, IsLatest, Latest
<1>. QED
  BY <1>4, <1>5, <1>6, <1>7, <1>8, <1>9 DEF IInv

\* put's commit.
LEMMA PutCommitIInv ==
    ASSUME IInv, NEW t \in Threads, PutCommit(t)
    PROVE  IInv'
<1>. DEFINE a == call[t].a
            n == Latest(table, a)
<1>1. /\ a \in Artifacts /\ pc[t] = "commit"
      /\ n > 0 /\ table[a][n].author = t
      /\ disk' = table /\ lock' = Nobody
      /\ acked' = acked \cup {<<a, n, t>>}
      /\ pc' = [pc EXCEPT ![t] = "idle"]
      /\ UNCHANGED <<table, call, writes>>
  BY DEF IInv, TypeOK, PutCommit, PutUnderWay, PutSafe
<1>2. Sound(table) /\ table \in Table
  BY DEF IInv, Sound
<1>3. n \in Versions /\ table[a][n] # NoRow
  <2>1. n \in Versions
    BY <1>1, <1>2, LatestIsNewest, StoreAssumption DEF Sound, Versions
  <2>. QED
    BY <1>1, <1>2, <2>1, RowsUpToLatest, StoreAssumption DEF Versions
<1>4. TypeOK'
  BY <1>1, <1>2, <1>3 DEF IInv, TypeOK
<1>5. LockHeld'
  BY <1>1, StoreAssumption DEF IInv, TypeOK, LockHeld, Writing
<1>6. PutUnderWay'
  <2>. SUFFICES ASSUME NEW u \in Threads
                PROVE  PutSafe(u, table, pc'[u], call[u])
    BY <1>1 DEF PutUnderWay
  <2>1. pc'[u] = "idle" \/ pc'[u] = pc[u]
    BY <1>1 DEF IInv, TypeOK
  <2>. QED
    BY <2>1 DEF IInv, PutUnderWay, PutSafe
<1>7. Kept'
  BY <1>1 DEF Kept
<1>8. Durable'
  <2>. SUFFICES ASSUME NEW p \in acked'
                PROVE  table[p[1]][p[2]] # NoRow /\ table[p[1]][p[2]].author = p[3]
    BY <1>1 DEF Durable
  <2>1. CASE p = <<a, n, t>>
    BY <2>1, <1>1, <1>3
  <2>2. CASE p \in acked
    <3>1. p[1] \in Artifacts /\ p[2] \in Versions
      BY <2>2 DEF IInv, TypeOK
    <3>. QED
      BY <2>2, <3>1 DEF IInv, Durable, Kept
  <2>. QED
    BY <1>1, <2>1, <2>2
<1>9. Sound(disk') /\ Sound(table')
  BY <1>1, <1>2
<1>. QED
  BY <1>4, <1>5, <1>6, <1>7, <1>8, <1>9 DEF IInv

\* set_status, up to its commit.
LEMMA SetStatusBeginIInv ==
    ASSUME IInv, NEW t \in Threads, NEW a \in Artifacts, NEW s \in Moves,
           SetStatusBegin(t, a, s)
    PROVE  IInv'
<1>. DEFINE n == Latest(table, a)
<1>1. /\ pc[t] = "idle" /\ lock = Nobody /\ n > 0
      /\ table' = [table EXCEPT ![a][n].status = s]
      /\ lock' = t
      /\ pc' = [pc EXCEPT ![t] = "commitStatus"]
      /\ call' = [call EXCEPT ![t] = [a |-> a, expected |-> n]]
      /\ UNCHANGED <<disk, acked, writes>>
  BY DEF SetStatusBegin
<1>2. Sound(table) /\ s \in ArtifactStatus
  BY StoreAssumption DEF IInv
<1>3. /\ Sound(table')
      /\ \A b \in Artifacts, v \in Versions :
            /\ table'[b][v] = NoRow <=> table[b][v] = NoRow
            /\ table'[b][v].author = table[b][v].author
      /\ n \in Versions
  <2>1. table' = Restated(a, s)
    BY <1>1 DEF Restated
  <2>2. Latest(table, a) > 0
    BY <1>1
  <2>. QED
    BY <1>2, <2>1, <2>2, StatusSound
<1>4. TypeOK'
  BY <1>1, <1>3, StoreAssumption DEF IInv, TypeOK, Sound, Versions
<1>5. LockHeld'
  BY <1>1, StoreAssumption DEF IInv, TypeOK, LockHeld, Writing
<1>6. PutUnderWay'
  <2>. SUFFICES ASSUME NEW u \in Threads
                PROVE  PutSafe(u, table', pc'[u], call'[u])
    BY DEF PutUnderWay
  <2>1. CASE u = t
    <3>1. pc'[u] = "commitStatus"
      BY <1>1, <2>1 DEF IInv, TypeOK
    <3>. QED
      BY <3>1 DEF PutSafe
  <2>2. CASE u # t
    <3>1. pc'[u] = pc[u] /\ call'[u] = call[u] /\ pc[u] \notin Writing
      BY <1>1, <2>2, StoreAssumption DEF IInv, TypeOK, LockHeld
    <3>. QED
      BY <3>1 DEF IInv, PutUnderWay, PutSafe, Writing
  <2>. QED
    BY <2>1, <2>2
<1>7. Kept' /\ Durable'
  BY <1>1, <1>3 DEF IInv, Kept, Durable
<1>8. Sound(disk)'
  BY <1>1 DEF IInv, Sound, Dense, IsLatest, Latest
<1>. QED
  BY <1>3, <1>4, <1>5, <1>6, <1>7, <1>8 DEF IInv

\* set_status's commit.
LEMMA SetStatusCommitIInv ==
    ASSUME IInv, NEW t \in Threads, SetStatusCommit(t)
    PROVE  IInv'
<1>1. /\ pc[t] = "commitStatus" /\ disk' = table /\ lock' = Nobody
      /\ pc' = [pc EXCEPT ![t] = "idle"]
      /\ UNCHANGED <<table, call, acked, writes>>
  BY DEF SetStatusCommit
<1>2. Sound(table) /\ table \in Table
  BY DEF IInv, Sound
<1>3. TypeOK'
  BY <1>1, <1>2 DEF IInv, TypeOK
<1>4. LockHeld'
  BY <1>1, StoreAssumption DEF IInv, TypeOK, LockHeld, Writing
<1>5. PutUnderWay'
  <2>. SUFFICES ASSUME NEW u \in Threads
                PROVE  PutSafe(u, table, pc'[u], call[u])
    BY <1>1 DEF PutUnderWay
  <2>1. pc'[u] = "idle" \/ pc'[u] = pc[u]
    BY <1>1 DEF IInv, TypeOK
  <2>. QED
    BY <2>1 DEF IInv, PutUnderWay, PutSafe
<1>6. Kept'
  BY <1>1 DEF Kept
<1>7. Durable'
  <2>. SUFFICES ASSUME NEW p \in acked
                PROVE  table[p[1]][p[2]] # NoRow /\ table[p[1]][p[2]].author = p[3]
    BY <1>1 DEF Durable
  <2>1. p[1] \in Artifacts /\ p[2] \in Versions
    BY DEF IInv, TypeOK
  <2>. QED
    BY <2>1 DEF IInv, Durable, Kept
<1>8. Sound(disk') /\ Sound(table')
  BY <1>1, <1>2
<1>. QED
  BY <1>3, <1>4, <1>5, <1>6, <1>7, <1>8 DEF IInv

\* A write that raises.
LEMMA WriteFailsIInv ==
    ASSUME IInv, NEW t \in Threads, WriteFails(t)
    PROVE  IInv'
<1>1. /\ pc[t] \in Writing /\ lock' = Nobody
      /\ pc' = [pc EXCEPT ![t] = "idle"]
      /\ writes' = "failed"
      /\ UNCHANGED <<disk, table, call, acked>>
  BY DEF WriteFails, Writing
<1>2. TypeOK' /\ Kept' /\ Durable'
  BY <1>1 DEF IInv, TypeOK, Kept, Durable
<1>3. LockHeld'
  BY <1>1, StoreAssumption DEF IInv, TypeOK, LockHeld, Writing
<1>4. Sound(disk)' /\ Sound(table)'
  BY <1>1 DEF IInv, Sound, Dense, IsLatest, Latest
<1>5. PutUnderWay'
  <2>. SUFFICES ASSUME NEW u \in Threads
                PROVE  PutSafe(u, table, pc'[u], call[u])
    BY <1>1 DEF PutUnderWay
  <2>1. pc'[u] = "idle" \/ pc'[u] = pc[u]
    BY <1>1 DEF IInv, TypeOK
  <2>. QED
    BY <2>1 DEF IInv, PutUnderWay, PutSafe
<1>. QED
  BY <1>2, <1>3, <1>4, <1>5 DEF IInv

\* The end of the process.
LEMMA CrashIInv ==
    ASSUME IInv, Crash
    PROVE  IInv'
<1>1. /\ table' = disk /\ lock' = Nobody
      /\ pc' = [t \in Threads |-> "idle"]
      /\ UNCHANGED <<disk, call, acked, writes>>
  BY DEF Crash
<1>2. TypeOK' /\ Kept' /\ Durable'
  BY <1>1 DEF IInv, TypeOK, Kept, Durable
<1>3. LockHeld'
  BY <1>1, StoreAssumption DEF LockHeld, Writing
<1>4. Sound(disk') /\ Sound(table')
  BY <1>1 DEF IInv
<1>5. PutUnderWay'
  BY <1>1 DEF PutUnderWay, PutSafe
<1>. QED
  BY <1>2, <1>3, <1>4, <1>5 DEF IInv

-----------------------------------------------------------------------------
(* The theorems                                                            *)

\* IInv is inductive.
LEMMA NextIInv == IInv /\ [Next]_vars => IInv'
<1>. SUFFICES ASSUME IInv, [Next]_vars PROVE IInv'
  OBVIOUS
<1>1. CASE UNCHANGED vars
  <2>1. TypeOK' /\ LockHeld' /\ Kept' /\ Durable'
    BY <1>1 DEF vars, IInv, TypeOK, LockHeld, Kept, Durable
  <2>2. Sound(disk') /\ Sound(table') /\ PutUnderWay'
    BY <1>1 DEF vars, IInv, PutUnderWay
  <2>. QED
    BY <2>1, <2>2 DEF IInv
<1>2. ASSUME NEW t \in Threads, NEW a \in Artifacts, ReadVersion(t, a)
      PROVE  IInv'
  BY <1>2, ReadVersionIInv
<1>3. ASSUME NEW t \in Threads, NEW a \in Artifacts, NEW s \in Moves,
             SetStatusBegin(t, a, s)
      PROVE  IInv'
  BY <1>3, SetStatusBeginIInv
<1>4. ASSUME NEW t \in Threads, PutBegin(t)
      PROVE  IInv'
  BY <1>4, PutBeginIInv
<1>5. ASSUME NEW t \in Threads, PutConflict(t)
      PROVE  IInv'
  BY <1>5, PutConflictIInv
<1>6. ASSUME NEW t \in Threads, PutInsert(t)
      PROVE  IInv'
  BY <1>6, PutInsertIInv
<1>7. ASSUME NEW t \in Threads, PutCommit(t)
      PROVE  IInv'
  BY <1>7, PutCommitIInv
<1>8. ASSUME NEW t \in Threads, SetStatusCommit(t)
      PROVE  IInv'
  BY <1>8, SetStatusCommitIInv
<1>9. ASSUME NEW t \in Threads, WriteFails(t)
      PROVE  IInv'
  BY <1>9, WriteFailsIInv
<1>10. CASE Crash
  BY <1>10, CrashIInv
<1>. QED
  BY <1>1, <1>2, <1>3, <1>4, <1>5, <1>6, <1>7, <1>8, <1>9, <1>10 DEF Next

\* IInv holds in every state the store reaches.
THEOREM StoreInvariant == Spec => []IInv
BY InitIInv, NextIInv, PTL DEF Spec

\* Every variable of the store keeps its type.
THEOREM StoreTypeOK == Spec => []TypeOK
<1>1. IInv => TypeOK
  BY DEF IInv
<1>. QED
  BY <1>1, StoreInvariant, PTL

\* Versions have no gap and only the newest one is live, on disk and in what
\* an unlocked reader sees in the middle of a put, also after a failed write
\* or a crash: "each put supersedes the previous one" (artifacts/store.py).
THEOREM StoreOnlyLatestLive == Spec => []OnlyLatestLive
<1>1. IInv => OnlyLatestLive
  BY DEF IInv, Sound, OnlyLatestLive
<1>. QED
  BY <1>1, StoreInvariant, PTL

\* Whatever the threads do, nobody writes a version over one he had not read:
\* the expected_version of put is an optimistic lock.
THEOREM StoreNoLostUpdate == Spec => []NoLostUpdate
<1>1. IInv => NoLostUpdate
  BY DEF IInv, Sound, NoLostUpdate
<1>. QED
  BY <1>1, StoreInvariant, PTL

\* A put that returned stays in the database under its author, through later
\* writers, failed writes and crashes.
THEOREM StoreAckedDurable == Spec => []AckedDurable
<1>1. IInv => AckedDurable
  BY DEF IInv, Durable, AckedDurable
<1>. QED
  BY <1>1, StoreInvariant, PTL

-----------------------------------------------------------------------------
(***************************************************************************)
(* ArtifactStore implements ArtifactLifecycle for any threads, artifacts,  *)
(* versions and moves: exactly until a write fails, and trivially after.   *)
(*                                                                         *)
(* The step that counts is the commit: between the lock's acquisition and  *)
(* the commit the disk does not change, and Pending says how far the table *)
(* is ahead of it, so that the commit is one Publish or one Move.  After a *)
(* failed write Pending is lost: what is left of it is committed together  *)
(* with the next write.                                                    *)
(***************************************************************************)

\* How the open transaction of writer u differs from the disk.
Pending(u) ==
    LET a == call[u].a
        n == Latest(disk, a)
    IN  /\ \A b \in Artifacts : b # a => table[b] = disk[b]
        /\ pc[u] = "insert" => Latest(table, a) = n
        /\ pc[u] = "commit" =>
            Latest(table, a) = n + 1 /\ table[a][n + 1].status = "draft"
        /\ pc[u] = "commitStatus" =>
            /\ n > 0 /\ Latest(table, a) = n
            /\ table[a][n].status \in Moves
            /\ table[a][n].status \in AllowedTransitions(disk[a][n].status)

Transaction ==
    /\ lock = Nobody => table = disk
    /\ \A u \in Threads : pc[u] \in Writing => Pending(u)

RInv == IInv /\ Transaction

\* The inductive invariant: RInv, as long as no write has failed.
FInv == IInv /\ (writes = "sound" => Transaction)

\* The empty database has no open transaction.
LEMMA InitTransaction == Init => Transaction
BY DEF Init, Transaction, Writing

\* A thread that writes is the one that holds the lock.
LEMMA OneWriter ==
    ASSUME IInv, NEW t \in Threads, NEW u \in Threads,
           pc[t] \in Writing, pc[u] \in Writing
    PROVE  u = t
BY DEF IInv, LockHeld

\* A step that opens no transaction and leaves none open.
LEMMA ClosedTransaction ==
    ASSUME IInv, table' = disk', \A u \in Threads : pc'[u] \notin Writing
    PROVE  Transaction'
BY DEF Transaction

\* Transaction holds after every step but one in which a write fails.
LEMMA NextTransaction ==
    ASSUME RInv, [Next]_vars, writes' = "sound"
    PROVE  Transaction'
<1>1. CASE UNCHANGED vars
  BY <1>1 DEF vars, RInv, Transaction, Pending
<1>2. ASSUME NEW t \in Threads, NEW a \in Artifacts, ReadVersion(t, a)
      PROVE  Transaction'
  <2>1. \A u \in Threads : pc'[u] \in Writing =>
            pc[u] \in Writing /\ pc'[u] = pc[u] /\ call'[u] = call[u]
    BY <1>2 DEF ReadVersion, RInv, IInv, TypeOK, Writing
  <2>2. table' = table /\ disk' = disk /\ lock' = lock
    BY <1>2 DEF ReadVersion
  <2>. QED
    BY <2>1, <2>2 DEF RInv, Transaction, Pending
<1>3. ASSUME NEW t \in Threads, NEW a \in Artifacts, NEW s \in Moves,
             SetStatusBegin(t, a, s)
      PROVE  Transaction'
  <2>. DEFINE n == Latest(table, a)
  <2>1. /\ pc[t] = "idle" /\ lock = Nobody /\ n > 0
        /\ s \in AllowedTransitions(table[a][n].status)
        /\ lock' = t /\ disk' = disk
        /\ pc' = [pc EXCEPT ![t] = "commitStatus"]
        /\ call' = [call EXCEPT ![t] = [a |-> a, expected |-> n]]
    BY <1>3 DEF SetStatusBegin
  <2>2. table' = Restated(a, s)
    BY <1>3 DEF SetStatusBegin, Restated
  <2>3. table = disk /\ Sound(table) /\ s \in ArtifactStatus
    BY <2>1, StoreAssumption DEF RInv, IInv, Transaction
  <2>4. /\ Latest(table', a) = n
        /\ table'[a][n].status = s
    BY <2>1, <2>2, <2>3, StatusSound
  <2>5. \A b \in Artifacts : b # a => table'[b] = table[b]
    BY <2>2, <2>3 DEF Restated, Sound, Table
  <2>6. \A u \in Threads : pc'[u] \in Writing =>
            u = t /\ pc'[u] = "commitStatus" /\ call'[u].a = a
    BY <2>1, StoreAssumption DEF RInv, IInv, TypeOK, LockHeld
  <2>7. \A u \in Threads : pc'[u] \in Writing => Pending(u)'
    BY <2>1, <2>3, <2>4, <2>5, <2>6 DEF Pending
  <2>. QED
    BY <2>1, <2>7, StoreAssumption DEF Transaction
<1>4. ASSUME NEW t \in Threads, PutBegin(t)
      PROVE  Transaction'
  <2>. DEFINE a == call[t].a
  <2>1. /\ pc[t] = "put" /\ lock = Nobody /\ lock' = t /\ a \in Artifacts
        /\ disk' = disk /\ call' = call
        /\ pc' = [pc EXCEPT ![t] = "insert"]
        /\ table' = Supersede(a, Latest(table, a))
    BY <1>4 DEF PutBegin, RInv, IInv, TypeOK
  <2>2. table = disk /\ Sound(table)
    BY <2>1 DEF RInv, IInv, Transaction
  <2>3. Latest(table', a) = Latest(table, a)
    BY <2>1, <2>2, SupersedeSound
  <2>4. \A b \in Artifacts : b # a => table'[b] = table[b]
    BY <2>1, <2>2 DEF Supersede, Sound, Table
  <2>5. \A u \in Threads : pc'[u] \in Writing => u = t /\ pc'[u] = "insert"
    BY <2>1, StoreAssumption DEF RInv, IInv, TypeOK, LockHeld
  <2>6. \A u \in Threads : pc'[u] \in Writing => Pending(u)'
    BY <2>1, <2>2, <2>3, <2>4, <2>5 DEF Pending
  <2>. QED
    BY <2>1, <2>6, StoreAssumption DEF Transaction
<1>5. ASSUME NEW t \in Threads, PutConflict(t)
      PROVE  Transaction'
  <2>1. \A u \in Threads : pc'[u] \in Writing =>
            pc[u] \in Writing /\ pc'[u] = pc[u]
    BY <1>5 DEF PutConflict, RInv, IInv, TypeOK, Writing
  <2>2. table' = table /\ disk' = disk /\ lock' = lock /\ call' = call
    BY <1>5 DEF PutConflict
  <2>. QED
    BY <2>1, <2>2 DEF RInv, Transaction, Pending
<1>6. ASSUME NEW t \in Threads, PutInsert(t)
      PROVE  Transaction'
  <2>. DEFINE a == call[t].a
              n == Latest(table, a)
              row == [status |-> "draft", author |-> t, base |-> call[t].expected]
  <2>1. /\ pc[t] = "insert" /\ a \in Artifacts
        /\ call[t].expected = n /\ n < MaxVersion
        /\ \A v \in Versions : v <= n => table[a][v].status = "superseded"
        /\ disk' = disk /\ call' = call /\ lock' = lock
        /\ pc' = [pc EXCEPT ![t] = "commit"]
    BY <1>6 DEF PutInsert, RInv, IInv, TypeOK, PutUnderWay, PutSafe
  <2>2. table' = Inserted(a, row)
    BY <1>6 DEF PutInsert, Inserted
  <2>3. row \in Row /\ row.base = n /\ row.status = "draft"
    BY <2>1 DEF RInv, IInv, TypeOK, Row, ArtifactStatus
  <2>. HIDE DEF row
  <2>4. Sound(table) /\ Pending(t) /\ lock # Nobody
    BY <2>1, StoreAssumption DEF RInv, IInv, LockHeld, Transaction, Writing
  <2>5. /\ Latest(table', a) = n + 1
        /\ table'[a][n + 1].status = "draft"
    BY <2>1, <2>2, <2>3, <2>4, InsertSound
  <2>6. \A b \in Artifacts : b # a => table'[b] = table[b]
    BY <2>2, <2>4 DEF Inserted, Sound, Table
  <2>7. \A u \in Threads : pc'[u] \in Writing => u = t /\ pc'[u] = "commit"
    BY <2>1, OneWriter DEF RInv, IInv, TypeOK, Writing
  <2>8. \A u \in Threads : pc'[u] \in Writing => Pending(u)'
    BY <2>1, <2>4, <2>5, <2>6, <2>7 DEF Pending
  <2>. QED
    BY <2>1, <2>4, <2>8 DEF Transaction
<1>7. ASSUME NEW t \in Threads, PutCommit(t) \/ SetStatusCommit(t)
      PROVE  Transaction'
  <2>1. /\ pc[t] \in Writing /\ pc' = [pc EXCEPT ![t] = "idle"]
        /\ disk' = table /\ table' = table
    BY <1>7 DEF PutCommit, SetStatusCommit, Writing
  <2>2. \A u \in Threads : pc'[u] \notin Writing
    BY <2>1, OneWriter DEF RInv, IInv, TypeOK, Writing
  <2>. QED
    BY <2>1, <2>2, ClosedTransaction DEF RInv
<1>8. CASE Crash
  BY <1>8, ClosedTransaction DEF Crash, RInv, Writing
<1>. QED
  BY <1>1, <1>2, <1>3, <1>4, <1>5, <1>6, <1>7, <1>8 DEF Next, WriteFails

\* FInv is inductive.
LEMMA NextFInv == FInv /\ [Next]_vars => FInv'
<1>. SUFFICES ASSUME FInv, [Next]_vars PROVE FInv'
  OBVIOUS
<1>1. IInv'
  BY NextIInv DEF FInv
<1>2. ASSUME writes' = "sound" PROVE Transaction'
  <2>1. writes = "sound"
    BY <1>2 DEF Next, vars, ReadVersion, SetStatusBegin, PutBegin, PutConflict,
                PutInsert, PutCommit, SetStatusCommit, WriteFails, Crash
  <2>. QED
    BY <1>2, <2>1, NextTransaction DEF FInv, RInv
<1>. QED
  BY <1>1, <1>2 DEF FInv

-----------------------------------------------------------------------------
(* The refinement                                                          *)

\* What ArtifactLifecycle's variables stand for.
Current == [a \in Artifacts |-> Newest(disk, a)]
Broken == writes = "failed"

\* Tables that agree on an artifact agree on its newest version.
LEMMA NewestSame ==
    ASSUME NEW old, NEW new, NEW a \in Artifacts, Sound(old), new[a] = old[a]
    PROVE  Latest(new, a) = Latest(old, a) /\ Newest(new, a) = Newest(old, a)
<1>1. /\ IsLatest(old, a, Latest(old, a))
      /\ Latest(old, a) \in 0..MaxVersion
  BY LatestIsNewest DEF Sound
<1>2. IsLatest(new, a, Latest(old, a))
  BY <1>1 DEF IsLatest
<1>3. Latest(new, a) = Latest(old, a)
  BY <1>1, <1>2, LatestUnique
<1>. QED
  BY <1>3 DEF Newest

\* The empty database is ArtifactLifecycle's initial state.
LEMMA InitRefines == Init => Lifecycle!Init
<1>. SUFFICES ASSUME Init PROVE Lifecycle!Init
  OBVIOUS
<1>1. \A a \in Artifacts : IsLatest(disk, a, 0)
  BY StoreAssumption DEF Init, IsLatest, Versions
<1>2. \A a \in Artifacts : Latest(disk, a) = 0
  BY <1>1, LatestUnique, StoreAssumption
<1>. QED
  BY <1>2 DEF Init, Lifecycle!Init, Lifecycle!None, Newest

\* The commit of a put is a Publish.
LEMMA PutCommitRefines ==
    ASSUME RInv, writes = "sound", NEW t \in Threads, PutCommit(t)
    PROVE  Lifecycle!Next
<1>. DEFINE a == call[t].a
            n == Latest(disk, a)
<1>1. /\ a \in Artifacts /\ pc[t] = "commit" /\ disk' = table
  BY DEF RInv, IInv, TypeOK, PutCommit
<1>2. Pending(t)
  BY <1>1 DEF RInv, Transaction, Writing
<1>3. /\ Latest(table, a) = n + 1
      /\ table[a][n + 1].status = "draft"
      /\ table[a][n + 1].author = t
      /\ \A b \in Artifacts : b # a => table[b] = disk[b]
  BY <1>1, <1>2 DEF Pending, RInv, IInv, PutUnderWay, PutSafe
<1>4. n \in 0..MaxVersion /\ n + 1 \in 0..MaxVersion
  BY <1>1, <1>3, LatestIsNewest DEF RInv, IInv, Sound
<1>5. Newest(disk, a).version = n
  BY <1>4 DEF Newest
<1>6. Newest(disk', a) = [version |-> n + 1, status |-> "draft", author |-> t]
  BY <1>1, <1>3, <1>4 DEF Newest
<1>7. \A b \in Artifacts : b # a => Newest(disk', b) = Newest(disk, b)
  BY <1>1, <1>3, NewestSame DEF RInv, IInv
<1>8. Current' = [Current EXCEPT ![a] =
                     [version |-> n + 1, status |-> "draft", author |-> t]]
  BY <1>1, <1>6, <1>7 DEF Current
<1>9. Current[a].version < MaxVersion /\ Current[a].version = n
  BY <1>1, <1>4, <1>5, StoreAssumption DEF Current
<1>10. writes' = writes
  BY DEF PutCommit
<1>11. Lifecycle!Publish(t, a)
  BY <1>8, <1>9, <1>10 DEF Lifecycle!Publish, Current
<1>. QED
  BY <1>1, <1>11 DEF Lifecycle!Next

\* The commit of a set_status is a Move.
LEMMA SetStatusCommitRefines ==
    ASSUME RInv, writes = "sound", NEW t \in Threads, SetStatusCommit(t)
    PROVE  Lifecycle!Next
<1>. DEFINE a == call[t].a
            n == Latest(disk, a)
            s == table[a][n].status
<1>1. /\ a \in Artifacts /\ pc[t] = "commitStatus" /\ disk' = table
  BY DEF RInv, IInv, TypeOK, SetStatusCommit
<1>2. Pending(t)
  BY <1>1 DEF RInv, Transaction, Writing
<1>3. /\ n > 0 /\ Latest(table, a) = n
      /\ s \in Moves /\ s \in AllowedTransitions(disk[a][n].status)
      /\ \A b \in Artifacts : b # a => table[b] = disk[b]
  BY <1>1, <1>2 DEF Pending
<1>4. n \in Versions /\ disk[a][n] # NoRow
  <2>1. n \in Versions
    BY <1>1, <1>3, LatestIsNewest, StoreAssumption DEF RInv, IInv, Sound, Versions
  <2>. QED
    BY <1>1, <2>1, RowsUpToLatest, StoreAssumption DEF RInv, IInv, Versions
<1>5. table[a][n].author = disk[a][n].author
  BY <1>1, <1>4 DEF RInv, IInv, Kept
<1>6. Newest(disk, a) = [version |-> n, status |-> disk[a][n].status,
                   author |-> disk[a][n].author]
  BY <1>3, <1>4, StoreAssumption DEF Newest, Versions
<1>7. Newest(disk', a) = [version |-> n, status |-> s, author |-> disk[a][n].author]
  BY <1>1, <1>3, <1>4, <1>5, StoreAssumption DEF Newest, Versions
<1>8. \A b \in Artifacts : b # a => Newest(disk', b) = Newest(disk, b)
  BY <1>1, <1>3, NewestSame DEF RInv, IInv
<1>. HIDE DEF s
<1>9. Newest(disk', a) = [Newest(disk, a) EXCEPT !.status = s]
  BY <1>6, <1>7
<1>10. Current' = [Current EXCEPT ![a] = [Current[a] EXCEPT !.status = s]]
  <2>. DEFINE new == [Newest(disk, a) EXCEPT !.status = s]
  <2>1. Newest(disk', a) = new /\ Current[a] = Newest(disk, a)
    BY <1>1, <1>9 DEF Current
  <2>. HIDE DEF new
  <2>2. Current' = [Current EXCEPT ![a] = new]
    BY <1>1, <1>8, <2>1 DEF Current
  <2>. QED
    BY <2>1, <2>2 DEF new
<1>11. s \in AllowedTransitions(Current[a].status)
  BY <1>1, <1>3, <1>6 DEF Current
<1>12. writes' = writes
  BY DEF SetStatusCommit
<1>13. Lifecycle!Move(a, s)
  BY <1>10, <1>11, <1>12 DEF Lifecycle!Move, Current, Lifecycle!AllowedTransitions, AllowedTransitions,
     Lifecycle!ArtifactStatus, ArtifactStatus
<1>. QED
  BY <1>1, <1>3, <1>13 DEF Lifecycle!Next, s

\* Every other step leaves the disk as it is: a stutter of ArtifactLifecycle,
\* or the failure after which it promises nothing.
LEMMA StepRefines ==
    ASSUME FInv, [Next]_vars
    PROVE  [Lifecycle!Next]_<<Current, Broken>>
<1>1. CASE writes = "failed"
  <2>1. writes' = "failed"
    BY <1>1 DEF Next, vars, ReadVersion, SetStatusBegin, PutBegin, PutConflict,
                PutInsert, PutCommit, SetStatusCommit, WriteFails, Crash
  <2>2. Lifecycle!Unreliable
    BY <1>1, <2>1 DEF Lifecycle!Unreliable
  <2>. QED
    BY <2>2 DEF Lifecycle!Next
<1>2. CASE writes = "sound"
  <2>1. RInv
    BY <1>2 DEF FInv, RInv
  <2>2. CASE \E t \in Threads : PutCommit(t)
    BY <1>2, <2>1, <2>2, PutCommitRefines
  <2>3. CASE \E t \in Threads : SetStatusCommit(t)
    BY <1>2, <2>1, <2>3, SetStatusCommitRefines
  <2>4. CASE disk' = disk /\ writes' = writes
    BY <2>4 DEF Current, Broken
  <2>5. CASE \E t \in Threads : WriteFails(t)
    <3>1. disk' = disk /\ writes' = "failed"
      BY <2>5 DEF WriteFails
    <3>2. Lifecycle!WriteFails
      BY <1>2, <3>1 DEF Lifecycle!WriteFails
    <3>. QED
      BY <3>2 DEF Lifecycle!Next
  <2>6. \/ disk' = disk /\ writes' = writes
        \/ \E t \in Threads : PutCommit(t)
        \/ \E t \in Threads : SetStatusCommit(t)
        \/ \E t \in Threads : WriteFails(t)
    BY DEF Next, vars, ReadVersion, SetStatusBegin, PutBegin, PutConflict,
           PutInsert, Crash
  <2>. QED
    BY <2>2, <2>3, <2>4, <2>5, <2>6
<1>. QED
  BY <1>1, <1>2 DEF FInv, IInv, TypeOK

\* The store of locked, multi-step calls behaves as the store whose put and
\* set_status are atomic, through every interleaving of writers, unlocked
\* readers and crashes, until a write fails.
THEOREM StoreRefinesLifecycle == Spec => ImplementsLifecycle
<1>1. Init => FInv
  BY InitIInv, InitTransaction DEF FInv
<1>2. FInv /\ [Next]_vars => FInv'
  BY NextFInv
<1>3. FInv /\ [Next]_vars => [Lifecycle!Next]_<<Current, Broken>>
  BY StepRefines
<1>. QED
  BY <1>1, <1>2, <1>3, InitRefines, PTL
     DEF Spec, ImplementsLifecycle, Lifecycle!Spec, Lifecycle!vars, Current, Broken

\* As long as no write has failed and no caller asks set_status for
\* "superseded" (none does), every committed artifact has a newest version
\* that get_for_consumption may hand out.
THEOREM StoreLatestNotSuperseded ==
    ASSUME "superseded" \notin Moves
    PROVE  Spec => [](writes = "sound" => LatestNotSuperseded)
<1>. DEFINE Usable == writes = "sound" => LatestNotSuperseded
<1>1. Init => FInv /\ Usable
  <2>. SUFFICES ASSUME Init PROVE FInv /\ Usable
    OBVIOUS
  <2>1. \A a \in Artifacts : IsLatest(disk, a, 0)
    BY StoreAssumption DEF Init, IsLatest, Versions
  <2>2. \A a \in Artifacts : Latest(disk, a) = 0
    BY <2>1, LatestUnique, StoreAssumption
  <2>. QED
    BY <2>2, InitIInv, InitTransaction DEF FInv, LatestNotSuperseded, LatestStatus
<1>2. FInv /\ Usable /\ [Next]_vars => (FInv /\ Usable)'
  <2>. SUFFICES ASSUME FInv, Usable, [Next]_vars, writes' = "sound"
                PROVE  LatestNotSuperseded'
    BY NextFInv
  <2>0. writes = "sound" /\ RInv /\ LatestNotSuperseded
    BY DEF FInv, RInv, Next, vars, ReadVersion, SetStatusBegin, PutBegin, PutConflict,
           PutInsert, PutCommit, SetStatusCommit, WriteFails, Crash
  <2>1. ASSUME NEW t \in Threads, PutCommit(t) \/ SetStatusCommit(t)
        PROVE  LatestNotSuperseded'
    <3>. DEFINE a == call[t].a
                n == Latest(table, a)
    <3>1. pc[t] \in {"commit", "commitStatus"} /\ disk' = table
      BY <2>1 DEF PutCommit, SetStatusCommit
    <3>2. Pending(t)
      BY <2>0, <3>1 DEF RInv, Transaction, Writing
    <3>3. n = 0 \/ table[a][n].status # "superseded"
      BY <3>1, <3>2 DEF Pending
    <3>4. \A b \in Artifacts : b # a => table[b] = disk[b]
      BY <3>2 DEF Pending
    <3>5. \A b \in Artifacts : b # a => Latest(table, b) = Latest(disk, b)
      BY <2>0, <3>4, NewestSame DEF RInv, IInv
    <3>. SUFFICES ASSUME NEW b \in Artifacts
                  PROVE  LatestStatus(table, b) # "superseded"
      BY <3>1 DEF LatestNotSuperseded
    <3>6. CASE b = a
      BY <3>3, <3>6 DEF LatestStatus
    <3>7. CASE b # a
      BY <2>0, <3>4, <3>5, <3>7 DEF LatestNotSuperseded, LatestStatus
    <3>. QED
      BY <3>6, <3>7
  <2>2. CASE disk' = disk
    BY <2>0, <2>2 DEF LatestNotSuperseded
  <2>3. \/ disk' = disk
        \/ \E t \in Threads : PutCommit(t) \/ SetStatusCommit(t)
    BY DEF Next, vars, ReadVersion, SetStatusBegin, PutBegin, PutConflict,
           PutInsert, WriteFails, Crash
  <2>. QED
    BY <2>1, <2>2, <2>3
<1>. QED
  BY <1>1, <1>2, PTL DEF Spec
=============================================================================
