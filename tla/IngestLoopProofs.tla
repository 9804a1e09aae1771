-------------------------- MODULE IngestLoopProofs ---------------------------
(***************************************************************************)
(* Theorems about IngestLoop, for every set of sources and keys, every     *)
(* page size and every bound: type correctness, exactly-once counting, the *)
(* invariants it rests on, and that the loops implement the ingestion      *)
(* contract (ExactlyOnce under the mapping Promise).                       *)
(***************************************************************************)
EXTENDS IngestLoop, FiniteSetTheorems, TLAPS

USE ConstantsAssumption

\* Counting over a slice yields a natural number.
LEMMA TallyType ==
    ASSUME NEW l, NEW a \in Nat, NEW b \in Nat, NEW k
    PROVE  /\ IsFiniteSet(Hits(l, a, b, k))
           /\ Tally(l, a, b, k) \in Nat
<1>1. IsFiniteSet((a + 1) .. b)  BY FS_Interval
<1>2. Hits(l, a, b, k) \in SUBSET ((a + 1) .. b)  BY DEF Hits
<1>3. IsFiniteSet(Hits(l, a, b, k))  BY <1>1, <1>2, FS_Subset
<1> QED  BY <1>3, FS_CardinalityType DEF Tally

\* Counting two adjacent slices is counting their union.
LEMMA TallySplit ==
    ASSUME NEW l, NEW a \in Nat, NEW b \in Nat, NEW c \in Nat,
           a <= b, b <= c, NEW k
    PROVE  Tally(l, a, c, k) = Tally(l, a, b, k) + Tally(l, b, c, k)
<1> DEFINE A == Hits(l, a, b, k)
           B == Hits(l, b, c, k)
<1>1. IsFiniteSet(A) /\ IsFiniteSet(B)  BY TallyType
<1>2. Hits(l, a, c, k) = A \cup B  BY DEF Hits
<1>3. A \cap B = {}  BY DEF Hits
<1>4. Cardinality(A \cup B) = Cardinality(A) + Cardinality(B) - Cardinality(A \cap B)
  BY <1>1, FS_Union
<1>5. Cardinality(A) \in Nat /\ Cardinality(B) \in Nat
  BY <1>1, FS_CardinalityType
<1> QED  BY <1>2, <1>3, <1>4, <1>5, FS_EmptySet DEF Tally

\* An empty slice holds nothing.
LEMMA TallyEmpty ==
    ASSUME NEW l, NEW a \in Nat, NEW k
    PROVE  Tally(l, a, a, k) = 0
<1>1. Hits(l, a, a, k) = {}  BY DEF Hits
<1> QED  BY <1>1, FS_EmptySet DEF Tally

\* A key that is counted in a slice occurs there.
LEMMA TallyPositive ==
    ASSUME NEW l, NEW a \in Nat, NEW b \in Nat, NEW k, Tally(l, a, b, k) > 0
    PROVE  \E i \in (a + 1) .. b : l[i] = k
<1>1. Hits(l, a, b, k) # {}  BY FS_EmptySet DEF Tally
<1> QED  BY <1>1 DEF Hits

\* Logging one more query changes no slice of what was logged before.
LEMMA TallyAppend ==
    ASSUME NEW l \in Seq(Keys), NEW e \in Keys,
           NEW a \in Nat, NEW b \in Nat, b <= Len(l), NEW k
    PROVE  Tally(Append(l, e), a, b, k) = Tally(l, a, b, k)
<1>1. \A i \in (a + 1) .. b : Append(l, e)[i] = l[i]  OBVIOUS
<1>2. Hits(Append(l, e), a, b, k) = Hits(l, a, b, k)  BY <1>1 DEF Hits
<1> QED  BY <1>2 DEF Tally
-----------------------------------------------------------------------------
\* What each loop knows: between the cursor read and the commit the stored
\* cursor is the one it read; the batch it applies starts there; after the
\* commit the announcement it still owes is covered by the rollups.
LoopInv(s) ==
    /\ pc[s] = "poll" => seen[s] = db.cursor[s]
    /\ pc[s] = "apply" => /\ seen[s] = db.cursor[s]
                          /\ batch[s].start = Offset(db.cursor[s])
                          /\ batch[s].start <= batch[s].end
                          /\ batch[s].end <= Len(log[s])
    /\ \A k \in Keys : announced[s][k] <= db.rollup[s][k]
    /\ pc[s] = "emit" =>
         /\ batch[s].end <= Len(log[s])
         /\ \A k \in Keys :
              announced[s][k] + Tally(log[s], batch[s].start, batch[s].end, k)
                <= db.rollup[s][k]

IInv == /\ TypeOK
        /\ CountsPrefix(db) /\ CountsPrefix(disk)
        /\ Visible(db) /\ Visible(disk)
        /\ \A s \in Sources : LoopInv(s)

\* An offset into a log is a natural number, also when no cursor is stored.
LEMMA OffsetType ==
    ASSUME NEW c \in Nat \cup {NoCursor}
    PROVE  Offset(c) \in Nat
BY DEF Offset, NoCursor

\* A page lies within the log and starts at its cursor when that cursor does.
LEMMA PageType ==
    ASSUME NEW l \in Seq(Keys), NEW c \in Nat \cup {NoCursor}
    PROVE  /\ Page(l, c) \in [start : Nat, end : Nat]
           /\ Page(l, c).start <= Page(l, c).end
           /\ Page(l, c).end <= Len(l)
           /\ Offset(c) <= Len(l) => Page(l, c).start = Offset(c)
<1> DEFINE start == Least(Offset(c), Len(l))
           end == Least(start + Chunk, Len(l))
<1>1. Len(l) \in Nat /\ Offset(c) \in Nat /\ Chunk \in Nat
  BY OffsetType DEF ConstantsAssumption
<1>2. start \in Nat /\ start <= Len(l) /\ (Offset(c) <= Len(l) => start = Offset(c))
  BY <1>1 DEF Least
<1>3. end \in Nat /\ start <= end /\ end <= Len(l)
  BY <1>1, <1>2 DEF Least
<1>4. Page(l, c) = [start |-> start, end |-> end]  BY DEF Page
<1> QED  BY <1>2, <1>3, <1>4

\* Adding a batch to a row of counts gives a row of counts.
LEMMA AddedType ==
    ASSUME TypeOK, NEW s \in Sources, NEW counts \in [Keys -> Nat]
    PROVE  Added(counts, s) \in [Keys -> Nat]
<1>1. batch[s].start \in Nat /\ batch[s].end \in Nat  BY DEF TypeOK
<1>2. \A k \in Keys : Tally(log[s], batch[s].start, batch[s].end, k) \in Nat
  BY <1>1, TallyType
<1> QED  BY <1>2 DEF Added

\* The backfill of a restart adds device rows and changes nothing else.
LEMMA BackfilledType ==
    ASSUME NEW d \in Databases
    PROVE  /\ Backfilled(d) \in Databases
           /\ Backfilled(d).cursor = d.cursor
           /\ Backfilled(d).rollup = d.rollup
           /\ Backfilled(d).destinations = d.destinations
           /\ d.devices \subseteq Backfilled(d).devices
BY DEF Backfilled, Databases, Clients

\* The transaction of apply_batch leaves a well-typed database.
LEMMA AppliedType ==
    ASSUME TypeOK, NEW s \in Sources, batch[s].end <= Len(log[s])
    PROVE  Applied(s) \in Databases
<1>1. Added(db.rollup[s], s) \in [Keys -> Nat]  BY AddedType DEF TypeOK, Databases
<1>2. \A i \in (batch[s].start + 1) .. batch[s].end : log[s][i] \in Keys
  BY DEF TypeOK
<1>3. KeysIn(s) \subseteq Keys  BY <1>2 DEF KeysIn
<1> QED  BY <1>1, <1>3 DEF Applied, TypeOK, Databases, Clients, Domains

\* The initial state satisfies the inductive invariant.
LEMMA InitIInv == Init => IInv
<1> SUFFICES ASSUME Init PROVE IInv  OBVIOUS
<1> USE DEF Init, EmptyDb, NothingAnnounced, NoBatch, NoCursor
<1>1. TypeOK  BY DEF TypeOK, Databases, PCs
<1>2. CountsPrefix(EmptyDb)
  <2>1. \A s \in Sources, k \in Keys : Tally(log[s], 0, 0, k) = 0  BY TallyEmpty
  <2> QED  BY <2>1 DEF CountsPrefix, Offset
<1>3. Visible(EmptyDb)  BY DEF Visible
<1>4. \A s \in Sources : LoopInv(s)  BY DEF LoopInv
<1> QED  BY <1>1, <1>2, <1>3, <1>4 DEF IInv

\* A step that leaves log, rollups and announcements alone preserves what the
\* invariant says of the two databases.
LEMMA DatabasesKept ==
    ASSUME IInv, UNCHANGED <<log, db, disk>>
    PROVE  /\ CountsPrefix(db)' /\ CountsPrefix(disk)'
           /\ Visible(db)' /\ Visible(disk)'
BY DEF IInv, CountsPrefix, Visible

\* The DNS server logging a query preserves the invariant.
LEMMA QueryIInv ==
    ASSUME IInv, NEW s \in Sources, NEW k \in Keys, Query(s, k)
    PROVE  IInv'
<1> USE DEF Query
<1>1. TypeOK'  BY DEF IInv, TypeOK
<1>2. \A t \in Sources : Len(log[t]) <= Len(log'[t])  BY DEF IInv, TypeOK
<1>3. ASSUME NEW t \in Sources, NEW a \in Nat, NEW b \in Nat, b <= Len(log[t]),
             NEW j \in Keys
      PROVE  Tally(log'[t], a, b, j) = Tally(log[t], a, b, j)
  <2>1. log[t] \in Seq(Keys)  BY DEF IInv, TypeOK
  <2>2. CASE t = s
    <3>1. log'[t] = Append(log[t], k)  BY <2>2 DEF IInv, TypeOK
    <3> QED  BY <2>1, <3>1, <1>3, TallyAppend
  <2>3. CASE t # s
    <3>1. log'[t] = log[t]  BY <2>3 DEF IInv, TypeOK
    <3> QED  BY <3>1
  <2> QED  BY <2>2, <2>3
<1>4. ASSUME NEW d \in Databases, CountsPrefix(d)
      PROVE  \A t \in Sources :
                /\ Offset(d.cursor[t]) <= Len(log'[t])
                /\ \A j \in Keys :
                     d.rollup[t][j] = Tally(log'[t], 0, Offset(d.cursor[t]), j)
  <2> TAKE t \in Sources
  <2>1. Offset(d.cursor[t]) \in Nat  BY OffsetType DEF Databases
  <2>2. Offset(d.cursor[t]) <= Len(log[t])  BY <1>4 DEF CountsPrefix
  <2>3. Len(log[t]) \in Nat /\ Len(log'[t]) \in Nat  BY <1>1 DEF IInv, TypeOK
  <2>4. Offset(d.cursor[t]) <= Len(log'[t])  BY <2>1, <2>2, <2>3, <1>2
  <2>5. ASSUME NEW j \in Keys
        PROVE  d.rollup[t][j] = Tally(log'[t], 0, Offset(d.cursor[t]), j)
    BY <1>3, <1>4, <2>1, <2>2 DEF CountsPrefix
  <2> QED  BY <2>4, <2>5
<1>5. CountsPrefix(db)' /\ CountsPrefix(disk)'
  BY <1>4 DEF CountsPrefix, IInv, TypeOK
<1>6. Visible(db)' /\ Visible(disk)'  BY DEF IInv, Visible
<1>7. ASSUME NEW t \in Sources
      PROVE  LoopInv(t)'
  <2>1. batch[t].start \in Nat /\ batch[t].end \in Nat  BY DEF IInv, TypeOK
  <2>2. Len(log[t]) \in Nat /\ Len(log'[t]) \in Nat  BY <1>1 DEF IInv, TypeOK
  <2>3. LoopInv(t)  BY DEF IInv
  <2>4. pc[t] = "emit" => \A j \in Keys :
           Tally(log'[t], batch[t].start, batch[t].end, j)
             = Tally(log[t], batch[t].start, batch[t].end, j)
    BY <1>3, <2>1, <2>3 DEF LoopInv
  <2> QED  BY <1>2, <2>1, <2>2, <2>3, <2>4 DEF LoopInv
<1> QED  BY <1>1, <1>5, <1>6, <1>7 DEF IInv

\* Reading the stored cursor preserves the invariant.
LEMMA ReadCursorIInv ==
    ASSUME IInv, NEW s \in Sources, ReadCursor(s)
    PROVE  IInv'
<1>1. TypeOK'  BY DEF IInv, TypeOK, ReadCursor, Goto, PCs, Databases
<1>2. \A t \in Sources : LoopInv(t)'
  BY DEF IInv, TypeOK, ReadCursor, Goto, LoopInv
<1> QED  BY <1>1, <1>2, DatabasesKept DEF IInv, ReadCursor

\* A tick that ends without touching the store: a failed or an empty one.
LEMMA EndTickIInv ==
    ASSUME IInv, NEW s \in Sources, EndTick(s),
           UNCHANGED <<log, db, disk, announced, losses>>
    PROVE  IInv'
<1>1. TypeOK'
  BY DEF IInv, TypeOK, EndTick, Goto, PCs, NoBatch
<1>2. \A t \in Sources : LoopInv(t)'
  BY DEF IInv, TypeOK, EndTick, Goto, LoopInv
<1> QED  BY <1>1, <1>2, DatabasesKept DEF IInv

\* A poll preserves the invariant: its page starts at the stored cursor.
LEMMA PollIInv ==
    ASSUME IInv, NEW s \in Sources, Poll(s)
    PROVE  IInv'
<1> DEFINE page == Page(log[s], seen[s])
<1>1. CASE EndTick(s)  BY <1>1, EndTickIInv DEF Poll
<1>2. CASE /\ batch' = [batch EXCEPT ![s] = page]
           /\ Goto(s, "apply")
           /\ UNCHANGED seen
  <2>1. /\ page \in [start : Nat, end : Nat]
        /\ page.start <= page.end
        /\ page.end <= Len(log[s])
        /\ Offset(seen[s]) <= Len(log[s]) => page.start = Offset(seen[s])
    BY PageType DEF IInv, TypeOK
  <2>2. seen[s] = db.cursor[s]  BY DEF IInv, LoopInv, Poll
  <2>3. page.start = Offset(db.cursor[s])
    BY <2>1, <2>2 DEF IInv, CountsPrefix
  <2>4. TypeOK'
    BY <1>2, <2>1 DEF IInv, TypeOK, Poll, Goto, PCs
  <2>5. \A t \in Sources : LoopInv(t)'
    <3> TAKE t \in Sources
    <3>1. CASE t = s
      BY <1>2, <2>1, <2>2, <2>3, <3>1 DEF IInv, TypeOK, Poll, Goto, LoopInv
    <3>2. CASE t # s
      BY <1>2, <3>2 DEF IInv, TypeOK, Poll, Goto, LoopInv
    <3> QED  BY <3>1, <3>2
  <2> QED  BY <2>4, <2>5, DatabasesKept DEF IInv, Poll
<1> QED  BY <1>1, <1>2 DEF Poll

\* The commit of a batch preserves the invariant: the tally of the longer
\* prefix is the old one plus the batch.
LEMMA ApplyBatchIInv ==
    ASSUME IInv, NEW s \in Sources, ApplyBatch(s)
    PROVE  IInv'
<1> DEFINE a == batch[s].start
           b == batch[s].end
<1>1. /\ a \in Nat /\ b \in Nat /\ a <= b /\ b <= Len(log[s])
      /\ a = Offset(db.cursor[s])
  BY DEF IInv, TypeOK, LoopInv, ApplyBatch
<1>2. db' \in Databases  BY <1>1, AppliedType DEF IInv, ApplyBatch
<1>3. TypeOK'  BY <1>2 DEF IInv, TypeOK, ApplyBatch, Goto, PCs
<1>4. \A k \in Keys : Tally(log[s], a, b, k) \in Nat  BY <1>1, TallyType
<1>5. /\ db'.cursor = [db.cursor EXCEPT ![s] = b]
      /\ db'.rollup = [db.rollup EXCEPT ![s] = Added(@, s)]
  BY DEF ApplyBatch, Applied
<1>6. /\ db'.cursor[s] = b
      /\ \A k \in Keys : db'.rollup[s][k] = db.rollup[s][k] + Tally(log[s], a, b, k)
      /\ \A t \in Sources \ {s} : /\ db'.cursor[t] = db.cursor[t]
                                 /\ db'.rollup[t] = db.rollup[t]
  BY <1>5 DEF IInv, TypeOK, Databases, Added
<1>7. Offset(b) = b  BY <1>1 DEF Offset, NoCursor
<1>8. CountsPrefix(db)'
  <2>1. ASSUME NEW k \in Keys
        PROVE  db'.rollup[s][k] = Tally(log[s], 0, b, k)
    <3>1. db.rollup[s][k] = Tally(log[s], 0, a, k)
      BY <1>1 DEF IInv, CountsPrefix
    <3>2. Tally(log[s], 0, b, k) = Tally(log[s], 0, a, k) + Tally(log[s], a, b, k)
      BY <1>1, TallySplit
    <3> QED  BY <1>6, <3>1, <3>2
  <2>2. log' = log  BY DEF ApplyBatch
  <2>3. \A t \in Sources \ {s} :
           /\ Offset(db.cursor[t]) <= Len(log[t])
           /\ \A k \in Keys :
                db.rollup[t][k] = Tally(log[t], 0, Offset(db.cursor[t]), k)
    BY DEF IInv, CountsPrefix
  <2> QED  BY <1>1, <1>6, <1>7, <2>1, <2>2, <2>3 DEF CountsPrefix
<1>9. CountsPrefix(disk)' /\ Visible(disk)'
  BY DEF IInv, CountsPrefix, Visible, ApplyBatch
<1>10. Visible(db)'
  <2>1. /\ db'.devices = db.devices \cup {ClientOf[k] : k \in KeysIn(s)}
        /\ db'.destinations = db.destinations \cup {DomainOf[k] : k \in KeysIn(s)}
    BY DEF ApplyBatch, Applied
  <2>2. ASSUME NEW t \in Sources, NEW k \in Keys, db'.rollup[t][k] > 0
        PROVE  db.rollup[t][k] > 0 \/ k \in KeysIn(s)
    <3>1. CASE t # s  BY <1>6, <2>2, <3>1
    <3>2. CASE t = s
      <4>1. db.rollup[s][k] \in Nat  BY DEF IInv, TypeOK, Databases
      <4>2. db.rollup[s][k] > 0 \/ Tally(log[s], a, b, k) > 0
        BY <1>4, <1>6, <2>2, <3>2, <4>1
      <4>3. Tally(log[s], a, b, k) > 0 => k \in KeysIn(s)
        BY <1>1, TallyPositive DEF KeysIn
      <4> QED  BY <3>2, <4>2, <4>3
    <3> QED  BY <3>1, <3>2
  <2> QED  BY <2>1, <2>2 DEF IInv, Visible
<1>11. ASSUME NEW t \in Sources
       PROVE  LoopInv(t)'
  <2>1. LoopInv(t)  BY DEF IInv
  <2>2. \A k \in Keys : announced[t][k] \in Nat /\ db.rollup[t][k] \in Nat
    BY DEF IInv, TypeOK, Databases
  <2>3. CASE t = s
    <3>1. /\ pc'[s] = "emit" /\ batch' = batch /\ log' = log
          /\ announced' = announced
      BY DEF ApplyBatch, Goto, IInv, TypeOK
    <3>2. ASSUME NEW k \in Keys
          PROVE  /\ announced[s][k] <= db'.rollup[s][k]
                 /\ announced[s][k] + Tally(log[s], a, b, k) <= db'.rollup[s][k]
      <4>1. announced[s][k] <= db.rollup[s][k]  BY <2>1, <2>3 DEF LoopInv
      <4> QED  BY <1>4, <1>6, <2>2, <2>3, <4>1
    <3> QED  BY <1>1, <2>3, <3>1, <3>2 DEF LoopInv
  <2>4. CASE t # s
    BY <1>6, <2>1, <2>4 DEF LoopInv, ApplyBatch, Goto, IInv, TypeOK
  <2> QED  BY <2>3, <2>4
<1> QED  BY <1>3, <1>8, <1>9, <1>10, <1>11 DEF IInv

\* Announcing a committed batch preserves the invariant.
LEMMA EmitIInv ==
    ASSUME IInv, NEW s \in Sources, Emit(s)
    PROVE  IInv'
<1>1. Added(announced[s], s) \in [Keys -> Nat]
  BY AddedType DEF IInv, TypeOK
<1>2. TypeOK'
  BY <1>1 DEF IInv, TypeOK, Emit, EndTick, Goto, PCs, NoBatch
<1>3. ASSUME NEW t \in Sources
      PROVE  LoopInv(t)'
  <2>1. CASE t = s
    <3>1. /\ pc[s] = "emit" /\ pc'[s] = "sleep"
          /\ db' = db
          /\ announced'[s] = Added(announced[s], s)
      BY DEF IInv, TypeOK, Emit, EndTick, Goto
    <3>2. \A k \in Keys : announced'[s][k]
              = announced[s][k] + Tally(log[s], batch[s].start, batch[s].end, k)
      BY <3>1 DEF Added
    <3>3. \A k \in Keys : announced'[s][k] <= db.rollup[s][k]
      BY <3>1, <3>2 DEF IInv, LoopInv
    <3> QED  BY <2>1, <3>1, <3>3 DEF LoopInv
  <2>2. CASE t # s
    BY <2>2 DEF IInv, TypeOK, LoopInv, Emit, EndTick, Goto
  <2> QED  BY <2>1, <2>2
<1> QED  BY <1>2, <1>3, DatabasesKept DEF IInv, Emit

\* The end of the interval preserves the invariant.
LEMMA WakeIInv ==
    ASSUME IInv, NEW s \in Sources, Wake(s)
    PROVE  IInv'
<1>1. TypeOK'  BY DEF IInv, TypeOK, Wake, Goto, PCs
<1>2. \A t \in Sources : LoopInv(t)'
  BY DEF IInv, TypeOK, Wake, Goto, LoopInv
<1> QED  BY <1>1, <1>2, DatabasesKept DEF IInv, Wake

\* A WAL checkpoint preserves the invariant.
LEMMA CheckpointIInv ==
    ASSUME IInv, Checkpoint
    PROVE  IInv'
BY DEF IInv, TypeOK, Checkpoint, CountsPrefix, Visible, LoopInv

\* Starting over on a consistent database, the current one or the surviving one.
LEMMA BootIInv ==
    ASSUME IInv, NEW d \in Databases, CountsPrefix(d), Visible(d),
           BootOn(d), losses' \in Nat
    PROVE  IInv'
<1> USE DEF BootOn, NothingAnnounced, NoBatch, NoCursor
<1>1. /\ db' \in Databases
      /\ db'.cursor = d.cursor /\ db'.rollup = d.rollup
      /\ db'.destinations = d.destinations /\ d.devices \subseteq db'.devices
  BY BackfilledType
<1>2. TypeOK'  BY <1>1 DEF IInv, TypeOK, PCs
<1>3. CountsPrefix(db)' /\ CountsPrefix(disk)'
  BY <1>1 DEF IInv, CountsPrefix
<1>4. Visible(db)' /\ Visible(disk)'  BY <1>1 DEF IInv, Visible
<1>5. \A t \in Sources : LoopInv(t)'
  BY <1>1 DEF LoopInv, Databases
<1> QED  BY <1>2, <1>3, <1>4, <1>5 DEF IInv

\* Every step, and every stutter, preserves the inductive invariant.
LEMMA NextIInv == IInv /\ [Next]_vars => IInv'
<1> SUFFICES ASSUME IInv, [Next]_vars PROVE IInv'  OBVIOUS
<1>1. ASSUME NEW s \in Sources, LoopStep(s) PROVE IInv'
  <2>1. CASE ReadCursor(s)  BY <2>1, ReadCursorIInv
  <2>2. CASE CursorFails(s)  BY <2>2, EndTickIInv DEF CursorFails
  <2>3. CASE Poll(s)  BY <2>3, PollIInv
  <2>4. CASE PollFails(s)  BY <2>4, EndTickIInv DEF PollFails
  <2>5. CASE ApplyBatch(s)  BY <2>5, ApplyBatchIInv
  <2>6. CASE ApplyFails(s)  BY <2>6, EndTickIInv DEF ApplyFails
  <2>7. CASE Emit(s)  BY <2>7, EmitIInv
  <2>8. CASE Wake(s)  BY <2>8, WakeIInv
  <2> QED  BY <1>1, <2>1, <2>2, <2>3, <2>4, <2>5, <2>6, <2>7, <2>8 DEF LoopStep
<1>2. ASSUME NEW s \in Sources, NEW k \in Keys, Query(s, k) PROVE IInv'
  BY <1>2, QueryIInv
<1>3. CASE Checkpoint  BY <1>3, CheckpointIInv
<1>4. CASE Restart  BY <1>4, BootIInv DEF Restart, IInv, TypeOK
<1>5. CASE PowerLoss  BY <1>5, BootIInv DEF PowerLoss, IInv, TypeOK
<1>6. CASE UNCHANGED vars
  BY <1>6 DEF vars, IInv, TypeOK, CountsPrefix, Visible, LoopInv
<1> QED  BY <1>1, <1>2, <1>3, <1>4, <1>5, <1>6 DEF Next

\* The inductive invariant holds in every reachable state: both the database
\* and what a power loss would leave of it are consistent, and each loop knows
\* what its step relies on (run, apply_batch, Store::init).
THEOREM InductiveInvariant == Spec => []IInv
BY InitIInv, NextIInv, PTL DEF Spec

\* Type correctness of the loops and of the store they share.
THEOREM TypeCorrect == Spec => []TypeOK
BY InductiveInvariant, PTL DEF IInv

\* The rollups are those of the prefix the stored cursor stands for, in every
\* state of every behaviour with failures, kills and power losses (run,
\* apply_batch).
THEOREM ExactlyOnceHolds == Spec => []ExactlyOnce
<1>1. IInv => ExactlyOnce  BY DEF IInv, ExactlyOnce
<1> QED  BY <1>1, InductiveInvariant, PTL

\* A batch is applied only from the cursor the store holds.
THEOREM NoStaleBatchHolds == Spec => []NoStaleBatch
<1>1. IInv => NoStaleBatch  BY DEF IInv, LoopInv, NoStaleBatch
<1> QED  BY <1>1, InductiveInvariant, PTL

\* Every counted query has a device and a destination row.
THEOREM CountedIsVisibleHolds == Spec => []CountedIsVisible
<1>1. IInv => CountedIsVisible  BY DEF IInv, CountedIsVisible
<1> QED  BY <1>1, InductiveInvariant, PTL

\* A process announces on its channel only what is committed, and once.
THEOREM AnnouncedWasCountedHolds == Spec => []AnnouncedWasCounted
<1>1. IInv => AnnouncedWasCounted  BY DEF IInv, LoopInv, AnnouncedWasCounted
<1> QED  BY <1>1, InductiveInvariant, PTL
-----------------------------------------------------------------------------
\* The two sides of the mapping.
Done == [s \in Sources |-> Offset(db.cursor[s])]
Saved == [s \in Sources |-> Offset(disk.cursor[s])]

\* The initial states map to initial states of the contract.
LEMMA PromiseInit == Init => Promise!Init
BY DEF Init, EmptyDb, Offset, NoCursor, Promise!Init

\* Steps that leave the log, the cursors and the rollups alone are stutters.
LEMMA PromiseStutter ==
    ASSUME log' = log, db'.cursor = db.cursor, db'.rollup = db.rollup, disk' = disk
    PROVE  UNCHANGED Promise!vars
BY DEF Promise!vars

\* A row of rollups that agrees with the tallies of a prefix is that row.
LEMMA RowIsTally ==
    ASSUME NEW row \in [Keys -> Nat], NEW l, NEW n,
           \A k \in Keys : row[k] = Tally(l, 0, n, k)
    PROVE  row = Promise!TallyOf(l, n)
<1>1. row = [k \in Keys |-> row[k]]  OBVIOUS
<1>2. [k \in Keys |-> row[k]] = [k \in Keys |-> Tally(l, 0, n, k)]  OBVIOUS
<1> QED  BY <1>1, <1>2 DEF Promise!TallyOf

\* A logged query is a logged query of the contract.
LEMMA QueryRefines ==
    ASSUME IInv, NEW s \in Sources, NEW k \in Keys, Query(s, k)
    PROVE  Promise!Next
<1>1. Promise!Query(s, k)  BY DEF Query, Promise!Query
<1> QED  BY <1>1 DEF Promise!Next

\* A committed batch counts a longer prefix; a batch that only records the
\* first cursor is a stutter.
LEMMA ApplyBatchRefines ==
    ASSUME IInv, NEW s \in Sources, ApplyBatch(s)
    PROVE  [Promise!Next]_Promise!vars
<1> DEFINE a == batch[s].start
           b == batch[s].end
<1>1. /\ a \in Nat /\ b \in Nat /\ a <= b /\ b <= Len(log[s])
      /\ a = Offset(db.cursor[s])
  BY DEF IInv, TypeOK, LoopInv, ApplyBatch
<1>2. IInv'  BY ApplyBatchIInv
<1>3. db'.cursor = [db.cursor EXCEPT ![s] = b]  BY DEF ApplyBatch, Applied
<1>4. Offset(b) = b  BY <1>1 DEF Offset, NoCursor
<1>5. Done' = [Done EXCEPT ![s] = b]
  BY <1>3, <1>4 DEF Done, IInv, TypeOK, Databases
<1>6. db'.rollup[s] = Promise!TallyOf(log[s], b)
  <2>1. db'.cursor[s] = b  BY <1>3 DEF IInv, TypeOK, Databases
  <2>2. \A k \in Keys : db'.rollup[s][k] = Tally(log[s], 0, b, k)
    BY <1>2, <1>4, <2>1 DEF IInv, CountsPrefix, ApplyBatch
  <2>3. db'.rollup[s] \in [Keys -> Nat]  BY <1>2 DEF IInv, TypeOK, Databases
  <2> QED  BY <2>2, <2>3, RowIsTally
<1>7. db'.rollup = [db.rollup EXCEPT ![s] = Promise!TallyOf(log[s], b)]
  BY <1>6 DEF ApplyBatch, Applied, IInv, TypeOK, Databases
<1>8. log' = log /\ disk' = disk  BY DEF ApplyBatch
<1>9. CASE a < b
  <2>1. b \in (Done[s] + 1) .. Len(log[s])
    BY <1>1, <1>9 DEF Done, IInv, TypeOK
  <2>2. Promise!Count(s)
    BY <1>5, <1>7, <1>8, <2>1 DEF Promise!Count, Done
  <2> QED  BY <2>2 DEF Promise!Next
<1>10. CASE a = b
  <2>1. Done' = Done
    BY <1>1, <1>5, <1>10 DEF Done
  <2>2. db.rollup[s] = Promise!TallyOf(log[s], b)
    <3>1. Offset(db.cursor[s]) = b  BY <1>1, <1>10
    <3>2. CountsPrefix(db)  BY DEF IInv
    <3> HIDE DEF b
    <3>3. \A k \in Keys : db.rollup[s][k] = Tally(log[s], 0, b, k)
      BY <3>1, <3>2 DEF CountsPrefix
    <3>4. db.rollup[s] \in [Keys -> Nat]  BY DEF IInv, TypeOK, Databases
    <3> QED  BY <3>3, <3>4, RowIsTally
  <2>3. db'.rollup = db.rollup
    BY <1>7, <2>2 DEF IInv, TypeOK, Databases
  <2> QED  BY <1>8, <2>1, <2>3 DEF Promise!vars, Done
<1> QED  BY <1>1, <1>9, <1>10

\* A WAL checkpoint saves the counted prefixes.
LEMMA CheckpointRefines ==
    ASSUME IInv, Checkpoint
    PROVE  Promise!Next
<1>1. Promise!Save  BY DEF Checkpoint, Promise!Save
<1> QED  BY <1>1 DEF Promise!Next

\* A kill and restart, which loses no commit, is a stutter.
LEMMA RestartRefines ==
    ASSUME IInv, Restart
    PROVE  UNCHANGED Promise!vars
<1>1. db'.cursor = db.cursor /\ db'.rollup = db.rollup
  BY BackfilledType DEF Restart, BootOn, IInv, TypeOK
<1> QED  BY <1>1, PromiseStutter DEF Restart, BootOn

\* A power loss falls back to the prefix that had reached the disk.
LEMMA PowerLossRefines ==
    ASSUME IInv, PowerLoss
    PROVE  Promise!Next
<1>1. db'.cursor = disk.cursor /\ db'.rollup = disk.rollup
  BY BackfilledType DEF PowerLoss, BootOn, IInv, TypeOK
<1>2. disk.rollup = [s \in Sources |-> Promise!TallyOf(log[s], Saved[s])]
  <2>1. \A s \in Sources, k \in Keys :
           disk.rollup[s][k] = Tally(log[s], 0, Saved[s], k)
    BY DEF IInv, CountsPrefix, Saved
  <2>2. disk.rollup \in [Sources -> [Keys -> Nat]]  BY DEF IInv, TypeOK, Databases
  <2>3. \A s \in Sources : disk.rollup[s] = Promise!TallyOf(log[s], Saved[s])
    BY <2>1, <2>2, RowIsTally
  <2>4. disk.rollup = [s \in Sources |-> disk.rollup[s]]  BY <2>2
  <2> QED  BY <2>3, <2>4
<1>3. Promise!FallBack
  BY <1>1, <1>2 DEF Promise!FallBack, Saved, PowerLoss, BootOn
<1> QED  BY <1>3 DEF Promise!Next

\* Every step of the loops maps to a step of the contract or to a stutter.
LEMMA NextRefines == IInv /\ [Next]_vars => [Promise!Next]_Promise!vars
<1> SUFFICES ASSUME IInv, [Next]_vars PROVE [Promise!Next]_Promise!vars  OBVIOUS
<1>1. ASSUME NEW s \in Sources, LoopStep(s) PROVE [Promise!Next]_Promise!vars
  <2>1. CASE ReadCursor(s)  BY <2>1, PromiseStutter DEF ReadCursor
  <2>2. CASE CursorFails(s)  BY <2>2, PromiseStutter DEF CursorFails
  <2>3. CASE Poll(s)  BY <2>3, PromiseStutter DEF Poll
  <2>4. CASE PollFails(s)  BY <2>4, PromiseStutter DEF PollFails
  <2>5. CASE ApplyBatch(s)  BY <2>5, ApplyBatchRefines
  <2>6. CASE ApplyFails(s)  BY <2>6, PromiseStutter DEF ApplyFails
  <2>7. CASE Emit(s)  BY <2>7, PromiseStutter DEF Emit
  <2>8. CASE Wake(s)  BY <2>8, PromiseStutter DEF Wake
  <2> QED  BY <1>1, <2>1, <2>2, <2>3, <2>4, <2>5, <2>6, <2>7, <2>8 DEF LoopStep
<1>2. ASSUME NEW s \in Sources, NEW k \in Keys, Query(s, k)
      PROVE [Promise!Next]_Promise!vars
  BY <1>2, QueryRefines
<1>3. CASE Checkpoint  BY <1>3, CheckpointRefines
<1>4. CASE Restart  BY <1>4, RestartRefines
<1>5. CASE PowerLoss  BY <1>5, PowerLossRefines
<1>6. CASE UNCHANGED vars  BY <1>6, PromiseStutter DEF vars
<1> QED  BY <1>1, <1>2, <1>3, <1>4, <1>5, <1>6 DEF Next

\* The daemon's loops over the shared store keep the ingestion contract: the
\* rollups of a source are always those of a prefix of its log (run,
\* apply_batch, FixtureReplayer::poll).
THEOREM LoopsImplementPromise == Spec => ImplementsPromise
BY PromiseInit, NextRefines, InductiveInvariant, PTL
   DEF Spec, ImplementsPromise, Promise!Spec
=============================================================================
