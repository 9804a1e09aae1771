----------------------------- MODULE PiholeProofs -----------------------------
(***************************************************************************)
(* Theorems about PiholeAdapter, for every page size and every bound, and   *)
(* whatever a server puts on a page that cannot hold all that matches: type *)
(* correctness, that the cursor stands for what was counted or had no room *)
(* on a page, which only happens to a backlog, and that polls go on: they   *)
(* find what is not counted, and commits advance.                          *)
(***************************************************************************)
EXTENDS PiholeAdapter, FiniteSetFacts
-----------------------------------------------------------------------------
\* The second of a cursor is one that was logged up to its id, so that what is
\* logged in order after it is not earlier.
Seen(c) == /\ c.id <= Len(log)
           /\ c.ts_s = 0 \/ \E j \in 1 .. c.id : log[j].second = c.ts_s

\* The batch on its way to the store takes up where the cursor ends, and holds
\* all it has to between the cursor and the next one, but for what its page had
\* no room for.
BatchInv ==
    batch # NoBatch =>
        /\ Seen(batch.next)
        /\ cursor.id < batch.next.id /\ cursor.ts_s <= batch.next.ts_s
        /\ \A i \in batch.ids : /\ i \in DOMAIN log /\ log[i].parses
                                /\ cursor.id < i /\ i <= batch.next.id
        /\ \A i \in batch.over : /\ i \in DOMAIN log /\ i \notin batch.ids
                                 /\ cursor.id < i /\ i <= batch.next.id
        /\ \A i \in DOMAIN log :
              cursor.id < i /\ i <= batch.next.id /\ log[i].parses /\ InOrder(i)
                => i \in batch.ids \cup batch.over
        /\ batch.over # {} => Cardinality(Matching(cursor.ts_s)) > PageSize

IInv == /\ TypeOK
        /\ Len(log) <= MaxLog
        /\ Seen(cursor)
        /\ BatchInv
        /\ \A i \in Ids : i > Len(log) => counted[i] = 0
        /\ \A i \in missed : i \in DOMAIN log /\ i <= cursor.id
        /\ CursorIsExact

USE BoundsAssumption

\* The initial state satisfies the inductive invariant.
LEMMA InitIInv == Init => IInv
<1> SUFFICES ASSUME Init PROVE IInv  OBVIOUS
<1> USE DEF Init, NoBatch, NoCursor
<1>1. TypeOK  BY DEF TypeOK, Cursors, Seconds, Ids
<1>2. Seen(cursor) /\ Len(log) <= MaxLog  BY DEF Seen
<1>3. CursorIsExact  BY DEF CursorIsExact
<1> QED  BY <1>1, <1>2, <1>3 DEF IInv, BatchInv

\* A query that is logged disturbs nothing that is known of the earlier ones.
LEMMA QueryIInv ==
    ASSUME IInv, NEW second \in Seconds, NEW parses \in BOOLEAN, Query(second, parses)
    PROVE  IInv'
<1> DEFINE e == [second |-> second, parses |-> parses]
<1>1. e \in Entries  BY DEF Entries
<1>2. /\ log \in Seq(Entries) /\ cursor \in Cursors
      /\ log' = Append(log, e) /\ Len(log) < MaxLog
      /\ cursor' = cursor /\ session' = session /\ batch' = batch /\ counted' = counted
      /\ missed' = missed
  BY DEF IInv, TypeOK, Query
<1> HIDE DEF e
<1>3. /\ log' \in Seq(Entries) /\ Len(log') = Len(log) + 1 /\ Len(log) \in Nat
      /\ DOMAIN log = 1 .. Len(log) /\ DOMAIN log' = 1 .. Len(log) + 1
      /\ \A i \in DOMAIN log : log'[i] = log[i]
  BY <1>1, <1>2
<1>4. MaxLog \in Nat  OBVIOUS
<1>5. \A i \in DOMAIN log : InOrder(i)' <=> InOrder(i)
  BY <1>3 DEF InOrder
<1>6. ASSUME NEW c \in Cursors, Seen(c) PROVE Seen(c)'
  BY <1>2, <1>3, <1>6 DEF Seen, Cursors
<1>7. TypeOK'  BY <1>2, <1>3 DEF IInv, TypeOK
<1>8. Seen(cursor)'  BY <1>2, <1>6 DEF IInv, Seen
<1>9. BatchInv'
  <2>1. batch \in [ids : SUBSET Ids, next : Cursors, over : SUBSET Ids] /\ cursor.id \in Nat
    BY <1>2 DEF IInv, TypeOK, Cursors
  <2>2. batch.next \in Cursors /\ batch.next.id \in Nat  BY <2>1 DEF Cursors
  <2>3. CASE batch = NoBatch  BY <1>2, <2>3 DEF BatchInv, NoBatch, NoCursor
  <2>4. CASE batch # NoBatch
    <3>1. BatchInv /\ Seen(batch.next)  BY <2>4 DEF IInv, BatchInv
    <3>2. Seen(batch.next)'  BY <1>2, <1>6, <2>2, <3>1 DEF Seen
    <3>3. batch.next.id <= Len(log)  BY <3>1 DEF Seen
    <3>4. \A i \in DOMAIN log' : i <= batch.next.id => i \in DOMAIN log
      BY <1>3, <2>2, <3>3
    <3>5. batch.over # {} => Cardinality(Matching(cursor.ts_s))' > PageSize
      <4>1. Matching(cursor.ts_s) \in SUBSET Matching(cursor.ts_s)'
        BY <1>2, <1>3 DEF Matching
      <4>2. Matching(cursor.ts_s)' \in SUBSET (1 .. (Len(log) + 1))
        BY <1>3 DEF Matching
      <4>3. IsFiniteSet(1 .. (Len(log) + 1))  BY <1>3, FS_Interval
      <4>4. IsFiniteSet(Matching(cursor.ts_s)')  BY <4>2, <4>3, FS_Subset
      <4>5. /\ IsFiniteSet(Matching(cursor.ts_s))
            /\ Cardinality(Matching(cursor.ts_s)) <= Cardinality(Matching(cursor.ts_s)')
        BY <4>1, <4>4, FS_Subset
      <4>6. /\ Cardinality(Matching(cursor.ts_s)) \in Nat
            /\ Cardinality(Matching(cursor.ts_s)') \in Nat
        BY <4>4, <4>5, FS_CardinalityType
      <4>7. batch.over # {} => Cardinality(Matching(cursor.ts_s)) > PageSize
        BY <2>4, <3>1 DEF BatchInv
      <4>8. PageSize \in Nat  OBVIOUS
      <4> QED  BY <4>5, <4>6, <4>7, <4>8
    <3> QED  BY <1>2, <1>3, <1>5, <2>4, <3>1, <3>2, <3>4, <3>5 DEF BatchInv
  <2> QED  BY <2>3, <2>4
<1>10. \A i \in Ids : i > Len(log') => counted'[i] = 0
  BY <1>2, <1>3 DEF IInv, Ids
<1>11. CursorIsExact'
  <2>1. ASSUME NEW i \in DOMAIN log'
        PROVE  /\ counted'[i] \in {0, 1}
               /\ counted'[i] = 1 => i <= cursor'.id /\ log'[i].parses /\ i \notin missed'
               /\ i <= cursor'.id /\ log'[i].parses /\ InOrder(i)' /\ i \notin missed'
                    => counted'[i] = 1
    <3>1. CASE i \in DOMAIN log
      BY <1>2, <1>3, <1>5, <3>1 DEF IInv, CursorIsExact
    <3>2. CASE i = Len(log) + 1
      <4>1. counted[i] = 0  BY <1>2, <1>3, <3>2 DEF IInv, Ids
      <4>2. cursor.id <= Len(log) /\ cursor.id \in Nat  BY <1>2 DEF IInv, Seen, Cursors
      <4> QED  BY <1>2, <1>3, <3>2, <4>1, <4>2
    <3> QED  BY <1>3, <3>1, <3>2
  <2> QED  BY <2>1 DEF CursorIsExact
<1>12. \A i \in missed' : i \in DOMAIN log' /\ i <= cursor'.id  BY <1>2, <1>3 DEF IInv
<1> QED  BY <1>2, <1>3, <1>7, <1>8, <1>9, <1>10, <1>11, <1>12 DEF IInv
-----------------------------------------------------------------------------
\* What a poll keeps of a page is logged, parses, and is beyond the cursor.
LEMMA LogType ==
    ASSUME TypeOK
    PROVE  /\ DOMAIN log = 1 .. Len(log) /\ Len(log) \in Nat
           /\ \A i \in DOMAIN log : log[i].second \in 0 .. MaxSecond
<1>1. log \in Seq(Entries)  BY DEF TypeOK
<1>2. \A i \in DOMAIN log : log[i] \in Entries  BY <1>1
<1>3. \A i \in DOMAIN log : log[i].second \in 0 .. MaxSecond
  BY <1>2 DEF Entries, Seconds
<1> QED  BY <1>1, <1>3

LEMMA FreshType ==
    ASSUME TypeOK, NEW from, NEW page \in Answers(from)
    PROVE  /\ page \subseteq Matching(from) /\ Matching(from) \subseteq DOMAIN log
           /\ \A i \in Fresh(page) : /\ i \in DOMAIN log /\ log[i].parses
                                     /\ i \in page /\ i > cursor.id
  BY DEF Fresh, Answers, Matching

\* The next cursor: the greatest id delivered, and a second that was logged.
LEMMA NextCursorType ==
    ASSUME TypeOK, Len(log) <= MaxLog, Seen(cursor),
           NEW page \in Answers(cursor.ts_s), Fresh(page) # {}
    PROVE  /\ NextCursor(Fresh(page)) \in Cursors
           /\ Seen(NextCursor(Fresh(page)))
           /\ NextCursor(Fresh(page)).id \in Fresh(page)
           /\ cursor.ts_s <= NextCursor(Fresh(page)).ts_s
           /\ \A i \in Fresh(page) : i <= NextCursor(Fresh(page)).id
<1> DEFINE seconds == {cursor.ts_s} \cup {log[i].second : i \in Fresh(page)}
           ids == {cursor.id} \cup Fresh(page)
<1>1. /\ cursor.ts_s \in 0 .. MaxSecond /\ cursor.id \in Nat /\ cursor.id <= Len(log)
      /\ MaxSecond \in Nat /\ MaxLog \in Nat
  BY DEF TypeOK, Cursors, Seconds, Seen
<1>2. seconds \in SUBSET (0 .. MaxSecond) /\ ids \in SUBSET (0 .. Len(log))
  BY <1>1, LogType, FreshType
<1>3. Len(log) \in Nat  BY LogType, FreshType
<1>4. /\ Max(seconds) \in seconds /\ cursor.ts_s <= Max(seconds)
      /\ Max(ids) \in ids /\ \A i \in ids : i <= Max(ids)
  BY <1>1, <1>2, <1>3, MaxType
<1>5. NextCursor(Fresh(page)) = [ts_s |-> Max(seconds), id |-> Max(ids)]  BY DEF NextCursor
<1>6. Max(ids) \in Fresh(page)
  <2>1. PICK i \in Fresh(page) : TRUE  OBVIOUS
  <2>2. i > cursor.id /\ i \in Nat  BY <2>1, LogType, FreshType
  <2>3. i <= Max(ids)  BY <1>4, <2>1
  <2>4. Max(ids) = cursor.id \/ Max(ids) \in Fresh(page)  BY <1>4
  <2> HIDE DEF ids
  <2> QED  BY <1>1, <2>2, <2>3, <2>4
<1>7. \/ Max(seconds) = cursor.ts_s
      \/ \E j \in Fresh(page) : log[j].second = Max(seconds)
  BY <1>4
<1>8. Max(seconds) \in 0 .. MaxSecond /\ Max(ids) \in 0 .. Len(log)  BY <1>2, <1>4
<1>9. \A i \in Fresh(page) : i <= Max(ids)  BY <1>4
<1> HIDE DEF seconds, ids
<1>10. NextCursor(Fresh(page)) \in Cursors
  BY <1>1, <1>3, <1>5, <1>8 DEF Cursors, Seconds
<1>11. Max(seconds) = 0 \/ \E j \in 1 .. Max(ids) : log[j].second = Max(seconds)
  <2>1. CASE Max(seconds) = cursor.ts_s
    <3>1. cursor.id <= Max(ids)  BY <1>1, <1>6, <1>8, LogType, FreshType
    <3>2. 1 .. cursor.id \subseteq 1 .. Max(ids)  BY <1>1, <1>8, <3>1
    <3> QED  BY <2>1, <3>2 DEF Seen
  <2>2. CASE \E j \in Fresh(page) : log[j].second = Max(seconds)
    BY <1>8, <1>9, <2>2, LogType, FreshType
  <2> QED  BY <1>7, <2>1, <2>2
<1>12. Max(ids) <= Len(log)  BY <1>3, <1>8
<1> QED  BY <1>4, <1>5, <1>6, <1>9, <1>10, <1>11, <1>12 DEF Seen

\* A page leaves something out only of more than it can hold.
LEMMA CutPageIsFull ==
    ASSUME TypeOK, NEW from, NEW page \in Answers(from), page # Matching(from)
    PROVE  Cardinality(Matching(from)) > PageSize
<1>1. Matching(from) \in SUBSET (1 .. Len(log)) /\ Len(log) \in Nat
  BY LogType DEF Matching
<1>2. IsFiniteSet(Matching(from))
  <2>1. IsFiniteSet(1 .. Len(log))  BY <1>1, FS_Interval
  <2> QED  BY <1>1, <2>1, FS_Subset
<1>3. /\ page \in SUBSET Matching(from)
      /\ Cardinality(page) = PageSize
  BY DEF Answers
<1>4. /\ Cardinality(page) <= Cardinality(Matching(from))
      /\ Cardinality(page) = Cardinality(Matching(from)) => page = Matching(from)
  BY <1>2, <1>3, FS_Subset
<1>5. Cardinality(Matching(from)) \in Nat  BY <1>2, FS_CardinalityType
<1>6. PageSize \in Nat  OBVIOUS
<1> QED  BY <1>3, <1>4, <1>5, <1>6

\* What is logged in order after the cursor is not before its second.
LEMMA InOrderIsMatched ==
    ASSUME IInv, NEW i \in DOMAIN log, cursor.id < i, InOrder(i)
    PROVE  i \in Matching(cursor.ts_s)
<1>1. /\ cursor.ts_s \in Nat /\ cursor.id \in Nat /\ i \in Nat
      /\ \A j \in DOMAIN log : log[j].second \in Nat
  BY LogType DEF IInv, TypeOK, Cursors, Seconds
<1>2. CASE cursor.ts_s = 0  BY <1>1, <1>2 DEF Matching
<1>3. CASE cursor.ts_s # 0
  <2>1. PICK j \in 1 .. cursor.id : log[j].second = cursor.ts_s  BY <1>3 DEF IInv, Seen
  <2>2. j \in 1 .. i  BY <1>1
  <2>3. cursor.ts_s <= log[i].second  BY <2>1, <2>2 DEF InOrder
  <2> QED  BY <1>1, <2>3 DEF Matching
<1> QED  BY <1>2, <1>3

\* A poll that finds something leaves a batch with nothing missing but what its
\* page had no room for.
LEMMA PollIInv ==
    ASSUME IInv, Poll
    PROVE  IInv'
<1> USE DEF IInv
<1>1. PICK page \in Answers(cursor.ts_s) : batch' = BatchOf(page)  BY DEF Poll
<1>2. /\ log' = log /\ cursor' = cursor /\ counted' = counted /\ missed' = missed
      /\ session' = "valid"
  BY DEF Poll
<1>3. cursor \in Cursors /\ cursor.ts_s \in Nat /\ cursor.id \in Nat
  BY DEF TypeOK, Cursors, Seconds
<1>4. /\ DOMAIN log = 1 .. Len(log) /\ Len(log) \in Nat /\ Len(log) <= MaxLog
      /\ MaxLog \in Nat
  BY LogType
<1>5. CASE Fresh(page) = {}
  <2>1. batch' = NoBatch  BY <1>1, <1>5 DEF BatchOf
  <2>2. NoBatch \in [ids : SUBSET Ids, next : Cursors, over : SUBSET Ids]
    BY DEF NoBatch, NoCursor, Cursors, Seconds
  <2>3. TypeOK'  BY <1>2, <2>1, <2>2 DEF TypeOK
  <2>4. BatchInv'  BY <2>1 DEF BatchInv, NoBatch, NoCursor
  <2> QED  BY <1>2, <2>3, <2>4 DEF Seen, CursorIsExact, InOrder
<1>6. CASE Fresh(page) # {}
  <2> DEFINE next == NextCursor(Fresh(page))
             ids == Fresh(page)
             over == PassedOver(page)
  <2>1. /\ next \in Cursors /\ Seen(next) /\ next.id \in ids /\ cursor.ts_s <= next.ts_s
        /\ \A i \in ids : i <= next.id
    BY <1>4, <1>6, NextCursorType
  <2>2. batch' = [ids |-> ids, next |-> next, over |-> over]  BY <1>1, <1>6 DEF BatchOf
  <2>3. /\ page \subseteq Matching(cursor.ts_s) /\ Matching(cursor.ts_s) \subseteq DOMAIN log
        /\ \A i \in ids : i \in DOMAIN log /\ log[i].parses /\ i \in page /\ i > cursor.id
    BY FreshType
  <2>4. over = {i \in Matching(cursor.ts_s) \ page : cursor.id < i /\ i <= next.id}
    BY DEF PassedOver
  <2>5. ASSUME NEW i \in DOMAIN log, cursor.id < i, i <= next.id, log[i].parses, InOrder(i)
        PROVE  i \in ids \cup over
    <3>1. i \in Matching(cursor.ts_s)  BY <2>5, InOrderIsMatched
    <3>2. CASE i \in page  BY <1>3, <1>4, <2>5, <3>2 DEF Fresh
    <3>3. CASE i \notin page  BY <2>4, <2>5, <3>1, <3>3
    <3> QED  BY <3>2, <3>3
  <2> HIDE DEF next, ids, over
  <2>6. ids \subseteq Ids /\ over \subseteq Ids  BY <1>4, <2>3, <2>4 DEF Ids
  <2>7. TypeOK'  BY <1>2, <2>1, <2>2, <2>6 DEF TypeOK
  <2>8. over # {} => Cardinality(Matching(cursor.ts_s)) > PageSize
    <3>1. over # {} => page # Matching(cursor.ts_s)  BY <2>4
    <3> QED  BY <3>1, CutPageIsFull
  <2>9. BatchInv'
    <3>1. batch'.ids = ids /\ batch'.next = next /\ batch'.over = over  BY <2>2
    <3>2. Seen(batch.next)'  BY <1>2, <2>1, <3>1 DEF Seen
    <3>3. next.id \in DOMAIN log /\ cursor.id < next.id  BY <1>3, <1>4, <2>1, <2>3
    <3>4. \A i \in ids : /\ i \in DOMAIN log /\ log[i].parses
                         /\ cursor.id < i /\ i <= next.id
      BY <1>3, <1>4, <2>1, <2>3
    <3>5. \A i \in over : /\ i \in DOMAIN log /\ i \notin ids
                          /\ cursor.id < i /\ i <= next.id
      BY <2>3, <2>4
    <3>6. Cardinality(Matching(cursor.ts_s))' = Cardinality(Matching(cursor.ts_s))
      BY <1>2 DEF Matching
    <3>7. \A i \in DOMAIN log :
            cursor.id < i /\ i <= next.id /\ log[i].parses /\ InOrder(i)' => i \in ids \cup over
      BY <1>2, <2>5 DEF InOrder
    <3> QED  BY <1>2, <2>1, <2>8, <3>1, <3>2, <3>3, <3>4, <3>5, <3>6, <3>7 DEF BatchInv
  <2> QED  BY <1>2, <2>7, <2>9 DEF Seen, CursorIsExact, InOrder
<1> QED  BY <1>5, <1>6

\* A commit counts the batch and makes its cursor the stored one.
LEMMA CommitIInv ==
    ASSUME IInv, Commit
    PROVE  IInv'
<1> USE DEF IInv
<1>1. /\ log' = log /\ session' = session /\ batch # NoBatch
      /\ batch' = NoBatch /\ cursor' = batch.next /\ missed' = missed \cup batch.over
      /\ counted' = [i \in Ids |-> IF i \in batch.ids THEN counted[i] + 1 ELSE counted[i]]
  BY DEF Commit
<1>2. /\ DOMAIN log = 1 .. Len(log) /\ Len(log) \in Nat /\ Len(log) <= MaxLog
      /\ MaxLog \in Nat
      /\ batch \in [ids : SUBSET Ids, next : Cursors, over : SUBSET Ids]
      /\ cursor.id \in Nat
      /\ counted \in [Ids -> Nat]
  BY LogType DEF TypeOK, Cursors
<1>3. batch.next \in Cursors /\ batch.next.id \in Nat  BY <1>2 DEF Cursors
<1>4. /\ Seen(batch.next) /\ cursor.id < batch.next.id
      /\ \A i \in batch.ids : /\ i \in DOMAIN log /\ log[i].parses
                              /\ cursor.id < i /\ i <= batch.next.id
      /\ \A i \in batch.over : /\ i \in DOMAIN log /\ i \notin batch.ids
                               /\ cursor.id < i /\ i <= batch.next.id
      /\ \A i \in DOMAIN log :
            cursor.id < i /\ i <= batch.next.id /\ log[i].parses /\ InOrder(i)
              => i \in batch.ids \cup batch.over
  BY <1>1 DEF BatchInv
<1>5. NoBatch \in [ids : SUBSET Ids, next : Cursors, over : SUBSET Ids]
  BY DEF NoBatch, NoCursor, Cursors, Seconds
<1>6. TypeOK'  BY <1>1, <1>2, <1>3, <1>5 DEF TypeOK
<1>7. Seen(cursor)'  BY <1>1, <1>4 DEF Seen
<1>8. BatchInv'  BY <1>1 DEF BatchInv, NoBatch, NoCursor
<1>9. \A i \in Ids : i > Len(log') => counted'[i] = 0
  BY <1>1, <1>2, <1>4 DEF Ids
<1>10. ASSUME NEW i \in DOMAIN log
       PROVE  /\ counted'[i] \in {0, 1}
              /\ counted'[i] = 1 => i <= batch.next.id /\ log[i].parses /\ i \notin missed'
              /\ i <= batch.next.id /\ log[i].parses /\ InOrder(i) /\ i \notin missed'
                   => counted'[i] = 1
  <2>1. i \in Ids /\ i \in Nat  BY <1>2 DEF Ids
  <2>2. /\ counted[i] \in {0, 1}
        /\ counted[i] = 1 => i <= cursor.id /\ log[i].parses /\ i \notin missed
        /\ i <= cursor.id /\ log[i].parses /\ InOrder(i) /\ i \notin missed => counted[i] = 1
    BY DEF CursorIsExact
  <2>3. CASE i \in batch.ids
    <3>1. log[i].parses /\ cursor.id < i /\ i <= batch.next.id  BY <1>4, <2>3
    <3>2. counted[i] = 0  BY <1>2, <2>1, <2>2, <3>1
    <3>3. i \notin missed  BY <1>2, <2>1, <3>1
    <3>4. i \notin missed'  BY <1>1, <1>4, <2>3, <3>3
    <3> QED  BY <1>1, <2>1, <2>3, <3>1, <3>2, <3>4
  <2>4. CASE i \notin batch.ids
    <3>1. counted'[i] = counted[i]  BY <1>1, <2>1, <2>4
    <3>2. CASE i \in batch.over
      <4>1. cursor.id < i /\ i \in missed'  BY <1>1, <1>4, <3>2
      <4>2. counted[i] = 0  BY <1>2, <2>1, <2>2, <4>1
      <4> QED  BY <3>1, <4>1, <4>2
    <3>3. CASE i \notin batch.over
      <4>1. i \in missed' <=> i \in missed  BY <1>1, <3>3
      <4> QED  BY <1>2, <1>3, <1>4, <2>1, <2>2, <2>4, <3>1, <3>3, <4>1
    <3> QED  BY <3>2, <3>3
  <2> QED  BY <2>3, <2>4
<1>11. CursorIsExact'  BY <1>1, <1>10 DEF CursorIsExact, InOrder
<1>12. \A i \in missed' : i \in DOMAIN log' /\ i <= cursor'.id
  BY <1>1, <1>2, <1>3, <1>4
<1> QED  BY <1>1, <1>2, <1>6, <1>7, <1>8, <1>9, <1>11, <1>12

\* Every step preserves the inductive invariant.
LEMMA NextIInv == IInv /\ [Next]_vars => IInv'
<1> SUFFICES ASSUME IInv, [Next]_vars PROVE IInv'  OBVIOUS
<1>1. NoBatch \in [ids : SUBSET Ids, next : Cursors, over : SUBSET Ids]
  BY DEF NoBatch, NoCursor, Cursors, Seconds
\* The steps that touch neither the log nor what is stored.
<1>2. ASSUME UNCHANGED <<log, cursor, counted, missed>>, batch' \in {batch, NoBatch},
             session' \in {"none", "valid", "expired"}
      PROVE  IInv'
  <2>1. TypeOK'  BY <1>1, <1>2 DEF IInv, TypeOK
  <2>2. CASE batch' = batch  BY <1>2, <2>1, <2>2 DEF IInv, BatchInv, Seen, CursorIsExact, InOrder, Matching
  <2>3. CASE batch' = NoBatch
    <3>1. BatchInv'  BY <2>3 DEF BatchInv, NoBatch, NoCursor
    <3> QED  BY <1>2, <2>1, <3>1 DEF IInv, Seen, CursorIsExact, InOrder
  <2> QED  BY <1>2, <2>2, <2>3
<1>3. session \in {"none", "valid", "expired"}  BY DEF IInv, TypeOK
<1>4. CASE Expire  BY <1>2, <1>4 DEF Expire
<1>5. CASE PollFails  BY <1>2, <1>3, <1>5 DEF PollFails
<1>6. CASE CommitFails  BY <1>2, <1>3, <1>6 DEF CommitFails
<1>7. CASE Restart  BY <1>2, <1>7 DEF Restart
<1>8. CASE UNCHANGED vars  BY <1>2, <1>3, <1>8 DEF vars
<1> QED
  BY <1>4, <1>5, <1>6, <1>7, <1>8, QueryIInv, PollIInv, CommitIInv DEF Next
-----------------------------------------------------------------------------
\* The inductive invariant holds in every reachable state.
THEOREM InvariantHolds == Spec => []IInv
<1>1. Init => IInv  BY InitIInv
<1>2. IInv /\ [Next]_vars => IInv'  BY NextIInv
<1> QED  BY <1>1, <1>2, PTL DEF Spec

\* The variables keep their types.
THEOREM TypeCorrect == Spec => []TypeOK
<1>1. IInv => TypeOK  BY DEF IInv
<1> QED  BY <1>1, InvariantHolds, PTL

\* The overlap of two polls never duplicates, and a gap loses no query that was
\* logged in order but for want of room on a page: the stored cursor stands for
\* what was counted, at every page size and whatever a full page leaves out,
\* through expired sessions, failures and kills.
THEOREM CursorStandsForCounted == Spec => []CursorIsExact
<1>1. IInv => CursorIsExact  BY DEF IInv
<1> QED  BY <1>1, InvariantHolds, PTL
-----------------------------------------------------------------------------
\* What is lost is lost to a backlog: a commit passes over queries only while
\* more of them match than a page holds, also when the page was read before a
\* failure or before more were logged.  A source that is polled before a page
\* has filled up loses nothing.
OnlyBacklogsAreCut ==
    [][missed' # missed => Cardinality(Matching(cursor.ts_s)) > PageSize]_vars

THEOREM OnlyBacklogsAreCutHolds == Spec => OnlyBacklogsAreCut
<1> DEFINE A == missed' # missed => Cardinality(Matching(cursor.ts_s)) > PageSize
<1>1. ASSUME IInv, [Next]_vars PROVE A
  <2>1. CASE Commit
    <3>1. missed' = missed \cup batch.over /\ batch # NoBatch  BY <2>1 DEF Commit
    <3>2. batch.over # {} => Cardinality(Matching(cursor.ts_s)) > PageSize
      BY <1>1, <3>1 DEF IInv, BatchInv
    <3> QED  BY <3>1, <3>2
  <2>2. CASE ~Commit
    <3>1. missed' = missed
      BY <1>1, <2>2 DEF Next, Query, Expire, Poll, PollFails, CommitFails, Restart, vars
    <3> QED  BY <3>1
  <2> QED  BY <2>1, <2>2
<1>2. IInv /\ [Next]_vars => [A]_vars  BY <1>1
<1> HIDE DEF A
<1>3. Spec => [][A]_vars  BY <1>2, InvariantHolds, PTL DEF Spec
<1> QED  BY <1>3, PTL DEF A, OnlyBacklogsAreCut

\* A poll finds work as long as there is any: while a query logged in order,
\* with a client address that parses, is neither counted nor passed over, every
\* page the server may answer with holds a fresh query, unless the delivered
\* and unparseable ones can fill a page.
PollsFindWork ==
    \A i \in DOMAIN log :
        log[i].parses /\ InOrder(i) /\ counted[i] = 0 /\ i \notin missed
            => Stalled \/ \A page \in Answers(cursor.ts_s) : Fresh(page) # {}

THEOREM PollsFindWorkHolds == Spec => []PollsFindWork
<1>1. ASSUME IInv, NEW i \in DOMAIN log,
             log[i].parses, InOrder(i), counted[i] = 0, i \notin missed,
             NEW page \in Answers(cursor.ts_s), Fresh(page) = {}
      PROVE  Stalled
  <2>1. cursor.id < i /\ i \in Nat /\ cursor.id \in Nat
    <3>1. i \in Nat /\ cursor.id \in Nat
      BY <1>1, LogType DEF IInv, TypeOK, Cursors
    <3>2. ~(i <= cursor.id)  BY <1>1 DEF IInv, CursorIsExact
    <3> QED  BY <3>1, <3>2
  <2>2. i \in Matching(cursor.ts_s)  BY <1>1, <2>1, InOrderIsMatched
  <2>3. i \notin page  BY <1>1, <2>1 DEF Fresh
  <2>4. Cardinality(page) = PageSize /\ page \subseteq Matching(cursor.ts_s)
    BY <2>2, <2>3 DEF Answers
  <2>5. Matching(cursor.ts_s) \in SUBSET (1 .. Len(log)) /\ Len(log) \in Nat
    BY <1>1, LogType DEF Matching, IInv
  <2>6. page \in SUBSET Stale
    <3>1. ASSUME NEW k \in page PROVE k \in Stale
      <4>1. k \in Matching(cursor.ts_s) /\ k \in Nat  BY <2>4, <2>5
      <4>2. k \notin Fresh(page)  BY <1>1
      <4>3. ~(k > cursor.id) \/ ~log[k].parses  BY <4>2 DEF Fresh
      <4> QED  BY <2>1, <4>1, <4>3 DEF Stale
    <3> QED  BY <3>1
  <2>7. IsFiniteSet(Stale)
    <3>1. IsFiniteSet(1 .. Len(log))  BY <2>5, FS_Interval
    <3>2. Stale \in SUBSET (1 .. Len(log))  BY <2>5 DEF Stale
    <3> QED  BY <3>1, <3>2, FS_Subset
  <2>8. Cardinality(page) <= Cardinality(Stale) /\ Cardinality(Stale) \in Nat
    BY <2>6, <2>7, FS_Subset, FS_CardinalityType
  <2>9. PageSize \in Nat  OBVIOUS
  <2> QED  BY <2>4, <2>8, <2>9 DEF Stalled
<1>2. IInv => PollsFindWork  BY <1>1 DEF PollsFindWork
<1> QED  BY <1>2, InvariantHolds, PTL

\* Every commit advances the cursor, and no other step moves it.
CommitsAdvance ==
    [][IF Commit THEN cursor'.id > cursor.id /\ cursor'.ts_s >= cursor.ts_s
                 ELSE cursor' = cursor]_vars

THEOREM CommitsAdvanceHolds == Spec => CommitsAdvance
<1> DEFINE A == IF Commit THEN cursor'.id > cursor.id /\ cursor'.ts_s >= cursor.ts_s
                          ELSE cursor' = cursor
<1>1. ASSUME IInv, [Next]_vars PROVE A
  <2>1. CASE Commit
    <3>1. cursor' = batch.next /\ batch # NoBatch  BY <2>1 DEF Commit
    <3>2. cursor.id < batch.next.id /\ cursor.ts_s <= batch.next.ts_s
      BY <1>1, <3>1 DEF IInv, BatchInv
    <3>3. cursor \in Cursors /\ batch.next \in Cursors  BY <1>1 DEF IInv, TypeOK
    <3>4. /\ cursor.id \in Nat /\ cursor.ts_s \in Nat
          /\ batch.next.id \in Nat /\ batch.next.ts_s \in Nat
      BY <3>3 DEF Cursors, Seconds
    <3> QED  BY <2>1, <3>1, <3>2, <3>4
  <2>2. CASE ~Commit
    <3>1. cursor' = cursor
      BY <1>1, <2>2 DEF Next, Query, Expire, Poll, PollFails, CommitFails, Restart, vars
    <3> QED  BY <2>2, <3>1
  <2> QED  BY <2>1, <2>2
<1>2. IInv /\ [Next]_vars => [A]_vars  BY <1>1
<1> HIDE DEF A
<1>3. Spec => [][A]_vars  BY <1>2, InvariantHolds, PTL DEF Spec
<1> QED  BY <1>3, PTL DEF A, CommitsAdvance
=============================================================================
