---------------------------- MODULE AdguardProofs -----------------------------
(***************************************************************************)
(* Theorems about AdguardAdapter, for every page size, cap and bound: type *)
(* correctness, that nothing is counted twice or beyond the cursor, also   *)
(* of entries with equal or unreadable times, that a poll is complete, and *)
(* that commits advance and a poll ends quietly only when all is counted.  *)
(***************************************************************************)
EXTENDS AdguardAdapter, FiniteSetFacts

USE BoundsAssumption

\* The log is in the order of its times, which the indices bound.
LogInv ==
    /\ Len(log) <= MaxLog
    /\ \A i \in DOMAIN log : log[i].time <= i
    /\ \A i, j \in DOMAIN log : i <= j => log[i].time <= log[j].time

\* A time the log has reached.
Reached(t) == t = NoTime \/ \E i \in DOMAIN log : log[i].time = t

\* What a poll has kept is new, and no later than the first entry it saw;
\* that entry is later than the cursor, and the next page is no later than it.
PollInv ==
    /\ pages < MaxPages
    /\ newest # NoTime => Reached(newest) /\ cursor < newest
    /\ newest = NoTime => events = {}
    /\ pc = "poll" => (olderThan = NoTime <=> newest = NoTime) /\ olderThan <= newest
    /\ pc = "apply" => newest # NoTime
    /\ \A i \in events : /\ i \in DOMAIN log /\ log[i].parses
                         /\ cursor < log[i].time /\ log[i].time <= newest

IInv == /\ TypeOK
        /\ LogInv
        /\ Reached(cursor)
        /\ PollInv
        /\ \A i \in Ids : i > Len(log) => counted[i] = 0
        /\ CountedOnceUpToCursor

\* The log as a function on its indices.
LEMMA LogType ==
    ASSUME TypeOK
    PROVE  /\ log \in Seq(Entries)
           /\ DOMAIN log = 1 .. Len(log) /\ Len(log) \in Nat
           /\ \A i \in DOMAIN log : log[i].time \in Times /\ log[i].time \in Nat
<1>1. log \in Seq(Entries)  BY DEF TypeOK
<1>2. \A i \in DOMAIN log : log[i] \in Entries  BY <1>1
<1>3. \A i \in DOMAIN log : log[i].time \in Times  BY <1>2 DEF Entries
<1> QED  BY <1>1, <1>3 DEF Times

\* The variables of a poll and the cursor are times or none.
LEMMA TimesType ==
    ASSUME TypeOK
    PROVE  /\ cursor \in Nat /\ olderThan \in Nat /\ newest \in Nat
           /\ cursor \in Times \cup {NoTime} /\ olderThan \in Times \cup {NoTime}
           /\ newest \in Times \cup {NoTime}
           /\ pages \in 0 .. MaxPages
           /\ counted \in [Ids -> Nat] /\ events \subseteq Ids
<1>1. {cursor, olderThan, newest} \subseteq Times \cup {NoTime}  BY DEF TypeOK
<1> QED  BY <1>1 DEF TypeOK, Times, NoTime

\* The initial state satisfies the inductive invariant.
LEMMA InitIInv == Init => IInv
<1> SUFFICES ASSUME Init PROVE IInv  OBVIOUS
<1> USE DEF Init, NoTime
<1>1. TypeOK  BY DEF TypeOK, Ids
<1>2. LogInv  BY DEF LogInv
<1>3. PollInv  BY DEF PollInv
<1>4. CountedOnceUpToCursor  BY DEF CountedOnceUpToCursor
<1> QED  BY <1>1, <1>2, <1>3, <1>4 DEF IInv, Reached
-----------------------------------------------------------------------------
\* An entry that is logged leaves the earlier ones and their order alone.
LEMMA QueryIInv ==
    ASSUME IInv, NEW entry \in Entries, Query(entry)
    PROVE  IInv'
<1>1. /\ log' = Append(log, entry) /\ Len(log) < MaxLog
      /\ cursor' = cursor /\ session' = session /\ counted' = counted /\ pc' = pc
      /\ pages' = pages /\ olderThan' = olderThan /\ newest' = newest /\ events' = events
  BY DEF Query, poll
<1>2. /\ log \in Seq(Entries) /\ DOMAIN log = 1 .. Len(log) /\ Len(log) \in Nat
      /\ \A i \in DOMAIN log : log[i].time \in Nat
  BY LogType DEF IInv
<1>3. /\ log' \in Seq(Entries) /\ Len(log') = Len(log) + 1
      /\ DOMAIN log' = 1 .. Len(log) + 1
      /\ \A i \in DOMAIN log : log'[i] = log[i]
      /\ log'[Len(log) + 1] = entry
  BY <1>1, <1>2
<1>4. MaxLog \in Nat /\ entry.time \in Nat  BY DEF Entries, Times
<1>5. TypeOK'  BY <1>1, <1>3 DEF IInv, TypeOK
<1>6. LogInv'
  <2>1. Last \in Nat /\ Last <= Len(log) /\ \A i \in DOMAIN log : log[i].time <= Last
    <3>1. CASE log = <<>>  BY <1>2, <3>1 DEF Last
    <3>2. CASE log # <<>>
      <4>1. Len(log) \in DOMAIN log  BY <1>2, <3>2
      <4> QED  BY <1>2, <3>2, <4>1 DEF Last, IInv, LogInv
    <3> QED  BY <3>1, <3>2
  <2>2. entry.time \in {Last, Last + 1}  BY DEF Query
  <2>3. entry.time <= Len(log) + 1 /\ \A i \in DOMAIN log : log[i].time <= entry.time
    BY <1>2, <1>4, <2>1, <2>2
  <2>4. \A i \in DOMAIN log' : log'[i].time <= i
    BY <1>2, <1>3, <2>3 DEF IInv, LogInv
  <2>5. ASSUME NEW i \in DOMAIN log', NEW j \in DOMAIN log', i <= j
        PROVE  log'[i].time <= log'[j].time
    <3>1. CASE j \in DOMAIN log
      <4>1. i \in DOMAIN log  BY <1>2, <1>3, <2>5, <3>1
      <4> QED  BY <1>3, <2>5, <3>1, <4>1 DEF IInv, LogInv
    <3>2. CASE j = Len(log) + 1 /\ i \in DOMAIN log  BY <1>3, <2>3, <3>2
    <3>3. CASE j = Len(log) + 1 /\ i = j  BY <1>3, <1>4, <3>3
    <3> QED  BY <1>2, <1>3, <2>5, <3>1, <3>2, <3>3
  <2> QED  BY <1>1, <1>2, <1>3, <1>4, <2>4, <2>5 DEF LogInv
<1>7. DOMAIN log \subseteq DOMAIN log'  BY <1>2, <1>3
<1>8. \A t \in Nat : Reached(t) => Reached(t)'  BY <1>3, <1>7 DEF Reached
<1>9. Reached(cursor)' /\ PollInv'
  <2>1. cursor \in Nat /\ newest \in Nat  BY TimesType DEF IInv
  <2>2. Reached(cursor)'  BY <1>1, <1>8, <2>1 DEF IInv, Reached
  <2>3. Reached(newest) => Reached(newest)'  BY <1>1, <1>8, <2>1 DEF Reached
  <2> QED  BY <1>1, <1>3, <1>7, <2>2, <2>3 DEF IInv, PollInv
<1>10. \A i \in Ids : i > Len(log') => counted'[i] = 0
  BY <1>1, <1>2, <1>3 DEF IInv, Ids
<1>11. CountedOnceUpToCursor'
  <2>1. counted[Len(log) + 1] = 0  BY <1>1, <1>2, <1>4 DEF IInv, Ids
  <2>2. ASSUME NEW i \in DOMAIN log'
        PROVE  /\ counted'[i] \in {0, 1}
               /\ counted'[i] = 1 => log'[i].parses /\ log'[i].time <= cursor'
    <3>1. CASE i \in DOMAIN log  BY <1>1, <1>3, <3>1 DEF IInv, CountedOnceUpToCursor
    <3>2. CASE i = Len(log) + 1  BY <1>1, <2>1, <3>2
    <3> QED  BY <1>2, <1>3, <3>1, <3>2
  <2> QED  BY <2>2 DEF CountedOnceUpToCursor
<1> QED  BY <1>5, <1>6, <1>9, <1>10, <1>11 DEF IInv

\* The poll ends without a batch; log, cursor and counts stay.
LEMMA EndPollIInv ==
    ASSUME IInv, EndPoll, UNCHANGED <<log, cursor, counted>>,
           session' \in {"none", "valid", "expired"}
    PROVE  IInv'
<1>1. /\ pages' = 0 /\ olderThan' = NoTime /\ newest' = NoTime /\ events' = {}
      /\ pc' = "poll" /\ log' = log /\ cursor' = cursor /\ counted' = counted
  BY DEF EndPoll
<1>2. cursor \in Times \cup {NoTime}  BY TimesType DEF IInv
<1>3. TypeOK'
  <2>1. {cursor', olderThan', newest'} \subseteq Times \cup {NoTime}  BY <1>1, <1>2
  <2> QED  BY <1>1, <2>1 DEF IInv, TypeOK
<1>4. LogInv' /\ Reached(cursor)'  BY <1>1 DEF IInv, LogInv, Reached
<1>5. PollInv'  BY <1>1 DEF PollInv, NoTime
<1>6. CountedOnceUpToCursor'  BY <1>1 DEF IInv, CountedOnceUpToCursor
<1> QED  BY <1>1, <1>3, <1>4, <1>5, <1>6 DEF IInv

\* The first page of a poll holds the newest entry of the log.
LEMMA FirstPage ==
    ASSUME IInv, pc = "poll", newest = NoTime, log # <<>>
    PROVE  Len(log) \in Page /\ Len(log) \in DOMAIN log
<1>1. DOMAIN log = 1 .. Len(log) /\ Len(log) \in Nat /\ log \in Seq(Entries)
  BY LogType DEF IInv
<1>2. Len(log) \in DOMAIN log  BY <1>1
<1>3. Candidates = DOMAIN log  BY DEF Candidates, IInv, PollInv
<1>4. {j \in Candidates : j > Len(log)} = {}  BY <1>1, <1>3
<1>5. Cardinality({j \in Candidates : j > Len(log)}) = 0  BY <1>4, FS_EmptySet
<1>6. 0 < PageSize  OBVIOUS
<1> QED  BY <1>2, <1>3, <1>5, <1>6 DEF Page

\* What a page and the loop over it find: entries later than the cursor, none
\* of them later than the first entry of the poll, which is not forgotten.
LEMMA PageType ==
    ASSUME IInv, pc = "poll", \A i \in Seen : log[i].readable
    PROVE  /\ Page \subseteq DOMAIN log
           /\ Newest \in Times \cup {NoTime} /\ Reached(Newest)
           /\ Newest # NoTime => cursor <= Newest
           /\ newest # NoTime => Newest = newest
           /\ Page # {} => Newest # NoTime
           /\ \A i \in Page : log[i].time <= Newest
           /\ \A i \in Seen : i \in Page /\ cursor < log[i].time
<1>1. /\ DOMAIN log = 1 .. Len(log) /\ Len(log) \in Nat
      /\ \A i \in DOMAIN log : log[i].time \in Times /\ log[i].time \in Nat
  BY LogType DEF IInv
<1>2. /\ cursor \in Nat /\ olderThan \in Nat /\ newest \in Nat
      /\ newest \in Times \cup {NoTime}
  BY TimesType DEF IInv
<1>3. Page \subseteq DOMAIN log  BY DEF Page, Candidates
<1>4. ASSUME NEW i \in Seen PROVE i \in Page /\ cursor < log[i].time
  <2>1. i \in Page /\ ~Delivered(i)  BY <1>1, <1>3 DEF Seen
  <2>2. log[i].readable  OBVIOUS
  <2> QED  BY <1>1, <1>2, <1>3, <2>1, <2>2 DEF Delivered
<1>5. CASE newest # NoTime
  <2>1. Newest = newest  BY <1>5 DEF Newest
  <2>2. olderThan # NoTime /\ olderThan <= newest  BY <1>5 DEF IInv, PollInv
  <2>3. \A i \in Page : log[i].time < olderThan  BY <2>2 DEF Page, Candidates
  <2>4. \A i \in Page : log[i].time <= Newest  BY <1>1, <1>2, <1>3, <2>1, <2>2, <2>3
  <2> QED  BY <1>2, <1>3, <1>4, <1>5, <2>1, <2>4 DEF IInv, PollInv
<1>6. CASE newest = NoTime /\ Page = {}
  <2>1. Newest = NoTime  BY <1>6 DEF Newest
  <2> QED  BY <1>4, <1>6, <2>1 DEF Reached
<1>7. CASE newest = NoTime /\ Page # {}
  <2>1. Newest = log[Max(Page)].time  BY <1>7 DEF Newest
  <2>2. Page \in SUBSET (0 .. Len(log))  BY <1>1, <1>3
  <2>3. Max(Page) \in Page /\ \A i \in Page : i <= Max(Page)  BY <1>1, <1>7, <2>2, MaxType
  <2>4. \A i \in Page : log[i].time <= Newest  BY <1>3, <2>1, <2>3 DEF IInv, LogInv
  <2>5. Newest \in Times /\ Reached(Newest)  BY <1>1, <1>3, <2>1, <2>3 DEF Reached
  <2>6. cursor <= Newest
    <3>1. log # <<>>  BY <1>1, <1>3, <1>7
    <3>2. Len(log) \in DOMAIN log /\ Len(log) \in Page  BY <1>7, <3>1, FirstPage
    <3>5. CASE cursor = NoTime  BY <1>2, <2>5, <3>5 DEF NoTime, Times
    <3>6. CASE cursor # NoTime
      <4>1. PICK i \in DOMAIN log : log[i].time = cursor  BY <3>6 DEF IInv, Reached
      <4>2. log[i].time <= log[Len(log)].time  BY <1>1, <3>2, <4>1 DEF IInv, LogInv
      <4>3. log[Len(log)].time <= Newest  BY <2>4, <3>2
      <4>4. Newest \in Nat  BY <2>5 DEF Times
      <4> QED  BY <1>1, <1>2, <3>2, <4>1, <4>2, <4>3, <4>4
    <3> QED  BY <3>5, <3>6
  <2>7. Newest # NoTime  BY <2>5 DEF Times, NoTime
  <2> QED  BY <1>3, <1>4, <1>7, <2>4, <2>5, <2>6, <2>7
<1> QED  BY <1>5, <1>6, <1>7

\* A page ends the poll, hands a batch over or leads to an older page.
LEMMA FetchPageIInv ==
    ASSUME IInv, FetchPage
    PROVE  IInv'
<1> DEFINE kept == events \cup {i \in Seen : log[i].parses}
<1>1. /\ pc = "poll" /\ session' = "valid"
      /\ log' = log /\ cursor' = cursor /\ counted' = counted
  BY DEF FetchPage, LoggedIn
<1>2. CASE EndPoll  BY <1>1, <1>2, EndPollIInv
<1>3. ASSUME ~EndPoll
      PROVE  /\ \A i \in Seen : log[i].readable
             /\ newest' = Newest /\ events' = kept
             /\ \/ /\ ~LastPage /\ pages' = pages + 1 /\ pc' = pc
                   /\ olderThan' = log[Min(Page)].time
                \/ /\ LastPage /\ pages' = 0 /\ pc' = "apply" /\ olderThan' = NoTime
                   /\ kept # {} \/ Newest \notin {NoTime, cursor}
  BY <1>3 DEF FetchPage
<1>4. CASE ~EndPoll
  <2>1. /\ DOMAIN log = 1 .. Len(log) /\ Len(log) \in Nat
        /\ \A i \in DOMAIN log : log[i].time \in Times /\ log[i].time \in Nat
        /\ Len(log) <= MaxLog /\ MaxLog \in Nat
    BY LogType DEF IInv, LogInv
  <2>2. /\ cursor \in Nat /\ newest \in Nat /\ pages \in 0 .. MaxPages
        /\ cursor \in Times \cup {NoTime} /\ events \subseteq Ids
    BY TimesType DEF IInv
  <2>3. /\ Page \subseteq DOMAIN log
        /\ Newest \in Times \cup {NoTime} /\ Reached(Newest)
        /\ Newest # NoTime => cursor <= Newest
        /\ newest # NoTime => Newest = newest
        /\ Page # {} => Newest # NoTime
        /\ \A i \in Page : log[i].time <= Newest
        /\ \A i \in Seen : i \in Page /\ cursor < log[i].time
    BY <1>1, <1>3, <1>4, PageType
  <2>4. Newest = NoTime => kept = {}  BY <2>3 DEF IInv, PollInv
  <2>5. \A i \in kept : /\ i \in DOMAIN log /\ log[i].parses
                        /\ cursor < log[i].time /\ log[i].time <= Newest
    <3>1. ASSUME NEW i \in events
          PROVE  /\ i \in DOMAIN log /\ log[i].parses
                 /\ cursor < log[i].time /\ log[i].time <= Newest
      BY <2>3 DEF IInv, PollInv
    <3> QED  BY <2>3, <3>1
  <2> HIDE DEF kept
  <2>6. events' \subseteq Ids  BY <1>3, <1>4, <2>1, <2>5 DEF Ids
  <2>7. CASE /\ ~LastPage /\ pages' = pages + 1 /\ pc' = pc
             /\ olderThan' = log[Min(Page)].time
    <3>1. Page # {}
      <4>1. ~(Cardinality(Page) < PageSize)  BY <2>7 DEF LastPage
      <4>2. 0 < PageSize  OBVIOUS
      <4> QED  BY <4>1, <4>2, FS_EmptySet
    <3>2. Page \in SUBSET Nat  BY <2>1, <2>3
    <3>3. Min(Page) \in Page  BY <3>1, <3>2, MinType
    <3>4. olderThan' \in Times /\ olderThan' <= Newest  BY <2>1, <2>3, <2>7, <3>3
    <3>5. olderThan' # NoTime /\ cursor < Newest
      <4>1. olderThan' # NoTime  BY <3>4 DEF Times, NoTime
      <4>2. Seen = Page  BY <2>7 DEF LastPage
      <4>3. PICK i \in Page : cursor < log[i].time /\ log[i].time <= Newest
        BY <2>3, <3>1, <4>2
      <4>4. Newest \in Nat  BY <2>3 DEF Times, NoTime
      <4> QED  BY <2>1, <2>2, <2>3, <4>1, <4>3, <4>4
    <3>6. pages' \in 0 .. MaxPages /\ pages' < MaxPages
      <4>1. pages < MaxPages /\ pages + 1 # MaxPages  BY <2>7 DEF IInv, PollInv, LastPage
      <4>2. MaxPages \in Nat  OBVIOUS
      <4> QED  BY <2>2, <2>7, <4>1, <4>2
    <3>7. TypeOK'
      <4>1. {cursor', olderThan', newest'} \subseteq Times \cup {NoTime}
        BY <1>1, <1>3, <1>4, <2>2, <2>3, <3>4
      <4> QED  BY <1>1, <2>6, <2>7, <3>6, <4>1 DEF IInv, TypeOK
    <3>8. PollInv'
      BY <1>1, <1>3, <1>4, <2>3, <2>5, <2>7, <3>1, <3>4, <3>5, <3>6 DEF PollInv, Reached
    <3> QED  BY <1>1, <3>7, <3>8 DEF IInv, LogInv, Reached, CountedOnceUpToCursor
  <2>8. CASE /\ LastPage /\ pages' = 0 /\ pc' = "apply" /\ olderThan' = NoTime
             /\ kept # {} \/ Newest \notin {NoTime, cursor}
    <3>1. Newest # NoTime /\ cursor < Newest
      <4>1. Newest # NoTime  BY <2>4, <2>8
      <4>2. cursor <= Newest /\ Newest \in Nat  BY <2>3, <4>1 DEF Times
      <4>3. CASE Newest # cursor  BY <2>2, <4>1, <4>2, <4>3
      <4>4. CASE kept # {}
        <5>1. PICK i \in kept : i \in DOMAIN log /\ cursor < log[i].time /\ log[i].time <= Newest
          BY <2>5, <4>4
        <5> QED  BY <2>1, <2>2, <4>1, <4>2, <5>1
      <4> QED  BY <2>8, <4>3, <4>4
    <3>2. MaxPages \in Nat /\ 0 < MaxPages  OBVIOUS
    <3>3. TypeOK'
      <4>1. {cursor', olderThan', newest'} \subseteq Times \cup {NoTime}
        BY <1>1, <1>3, <1>4, <2>2, <2>3, <2>8
      <4> QED  BY <1>1, <2>6, <2>8, <3>2, <4>1 DEF IInv, TypeOK
    <3>4. PollInv'
      BY <1>1, <1>3, <1>4, <2>3, <2>5, <2>8, <3>1, <3>2 DEF PollInv, Reached
    <3> QED  BY <1>1, <3>3, <3>4 DEF IInv, LogInv, Reached, CountedOnceUpToCursor
  <2> QED  BY <1>3, <1>4, <2>7, <2>8
<1> QED  BY <1>2, <1>4

\* A commit counts what was kept, once, and moves the cursor to the newest.
LEMMA CommitIInv ==
    ASSUME IInv, Commit
    PROVE  IInv'
<1>1. /\ pc = "apply" /\ log' = log /\ session' = session /\ cursor' = newest
      /\ counted' = [i \in Ids |-> IF i \in events THEN counted[i] + 1 ELSE counted[i]]
      /\ pages' = 0 /\ olderThan' = NoTime /\ newest' = NoTime /\ events' = {}
      /\ pc' = "poll"
  BY DEF Commit, EndPoll
<1>2. /\ DOMAIN log = 1 .. Len(log) /\ Len(log) \in Nat
      /\ \A i \in DOMAIN log : log[i].time \in Nat
      /\ Len(log) <= MaxLog /\ MaxLog \in Nat
  BY LogType DEF IInv, LogInv
<1>3. /\ cursor \in Nat /\ newest \in Nat /\ newest \in Times \cup {NoTime}
      /\ counted \in [Ids -> Nat] /\ events \subseteq Ids
  BY TimesType DEF IInv
<1>4. /\ Reached(newest) /\ cursor < newest
      /\ \A i \in events : /\ i \in DOMAIN log /\ log[i].parses
                           /\ cursor < log[i].time /\ log[i].time <= newest
  BY <1>1 DEF IInv, PollInv
<1>5. TypeOK'
  <2>1. {cursor', olderThan', newest'} \subseteq Times \cup {NoTime}  BY <1>1, <1>3
  <2>2. counted' \in [Ids -> Nat]  BY <1>1, <1>3
  <2> QED  BY <1>1, <2>1, <2>2 DEF IInv, TypeOK
<1>6. LogInv' /\ Reached(cursor)'  BY <1>1, <1>4 DEF IInv, LogInv, Reached
<1>7. PollInv'  BY <1>1 DEF PollInv, NoTime
<1>8. \A i \in Ids : i > Len(log') => counted'[i] = 0
  BY <1>1, <1>2, <1>4 DEF IInv, Ids
<1>9. ASSUME NEW i \in DOMAIN log
      PROVE  /\ counted'[i] \in {0, 1}
             /\ counted'[i] = 1 => log[i].parses /\ log[i].time <= newest
  <2>1. i \in Ids  BY <1>2 DEF Ids
  <2>2. /\ counted[i] \in {0, 1}
        /\ counted[i] = 1 => log[i].parses /\ log[i].time <= cursor
    BY DEF IInv, CountedOnceUpToCursor
  <2>3. CASE i \in events
    <3>1. log[i].parses /\ cursor < log[i].time /\ log[i].time <= newest  BY <1>4, <2>3
    <3>2. counted[i] = 0  BY <1>2, <1>3, <2>2, <3>1
    <3> QED  BY <1>1, <2>1, <2>3, <3>1, <3>2
  <2>4. CASE i \notin events
    <3>1. counted'[i] = counted[i]  BY <1>1, <2>1, <2>4
    <3> QED  BY <1>2, <1>3, <1>4, <2>2, <3>1
  <2> QED  BY <2>3, <2>4
<1>10. CountedOnceUpToCursor'  BY <1>1, <1>9 DEF CountedOnceUpToCursor
<1> QED  BY <1>5, <1>6, <1>7, <1>8, <1>10 DEF IInv

\* Every step preserves the inductive invariant.
LEMMA NextIInv == IInv /\ [Next]_vars => IInv'
<1> SUFFICES ASSUME IInv, [Next]_vars PROVE IInv'  OBVIOUS
<1>1. session \in {"none", "valid", "expired"}  BY DEF IInv, TypeOK
<1>2. CASE Expire \/ UNCHANGED vars
  <2>1. /\ log' = log /\ cursor' = cursor /\ counted' = counted /\ pc' = pc
        /\ pages' = pages /\ olderThan' = olderThan /\ newest' = newest /\ events' = events
        /\ session' \in {"none", "valid", "expired"}
    BY <1>1, <1>2 DEF Expire, vars, poll
  <2>2. TypeOK'  BY <2>1 DEF IInv, TypeOK
  <2>3. LogInv' /\ Reached(cursor)'  BY <2>1 DEF IInv, LogInv, Reached
  <2>4. PollInv'  BY <2>1 DEF IInv, PollInv, Reached
  <2>5. CountedOnceUpToCursor'  BY <2>1 DEF IInv, CountedOnceUpToCursor
  <2> QED  BY <2>1, <2>2, <2>3, <2>4, <2>5 DEF IInv
<1>3. CASE FetchFails  BY <1>1, <1>3, EndPollIInv DEF FetchFails
<1>4. CASE CommitFails  BY <1>1, <1>4, EndPollIInv DEF CommitFails
<1>5. CASE Restart  BY <1>5, EndPollIInv DEF Restart
<1> QED
  BY <1>2, <1>3, <1>4, <1>5, QueryIInv, FetchPageIInv, CommitIInv DEF Next
-----------------------------------------------------------------------------
\* The inductive invariant holds in every reachable state.
THEOREM InvariantHolds == Spec => []IInv
<1>1. Init => IInv  BY InitIInv
<1>2. IInv /\ [Next]_vars => IInv'  BY NextIInv
<1> QED  BY <1>1, <1>2, PTL DEF Spec

\* The variables keep their types; a poll never gets past its last page.
THEOREM TypeCorrect == Spec => []TypeOK
<1>1. IInv => TypeOK  BY DEF IInv
<1> QED  BY <1>1, InvariantHolds, PTL

\* Nothing is counted twice, and nothing beyond the cursor, at every page size
\* and cap, while the log grows between pages and any request fails.
THEOREM CountedOnce == Spec => []CountedOnceUpToCursor
<1>1. IInv => CountedOnceUpToCursor  BY DEF IInv
<1> QED  BY <1>1, InvariantHolds, PTL

\* Every commit advances the cursor, and no other step moves it: nothing is
\* asked for twice, and a tick that commits has got on.
CommitsAdvance == [][IF Commit THEN cursor' > cursor ELSE cursor' = cursor]_vars

THEOREM CommitsAdvanceHolds == Spec => CommitsAdvance
<1> DEFINE A == IF Commit THEN cursor' > cursor ELSE cursor' = cursor
<1>1. ASSUME IInv, [Next]_vars PROVE A
  <2>1. CASE Commit
    <3>1. cursor' = newest /\ cursor < newest  BY <1>1, <2>1 DEF Commit, IInv, PollInv
    <3>2. cursor \in Nat /\ newest \in Nat  BY <1>1, TimesType DEF IInv
    <3> QED  BY <2>1, <3>1, <3>2
  <2>2. CASE ~Commit
    <3>1. cursor' = cursor
      BY <1>1, <2>2 DEF Next, Query, Expire, FetchPage, FetchFails, CommitFails, Restart, vars
    <3> QED  BY <2>2, <3>1
  <2> QED  BY <2>1, <2>2
<1>2. IInv /\ [Next]_vars => [A]_vars  BY <1>1
<1> HIDE DEF A
<1>3. Spec => [][A]_vars  BY <1>2, InvariantHolds, PTL DEF Spec
<1> QED  BY <1>3, PTL DEF A, CommitsAdvance

\* A poll whose pages all arrive ends without a batch only if there is nothing
\* after the cursor, or if it has met an entry whose time does not parse.
QuietPollsMissNothing ==
    [][FetchPage /\ EndPoll =>
         \/ \E i \in Seen : ~log[i].readable
         \/ \A i \in DOMAIN log : log[i].time <= cursor]_vars

THEOREM QuietPollsMissNothingHolds == Spec => QuietPollsMissNothing
<1> DEFINE A == FetchPage /\ EndPoll =>
                  \/ \E i \in Seen : ~log[i].readable
                  \/ \A i \in DOMAIN log : log[i].time <= cursor
<1>1. ASSUME IInv, FetchPage, EndPoll, \A i \in Seen : log[i].readable,
             NEW i \in DOMAIN log
      PROVE  log[i].time <= cursor
  <2>1. /\ DOMAIN log = 1 .. Len(log) /\ Len(log) \in Nat /\ log \in Seq(Entries)
        /\ \A j \in DOMAIN log : log[j].time \in Nat
    BY <1>1, LogType DEF IInv
  <2>2. cursor \in Nat /\ newest \in Nat /\ pages \in Nat
    BY <1>1, TimesType DEF IInv
  <2>3. pc = "poll" /\ Newest \in {NoTime, cursor}
    <3>1. pages' = 0 /\ pc' = "poll"  BY <1>1 DEF EndPoll
    <3>2. pages + 1 # 0  BY <2>2
    <3> QED  BY <1>1, <3>1, <3>2 DEF FetchPage
  <2>4. newest = NoTime
    <3>1. SUFFICES ASSUME newest # NoTime PROVE FALSE  OBVIOUS
    <3>2. Newest = newest /\ cursor < newest  BY <1>1, <3>1 DEF Newest, IInv, PollInv
    <3> QED  BY <2>2, <2>3, <3>1, <3>2
  <2>5. log # <<>>  BY <1>1, <2>1
  <2>6. Len(log) \in Page /\ Len(log) \in DOMAIN log
    BY <1>1, <2>3, <2>4, <2>5, FirstPage
  <2>7. Newest # NoTime /\ log[Len(log)].time <= Newest
    BY <1>1, <2>3, <2>6, PageType
  <2>8. log[i].time <= log[Len(log)].time  BY <1>1, <2>1, <2>6 DEF IInv, LogInv
  <2> QED  BY <1>1, <2>1, <2>2, <2>3, <2>6, <2>7, <2>8
<1>2. IInv => [A]_vars  BY <1>1
<1> HIDE DEF A
<1>3. Spec => [][A]_vars  BY <1>2, InvariantHolds, PTL
<1> QED  BY <1>3, PTL DEF A, QuietPollsMissNothing
-----------------------------------------------------------------------------
(***************************************************************************)
(* A poll is complete.  Within the page cap, what it has not kept of the    *)
(* entries it has passed was delivered before, does not parse or is tied.  *)
(***************************************************************************)
Between(lo, hi) == {j \in DOMAIN log : lo <= log[j].time /\ log[j].time <= hi}
Newer(i) == {j \in DOMAIN log : j > i /\ log[j].time <= newest}

\* An entry the batch of this poll has to hold, once the poll has got to it.
Due(i) == /\ log[i].parses /\ ~Tied(i)
          /\ cursor < log[i].time /\ log[i].time <= newest

CompleteInv ==
    /\ pc = "poll" =>
          /\ newest = NoTime => pages = 0
          /\ newest # NoTime => pages * PageSize <= Cardinality(Between(olderThan, newest))
          /\ \A i \in DOMAIN log : Due(i) /\ olderThan <= log[i].time => i \in events
    /\ pc = "apply" =>
          \A i \in DOMAIN log :
              Due(i) /\ Cardinality(Newer(i)) < MaxPages * PageSize => i \in events

\* Sets of indices can be counted.
LEMMA PartOfIndices ==
    ASSUME NEW n \in Nat, NEW S \in SUBSET (1 .. n)
    PROVE  /\ IsFiniteSet(S) /\ Cardinality(S) \in Nat
           /\ \A T \in SUBSET S : IsFiniteSet(T) /\ Cardinality(T) \in Nat
                                  /\ Cardinality(T) <= Cardinality(S)
<1>2. IsFiniteSet(1 .. n)  BY FS_Interval
<1>3. IsFiniteSet(S)  BY <1>2, FS_Subset
<1>4. Cardinality(S) \in Nat  BY <1>3, FS_CardinalityType
<1>5. ASSUME NEW T \in SUBSET S
      PROVE  IsFiniteSet(T) /\ Cardinality(T) \in Nat /\ Cardinality(T) <= Cardinality(S)
  <2>1. IsFiniteSet(T) /\ Cardinality(T) <= Cardinality(S)  BY <1>3, FS_Subset
  <2> QED  BY <2>1, FS_CardinalityType
<1> QED  BY <1>3, <1>4, <1>5

\* The entries of the log that satisfy something can be counted.
LEMMA PartOfLog ==
    ASSUME TypeOK, NEW S \in SUBSET DOMAIN log
    PROVE  /\ IsFiniteSet(S) /\ Cardinality(S) \in Nat
           /\ \A T \in SUBSET S : IsFiniteSet(T) /\ Cardinality(T) \in Nat
                                  /\ Cardinality(T) <= Cardinality(S)
<1>1. DOMAIN log = 1 .. Len(log) /\ Len(log) \in Nat  BY LogType
<1> QED  BY <1>1, PartOfIndices

\* The same of the log after a step.
LEMMA PartOfPrimed ==
    ASSUME TypeOK', NEW S \in SUBSET DOMAIN log'
    PROVE  /\ Cardinality(S) \in Nat
           /\ \A T \in SUBSET S : Cardinality(T) \in Nat
                                  /\ Cardinality(T) <= Cardinality(S)
<1>1. log' \in Seq(Entries)  BY DEF TypeOK
<1> DEFINE n == Len(log')
<1>2. DOMAIN log' = 1 .. n /\ n \in Nat  BY <1>1
<1> HIDE DEF n
<1> QED  BY <1>2, PartOfIndices

\* What is not on the page comes after a page of newer entries.
LEMMA NotOnPage ==
    ASSUME TypeOK, NEW i \in Candidates, i \notin Page
    PROVE  /\ Cardinality({j \in Candidates : j > i}) >= PageSize
           /\ \A j \in Page : j > i
           /\ Cardinality(Page) >= PageSize
<1>1. DOMAIN log = 1 .. Len(log) /\ Len(log) \in Nat  BY LogType
<1>2. Candidates \in SUBSET DOMAIN log /\ Page \in SUBSET Candidates
  BY DEF Candidates, Page
<1> DEFINE After(k) == {j \in Candidates : j > k}
<1>3. \A k \in Candidates : Cardinality(After(k)) \in Nat  BY <1>2, PartOfLog
<1>4. \A k \in Candidates : k \in Page <=> Cardinality(After(k)) < PageSize
  BY DEF Page
<1> HIDE DEF After
<1>5. PageSize \in Nat  OBVIOUS
<1>6. \A k \in Candidates : k \notin Page => Cardinality(After(k)) >= PageSize
  BY <1>3, <1>4, <1>5
<1>7. ASSUME NEW j \in Page PROVE j > i
  <2>1. SUFFICES ASSUME j <= i PROVE FALSE  BY <1>1, <1>2
  <2>2. After(i) \in SUBSET After(j)  BY <1>1, <1>2, <2>1 DEF After
  <2>3. After(j) \in SUBSET DOMAIN log  BY <1>2 DEF After
  <2>4. Cardinality(After(i)) <= Cardinality(After(j))  BY <2>2, <2>3, PartOfLog
  <2> QED  BY <1>2, <1>3, <1>4, <1>5, <1>6, <2>4
<1>8. Cardinality(Page) >= PageSize
  <2> DEFINE S == Candidates \ Page
  <2>1. S \in SUBSET (0 .. Len(log)) /\ S # {}  BY <1>1, <1>2
  <2>2. Max(S) \in S /\ \A k \in S : k <= Max(S)  BY <1>1, <2>1, MaxType
  <2> DEFINE m == Max(S)
  <2> HIDE DEF S, m
  <2>3. m \in Candidates /\ m \notin Page /\ \A k \in Candidates : k \notin Page => k <= m
    BY <2>2 DEF S, m
  <2>4. After(m) \in SUBSET Page
    <3>1. \A k \in After(m) : k \in Candidates /\ k > m  BY DEF After
    <3> QED  BY <1>1, <1>2, <2>3, <3>1
  <2>5. Cardinality(After(m)) <= Cardinality(Page)  BY <1>2, <2>4, PartOfLog
  <2>6. Cardinality(Page) \in Nat  BY <1>2, PartOfLog
  <2> QED  BY <1>3, <1>5, <1>6, <2>3, <2>5, <2>6
<1> QED  BY <1>6, <1>7, <1>8 DEF After

\* The initial state.
LEMMA InitComplete == Init => CompleteInv
BY DEF Init, CompleteInv

\* A poll that has ended, or never begun, owes nothing.
LEMMA EndPollComplete ==
    ASSUME IInv, EndPoll, log' = log
    PROVE  CompleteInv'
<1>1. /\ newest' = NoTime /\ pages' = 0 /\ pc' = "poll"  BY DEF EndPoll
<1>2. \A i \in DOMAIN log : log[i].time \in Nat /\ log[i].time # 0
  BY LogType DEF IInv, Times
<1>3. \A i \in DOMAIN log' : ~Due(i)'
  <2>1. \A i \in DOMAIN log : ~(log[i].time <= NoTime)  BY <1>2 DEF NoTime
  <2> QED  BY <1>1, <2>1 DEF Due
<1> QED  BY <1>1, <1>3 DEF CompleteInv

\* An entry that is logged during a poll is newer than what the poll has seen,
\* or tied with it.
LEMMA QueryComplete ==
    ASSUME IInv, CompleteInv, NEW entry \in Entries, Query(entry)
    PROVE  CompleteInv'
<1>1. /\ log' = Append(log, entry)
      /\ cursor' = cursor /\ pc' = pc
      /\ pages' = pages /\ olderThan' = olderThan /\ newest' = newest /\ events' = events
  BY DEF Query, poll
<1>2. /\ log \in Seq(Entries) /\ DOMAIN log = 1 .. Len(log) /\ Len(log) \in Nat
  BY LogType DEF IInv
<1>3. /\ DOMAIN log' = 1 .. Len(log) + 1
      /\ \A i \in DOMAIN log : i \in DOMAIN log' /\ log'[i] = log[i]
      /\ \A i \in DOMAIN log' : i \in DOMAIN log \/ i = Len(log) + 1
  BY <1>1, <1>2
<1>4. TypeOK' /\ LogInv'  BY QueryIInv DEF IInv
<1>5. \A i \in DOMAIN log' : log'[i].time \in Nat
  <2>1. \A i \in DOMAIN log' : log'[i] \in Entries
    BY <1>1, <1>2, <1>3
  <2> QED  BY <2>1 DEF Entries, Times
<1>6. ASSUME NEW i \in DOMAIN log', Due(i)'
      PROVE  i \in DOMAIN log /\ Due(i)
  <2>1. CASE i \in DOMAIN log
    <3>1. ~Tied(i)  BY <1>3, <1>6, <2>1 DEF Due, Tied
    <3> QED  BY <1>1, <1>3, <1>6, <2>1, <3>1 DEF Due
  <2>2. CASE i = Len(log) + 1
    <3>1. log'[i].time <= newest /\ ~Tied(i)'  BY <1>1, <1>6 DEF Due
    <3>2. newest # NoTime /\ newest \in Nat
      <4>1. newest \in Nat  BY TimesType DEF IInv
      <4>2. cursor \in Nat /\ cursor < log'[i].time  BY <1>1, <1>6, TimesType DEF Due, IInv
      <4> QED  BY <1>5, <3>1, <4>1, <4>2 DEF NoTime
    <3>3. PICK k \in DOMAIN log : log[k].time = newest
      BY <3>2 DEF IInv, PollInv, Reached
    <3>4. k \in DOMAIN log' /\ log'[k].time = newest /\ k <= i /\ k # i
      BY <1>2, <1>3, <2>2, <3>3
    <3>5. log'[k].time <= log'[i].time  BY <1>4, <3>4 DEF LogInv
    <3>6. log'[i].time = log'[k].time  BY <1>5, <3>1, <3>2, <3>4, <3>5
    <3> QED  BY <3>1, <3>4, <3>6 DEF Tied
  <2> QED  BY <1>3, <2>1, <2>2
<1>7. ASSUME pc = "poll", newest # NoTime
      PROVE  pages * PageSize <= Cardinality(Between(olderThan, newest))'
  <2> DEFINE S == Between(olderThan, newest)
             T == {j \in DOMAIN log' : olderThan <= log'[j].time /\ log'[j].time <= newest}
  <2>1. S \in SUBSET T  BY <1>3 DEF Between
  <2>2. T \in SUBSET DOMAIN log' /\ T = Between(olderThan, newest)'  BY <1>1 DEF Between
  <2>3. \A U \in SUBSET T : Cardinality(U) \in Nat /\ Cardinality(U) <= Cardinality(T)
    BY <2>2, <1>4, PartOfPrimed
  <2>4. Cardinality(T) \in Nat  BY <2>3
  <2>5. pages * PageSize <= Cardinality(S)  BY <1>7 DEF CompleteInv
  <2>6. pages * PageSize \in Int
    <3>1. pages \in Int /\ PageSize \in Int  BY TimesType DEF IInv
    <3> QED  BY <3>1
  <2> HIDE DEF S, T
  <2> QED  BY <2>1, <2>2, <2>3, <2>4, <2>5, <2>6
<1>8. CASE pc = "poll"
  <2>1. \A i \in DOMAIN log' : Due(i)' /\ olderThan' <= log'[i].time => i \in events'
    BY <1>1, <1>3, <1>6, <1>8 DEF CompleteInv
  <2>2. newest' = NoTime => pages' = 0  BY <1>1, <1>8 DEF CompleteInv
  <2>3. newest' # NoTime => pages' * PageSize <= Cardinality(Between(olderThan, newest))'
    BY <1>1, <1>7, <1>8
  <2> QED  BY <1>1, <1>8, <2>1, <2>2, <2>3 DEF CompleteInv
<1>9. CASE pc = "apply"
  <2>1. ASSUME NEW i \in DOMAIN log', Due(i)', Cardinality(Newer(i))' < MaxPages * PageSize
        PROVE  i \in events'
    <3>1. i \in DOMAIN log /\ Due(i)  BY <1>6, <2>1
    <3> DEFINE T == {j \in DOMAIN log' : j > i /\ log'[j].time <= newest}
    <3>2. Newer(i) \in SUBSET T  BY <1>3 DEF Newer
    <3>3. T \in SUBSET DOMAIN log' /\ T = Newer(i)'  BY <1>1 DEF Newer
    <3>4. /\ Cardinality(Newer(i)) \in Nat /\ Cardinality(T) \in Nat
          /\ Cardinality(Newer(i)) <= Cardinality(T)
      BY <3>2, <3>3, <1>4, PartOfPrimed
    <3>5. Cardinality(T) < MaxPages * PageSize  BY <2>1, <3>3
    <3> HIDE DEF T
    <3>6. MaxPages * PageSize \in Int
      <4>1. MaxPages \in Int /\ PageSize \in Int  OBVIOUS
      <4> QED  BY <4>1
    <3>7. Cardinality(Newer(i)) < MaxPages * PageSize  BY <3>4, <3>5, <3>6
    <3> QED  BY <1>1, <1>9, <3>1, <3>7 DEF CompleteInv
  <2> QED  BY <1>1, <1>9, <2>1 DEF CompleteInv
<1> QED  BY <1>8, <1>9 DEF IInv, TypeOK

\* The pages of a poll do not overlap.
LEMMA PagesAdd ==
    ASSUME IInv, CompleteInv, pc = "poll", PageSize <= Cardinality(Page),
           NEW S \in SUBSET DOMAIN log, Page \subseteq S,
           newest # NoTime => Between(olderThan, newest) \subseteq S
    PROVE  /\ Cardinality(S) \in Nat
           /\ (pages + 1) * PageSize <= Cardinality(S)
<1>1. TypeOK  BY DEF IInv
<1>2. Cardinality(S) \in Nat  BY <1>1, PartOfLog
<1>3. /\ IsFiniteSet(Page) /\ Cardinality(Page) \in Nat
      /\ Cardinality(Page) <= Cardinality(S)
  BY <1>1, PartOfLog
<1>4. pages \in Nat /\ PageSize \in Nat  BY <1>1, TimesType
<1>5. CASE newest = NoTime
  <2>1. pages = 0  BY <1>5 DEF CompleteInv
  <2> QED  BY <1>2, <1>3, <1>4, <2>1
<1>6. CASE newest # NoTime
  <2> DEFINE B == Between(olderThan, newest)
  <2>1. B \subseteq S /\ pages * PageSize <= Cardinality(B)  BY <1>6 DEF CompleteInv
  <2>2. IsFiniteSet(B) /\ Cardinality(B) \in Nat  BY <1>1, <2>1, PartOfLog
  <2>3. B \cap Page = {}
    <3>1. olderThan # NoTime /\ olderThan \in Nat  BY <1>1, <1>6, TimesType DEF IInv, PollInv
    <3>2. \A i \in Page : i \in DOMAIN log /\ log[i].time < olderThan
      BY <3>1 DEF Page, Candidates
    <3>3. \A i \in DOMAIN log : log[i].time \in Nat  BY <1>1, LogType
    <3>4. \A i \in B : olderThan <= log[i].time  BY DEF Between
    <3> HIDE DEF B
    <3> QED  BY <3>1, <3>2, <3>3, <3>4
  <2> HIDE DEF B
  <2>4. Cardinality(B \cap Page) = 0  BY <2>3, FS_EmptySet
  <2>5. Cardinality(B \cup Page) = Cardinality(B) + Cardinality(Page)
    <3>1. Cardinality(B \cup Page)
              = Cardinality(B) + Cardinality(Page) - Cardinality(B \cap Page)
      BY <1>3, <2>2, FS_Union
    <3> QED  BY <1>3, <2>2, <2>4, <3>1
  <2>6. Cardinality(B \cup Page) <= Cardinality(S)
    <3>1. B \cup Page \in SUBSET S  BY <2>1
    <3> QED  BY <1>1, <3>1, PartOfLog
  <2>7. (pages + 1) * PageSize = pages * PageSize + PageSize  BY <1>4
  <2>8. pages * PageSize \in Nat  BY <1>4
  <2> QED  BY <1>2, <1>3, <1>4, <2>1, <2>2, <2>5, <2>6, <2>7, <2>8
<1> QED  BY <1>5, <1>6

\* What is new on a page is kept; what is new and older than the page is tied
\* with its oldest entry, left to the next page or beyond the cap.
LEMMA FetchPageComplete ==
    ASSUME IInv, CompleteInv, FetchPage
    PROVE  CompleteInv'
<1> DEFINE kept == events \cup {i \in Seen : log[i].parses}
<1>1. pc = "poll" /\ log' = log /\ cursor' = cursor  BY DEF FetchPage
<1>2. CASE EndPoll  BY <1>1, <1>2, EndPollComplete
<1>3. ASSUME ~EndPoll
      PROVE  /\ \A i \in Seen : log[i].readable
             /\ newest' = Newest /\ events' = kept
             /\ \/ /\ ~LastPage /\ pages' = pages + 1 /\ pc' = "poll"
                   /\ olderThan' = log[Min(Page)].time
                \/ /\ LastPage /\ pc' = "apply"
  BY <1>1, <1>3 DEF FetchPage
<1>4. CASE ~EndPoll
  <2>1. /\ DOMAIN log = 1 .. Len(log) /\ Len(log) \in Nat
        /\ \A i \in DOMAIN log : log[i].time \in Nat
        /\ \A i, j \in DOMAIN log : i <= j => log[i].time <= log[j].time
    BY LogType DEF IInv, LogInv
  <2>2. /\ cursor \in Nat /\ olderThan \in Nat /\ newest \in Nat /\ pages \in Nat
        /\ PageSize \in Nat \ {0} /\ MaxPages \in Nat
    BY TimesType DEF IInv
  <2>3. /\ Page \subseteq DOMAIN log
        /\ Newest \in Nat
        /\ newest # NoTime => Newest = newest
        /\ Page # {} => Newest # NoTime
        /\ \A i \in Page : log[i].time <= Newest
        /\ Seen \subseteq Page
    BY <1>1, <1>3, <1>4, PageType DEF Times, NoTime
  <2>4. Cardinality(Page) \in Nat  BY <2>3, PartOfLog DEF IInv
  <2>5. olderThan = NoTime <=> newest = NoTime  BY <1>1 DEF IInv, PollInv
  <2>6. \A i \in DOMAIN log : Due(i)' <=> /\ log[i].parses /\ ~Tied(i)
                                         /\ cursor < log[i].time /\ log[i].time <= Newest
    BY <1>1, <1>3, <1>4 DEF Due, Tied
  <2>7. \A i \in Seen : log[i].parses => i \in events'  BY <1>3, <1>4
  <2>8. ASSUME NEW i \in DOMAIN log, Due(i)', i \notin Candidates
        PROVE  i \in events'
    <3>1. olderThan # NoTime /\ olderThan <= log[i].time  BY <2>1, <2>2, <2>8 DEF Candidates
    <3>2. Due(i)  BY <2>3, <2>5, <2>6, <2>8, <3>1 DEF Due
    <3>3. i \in events  BY <1>1, <3>1, <3>2 DEF CompleteInv
    <3> QED  BY <1>3, <1>4, <3>3
  <2>9. ASSUME NEW i \in DOMAIN log, cursor < log[i].time, NEW j \in DOMAIN log, j >= i
        PROVE  ~Delivered(j)
    BY <2>1, <2>2, <2>9 DEF Delivered
  <2>10. CASE /\ ~LastPage /\ pages' = pages + 1 /\ pc' = "poll"
              /\ olderThan' = log[Min(Page)].time
    <3>1. Page = Seen /\ PageSize <= Cardinality(Page)
      BY <2>2, <2>4, <2>10 DEF LastPage
    <3>2. Page # {}  BY <2>2, <3>1, FS_EmptySet
    <3> DEFINE m == Min(Page)
    <3>3. m \in Page /\ \A j \in Page : m <= j
      <4>1. Page \in SUBSET Nat  BY <2>1, <2>3
      <4> QED  BY <3>2, <4>1, MinType
    <3>4. olderThan' = log[m].time  BY <2>10
    <3> HIDE DEF m
    <3>5. (pages + 1) * PageSize <= Cardinality(Between(olderThan, newest))'
      <4> DEFINE S == {j \in DOMAIN log : log[m].time <= log[j].time /\ log[j].time <= Newest}
      <4>1. Between(olderThan, newest)' = S  BY <1>1, <1>3, <1>4, <3>4 DEF Between
      <4>2. Page \subseteq S  BY <2>1, <2>3, <3>3
      <4>3. newest # NoTime => Between(olderThan, newest) \subseteq S
        <5>1. newest # NoTime => log[m].time < olderThan
          BY <2>5, <3>3 DEF Page, Candidates
        <5> QED  BY <2>1, <2>2, <2>3, <3>3, <5>1 DEF Between
      <4>4. S \in SUBSET DOMAIN log  OBVIOUS
      <4> HIDE DEF S
      <4>5. (pages + 1) * PageSize <= Cardinality(S)
        BY <1>1, <3>1, <4>2, <4>3, <4>4, PagesAdd
      <4> QED  BY <4>1, <4>5
    <3>6. ASSUME NEW i \in DOMAIN log, Due(i)', olderThan' <= log[i].time
          PROVE  i \in events'
      <4>1. CASE i \in Page  BY <2>6, <2>7, <3>1, <3>6, <4>1
      <4>2. CASE i \in Candidates /\ i \notin Page
        <5>1. m > i  BY <3>3, <4>2, NotOnPage DEF IInv
        <5>2. log[i].time = log[m].time  BY <2>1, <2>3, <3>3, <3>4, <3>6, <5>1
        <5>3. m \in DOMAIN log \ {i}  BY <2>1, <2>3, <3>3, <5>1
        <5> QED  BY <2>6, <3>6, <5>2, <5>3 DEF Tied
      <4> QED  BY <2>8, <3>6, <4>1, <4>2
    <3> QED  BY <1>1, <1>3, <1>4, <2>3, <2>10, <3>2, <3>5, <3>6 DEF CompleteInv
  <2>11. CASE LastPage /\ pc' = "apply"
    <3>1. ASSUME NEW i \in DOMAIN log, Due(i)', Cardinality(Newer(i))' < MaxPages * PageSize
          PROVE  i \in events'
      <4>1. log[i].parses /\ cursor < log[i].time /\ log[i].time <= Newest  BY <2>6, <3>1
      <4>2. CASE i \in Page
        <5>1. i \in Seen  BY <2>3, <2>9, <4>1, <4>2 DEF Seen
        <5> QED  BY <2>7, <4>1, <5>1
      <4>3. CASE i \in Candidates /\ i \notin Page
        <5>1. (\A j \in Page : j > i) /\ PageSize <= Cardinality(Page)
          BY <2>2, <2>4, <4>3, NotOnPage DEF IInv
        <5>2. \A j \in Page : ~Delivered(j)  BY <2>1, <2>3, <2>9, <4>1, <5>1
        <5>3. Seen = Page  BY <5>2 DEF Seen
        <5>4. pages + 1 = MaxPages  BY <2>2, <2>4, <2>11, <5>1, <5>3 DEF LastPage
        <5> DEFINE S == {j \in DOMAIN log : j > i /\ log[j].time <= Newest}
        <5>5. Newer(i)' = S  BY <1>1, <1>3, <1>4 DEF Newer
        <5>6. Page \subseteq S  BY <2>3, <5>1
        <5>7. newest # NoTime => Between(olderThan, newest) \subseteq S
          <6>1. newest # NoTime => log[i].time < olderThan
            BY <2>5, <4>3 DEF Candidates
          <6>2. \A j \in DOMAIN log : newest # NoTime /\ olderThan <= log[j].time => j > i
            BY <2>1, <2>2, <6>1
          <6> QED  BY <2>3, <6>2 DEF Between
        <5>8. S \in SUBSET DOMAIN log  OBVIOUS
        <5> HIDE DEF S
        <5>9. (pages + 1) * PageSize <= Cardinality(S) /\ Cardinality(S) \in Nat
          BY <1>1, <5>1, <5>6, <5>7, <5>8, PagesAdd
        <5>10. MaxPages * PageSize <= Cardinality(S)  BY <5>4, <5>9
        <5>11. Cardinality(S) < MaxPages * PageSize  BY <3>1, <5>5
        <5>12. MaxPages * PageSize \in Nat  BY <2>2
        <5> QED  BY <5>9, <5>10, <5>11, <5>12
      <4> QED  BY <2>8, <3>1, <4>2, <4>3
    <3> QED  BY <1>1, <2>11, <3>1 DEF CompleteInv
  <2> QED  BY <1>3, <1>4, <2>10, <2>11
<1> QED  BY <1>2, <1>4

\* Every step preserves it.
LEMMA NextComplete ==
    ASSUME IInv, CompleteInv, [Next]_vars
    PROVE  CompleteInv'
<1>1. CASE Expire \/ UNCHANGED vars
  <2>1. /\ log' = log /\ cursor' = cursor /\ pc' = pc
        /\ pages' = pages /\ olderThan' = olderThan /\ newest' = newest /\ events' = events
    BY <1>1 DEF Expire, vars, poll
  <2> QED  BY <2>1 DEF CompleteInv, Between, Newer, Due, Tied
<1>2. CASE FetchFails \/ CommitFails \/ Commit \/ Restart
  <2>1. EndPoll /\ log' = log  BY <1>2 DEF FetchFails, CommitFails, Commit, Restart
  <2> QED  BY <2>1, EndPollComplete
<1> QED  BY <1>1, <1>2, QueryComplete, FetchPageComplete DEF Next

\* At every moment of a poll, what it has passed and not kept was delivered
\* before, does not parse or is tied.
THEOREM PollsAreComplete == Spec => []CompleteInv
<1>1. Init => CompleteInv  BY InitComplete
<1>2. IInv /\ CompleteInv /\ [Next]_vars => CompleteInv'  BY NextComplete
<1> QED  BY <1>1, <1>2, InvariantHolds, PTL DEF Spec

\* When the cursor moves, all that it passes over is counted, at every page
\* size and cap, but for what is tied, does not parse or lies beyond the cap.
THEOREM CompleteCommits == Spec => CommitsAreComplete
<1> DEFINE A == cursor' # cursor =>
         \A i \in DOMAIN log :
            LET newer == {j \in DOMAIN log : j > i /\ log[j].time <= cursor'}
            IN /\ log[i].parses /\ ~Tied(i)
               /\ cursor < log[i].time /\ log[i].time <= cursor'
               /\ Cardinality(newer) < MaxPages * PageSize
               => counted'[i] = 1
<1>1. ASSUME IInv, CompleteInv, [Next]_vars PROVE A
  <2>1. CASE Commit
    <3>1. /\ pc = "apply" /\ cursor' = newest
          /\ counted' = [i \in Ids |-> IF i \in events THEN counted[i] + 1 ELSE counted[i]]
      BY <2>1 DEF Commit
    <3>2. ASSUME NEW i \in DOMAIN log,
                 log[i].parses /\ ~Tied(i) /\ cursor < log[i].time /\ log[i].time <= cursor',
                 Cardinality({j \in DOMAIN log : j > i /\ log[j].time <= cursor'})
                     < MaxPages * PageSize
          PROVE  counted'[i] = 1
      <4>1. Due(i)  BY <3>1, <3>2 DEF Due
      <4>2. Cardinality(Newer(i)) < MaxPages * PageSize  BY <3>1, <3>2 DEF Newer
      <4>3. i \in events  BY <1>1, <3>1, <4>1, <4>2 DEF CompleteInv
      <4>4. i \in Ids  BY <1>1, <4>3 DEF IInv, TypeOK
      <4>5. counted[i] \in {0, 1} /\ (counted[i] = 1 => log[i].time <= cursor)
        BY <1>1 DEF IInv, CountedOnceUpToCursor
      <4>6. log[i].time \in Nat /\ cursor \in Nat  BY <1>1, LogType, TimesType DEF IInv
      <4>7. counted[i] = 0  BY <3>2, <4>5, <4>6
      <4> QED  BY <3>1, <4>3, <4>4, <4>7
    <3> QED  BY <3>2
  <2>2. CASE ~Commit
    <3>1. cursor' = cursor
      BY <1>1, <2>2 DEF Next, Query, Expire, FetchPage, FetchFails, CommitFails, Restart, vars
    <3> QED  BY <3>1
  <2> QED  BY <2>1, <2>2
<1>2. IInv /\ CompleteInv /\ [Next]_vars => [A]_vars  BY <1>1
<1> HIDE DEF A
<1>3. Spec => [][A]_vars  BY <1>2, InvariantHolds, PollsAreComplete, PTL DEF Spec
<1> QED  BY <1>3, PTL DEF A, CommitsAreComplete
=============================================================================
