--------------------------- MODULE PulseStreamProofs --------------------------
(***************************************************************************)
(* Theorems about PulseStream, for every channel capacity, every set of    *)
(* windows and every bound: type correctness, that no pulse reaches the    *)
(* page twice or out of order, and that the page is never ahead of the     *)
(* store and shows the stream as it is.                                    *)
(***************************************************************************)
EXTENDS PulseStream, TLAPS

\* What the proofs need of the bounds.
LEMMA Bounds ==
    /\ FirstWindow \in Windows
    /\ Buffer \in Nat /\ Buffer # 0
    /\ MaxRequests \in Nat /\ MaxRequests # 0
    /\ MaxCommits \in Nat /\ MaxSwitches \in Nat
BY BoundsAssumption

\* What the page was handed has been sent, and lies behind the receiver, which
\* is never ahead of the channel by more than the pulse it waits for.
BehindReceiver ==
    /\ \A i \in DOMAIN got : got[i] <= sent
    /\ receiver # NoReceiver =>
          /\ receiver - 1 <= sent
          /\ \A i \in DOMAIN got : got[i] < receiver

IInv == TypeOK /\ BehindReceiver /\ PulsesInOrder

Requests == Views \cup {Asked(w) : w \in Windows} \cup {Idle}

\* The types of what the page is handed.
LEMMA GotType ==
    ASSUME TypeOK
    PROVE  /\ got \in Seq(1 .. MaxCommits) /\ Len(got) \in Nat
           /\ DOMAIN got = 1 .. Len(got)
           /\ \A i \in DOMAIN got : got[i] \in 1 .. MaxCommits
           /\ MaxCommits \in Nat
BY Bounds DEF TypeOK

\* Starting a query keeps the types of the queries under way.
LEMMA RefreshType ==
    ASSUME request \in [Slots -> Requests], NEW w \in Windows, Refresh(w)
    PROVE  request' \in [Slots -> Requests]
<1>1. Asked(w) \in Requests  BY DEF Requests
<1> QED  BY <1>1 DEF Refresh

\* The first query of the page.
LEMMA InitIInv == Init => IInv
<1> SUFFICES ASSUME Init PROVE IInv  OBVIOUS
<1> USE DEF Init
<1>1. request \in [Slots -> Requests]
  <2>1. Asked(FirstWindow) \in Requests /\ Idle \in Requests  BY Bounds DEF Requests
  <2> QED  BY <2>1
<1>2. TypeOK  BY <1>1, Bounds DEF TypeOK, Requests, NoReceiver
<1>3. DOMAIN got = {}  OBVIOUS
<1> QED  BY <1>2, <1>3 DEF IInv, BehindReceiver, PulsesInOrder, NoReceiver

\* The steps of the page and of the stream that hand over no pulse and open
\* no receiver keep what the pulses satisfy.
LEMMA PulsesKept ==
    ASSUME IInv, got' = got, sent' = sent, receiver' \in {receiver, NoReceiver}
    PROVE  BehindReceiver' /\ PulsesInOrder'
BY DEF IInv, BehindReceiver, PulsesInOrder

\* A step of the page alone.
LEMMA PageIInv ==
    ASSUME IInv, UNCHANGED <<server, client, got>>,
           window' \in Windows, switches' \in 0 .. MaxSwitches,
           debounce' \in Windows \cup {NoTimer},
           request' \in [Slots -> Requests], shown' \in Views \cup {Nothing}
    PROVE  IInv'
<1>1. /\ committed' = committed /\ sent' = sent /\ receiver' = receiver
      /\ stream' = stream /\ status' = status /\ got' = got
  BY DEF server, client
<1>2. TypeOK'  BY <1>1 DEF IInv, TypeOK, Requests
<1> QED  BY <1>1, <1>2, PulsesKept DEF IInv

\* A commit, and a pulse sent or lost with the process.
LEMMA ServerIInv ==
    ASSUME IInv, Commit \/ Send \/ Restart
    PROVE  IInv'
<1>1. /\ got' = got /\ window' = window /\ switches' = switches /\ debounce' = debounce
      /\ request' = request /\ shown' = shown /\ stream' = stream /\ status' = status
      /\ receiver' \in {receiver, NoReceiver}
  BY DEF Commit, Send, Restart, page, client
<1>2. /\ committed' \in 0 .. MaxCommits /\ sent' \in 0 .. committed'
      /\ sent <= sent' /\ sent \in Nat /\ sent' \in Nat
  BY Bounds DEF IInv, TypeOK, Commit, Send, Restart
<1>3. TypeOK'  BY <1>1, <1>2, Bounds DEF IInv, TypeOK, NoReceiver
<1>4. \A i \in DOMAIN got : got[i] \in Nat  BY GotType DEF IInv
<1>5. receiver \in Nat  BY DEF IInv, TypeOK
<1>6. BehindReceiver'
  <2>1. \A i \in DOMAIN got : got[i] <= sent'
    BY <1>2, <1>4 DEF IInv, BehindReceiver
  <2>2. ASSUME receiver' # NoReceiver
        PROVE  receiver' - 1 <= sent' /\ \A i \in DOMAIN got : got[i] < receiver'
    <3>1. receiver' = receiver /\ receiver # NoReceiver  BY <1>1, <2>2
    <3>2. receiver - 1 <= sent /\ \A i \in DOMAIN got : got[i] < receiver
      BY <3>1 DEF IInv, BehindReceiver
    <3>3. receiver - 1 <= sent'  BY <1>2, <1>5, <3>2
    <3> QED  BY <3>1, <3>2, <3>3
  <2> QED  BY <1>1, <2>1, <2>2 DEF BehindReceiver
<1>7. PulsesInOrder'  BY <1>1 DEF IInv, PulsesInOrder
<1> QED  BY <1>3, <1>6, <1>7 DEF IInv

\* A receiver starts behind all that was sent.
LEMMA AcceptIInv ==
    ASSUME IInv, Accept
    PROVE  IInv'
<1>1. /\ committed' = committed /\ sent' = sent /\ status' = status
      /\ got' = got /\ window' = window /\ switches' = switches /\ debounce' = debounce
      /\ request' = request /\ shown' = shown
      /\ stream' = "accepted" /\ receiver' = sent + 1
  BY DEF Accept, Subscribe, server, page
<1>2. committed \in 0 .. MaxCommits /\ sent \in 0 .. committed  BY DEF IInv, TypeOK
<1>3. TypeOK'  BY <1>1, <1>2, Bounds DEF IInv, TypeOK
<1>4. \A i \in DOMAIN got : got[i] \in Nat  BY GotType DEF IInv
<1>5. BehindReceiver'  BY <1>1, <1>2, <1>4 DEF IInv, BehindReceiver
<1>6. PulsesInOrder'  BY <1>1 DEF IInv, PulsesInOrder
<1> QED  BY <1>3, <1>5, <1>6 DEF IInv

\* The stream opens, breaks or is tried again; a new status queries at once.
LEMMA StreamIInv ==
    ASSUME IInv, Open \/ StreamError \/ Retry
    PROVE  IInv'
<1>1. /\ committed' = committed /\ sent' = sent /\ got' = got
      /\ window' = window /\ switches' = switches
      /\ debounce' = debounce /\ shown' = shown
      /\ receiver' \in {receiver, NoReceiver}
      /\ stream' \in {"open", "waiting", "connecting"}
  BY DEF Open, StreamError, Retry, server, page
<1>2. /\ status' \in {"connecting", "open", "error"}
      /\ Refresh(window) \/ request' = request
  BY DEF Open, StreamError, Retry, SetStatus, page, IInv, TypeOK
<1>3. request \in [Slots -> Requests] /\ window \in Windows
  BY DEF IInv, TypeOK, Requests
<1>4. request' \in [Slots -> Requests]  BY <1>2, <1>3, RefreshType
<1>5. TypeOK'  BY <1>1, <1>2, <1>4, Bounds DEF IInv, TypeOK, Requests, NoReceiver
<1> QED  BY <1>1, <1>5, PulsesKept DEF IInv

\* A pulse reaches the page: the one the receiver stands at, or the oldest the
\* channel retains.
LEMMA ReceiveIInv ==
    ASSUME IInv, Receive
    PROVE  IInv'
<1> DEFINE p == IF receiver > sent - Buffer THEN receiver ELSE sent - Buffer + 1
<1>1. /\ committed' = committed /\ sent' = sent /\ stream' = stream /\ status' = status
      /\ window' = window /\ switches' = switches /\ request' = request /\ shown' = shown
      /\ receiver # NoReceiver /\ receiver <= sent
      /\ got' = Append(got, p) /\ receiver' = p + 1
      /\ debounce' \in {debounce, window}
  BY DEF Receive, server
<1>2. /\ committed \in 0 .. MaxCommits /\ sent \in 0 .. committed
      /\ receiver \in Nat \ {0} /\ Buffer \in Nat /\ Buffer # 0 /\ MaxCommits \in Nat
  BY <1>1, Bounds DEF IInv, TypeOK, NoReceiver
<1>3. p \in 1 .. sent /\ p >= receiver  BY <1>1, <1>2
<1>4. /\ got \in Seq(1 .. MaxCommits) /\ Len(got) \in Nat
      /\ DOMAIN got = 1 .. Len(got)
      /\ \A i \in DOMAIN got : got[i] \in 1 .. MaxCommits
  BY GotType DEF IInv
<1> HIDE DEF p
<1>5. p \in 1 .. MaxCommits  BY <1>2, <1>3
<1>6. /\ got' \in Seq(1 .. MaxCommits) /\ DOMAIN got' = 1 .. (Len(got) + 1)
      /\ got'[Len(got) + 1] = p
      /\ \A i \in DOMAIN got : got'[i] = got[i]
  BY <1>1, <1>4, <1>5
<1>7. receiver' \in 0 .. MaxCommits + 1  BY <1>1, <1>2, <1>3
<1>8. debounce' \in Windows \cup {NoTimer}  BY <1>1 DEF IInv, TypeOK
<1>9. TypeOK'  BY <1>1, <1>6, <1>7, <1>8 DEF IInv, TypeOK
<1>10. \A i \in DOMAIN got : got[i] < p /\ got[i] <= sent
  <2>1. \A i \in DOMAIN got : got[i] < receiver /\ got[i] <= sent
    BY <1>1 DEF IInv, BehindReceiver
  <2> QED  BY <1>2, <1>3, <1>4, <2>1
<1>11. \A i \in DOMAIN got' : i \in DOMAIN got \/ i = Len(got) + 1
  BY <1>4, <1>6
<1>12. BehindReceiver'
  <2>1. \A i \in DOMAIN got' : got'[i] <= sent /\ got'[i] <= p
    BY <1>2, <1>3, <1>4, <1>6, <1>10, <1>11
  <2>2. \A i \in DOMAIN got' : got'[i] \in Nat  BY <1>3, <1>4, <1>6, <1>11
  <2> QED  BY <1>1, <1>2, <1>3, <2>1, <2>2 DEF BehindReceiver
<1>13. PulsesInOrder'
  <2> SUFFICES ASSUME NEW i \in DOMAIN got', NEW j \in DOMAIN got', i < j
               PROVE  got'[i] < got'[j]
    BY DEF PulsesInOrder
  <2>1. i \in DOMAIN got  BY <1>4, <1>6
  <2>2. CASE j \in DOMAIN got  BY <1>6, <2>1, <2>2 DEF IInv, PulsesInOrder
  <2>3. CASE j = Len(got) + 1  BY <1>6, <1>10, <2>1, <2>3
  <2> QED  BY <1>11, <2>2, <2>3
<1> QED  BY <1>9, <1>12, <1>13 DEF IInv

\* The debounce, the interval and a change of the window each start a query.
LEMMA QueryIInv ==
    ASSUME IInv, DebounceFires \/ PollTick \/ \E w \in Windows : Switch(w)
    PROVE  IInv'
<1>1. request \in [Slots -> Requests] /\ window \in Windows
  BY DEF IInv, TypeOK, Requests
<1>2. CASE DebounceFires
  <2>1. /\ debounce \in Windows /\ Refresh(debounce) /\ debounce' = NoTimer
        /\ UNCHANGED <<server, client, got, window, switches, shown>>
    BY <1>2 DEF DebounceFires, IInv, TypeOK
  <2>2. request' \in [Slots -> Requests]  BY <1>1, <2>1, RefreshType
  <2> QED  BY <2>1, <2>2, PageIInv DEF IInv, TypeOK
<1>3. CASE PollTick
  <2>1. /\ Refresh(window)
        /\ UNCHANGED <<server, client, got, window, switches, debounce, shown>>
    BY <1>3 DEF PollTick
  <2>2. request' \in [Slots -> Requests]  BY <1>1, <2>1, RefreshType
  <2> QED  BY <2>1, <2>2, PageIInv DEF IInv, TypeOK
<1>4. ASSUME NEW w \in Windows, Switch(w) PROVE IInv'
  <2>1. /\ Refresh(w) /\ window' = w /\ switches < MaxSwitches /\ switches' = switches + 1
        /\ UNCHANGED <<server, client, got, debounce, shown>>
    BY <1>4 DEF Switch
  <2>2. request' \in [Slots -> Requests]  BY <1>1, <2>1, RefreshType
  <2>3. switches' \in 0 .. MaxSwitches  BY <2>1, Bounds DEF IInv, TypeOK
  <2> QED  BY <1>4, <2>1, <2>2, <2>3, PageIInv DEF IInv, TypeOK
<1> QED  BY <1>2, <1>3, <1>4

\* A query is answered, shown or lost.
LEMMA AnswerIInv ==
    ASSUME IInv, NEW n \in Slots, Answer(n) \/ Show(n) \/ RequestFails(n)
    PROVE  IInv'
<1>1. request \in [Slots -> Requests] /\ request[n] \in Requests
  BY DEF IInv, TypeOK, Requests
<1>2. /\ UNCHANGED <<server, client, got, window, switches, debounce>>
      /\ shown' \in Views \cup {Nothing}
  BY DEF Answer, Show, RequestFails, IInv, TypeOK
<1>3. request' \in [Slots -> Requests]
  <2>1. CASE Answer(n)
    <3>1. /\ request[n].version = Unanswered
          /\ request' = [request EXCEPT ![n].version = committed]
      BY <2>1 DEF Answer
    <3>2. request[n] \in [window : Windows, version : Int]
      BY <1>1, Bounds DEF Requests, Views, Asked, Idle, Unanswered
    <3>3. committed \in 0 .. MaxCommits  BY DEF IInv, TypeOK
    <3>4. [request[n] EXCEPT !.version = committed] \in Views
      BY <3>2, <3>3 DEF Views
    <3>5. request' = [request EXCEPT ![n] = [request[n] EXCEPT !.version = committed]]
      BY <3>1
    <3> QED  BY <1>1, <3>4, <3>5 DEF Requests
  <2>2. CASE Show(n) \/ RequestFails(n)
    <3>1. Idle \in Requests  BY DEF Requests
    <3> QED  BY <1>1, <2>2, <3>1 DEF Show, RequestFails
  <2> QED  BY <2>1, <2>2
<1> QED  BY <1>2, <1>3, PageIInv DEF IInv, TypeOK

\* Every step preserves the inductive invariant.
LEMMA NextIInv == IInv /\ [Next]_vars => IInv'
<1> SUFFICES ASSUME IInv, [Next]_vars PROVE IInv'  OBVIOUS
<1>1. CASE UNCHANGED vars
  <2>1. UNCHANGED <<server, client, got>> /\ UNCHANGED page  BY <1>1 DEF vars, page
  <2>2. request \in [Slots -> Requests]  BY DEF IInv, TypeOK, Requests
  <2> QED  BY <2>1, <2>2, PageIInv DEF IInv, TypeOK, page
<1> QED
  BY <1>1, ServerIInv, AcceptIInv, StreamIInv, ReceiveIInv, QueryIInv, AnswerIInv DEF Next
-----------------------------------------------------------------------------
\* The channel, the stream and the page keep the inductive invariant.
THEOREM InvariantHolds == Spec => []IInv
<1> QED  BY InitIInv, NextIInv, PTL DEF Spec

\* The receiver stays on the channel, and the queries of the page stay what
\* the page takes them for.
THEOREM TypeCorrect == Spec => []TypeOK
<1>1. IInv => TypeOK  BY DEF IInv
<1> QED  BY <1>1, InvariantHolds, PTL

\* Across lags, reconnects and kills no pulse is handed to the page twice or
\* out of order (stream, useSSE).
THEOREM InOrder == Spec => []PulsesInOrder
<1>1. IInv => PulsesInOrder  BY DEF IInv
<1> QED  BY <1>1, InvariantHolds, PTL
-----------------------------------------------------------------------------
\* The page never tells what is not there: the version it shows and the answers
\* on their way are of the store's past or present, and so is every pulse, so
\* that the refresh a pulse arms finds its commit (apply_batch before the send).
PageNeverAhead ==
    /\ shown.version <= committed
    /\ \A n \in Slots : request[n].version <= committed
    /\ \A i \in DOMAIN got : got[i] <= committed

\* The status that chooses the polling interval is "open" exactly while the
\* stream is, so that a page without pulses never polls at the slow rate.
StatusIsStream == status = "open" <=> stream = "open"

ViewInv == /\ shown.version <= committed
           /\ \A n \in Slots : request[n].version <= committed
           /\ StatusIsStream

\* A query that starts has no answer yet.
LEMMA RefreshAhead ==
    ASSUME TypeOK, ViewInv, committed' = committed, NEW w \in Windows,
           Refresh(w) \/ request' = request
    PROVE  \A n \in Slots : request'[n].version <= committed'
<1>1. request \in [Slots -> Requests] /\ committed \in Nat
  BY Bounds DEF TypeOK, Requests
<1>2. Asked(w).version <= committed  BY <1>1 DEF Asked, Unanswered
<1>3. ASSUME NEW n \in Slots, request' = [request EXCEPT ![n] = Asked(w)], NEW m \in Slots
      PROVE  request'[m].version <= committed
  BY <1>1, <1>2, <1>3 DEF ViewInv
<1> QED  BY <1>3 DEF Refresh, ViewInv

\* Every step keeps the page behind the store and the status true.
LEMMA NextViewInv ==
    ASSUME TypeOK, TypeOK', ViewInv, [Next]_vars
    PROVE  ViewInv'
<1>1. /\ request \in [Slots -> Requests] /\ committed \in Nat /\ window \in Windows
      /\ committed' \in Nat
  BY Bounds DEF TypeOK, Requests
<1>2. CASE Commit \/ Send \/ Restart
  <2>1. /\ UNCHANGED <<shown, request, status, stream>> /\ committed <= committed'
    BY <1>1, <1>2 DEF Commit, Send, Restart, page, client
  <2>2. shown.version \in Int /\ \A n \in Slots : request[n].version \in Int
    <3>1. shown.version \in Int  BY Bounds DEF TypeOK, Views, Nothing
    <3>2. \A r \in Requests : r.version \in Int
      BY Bounds DEF Requests, Views, Asked, Idle, Unanswered
    <3> QED  BY <1>1, <3>1, <3>2
  <2>3. shown.version <= committed'  BY <1>1, <2>1, <2>2 DEF ViewInv
  <2>4. \A n \in Slots : request[n].version <= committed'  BY <1>1, <2>1, <2>2 DEF ViewInv
  <2> QED  BY <2>1, <2>3, <2>4 DEF ViewInv, StatusIsStream
<1>3. CASE Accept \/ Receive \/ UNCHANGED vars
  <2>1. /\ UNCHANGED <<shown, request, status, committed>>
        /\ stream' = "open" <=> stream = "open"
    BY <1>3 DEF Accept, Receive, vars, server, client, page
  <2> QED  BY <2>1 DEF ViewInv, StatusIsStream
<1>4. CASE Open \/ StreamError \/ Retry
  <2>1. /\ shown' = shown /\ committed' = committed
        /\ Refresh(window) \/ request' = request
    BY <1>4 DEF Open, StreamError, Retry, SetStatus, server, page
  <2>2. StatusIsStream'
    BY <1>4 DEF ViewInv, StatusIsStream, Open, StreamError, Retry, SetStatus
  <2>3. \A n \in Slots : request'[n].version <= committed'
    <3>1. window \in Windows /\ committed' = committed  BY <1>1, <2>1
    <3> QED  BY <2>1, <3>1, RefreshAhead
  <2> QED  BY <2>1, <2>2, <2>3 DEF ViewInv
<1>5. CASE DebounceFires \/ PollTick \/ \E w \in Windows : Switch(w)
  <2>1. PICK w \in Windows : Refresh(w)
    BY <1>1, <1>5 DEF DebounceFires, PollTick, Switch, TypeOK
  <2>2. UNCHANGED <<shown, committed, status, stream>>
    BY <1>5 DEF DebounceFires, PollTick, Switch, server, client
  <2>3. \A n \in Slots : request'[n].version <= committed'  BY <2>1, <2>2, RefreshAhead
  <2> QED  BY <2>2, <2>3 DEF ViewInv, StatusIsStream
<1>6. ASSUME NEW n \in Slots, Answer(n) \/ Show(n) \/ RequestFails(n) PROVE ViewInv'
  <2>1. UNCHANGED <<committed, status, stream>>
    BY <1>6 DEF Answer, Show, RequestFails, server, client
  <2>2. request[n] \in Requests /\ request[n].version <= committed
    BY <1>1 DEF ViewInv
  <2>3. shown' \in {shown, request[n]}  BY <1>6 DEF Answer, Show, RequestFails
  <2>4. Idle.version <= committed  BY <1>1 DEF Idle
  <2>5. \A m \in Slots : request'[m].version <= committed
    <3>1. CASE Answer(n)
      <4>1. request' = [request EXCEPT ![n] = [request[n] EXCEPT !.version = committed]]
        BY <3>1 DEF Answer
      <4>2. [request[n] EXCEPT !.version = committed].version <= committed
        <5>1. request[n] \in [window : Windows, version : Int]
          BY <2>2, Bounds DEF Requests, Views, Asked, Idle, Unanswered
        <5> QED  BY <1>1, <5>1
      <4> QED  BY <1>1, <4>1, <4>2 DEF ViewInv
    <3>2. CASE Show(n) \/ RequestFails(n)
      <4>1. request' = [request EXCEPT ![n] = Idle]  BY <3>2 DEF Show, RequestFails
      <4> QED  BY <1>1, <2>4, <4>1 DEF ViewInv
    <3> QED  BY <1>6, <3>1, <3>2
  <2> QED  BY <2>1, <2>2, <2>3, <2>5 DEF ViewInv, StatusIsStream
<1> QED  BY <1>2, <1>3, <1>4, <1>5, <1>6 DEF Next

\* What the page shows and awaits is of the store's past or present.
THEOREM PageBehindStore == Spec => [](PageNeverAhead /\ StatusIsStream)
<1>1. Init => ViewInv
  BY DEF Init, ViewInv, StatusIsStream, Asked, Idle, Nothing, Unanswered
<1>2. TypeOK /\ TypeOK' /\ ViewInv /\ [Next]_vars => ViewInv'  BY NextViewInv
<1>3. IInv /\ ViewInv => PageNeverAhead /\ StatusIsStream
  <2> SUFFICES ASSUME IInv, ViewInv PROVE PageNeverAhead /\ StatusIsStream  OBVIOUS
  <2>1. \A i \in DOMAIN got : got[i] <= sent /\ got[i] \in Nat
    BY GotType DEF IInv, BehindReceiver
  <2>2. committed \in Nat /\ sent \in Nat /\ sent <= committed  BY Bounds DEF IInv, TypeOK
  <2> QED  BY <2>1, <2>2 DEF PageNeverAhead, ViewInv
<1> QED  BY <1>1, <1>2, <1>3, InvariantHolds, TypeCorrect, PTL DEF Spec
=============================================================================
