----------------------------- MODULE PulseStream ------------------------------
(***************************************************************************)
(* The live view: GET /api/stream over the broadcast channel of pulses      *)
(* (main.rs), the EventSource client with its reconnects (useSSE.ts), and   *)
(* the queries the page makes on pulses, on a timer and on changes of the   *)
(* time window (App.tsx).  Pulses are hints that may be lost; the page      *)
(* reconciles by querying.                                                  *)
(*                                                                         *)
(* Simplifications: one source, whose commits send one pulse each; commits  *)
(* and pulses are numbered, and an answer is the number of commits it       *)
(* reflects; the device list is queried wherever the arcs are and has no    *)
(* window, so it is the case of a single window; a frame on the wire counts *)
(* as unread; a request under way when the daemon is killed fails or is     *)
(* answered by the new process; durations are left out.                     *)
(***************************************************************************)
EXTENDS Integers, Sequences

CONSTANTS Windows,     \* the time windows a user can choose
          FirstWindow, \* the one chosen when the page loads
          Buffer,      \* capacity of the broadcast channel
          MaxRequests, \* bound: requests of the page under way at once
          MaxCommits,  \* bound: commits
          MaxSwitches  \* bound: changes of the window

ASSUME BoundsAssumption ==
    /\ FirstWindow \in Windows
    /\ {Buffer, MaxRequests} \subseteq Nat \ {0}
    /\ {MaxCommits, MaxSwitches} \subseteq Nat

VARIABLES
    committed, \* commits so far
    sent,      \* pulses up to this one were sent, or will never be
    receiver,  \* the next pulse the stream's receiver reads, or NoReceiver
    stream,    \* the EventSource: "connecting", "accepted", "open" or "waiting"
    status,    \* the status useSSE shows: "connecting", "open" or "error"
    got,       \* the pulses the page was handed, in order
    window,    \* the chosen window
    switches,  \* changes of the window so far
    debounce,  \* the window a pending debounced refresh will ask for, or NoTimer
    request,   \* request[n]: a query under way: [window, version], or Idle
    shown      \* what is on the page: [window, version], or Nothing

server == <<committed, sent>>
client == <<receiver, stream, status>>
page == <<got, window, switches, debounce, request, shown>>
vars == <<server, client, page>>

NoReceiver == 0
NoTimer == "none"
Unanswered == -1
Slots == 1 .. MaxRequests
Idle == [window |-> FirstWindow, version |-> -2]
Nothing == [window |-> FirstWindow, version |-> -1]
Views == [window : Windows, version : 0 .. MaxCommits]
Asked(w) == [window |-> w, version |-> Unanswered]

TypeOK ==
    /\ committed \in 0 .. MaxCommits /\ sent \in 0 .. committed
    /\ receiver \in 0 .. MaxCommits + 1
    /\ stream \in {"connecting", "accepted", "open", "waiting"}
    /\ status \in {"connecting", "open", "error"}
    /\ got \in Seq(1 .. MaxCommits)
    /\ window \in Windows /\ switches \in 0 .. MaxSwitches
    /\ debounce \in Windows \cup {NoTimer}
    /\ request \in [Slots -> Views \cup {Asked(w) : w \in Windows} \cup {Idle}]
    /\ shown \in Views \cup {Nothing}
-----------------------------------------------------------------------------
\* The page loads: it connects, and its first effect queries.
Init ==
    /\ committed = 0 /\ sent = 0
    /\ receiver = NoReceiver /\ stream = "connecting" /\ status = "connecting"
    /\ got = <<>>
    /\ window = FirstWindow /\ switches = 0 /\ debounce = NoTimer
    /\ request = [n \in Slots |-> IF n = 1 THEN Asked(FirstWindow) ELSE Idle]
    /\ shown = Nothing

Busy == \A n \in Slots : request[n] # Idle

\* A query starts; one more than the bound allows fails at once.
Refresh(w) ==
    \/ Busy /\ UNCHANGED request
    \/ \E n \in Slots :
        /\ request[n] = Idle
        /\ \A m \in 1 .. (n - 1) : request[m] # Idle
        /\ request' = [request EXCEPT ![n] = Asked(w)]
-----------------------------------------------------------------------------
\* apply_batch commits.
Commit ==
    /\ committed < MaxCommits
    /\ committed' = committed + 1
    /\ UNCHANGED <<sent, client, page>>

\* The loop sends the pulse of a commit; nobody may be listening.
Send ==
    /\ sent < committed
    /\ sent' = sent + 1
    /\ UNCHANGED <<committed, client, page>>

\* The daemon is killed and started again: the channel and its receivers are
\* gone, and the pulses of commits not yet sent never will be.
Restart ==
    /\ sent' = committed
    /\ receiver' = NoReceiver
    /\ UNCHANGED <<committed, stream, status, page>>

\* Mutant of Subscribe: a receiver starts with the pulses the channel retains.
SubscribeFromOldest == IF sent > Buffer THEN sent - Buffer + 1 ELSE 1

\* stream: a new receiver gets what is sent from now on.
Subscribe == sent + 1

Accept ==
    /\ stream = "connecting"
    /\ stream' = "accepted"
    /\ receiver' = Subscribe
    /\ UNCHANGED <<server, status, page>>
-----------------------------------------------------------------------------
\* The effect that polls depends on the status: a change runs it again, which
\* queries at once.
SetStatus(s) ==
    /\ status' = s
    /\ IF s = status THEN UNCHANGED request ELSE Refresh(window)

\* useSSE: "open".
Open ==
    /\ stream = "accepted" /\ receiver # NoReceiver
    /\ stream' = "open"
    /\ SetStatus("open")
    /\ UNCHANGED <<server, receiver, got, window, switches, debounce, shown>>

\* Mutant of StreamError: only the first of several errors arms a retry.
StreamErrorRetriesOnce ==
    /\ stream \in {"connecting", "accepted", "open"}
    /\ stream' = IF status = "error" THEN "closed" ELSE "waiting"
    /\ receiver' = NoReceiver
    /\ SetStatus("error")
    /\ UNCHANGED <<server, got, window, switches, debounce, shown>>

\* useSSE: "error".  The EventSource is closed and a retry is armed.
StreamError ==
    /\ stream \in {"connecting", "accepted", "open"}
    /\ stream' = "waiting"
    /\ receiver' = NoReceiver
    /\ SetStatus("error")
    /\ UNCHANGED <<server, got, window, switches, debounce, shown>>

\* The retry timer fires: a new EventSource.
Retry ==
    /\ stream = "waiting"
    /\ stream' = "connecting"
    /\ UNCHANGED <<server, receiver, status, page>>

\* The next pulse reaches the page, the lagged ones skipped.  It arms the
\* debounced refresh unless one is armed; the refresh remembers its window.
Receive ==
    /\ stream = "open" /\ receiver # NoReceiver
    /\ receiver <= sent
    /\ LET p == IF receiver > sent - Buffer THEN receiver ELSE sent - Buffer + 1
       IN got' = Append(got, p) /\ receiver' = p + 1
    /\ debounce' = IF debounce = NoTimer THEN window ELSE debounce
    /\ UNCHANGED <<server, stream, status, window, switches, request, shown>>
-----------------------------------------------------------------------------
\* The debounced refresh, for the window it was armed with.
DebounceFires ==
    /\ debounce # NoTimer
    /\ Refresh(debounce)
    /\ debounce' = NoTimer
    /\ UNCHANGED <<server, client, got, window, switches, shown>>

\* Mutant of PollTick: no polling while the stream is open.
PollTickWhileDown ==
    /\ status # "open"
    /\ Refresh(window)
    /\ UNCHANGED <<server, client, got, window, switches, debounce, shown>>

\* The polling interval, longer while the stream is open.
PollTick ==
    /\ Refresh(window)
    /\ UNCHANGED <<server, client, got, window, switches, debounce, shown>>

\* The user chooses another window: the polling effect runs again.  An armed
\* debounced refresh is left as it is.
Switch(w) ==
    /\ switches < MaxSwitches
    /\ w # window
    /\ window' = w
    /\ switches' = switches + 1
    /\ Refresh(w)
    /\ UNCHANGED <<server, client, got, debounce, shown>>

\* Mutant of Answer: the answer counts a commit that is still under way.
AnswerAhead(n) ==
    /\ request[n] # Idle /\ request[n].version = Unanswered
    /\ request' = [request EXCEPT ![n].version = committed + 1]
    /\ UNCHANGED <<server, client, got, window, switches, debounce, shown>>

\* The daemon answers a query from the store.
Answer(n) ==
    /\ request[n] # Idle /\ request[n].version = Unanswered
    /\ request' = [request EXCEPT ![n].version = committed]
    /\ UNCHANGED <<server, client, got, window, switches, debounce, shown>>

\* The answer reaches the page, which shows it whatever was asked since.
Show(n) ==
    /\ request[n] \in Views
    /\ shown' = request[n]
    /\ request' = [request EXCEPT ![n] = Idle]
    /\ UNCHANGED <<server, client, got, window, switches, debounce>>

\* A query fails: what is shown stays.
RequestFails(n) ==
    /\ request[n] # Idle
    /\ request' = [request EXCEPT ![n] = Idle]
    /\ UNCHANGED <<server, client, got, window, switches, debounce, shown>>

Next == \/ Commit \/ Send \/ Restart
        \/ Accept \/ Open \/ StreamError \/ Retry \/ Receive
        \/ DebounceFires \/ PollTick
        \/ \E w \in Windows : Switch(w)
        \/ \E n \in Slots : Answer(n) \/ Show(n) \/ RequestFails(n)

Spec == Init /\ [][Next]_vars

\* Timers fire, and a stream whose process is gone is reset.  A connection or
\* a query that is tried again and again succeeds some time.
Fairness ==
    /\ WF_vars(Retry) /\ WF_vars(DebounceFires) /\ WF_vars(PollTick)
    /\ WF_vars(receiver = NoReceiver /\ stream \in {"accepted", "open"} /\ StreamError)
    /\ SF_vars(Accept) /\ SF_vars(Open)
    /\ SF_vars(\E n \in Slots : Answer(n)) /\ SF_vars(\E n \in Slots : Show(n))

FairSpec == Spec /\ Fairness
-----------------------------------------------------------------------------
\* Across lags, reconnects and restarts no pulse is handed to the page twice
\* or out of order.
PulsesInOrder == \A i, j \in DOMAIN got : i < j => got[i] < got[j]

\* "Pulses are hints, not state", "the globe reconciles by refetching": when
\* commits and choices end, the page settles on every commit in the window
\* that is chosen, although pulses are lost, queries fail, answers overtake
\* each other, and a debounced refresh may ask for a window left before.
ViewSettles == <>[](shown = [window |-> window, version |-> committed])

\* However often the stream breaks, it is open again some time.
StreamRecovers == []<>(stream = "open")
=============================================================================
