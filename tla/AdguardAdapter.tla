--------------------------- MODULE AdguardAdapter ----------------------------
(***************************************************************************)
(* The AdGuard Home adapter (daemon/src/adguard.rs) under the ingest loop:  *)
(* one poll pages backwards through the query log, newest entry first,     *)
(* until it meets the cursor, and only then delivers.  The log grows while *)
(* the poll is between two pages, any request may fail and with it the     *)
(* whole poll, and the session may expire at any time.                     *)
(*                                                                         *)
(* The server is external.  What poll relies on: a new entry is not older  *)
(* than any other, and a page holds the PageSize newest of the entries     *)
(* strictly older than `older_than`, newest first.  Two entries may have   *)
(* the same time, and an entry's time or client address may not parse.     *)
(*                                                                         *)
(* Simplification: the commit is one step.                                 *)
(***************************************************************************)
EXTENDS Integers, Sequences, FiniteSetsExt

CONSTANTS PageSize,   \* the `limit` of a request
          MaxPages,   \* the cap on the pages of one poll
          MaxLog,     \* bound: entries logged
          MaxTied,    \* bound: entries logged at the time of the one before
          MaxUnread,  \* bound: entries whose time does not parse
          MaxUnparsed \* bound: entries whose client address does not parse

ASSUME BoundsAssumption == /\ {PageSize, MaxPages, MaxLog} \subseteq Nat \ {0}
                           /\ {MaxTied, MaxUnread, MaxUnparsed} \subseteq Nat

VARIABLES log,      \* log[i]: the entry [time, readable, parses]: its time,
                    \* whether that parses, and whether its client does
          cursor,   \* the stored cursor: the time of an entry, or NoTime
          session,  \* "none" (not logged_in), "valid" or "expired"
          pages,    \* pages this poll has got; 0 when no poll is under way
          olderThan,\* the time the next page ends before, or NoTime
          newest,   \* time of the first entry this poll has seen, or NoTime
          events,   \* the entries this poll has kept
          pc,       \* "poll" or "apply"
          counted   \* counted[i]: times entry i was committed

poll == <<pages, olderThan, newest, events>>
vars == <<log, cursor, session, poll, pc, counted>>

NoTime == 0
Ids == 1 .. MaxLog
Times == 1 .. MaxLog
Entries == [time : Times, readable : BOOLEAN, parses : BOOLEAN]

TypeOK ==
    /\ log \in Seq(Entries)
    /\ {cursor, olderThan, newest} \subseteq Times \cup {NoTime}
    /\ session \in {"none", "valid", "expired"}
    /\ pages \in 0 .. MaxPages
    /\ events \subseteq Ids
    /\ pc \in {"poll", "apply"}
    /\ counted \in [Ids -> Nat]
-----------------------------------------------------------------------------
Init ==
    /\ log = <<>>
    /\ cursor = NoTime
    /\ session = "none"
    /\ pages = 0 /\ olderThan = NoTime /\ newest = NoTime /\ events = {}
    /\ pc = "poll"
    /\ counted = [i \in Ids |-> 0]

Last == IF log = <<>> THEN 0 ELSE log[Len(log)].time
Unread == {i \in DOMAIN log : ~log[i].readable}
Unparsed == {i \in DOMAIN log : ~log[i].parses}
Tied(i) == \E j \in DOMAIN log \ {i} : log[j].time = log[i].time

\* AdGuard logs an entry, also between two pages of a poll.
Query(entry) ==
    /\ Len(log) < MaxLog
    /\ \/ entry.time = Last + 1
       \/ entry.time = Last /\ Len(log) - Last < MaxTied
    /\ entry.readable \/ Cardinality(Unread) < MaxUnread
    /\ entry.parses \/ Cardinality(Unparsed) < MaxUnparsed
    /\ log' = Append(log, entry)
    /\ UNCHANGED <<cursor, session, poll, pc, counted>>

\* The server forgets the session.
Expire ==
    /\ session = "valid"
    /\ session' = "expired"
    /\ UNCHANGED <<log, cursor, poll, pc, counted>>

\* GET /control/querylog?limit=..&older_than=..
Candidates == {i \in DOMAIN log : olderThan = NoTime \/ log[i].time < olderThan}
Page == {i \in Candidates : Cardinality({j \in Candidates : j > i}) < PageSize}

\* Mutant of Delivered: the entry at the cursor is taken for a new one.
DeliveredBefore(i) == log[i].readable /\ log[i].time < cursor

\* Already-delivered territory.
Delivered(i) == log[i].readable /\ log[i].time <= cursor

\* The entries before the first delivered one.
Seen == {i \in Page : \A j \in Page : j >= i => ~Delivered(j)}

\* Mutant of Newest: the cursor is the time of the poll.
NewestNow == Len(log) + 1

\* The first entry of the first page is the newest of the whole poll.
Newest == IF newest = NoTime /\ Page # {} THEN log[Max(Page)].time ELSE newest

\* Mutant of LastPage: the poll ends with its first page.
OnlyPage == TRUE

\* No page is left: the log or the delivered territory was reached, or the cap.
LastPage == \/ Cardinality(Page) < PageSize
            \/ Seen # Page
            \/ pages + 1 = MaxPages

\* The poll is over without a batch.
EndPoll == /\ pages' = 0 /\ olderThan' = NoTime /\ newest' = NoTime /\ events' = {}
           /\ pc' = "poll"

\* Mutant of LoggedIn: a 401 is an error like any other.
LoggedInOnce == session # "expired" /\ session' = "valid"

\* fetch_page: login when not logged in, or once more after a 401 or 403.
LoggedIn == session' = "valid"

\* One page and the loop over its entries: either another page or the batch,
\* unless it meets a time that does not parse, which fails the poll.
FetchPage ==
    /\ pc = "poll"
    /\ LoggedIn
    /\ LET kept == events \cup {i \in Seen : log[i].parses}
       IN \/ /\ \E i \in Seen : ~log[i].readable
             /\ EndPoll
          \/ /\ \A i \in Seen : log[i].readable
             /\ ~LastPage
             /\ pages' = pages + 1
             /\ olderThan' = log[Min(Page)].time
             /\ newest' = Newest
             /\ events' = kept
             /\ UNCHANGED pc
          \/ /\ \A i \in Seen : log[i].readable
             /\ LastPage
             /\ IF kept = {} /\ Newest \in {NoTime, cursor}
                THEN EndPoll
                ELSE /\ newest' = Newest
                     /\ events' = kept
                     /\ pc' = "apply"
                     /\ pages' = 0 /\ olderThan' = NoTime
    /\ UNCHANGED <<log, cursor, counted>>

\* Mutant of FetchFails: what the pages before held is delivered.
FetchFailsDeliversRest ==
    /\ pc = "poll"
    /\ session' \in IF session = "valid" THEN {"valid"} ELSE {session, "none", "valid"}
    /\ IF events = {} THEN EndPoll
       ELSE pc' = "apply" /\ pages' = 0 /\ olderThan' = NoTime /\ UNCHANGED <<newest, events>>
    /\ UNCHANGED <<log, cursor, counted>>

\* A request fails: the poll is lost with every page it has got.  A rejected
\* login after a 401 leaves the adapter logged out.
FetchFails ==
    /\ pc = "poll"
    /\ session' \in IF session = "valid" THEN {"valid"} ELSE {session, "none", "valid"}
    /\ EndPoll
    /\ UNCHANGED <<log, cursor, counted>>

\* apply_batch: the events and the cursor, in one transaction.
Commit ==
    /\ pc = "apply"
    /\ counted' = [i \in Ids |-> IF i \in events THEN counted[i] + 1 ELSE counted[i]]
    /\ cursor' = newest
    /\ EndPoll
    /\ UNCHANGED <<log, session>>

CommitFails ==
    /\ pc = "apply"
    /\ EndPoll
    /\ UNCHANGED <<log, cursor, session, counted>>

\* The daemon is killed and started again, with a new adapter.
Restart ==
    /\ session' = "none"
    /\ EndPoll
    /\ UNCHANGED <<log, cursor, counted>>

Next == \/ \E entry \in Entries : Query(entry)
        \/ Expire
        \/ FetchPage \/ FetchFails
        \/ Commit \/ CommitFails
        \/ Restart

Spec == Init /\ [][Next]_vars

\* A server that is asked for a page, and a store that commits, again and
\* again do not fail every time, whatever expires or is killed in between.
FairSpec == /\ Spec
            /\ \A n \in 0 .. MaxPages : SF_vars(pages = n /\ FetchPage)
            /\ SF_vars(Commit)
-----------------------------------------------------------------------------
\* Nothing is counted twice, and nothing the cursor does not stand for: the
\* cursor is fixed by the first page while the log grows during the poll.
CountedOnceUpToCursor ==
    \A i \in DOMAIN log :
        /\ counted[i] \in {0, 1}
        /\ counted[i] = 1 => log[i].parses /\ log[i].time <= cursor

\* A poll is complete: when the cursor moves, every entry it passes over is
\* counted whose client address parses, if it is among the MaxPages * PageSize
\* newest that the poll could see and shares its time with no other.  (Of
\* entries with one time, those behind a page boundary or logged after the
\* poll are taken for delivered.)
CommitsAreComplete ==
    [][cursor' # cursor =>
         \A i \in DOMAIN log :
            LET newer == {j \in DOMAIN log : j > i /\ log[j].time <= cursor'}
            IN /\ log[i].parses /\ ~Tied(i)
               /\ cursor < log[i].time /\ log[i].time <= cursor'
               /\ Cardinality(newer) < MaxPages * PageSize
               => counted'[i] = 1]_vars

\* "first poll: ingest all retained history", and later polls page "back until
\* it reaches the cursor": no entry before the cursor is left uncounted.
NoHistoryLost == \A i \in DOMAIN log :
    log[i].time <= cursor /\ log[i].parses /\ ~Tied(i) => counted[i] = 1

\* The source goes on: the cursor catches up with every entry, through failing
\* pages, expired sessions and kills, unless an entry whose time does not
\* parse is newer than all that was delivered, which fails every poll.
CursorCatchesUp ==
    \A i \in Ids :
        i \in DOMAIN log ~>
            \/ i \in DOMAIN log /\ log[i].time <= cursor
            \/ \E u \in DOMAIN log : /\ ~log[u].readable
                                     /\ \A j \in DOMAIN log : j > u => ~Delivered(j)
=============================================================================
