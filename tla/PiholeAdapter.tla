---------------------------- MODULE PiholeAdapter ----------------------------
(***************************************************************************)
(* The Pi-hole v6 adapter (daemon/src/pihole.rs) under the ingest loop: the *)
(* cursor { ts_s, id }, the inclusive `from`, the client-side filter on the *)
(* FTL id, the page limit, and the session that may expire at any time.    *)
(*                                                                         *)
(* The server is external.  What the request asks for: queries from second *)
(* `from` on, at most PageSize of them, and 401 when the session expired.  *)
(* It does not say which of them when there are more, so a page is any     *)
(* PageSize of them, the oldest and the newest included.  Ids grow, while   *)
(* the clock may step back.                                                *)
(*                                                                         *)
(* Simplifications: a query is its second and whether its client address   *)
(* parses; a missing cursor is { 0, 0 }, as poll reads it; a poll and a     *)
(* commit are one step each (their failures are in IngestLoop, too).       *)
(***************************************************************************)
EXTENDS Integers, Sequences, FiniteSetsExt

CONSTANTS PageSize,   \* the `length` of a request
          MaxLog,     \* bound: queries logged
          MaxSecond,  \* bound: seconds of the server's clock
          MaxBurst,   \* bound: queries logged in one second
          MaxUnparsed,\* bound: queries whose client address does not parse
          MaxBack     \* bound: queries logged after the clock stepped back

ASSUME BoundsAssumption == /\ {PageSize, MaxLog, MaxBurst} \subseteq Nat \ {0}
                           /\ {MaxSecond, MaxUnparsed, MaxBack} \subseteq Nat

VARIABLES log,      \* log[i]: the query with FTL id i: [second, parses]
          cursor,   \* the stored cursor: [ts_s, id]
          session,  \* the adapter's sid: "none", "valid" or "expired"
          batch,    \* the polled batch on its way to the store: [ids, next, over]
          counted,  \* counted[i]: times query i was committed
          missed    \* history: what committed batches passed over

vars == <<log, cursor, session, batch, counted, missed>>

Ids == 1 .. MaxLog
Seconds == 0 .. MaxSecond
Cursors == [ts_s : Seconds, id : 0 .. MaxLog]
Entries == [second : Seconds, parses : BOOLEAN]
NoCursor == [ts_s |-> 0, id |-> 0]
NoBatch == [ids |-> {}, next |-> NoCursor, over |-> {}]

TypeOK ==
    /\ log \in Seq(Entries)
    /\ cursor \in Cursors
    /\ session \in {"none", "valid", "expired"}
    /\ batch \in [ids : SUBSET Ids, next : Cursors, over : SUBSET Ids]
    /\ counted \in [Ids -> Nat]
    /\ missed \subseteq Ids
-----------------------------------------------------------------------------
Init ==
    /\ log = <<>>
    /\ cursor = NoCursor
    /\ session = "none"
    /\ batch = NoBatch
    /\ counted = [i \in Ids |-> 0]
    /\ missed = {}

InSecond(s) == {i \in DOMAIN log : log[i].second = s}
Unparsed == {i \in DOMAIN log : ~log[i].parses}

\* Logged before the clock stepped back, or once it has caught up.
InOrder(i) == \A j \in 1 .. i : log[j].second <= log[i].second
Back == {i \in DOMAIN log : ~InOrder(i)}

\* Pi-hole logs a query.
Query(second, parses) ==
    /\ Len(log) < MaxLog
    /\ \/ \A i \in DOMAIN log : log[i].second <= second
       \/ Cardinality(Back) < MaxBack
    /\ Cardinality(InSecond(second)) < MaxBurst
    /\ parses \/ Cardinality(Unparsed) < MaxUnparsed
    /\ log' = Append(log, [second |-> second, parses |-> parses])
    /\ UNCHANGED <<cursor, session, batch, counted, missed>>

\* The server forgets the session.
Expire ==
    /\ session = "valid"
    /\ session' = "expired"
    /\ UNCHANGED <<log, cursor, batch, counted, missed>>

\* GET /api/queries?from=..&length=..: all that matches, or a full page of it.
Matching(from) == {i \in DOMAIN log : log[i].second >= from}
Answers(from) == {page \in SUBSET Matching(from) :
                    /\ Cardinality(page) <= PageSize
                    /\ page # Matching(from) => Cardinality(page) = PageSize}

\* Mutant of Fresh: the filter keeps the boundary query.
FreshWithBoundary(page) == {i \in page : i >= cursor.id /\ log[i].parses}

\* What poll keeps: not delivered before, with a client address that parses.
Fresh(page) == {i \in page : i > cursor.id /\ log[i].parses}

\* Mutant of NextCursor: the id to ask for next, one past the last.
NextCursorPastLast(ids) == [ts_s |-> Max({cursor.ts_s} \cup {log[i].second : i \in ids}),
                            id |-> Max({cursor.id} \cup ids) + 1]

\* The maxima over the kept queries; a skipped query does not move them.
NextCursor(ids) == [ts_s |-> Max({cursor.ts_s} \cup {log[i].second : i \in ids}),
                    id |-> Max({cursor.id} \cup ids)]

\* History: new queries that match, for which the page had no room, although the
\* cursor it leads to is beyond them.
PassedOver(page) == {i \in Matching(cursor.ts_s) \ page :
                        cursor.id < i /\ i <= NextCursor(Fresh(page)).id}

\* What a page is made into.  Without fresh queries the cursor stays and the
\* loop commits nothing.
BatchOf(page) ==
    IF Fresh(page) = {} THEN NoBatch
    ELSE [ids |-> Fresh(page), next |-> NextCursor(Fresh(page)), over |-> PassedOver(page)]

\* Mutant of Poll: a 401 is an error like any other.
PollWithoutReauth ==
    /\ batch = NoBatch
    /\ session # "expired"
    /\ session' = "valid"
    /\ \E page \in Answers(cursor.ts_s) : batch' = BatchOf(page)
    /\ UNCHANGED <<log, cursor, counted, missed>>

\* poll: authenticate when there is no session, or once more after a 401, and
\* fetch one page.
Poll ==
    /\ batch = NoBatch
    /\ session' = "valid"
    /\ \E page \in Answers(cursor.ts_s) : batch' = BatchOf(page)
    /\ UNCHANGED <<log, cursor, counted, missed>>

\* A request fails: nothing is delivered.  A sid obtained before the failing
\* request is kept; a failed authentication leaves the old one.
PollFails ==
    /\ batch = NoBatch
    /\ session' \in {session, "valid"}
    /\ UNCHANGED <<log, cursor, batch, counted, missed>>

\* apply_batch: the events and the cursor, in one transaction.
Commit ==
    /\ batch # NoBatch
    /\ counted' = [i \in Ids |-> IF i \in batch.ids THEN counted[i] + 1 ELSE counted[i]]
    /\ cursor' = batch.next
    /\ missed' = missed \cup batch.over
    /\ batch' = NoBatch
    /\ UNCHANGED <<log, session>>

\* The transaction rolls back; the events will be polled again.
CommitFails ==
    /\ batch # NoBatch
    /\ batch' = NoBatch
    /\ UNCHANGED <<log, cursor, session, counted, missed>>

\* The daemon is killed and started again, with a new adapter.
Restart ==
    /\ session' = "none"
    /\ batch' = NoBatch
    /\ UNCHANGED <<log, cursor, counted, missed>>

Next == \/ \E second \in Seconds, parses \in BOOLEAN : Query(second, parses)
        \/ Expire
        \/ Poll \/ PollFails
        \/ Commit \/ CommitFails
        \/ Restart

Spec == Init /\ [][Next]_vars

\* A server that is asked, and a store that commits, again and again do not
\* fail every time, whatever expires or is killed in between.
FairSpec == Spec /\ SF_vars(Poll) /\ SF_vars(Commit)
-----------------------------------------------------------------------------
\* "FTL query ids increase monotonically, so the overlap never duplicates and
\* a gap never loses events": the stored id stands for what is counted.  No
\* query is counted twice or beyond it.  Up to it, every query is counted whose
\* client address parses, that was not logged by a clock set back, and that no
\* page left out for lack of room; what a page left out and a later query of
\* the same page passed is lost for good, which the quoted line does not say.
CursorIsExact ==
    \A i \in DOMAIN log :
        /\ counted[i] \in {0, 1}
        /\ counted[i] = 1 => i <= cursor.id /\ log[i].parses /\ i \notin missed
        /\ i <= cursor.id /\ log[i].parses /\ InOrder(i) /\ i \notin missed => counted[i] = 1

\* A page's worth of queries from the cursor's second on is delivered or does
\* not parse: a server may answer all polls with the same page for ever.
Stale == {i \in Matching(cursor.ts_s) : i <= cursor.id \/ ~log[i].parses}
Stalled == Cardinality(Stale) >= PageSize

\* Nothing is left behind but by the size of a page: a query with a client
\* address that parses, logged in order, is eventually counted, through expired
\* sessions, failures and kills and whatever the server puts on its pages,
\* unless a page passed over it or the source stalls.
DeliveredOrCutOff ==
    \A i \in Ids :
        (i \in DOMAIN log /\ log[i].parses /\ InOrder(i))
            ~> (counted[i] = 1 \/ i \in missed \/ Stalled)
=============================================================================
