----------------------------- MODULE Projections -----------------------------
(***************************************************************************)
(* What the interface is shown of the rollups (daemon/src/store.rs):       *)
(* list_devices, arcs with unmapped_queries, arc_domains, domain_rollups,  *)
(* device_scorecard, stats and the new domains of week_diffs, over the     *)
(* device overlay, the destinations table and the time windows that        *)
(* main.rs resolves.  Each is a query of its own, joined in its own way;   *)
(* the properties say that they agree.                                     *)
(*                                                                         *)
(* A query holds the connection mutex, so it reads one state and is an     *)
(* operator here.  Blocked counts are summed like counts and left out, as  *)
(* are the display names and the order of the rows, except where a limit   *)
(* makes the order matter.  Time is counted in ticks of which HourTicks    *)
(* make an hour.                                                           *)
(***************************************************************************)
EXTENDS DeviceRegistry, Enrichment, Score, FiniteSetsExt

CONSTANTS LabelsOf,     \* LabelsOf[d]: the labels of domain d
          HourTicks,    \* ticks of an hour
          NewDomainLimit, \* new domains listed for a device
          Instants,     \* bound: instants at which a query is asked
          MaxInt        \* the largest integer

ASSUME TimeAssumption ==
    HourTicks \in Nat \ {0} /\ Instants \subseteq Int /\ MaxInt \in Nat
ASSUME LimitAssumption == NewDomainLimit \in Nat
\* Domains are numbered in alphabetical order, the order of the last resort.
ASSUME DomainAssumption == Domains \subseteq Nat /\ DOMAIN LabelsOf = Domains

VARIABLES destinations, \* the destination rows: domain -> enrichment
          release       \* the release of the daemon

vars == <<deviceVars, destinations, release>>

ProjectionsTypeOK ==
    /\ TypeOK
    /\ DOMAIN destinations \subseteq Domains
    /\ \A d \in DOMAIN destinations :
          \E r \in Releases : destinations[d] = Enrich(r, LabelsOf[d])
    /\ release \in Releases
-----------------------------------------------------------------------------
\* Databases of schema version 1 have rollups and no destinations.
ProjectionsInit ==
    /\ Init
    /\ destinations = <<>>
    /\ release \in Releases

\* The daemon is started, perhaps in another release.  The rows of earlier
\* releases stay as they are, and missing ones are not filled in.
Start == /\ Open
         /\ release' \in Releases
         /\ UNCHANGED destinations

\* apply_batch with upsert_destination: the row of a domain is refreshed.
CountBatch(batch, x) ==
    /\ ApplyBatch(batch, x)
    /\ destinations' = [d \in DOMAIN destinations \cup {x[1]} |->
          IF d = x[1] THEN Enrich(release, LabelsOf[d]) ELSE destinations[d]]
    /\ UNCHANGED release

EditOverlay ==
    /\ \/ Close
       \/ \E d \in Clients, name \in Names \cup {NoName} : Rename(d, name)
       \/ \E source, into \in Clients : Merge(source, into)
    /\ UNCHANGED <<destinations, release>>

Next == \/ Start
        \/ \E batch \in (SUBSET Clients) \ {{}}, x \in Cells : CountBatch(batch, x)
        \/ EditOverlay

ProjectionsSpec == ProjectionsInit /\ [][Next]_vars
-----------------------------------------------------------------------------
\* No window parameter, and the answer 400.
AllTime == <<>>
BadRequest == <<0>>

Wrapped(n) == ((n + MaxInt + 1) % (2 * (MaxInt + 1))) - (MaxInt + 1)

\* Mutant of ResolveWindow: the multiplication wraps.
ResolveWindowWraps(now, hours) ==
    IF hours <= 0 THEN BadRequest ELSE <<now - Wrapped(hours * HourTicks), now>>

\* resolve_window: the hours before now, or 400 for a number of hours that is
\* not positive or whose span or start is out of range.
ResolveWindow(now, hours) ==
    LET span == hours * HourTicks
    IN IF hours <= 0 \/ span > MaxInt \/ now - span < -MaxInt - 1
       THEN BadRequest
       ELSE <<now - span, now>>

\* Mutant of InWindow: the end belongs to the window.
InWindowClosed(hour, window) ==
    window # AllTime => /\ hour * HourTicks >= window[1]
                        /\ hour * HourTicks <= window[2]

\* window_clause: the buckets that start in [start, end).
InWindow(hour, window) ==
    window # AllTime => /\ hour * HourTicks >= window[1]
                        /\ hour * HourTicks < window[2]

\* The rows of query_rollups in a window: <<client, domain, hour>>.
Rows(window) == {r \in Clients \X Domains \X Hours :
                    rollups[r[1]][<<r[2], r[3]>>] > 0 /\ InWindow(r[3], window)}

\* SUM(count)
Sum(rows) == SumFunction([r \in rows |-> rollups[r[1]][<<r[2], r[3]>>]])

\* LEFT JOIN destinations.
Destination(d) == IF d \in DOMAIN destinations THEN destinations[d] ELSE Unknown

Countries == {destinations[d].country : d \in DOMAIN destinations} \ {NoCountry}

\* One arc of arcs: devices joined with their rollups and destinations.
ArcRows(k, country, window) ==
    {r \in Rows(window) : /\ r[1] \in devices /\ FoldOwner(r[1]) = k
                          /\ r[2] \in DOMAIN destinations
                          /\ destinations[r[2]].country = country}

\* Mutant of UnmappedRows: an inner join.
UnmappedRowsJoined(window) ==
    {r \in Rows(window) : /\ r[2] \in DOMAIN destinations
                          /\ destinations[r[2]].country = NoCountry}

\* unmapped_queries of arcs.
UnmappedRows(window) == {r \in Rows(window) : Destination(r[2]).country = NoCountry}

\* arc_domains: the rows behind one domain of an arc.
ArcDomainRows(k, country, d, window) ==
    {r \in Rows(window) : /\ r[1] \in Folded(k) /\ r[2] = d
                          /\ d \in DOMAIN destinations
                          /\ destinations[d].country = country}

\* Mutant of RollupRows: the aliases of the device are left out.
RollupRowsOwn(k, d, h, window) == {r \in Rows(window) : r = <<k, d, h>>}

\* domain_rollups: the rows of one bucket.
RollupRows(k, d, h, window) ==
    {r \in Rows(window) : r[1] \in Folded(k) /\ r[2] = d /\ r[3] = h}

DomainsIn(rows) == {r[2] : r \in rows}
TrackerRows(rows) == {r \in rows : Destination(r[2]).tracker}

\* One row of list_devices.
ListRow(k) ==
    LET rows == {r \in Rows(AllTime) : r[1] \in devices /\ FoldOwner(r[1]) = k}
    IN [queries |-> Sum(rows),
        trackerQueries |-> Sum(TrackerRows(rows)),
        domains |-> Cardinality(DomainsIn(rows))]

\* Mutant of Aggregate: an inner join with destinations.
AggregateJoined(k, window) ==
    LET rows == {r \in Rows(window) : r[1] \in Folded(k) /\ r[2] \in DOMAIN destinations}
        trackers == TrackerRows(rows)
    IN [total |-> Sum(rows),
        trackerQueries |-> Sum(trackers),
        entities |-> Cardinality({Destination(d).entity : d \in DomainsIn(trackers)} \ {NoEntity}),
        countries |-> Cardinality({Destination(d).country : d \in DomainsIn(rows)} \ {NoCountry}),
        domains |-> Cardinality(DomainsIn(rows))]

\* Mutant of Aggregate: tracker queries of the device's own rows only.
AggregateOwnTrackers(k, window) ==
    LET rows == {r \in Rows(window) : r[1] \in Folded(k)}
        trackers == {r \in TrackerRows(rows) : r[1] = k}
    IN [total |-> Sum(rows),
        trackerQueries |-> Sum(trackers),
        entities |-> Cardinality({Destination(d).entity : d \in DomainsIn(trackers)} \ {NoEntity}),
        countries |-> Cardinality({Destination(d).country : d \in DomainsIn(rows)} \ {NoCountry}),
        domains |-> Cardinality(DomainsIn(rows))]

\* aggregate: the inputs of the score, and the domains.
Aggregate(k, window) ==
    LET rows == {r \in Rows(window) : r[1] \in Folded(k)}
        trackers == TrackerRows(rows)
    IN [total |-> Sum(rows),
        trackerQueries |-> Sum(trackers),
        entities |-> Cardinality({Destination(d).entity : d \in DomainsIn(trackers)} \ {NoEntity}),
        countries |-> Cardinality({Destination(d).country : d \in DomainsIn(rows)} \ {NoCountry}),
        domains |-> Cardinality(DomainsIn(rows))]

\* device_scorecard: of a device that is no alias.
Scorecard(k) == ScoreOf(Aggregate(k, AllTime))

\* total_queries of stats.
TotalQueries == Sum(Rows(AllTime))
-----------------------------------------------------------------------------
Week(n) == <<n * HoursPerWeek * HourTicks, (n + 1) * HoursPerWeek * HourTicks>>

\* The rows of domains that k asked for in week cur and not in week prev.
NewRows(k, cur, prev) ==
    LET of(week) == {r \in Rows(Week(week)) : r[1] \in Folded(k)}
    IN {r \in of(cur) : r[2] \notin DomainsIn(of(prev))}

\* SUM(r.count) of one domain.
Busy(rows, d) == Sum({r \in rows : r[2] = d})

\* is_tracker in descending order, NULL last.
Rank(d) == CASE d \notin DOMAIN destinations -> 0
             [] Destination(d).tracker -> 2
             [] OTHER -> 1

\* Mutant of Precedes: the busiest first, whether tracker or not.
PrecedesByVolume(rows, d, e) ==
    Busy(rows, d) > Busy(rows, e) \/ (Busy(rows, d) = Busy(rows, e) /\ d < e)

\* ORDER BY dest.is_tracker DESC, q DESC, r.domain ASC.
Precedes(rows, d, e) ==
    \/ Rank(d) > Rank(e)
    \/ Rank(d) = Rank(e) /\ Busy(rows, d) > Busy(rows, e)
    \/ Rank(d) = Rank(e) /\ Busy(rows, d) = Busy(rows, e) /\ d < e

\* new_domains_for: the first NewDomainLimit of them.
NewDomains(k, cur, prev) ==
    LET rows == NewRows(k, cur, prev)
    IN {d \in DomainsIn(rows) :
          Cardinality({e \in DomainsIn(rows) : Precedes(rows, e, d)}) < NewDomainLimit}
-----------------------------------------------------------------------------
\* Windows as a request may have them: an hour count at an instant, or none.
Windows == {AllTime} \cup
           ({ResolveWindow(now, h) : now \in Instants, h \in 1 .. 1 + Max(Hours)} \ {BadRequest})

\* "Longest matching suffix wins, so specific hostnames beat base domains", and
\* the blocklist covers the subdomains of what it lists (enrich).
SubdomainsInherit ==
    \A name \in Examined : Len(name) > 1 => Inherits(release, name)

\* The globe accounts for every query: in every window the arcs and the
\* unmapped queries add up to what was counted, although the arcs are joined
\* with devices and destinations and the rest is not, after merges, and in a
\* database whose rollups are older than its destinations (arcs).
ArcsAddUp ==
    opened => \A w \in Windows :
        SumFunction([a \in Listed \X Countries |-> Sum(ArcRows(a[1], a[2], w))])
            + Sum(UnmappedRows(w)) = Sum(Rows(w))

\* A click leads to what was clicked: the domains behind an arc add up to the
\* arc, and the buckets behind a domain to the domain, aliases included (arcs,
\* arc_domains, domain_rollups in one window).
ClickThroughAddsUp ==
    opened => \A w \in Windows, k \in Listed, country \in Countries :
        LET domain(d) == Sum(ArcDomainRows(k, country, d, w))
        IN /\ Sum(ArcRows(k, country, w)) = SumFunction([d \in Domains |-> domain(d)])
           /\ \A d \in Domains : domain(d) > 0 =>
                domain(d) = SumFunction([h \in Hours |-> Sum(RollupRows(k, d, h, w))])

\* The device list adds up to the statistics, and a device's scorecard is
\* computed from the numbers its row shows (list_devices, aggregate, stats).
ListAgrees ==
    opened =>
        /\ SumFunction([k \in Listed |-> ListRow(k).queries]) = TotalQueries
        /\ \A k \in Listed :
              LET row == ListRow(k)
                  inputs == Aggregate(k, AllTime)
              IN <<row.queries, row.trackerQueries, row.domains>>
                   = <<inputs.total, inputs.trackerQueries, inputs.domains>>

\* Windows lose nothing and repeat nothing: asking for more hours never shows
\* less, any number of hours that is answered shows the latest bucket that
\* began before now, also where the milliseconds overflow, and a bucket belongs
\* to one of two adjacent windows (resolve_window, window_clause).
WindowsAddUp ==
    /\ \A now \in Instants, h \in 1 .. MaxInt :
         LET shown(n) == Rows(ResolveWindow(now, n))
         IN ResolveWindow(now, h) # BadRequest =>
              /\ h > 1 => ResolveWindow(now, h - 1) # BadRequest /\ shown(h - 1) \subseteq shown(h)
              /\ \A r \in Rows(AllTime) :
                   r[3] = (now - 1) \div HourTicks /\ now > 0 => r \in shown(h)
    /\ \A from, mid, to \in Instants : from <= mid /\ mid <= to =>
         Sum(Rows(<<from, mid>>)) + Sum(Rows(<<mid, to>>)) = Sum(Rows(<<from, to>>))

\* "Trackers first": the limit never hides a new tracker behind a domain that
\* is none, and a domain that any of the folded devices asked for in the
\* previous week is never called new (new_domains_for).
NewTrackersComeFirst ==
    \A k \in Listed, cur, prev \in Weeks : prev < cur =>
        LET shown == NewDomains(k, cur, prev)
            hidden == DomainsIn(NewRows(k, cur, prev)) \ shown
        IN /\ hidden # {} => Cardinality(shown) = NewDomainLimit
           /\ \A d \in hidden, e \in shown :
                Destination(d).tracker => Destination(e).tracker
           /\ \A d \in shown, c \in Clients, h \in Hours :
                h \div HoursPerWeek = prev /\ c \in devices /\ FoldOwner(c) = k
                    => rollups[c][<<d, h>>] = 0

\* A query to a known tracker never improves a device's score (apply_batch,
\* aggregate, score).
TrackerQueryNeverImproves ==
    [][/\ rollups' # rollups
       /\ destinations' = destinations
       /\ \A c \in Clients, x \in Cells :
            rollups'[c][x] # rollups[c][x] => Destination(x[1]).tracker
       => \A k \in Listed : Scorecard(k)' >= Scorecard(k)]_vars

\* Merging hides no risk: the device that takes in another one, with all that
\* is folded into either, never scores lower than the lower of the two did
\* (merge_devices, aggregate, score).
MergeHidesNoRisk ==
    [][\A source, into \in Listed : mergedInto'[source] = into =>
         Scorecard(into)' >= Scorecard(into) \/ Scorecard(into)' >= Scorecard(source)]_vars
=============================================================================
