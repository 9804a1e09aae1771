# Phonehome: verification development

Phonehome polls the query logs of DNS filters (Pi-hole, AdGuard Home, or a
recorded fixture), counts every query into hourly rollups in a SQLite store, and
serves device lists, scorecards, weekly diffs and live pulses to a web interface.
What it must get right is counting: each query once, whatever fails and whenever
the process dies, and each query attributed to exactly one device, however the
user merges devices. This directory holds TLA+ models of the parts that decide
this, their TLC configurations, and theorems checked by TLAPS.

## 1. Inventory

| Part | State | Operations | Interacts with |
|---|---|---|---|
| Ingest loop, one task per source (`daemon/src/ingest.rs`) | the adapter, the cursor and batch of the current tick | read cursor, poll, apply, send pulses, sleep | store (blocking pool), adapter, pulse channel |
| Adapters (`core/src/replay.rs`, `daemon/src/pihole.rs`, `daemon/src/adguard.rs`) | events or session | `poll(cursor)` | a file or a DNS filter over HTTP |
| Store (`daemon/src/store.rs`) | `sources`, `query_rollups`, `devices`, `destinations`, `snapshots`, `source_config`, `meta`, behind one mutex; WAL, `synchronous=NORMAL` | `cursor`, `apply_batch`, `backfill_devices`, `rename_device`, `merge_devices`, `snapshot_all_weeks`, `week_diffs`, `save_source_config`, `set_home`, the read queries | everything |
| Source registry (`daemon/src/main.rs`) | map from source id to task handle, behind an async mutex | `spawn_source`, boot, `create_source` | store, ingest loops, HTTP clients |
| Snapshot job (`main.rs`, `snapshot_loop`) | a 60 s ticker | `snapshot_all_weeks` | store |
| Pulse stream (`main.rs`, `stream`; `ui/src/useSSE.ts`) | broadcast ring of 256 pulses, one receiver per client | send, receive, lag, reconnect | ingest loops, interface |
| Setup wizard (`ui/src/components/SetupWizard.tsx`, `ui/src/setup.ts`) | form, test state | edit, test, submit | `config`, `test_source`, `create_source` |
| Home origin (`store.rs`, `main.rs`) | two rows of `meta` | `set_home`, `get_home` | `create_source`, `config` |
| Read queries and windows (`store.rs`, `main.rs`) | none | `list_devices`, `arcs`, `arc_domains`, `domain_rollups`, `device_scorecard`, `stats`, `week_diffs`, `resolve_window` | store, interface |
| Pure algorithms (`core/src/enrich.rs`, `naming.rs`, `oui.rs`, `score.rs`) | none | enrich, name, look up, score | store |
| Interface (`ui/src`) | polled copies of the API's answers | polling, rendering | HTTP API |

What makes each part correct, and what is hard about it:

- *Ingest loop and store.* Exactly-once counting rests on rollups, identities and
  cursor being committed together and on nothing moving the cursor between a
  loop's read and its commit. Every step of a loop may fail, the process may be
  killed between any two awaits, and a power loss may undo the latest commits.
- *Source registry.* One loop per source id. Requests run concurrently, a request
  handler is dropped when its client disconnects, and a job handed to the
  blocking pool outlives the task that awaits it.
- *Device registry.* Read queries follow one hop of `merged_into`, so sequences
  of merges must never build chains; re-discovery must not undo a merge; no
  query may vanish from the list or be shown twice.
- *Snapshots.* The job has no transaction and runs between merges and batches.
- *Adapters.* Page limits, ties of timestamps and ids, clock steps, entries that do
  not parse, expired sessions.
- *Read queries.* Every view of the rollups is a query of its own, joined in its own
  way with devices, aliases and destinations; destination rows are as old as the
  release that wrote them. The views must still agree.
- *Home origin.* Two statements without a transaction, in a handler that may be dropped.
- *Pulse stream, interface, wizard.* Lost pulses, answers that overtake each other
  or arrive after the form or the window they were asked for has changed.

`PROJECT.json` lists the hazards line by line, each with the properties that would
catch it going wrong.

## 2. Modules

| Module | Models | State | Checked by |
|---|---|---|---|
| `LogTally` | counting in a log: the aggregation of `apply_batch` | none | through `IngestLoop` |
| `ExactlyOnce` | abstract: what ingestion promises | logs, counted prefix, tallies, prefix that survives a power loss | as the property `ImplementsPromise` |
| `IngestLoop` | the loops over the store and the replayer | logs, committed database, database on disk, the loops' program counters and locals, announcements | `ingest` |
| `PiholeAdapter` | `pihole.rs` under the loop: cursor, overlap filter, page limit, session | log with seconds, cursor, session, batch, counts | `pihole` |
| `AdguardAdapter` | `adguard.rs` under the loop: backward paging, cap, session | log, cursor, session, the poll under way, counts | `adguard`, `adguard_cap` |
| `SourceRegistry` | boot, `create_source`, `spawn_source`, persisted configurations, jobs that outlive their loops | configurations, cursors, counts, tasks, handles, jobs, requests | `registry`, `registry_dup`, `registry_coexist` |
| `Setup` | the wizard's form, `test_source`, `create_source` with the home, `config`, `set_home`, `get_home` | form and test, tests and submissions under way, saved sources, the two home rows | `setup` |
| `DeviceRegistry` | discovery, backfill, rename, merge, the fold of the read queries | rollups, device rows, aliases, names | through `Snapshots` and `Projections` |
| `Snapshots` | the snapshot job and the diff over `DeviceRegistry` | the above and the snapshot rows | `snapshots`, `snapshots_diff` |
| `Enrichment` | `enrich`: entity table by suffix, blocklist walk | none | through `Projections` |
| `Score` | `score` in fixed point | none | through `Projections` |
| `Projections` | the read queries and time windows over `DeviceRegistry`, destinations, releases | the above, destination rows, release | `projections` |
| `PulseStream` | the broadcast channel, `useSSE.ts`, and the queries of `App.tsx` | commits and pulses, receiver, stream, the page's window, debounce, queries and view | `pulses` |
| `FiniteSetFacts` | lemmas on `Max` and `Min`, induction over the subsets of a finite set, sums by `SumFunctionOnSet`, finite images, the first members of an order | | TLAPS |
| `IngestLoopProofs`, `PiholeProofs`, `AdguardProofs`, `SourceRegistryProofs`, `SetupProofs`, `PulseStreamProofs` | theorems about the module they are named after | | TLAPS |
| `StoreProofs` | theorems about `DeviceRegistry`, `Snapshots`, `Projections`, `Enrichment` and `Score` | | TLAPS |

`MCIngestLoop`, `MCSourceRegistry`, `MCProjections` and `MCSetup` only give the
constants their values for TLC; the other modules take theirs from the
configurations. `Snapshots` and `Projections` each compose `DeviceRegistry` with a
component of their own, and each of them implements it; `Projections` also uses
`Enrichment` and `Score`.

### 2.1 IngestLoop

A step of a loop is what runs between two awaits of `run`:

| Action | Code |
|---|---|
| `ReadCursor`, `CursorFails` | `store.cursor` on the blocking pool; an error or panic skips the tick |
| `Poll`, `PollFails` | `ingestor.poll`; an empty batch that leaves the cursor alone is not applied |
| `ApplyBatch`, `ApplyFails` | the transaction of `apply_batch`, committed or rolled back |
| `Emit` | the pulses of the committed batch |
| `Wake` | the end of the interval |
| `Checkpoint`, `PowerLoss` | WAL with `synchronous=NORMAL`: a power loss leaves the database of some earlier commit |
| `Restart` | the process is killed and started: all commits survive, `Store::init` backfills devices |
| `Query` | the DNS server logs a query (environment) |

A query is its rollup key (client, domain, hour). The adapter is the fixture
replayer, whose cursor is the number of delivered events; it stands for any
adapter that keeps the `Ingestor` contract. The empty log distinguishes "no
cursor" from cursor 0, because `run` compares the two.

`ExactlyOnce` says what `core/src/ingest.rs` asks of source and store: the
tallies of a source are always those of a prefix of its log, the prefix grows by
whole batches, and it shrinks only by falling back to a prefix that was saved,
for all sources at once and together with the tallies. `ImplementsPromise` maps
the counted prefix to the stored cursor.

### 2.2 SourceRegistry

Loops are reduced to reading the cursor, polling and submitting the transaction
as a job; a job commits whatever becomes of its loop. `Spawn` is the body of
`spawn_source` under the registry lock. `create_source` is split at its awaits
(probe, save, home, lock): `Disconnect` drops the handler at any of them, and a
save that is already on the blocking pool still runs (`orphanSave`). Ids are
pairs <<kind, n>>; <<kind, 1>> is `{kind}-main`, which is also what an env
source of that kind is called. Boot spawns the env sources, one a step, and then
asks the store for the persisted ones: `ListSources` loads their rows, which the
next steps spawn in order, and `ListFails` is the error `main` only logs. Either
way requests are served afterwards (`Serving`); after a failure no persisted source
runs, and nothing but another start lists them again. Every row is enabled and of a
kind `build_ingestor` knows, because `save_source_config` writes no others.

### 2.3 DeviceRegistry and Snapshots

Every operation holds the connection mutex, so it is one step. A row is named by
its identity key. `WalkEnd` is the bounded walk of `resolve_canonical`;
`FoldOwner` is the single hop `COALESCE(merged_into, id)` of the read queries.
`Init` includes databases of schema version 1 (rollups without devices).
`Snapshots` adds the job: a complete run writes the row of every canonical device
and week with queries, a run that is cut short writes any part of them.

### 2.4 PiholeAdapter and AdguardAdapter

Both put one adapter under a loop whose commit is one step and may roll back. The
filter itself is external: only what the adapter relies on is assumed of it, and
what the adapter cannot rule out is left open (sessions expire at any time, requests
fail, queries arrive between two pages).

A Pi-hole poll is one request for the queries from the cursor's second on, so
`Poll` is one step: `Answers` are the pages the server may return, `Fresh` the filter
on the FTL id and on client addresses that parse, `NextCursor` the two maxima. Ids
grow, but the server's clock may step back (`Back`): a query logged then lies below
the stored second and is not asked for, which is why the promises are about queries
`InOrder`. The request carries `from` and `length` and no order, so nothing in the
code decides which queries a page holds when more match than fit: `Answers` is all
that matches, or any `PageSize` of it, the oldest, the newest or a mixture. When a
page holds a later query and had no room for an earlier one, the maxima jump over the
earlier one, and the filter on the id drops it from every later page. The history
variable `missed` collects what committed batches passed over so (`PassedOver`); no
action reads it. `Stalled` is the state in which the queries of the cursor's second
and later that were delivered or skipped can fill a page: a server may then answer
every poll with the same ones.

An AdGuard poll pages backwards, so `FetchPage` is one page: it goes on with
`older_than`, or ends with a batch when it has reached the cursor, the end of the
log or the cap. `FetchFails` drops the pages already read, as the code does. Two
entries may have the same time (`Tied`): of these, the ones behind a page boundary
or at the cursor's time are taken for delivered. An entry whose time does not parse
(`readable`) fails every poll that reaches it.

### 2.5 PulseStream

Commits and their pulses are numbered; the receiver is the number of the next
pulse it reads, which a lag moves to the oldest one the channel retains. The
stream is what `useSSE` makes of an `EventSource`: connecting, accepted by the
daemon (from where pulses count), open, or waiting for the retry timer. `Refresh`
is the pair of queries `refreshDevices` and `refreshArcs`; it runs when the page
loads, when the status or the window changes (the polling effect depends on both),
on the interval, and when the debounce fires. The debounce keeps the window it was
armed with, and an answer is shown whenever it arrives.

### 2.6 Setup

A form or a body is reduced to the server it names, credentials included, and a home
to two coordinates. `Edit`, `RunTest`, `Submit` and `ConfigRead` are what the page
does; `Post` is any other client of the same endpoint. A test's answer is tied to no
form, as in the code: it arrives after an edit as well. `create_source` is split at
its awaits: `Probe`, `Save` (or `SaveFails`), `SetHome` (or `HomeFails`), `Created`.
`Continue` is where the handler goes on, unless it was dropped, `Dropped` what a
dropped handler still does: a job on the blocking pool runs to its end. `set_home`
holds the mutex but has no transaction, so an error or a kill leaves the first
statement alone (`CutShort`); the variable `cut` only records that. `Persisted` is
`get_home`. Ids and loops of a saved source are the matter of `SourceRegistry`.

### 2.7 Projections, Enrichment, Score

A read query holds the mutex and reads one state, so it is an operator over the
state: `ListRow`, `ArcRows`, `UnmappedRows`, `ArcDomainRows`, `RollupRows`,
`Aggregate`, `TotalQueries`, `NewDomains`, each with the joins of its statement. The
state is that of `DeviceRegistry` with the destination rows and the release:
`CountBatch` is `apply_batch` with `upsert_destination`, `Start` opens the store,
perhaps in a release with other tables, and leaves the old rows as they are. `Init`
includes databases that have rollups and no destinations. `ResolveWindow` has the
checked arithmetic of `resolve_window` over integers of bounded width, and
`InWindow` is the half-open clause of the statements.

`Enrichment` looks a name, a sequence of labels, up in the two tables: the longest
suffix wins, and the blocklist is walked up to two labels. `Score` blends the four
components in fixed point; the logarithm of the query count is a table that must not
fall, and reads as 1 from `ChattinessCap` queries on, as `ln_1p` capped by `min(1.0)`
does. Sums over sets of rows are `SumFunction` of the community modules, here and in
`Snapshots`, so that their laws can be proved once.

## 3. Runs

| Run | Instance | What it shows |
|---|---|---|
| `ingest` | two sources with 3 and 1 queries of one key, pages of 2, one power loss | `TypeOK`, `ExactlyOnce`, `NoStaleBatch`, `CountedIsVisible`, `AnnouncedWasCounted`, `ImplementsPromise`, and `EveryQueryCounted` under fairness |
| `pihole` | pages of 2 with any content, five queries in three seconds, three a second, one unparseable, one set back | `CursorIsExact`, `DeliveredOrCutOff` |
| `adguard` | at most 2 pages of 2, six entries, one tied, one with an unreadable time, one with an unparseable client | `CountedOnceUpToCursor`, `CommitsAreComplete`, `CursorCatchesUp` |
| `adguard_cap` | pages of 2, at most 2 of them, five entries | violated: the oldest entry is never read |
| `registry` | two submissions for two servers, a Pi-hole set by env, two queries a server, four loops, two kills, listings that fail | `TypeOK`, `OneLoopPerId`, `ConfiguredRunsUnlessDropped`, `ExactlyOncePerSource`, `AnsweredIsIngested` |
| `registry_dup` | one submission that replaces an env source | violated: a batch is counted twice |
| `registry_coexist` | one submission beside a Pi-hole set by env | violated: the env source is displaced |
| `projections` | two clients, two domains, two hours, one query of each at a time, two releases with different tables, integers to 7 | `SubdomainsInherit`, `ArcsAddUp`, `ClickThroughAddsUp`, `ListAgrees`, `WindowsAddUp`, `NewTrackersComeFirst`, `TrackerQueryNeverImproves`, `MergeHidesNoRisk` |
| `snapshots` | three clients, two hours in two weeks | `TypeOK`, `SnapshotsNeverAhead`, `AliasesPointAtCanonical`, `EveryQueryListedOnce`, `FullRunAddsUp`, `SnapshotsCatchUp`, `GroupsMoveWhole` |
| `snapshots_diff` | two clients, one week | violated: the diff lists a merged device |
| `pulses` | a channel of one pulse, two commits, two windows and two changes, two queries under way | `PulsesInOrder`, `ViewSettles`, `StreamRecovers` |
| `setup` | a server that accepts and one that does not, two coordinates, homes in range, out of range and half-filled, two submissions | `OnlyReachedIsSaved`, `HomeIsOnePair`, `FailedSavedNothing`, `HomeStaysSet`, `SpinnersEnd` |

Why the bounds are enough. In `ingest` one source needs two pages and the other
one, so batches of two loops overlap, a page boundary falls inside a log, and a
power loss can undo one commit of either; one key is enough there because the
theorems of section 4 hold for every set of keys. In `pihole` a second can hold
more than a page (2), exactly one, and less, so that a page cuts a second, cuts a
backlog of several seconds at either end, or stalls the source; the log is longer
than two pages, and a query set back, an unparseable one and the cut can meet in one
second. In `adguard` the log of six is longer than
the cap of two pages of two covers, so a first poll is cut off and a later one is
not; the tied pair can straddle a page boundary, the cursor, or the moment between
poll and log. `adguard_cap` leaves all that out and has one entry more than the cap
covers. In `registry` three sources share two servers and one id, so that a spawn
replaces an env loop while it polls, while its job is pending, and again at boot;
four slots leave room for pending jobs of replaced loops; with two kills a boot whose
listing failed is followed by one that lists, and a source that is submitted after a
failed listing lives through a boot. In `snapshots` a merge
involves a source, its alias and the target: three clients; a client that
already has a device is seen again in the second hour. In `projections` two clients
are a device and its alias, two domains differ in tracker, country and row age, and
two hours are two weeks and two buckets of every window; hours times ticks exceed
the integers (7) within the hour counts that are tried. In `pulses` the second pulse
overruns the channel, two queries can overtake each other, and the second change of
the window may return to the first. In `setup` two submissions can write the two
home rows in turn, and a test of one server can answer while the form names the
other. Names, servers and weeks only need to differ. The `registry` runs do not
check deadlock: when the bounded queries, submissions and kills are used up and
every tick has ended, nothing needs to happen any more.

Fairness. Tokio polls a ready task again, so `Emit` and `Wake` are weakly fair.
Reading, polling and committing may fail or be cut off by a kill each time, but
not for ever: strong fairness says that a store or a server asked infinitely
often answers some time. In `AdguardAdapter` it is stated for each page number,
for a poll that fails once loses all its pages: a server that never answers the
second request of a poll starves the source. Spawned loops and submitted jobs are
weakly fair in `SourceRegistry`, and a boot goes on, whether its listing succeeds or
fails (only the disjunction is fair: it may fail every time); handlers and clients
have no fairness. In `Setup`
answers of tests and the steps of a handler are weakly fair, because every request
to a source has a timeout and every job on the pool ends; nothing says that they
succeed. The snapshot job is strongly fair because its ticker fires for as long as
the process runs, and a killed daemon is started again by its supervisor
(`restart: unless-stopped` in `docker-compose.yml`). In `PulseStream` timers fire, a
stream whose process is gone is reset, and a connection or a query that is tried
again and again succeeds some time.

### What the violated runs show

1. `registry_dup`: `spawn_source` claims abort is "loss/dup-safe". Abort does not
   stop the `apply_batch` job on the blocking pool; the successor reads the old
   cursor before that job commits and counts the batch again.
2. `registry_coexist`: `alloc_source_id` is said never to let env and wizard
   sources collide. It only looks at persisted rows, so the first Pi-hole of the
   wizard takes the id, and the loop, of the env Pi-hole.
3. `snapshots_diff`: the diff is said to be per canonical device. It lists every
   device with a row in the newest week, and rows of merged devices are never
   removed.
4. `adguard_cap`: "first poll: ingest all retained history". The cursor becomes the
   newest time of the first page, but the poll stops after `MAX_PAGES` pages; what
   is older is not fetched by any later poll.

Facts met while modelling, which the properties name as exceptions or which
contradict no promise of the code:

- *Pi-hole, lost backlog.* `pihole.rs:8` says that "a gap never loses events". That
  holds while what has been logged since the cursor's second fits a page. Of a longer
  backlog, a server that answers with its newest queries (or any page that is not the
  oldest end) makes the cursor jump over the rest, which is lost for good. The
  request does not ask for the oldest, so this is up to the server. It is the
  exception `missed` of `CursorIsExact` and `DeliveredOrCutOff`, and no run asserts
  the quoted line without it; `OnlyBacklogsAreCut` (section 4) says that nothing
  else is lost.
- *Pi-hole, stalled source.* When the queries from the cursor's second on that were
  delivered or do not parse can fill a page, a server that answers with them again
  and again lets the cursor stand still for ever (the disjunct `Stalled` of
  `DeliveredOrCutOff`; a server that answers with the oldest end does so for
  certain). A query logged after the server's clock stepped back is below the stored
  second and is not asked for.
- *AdGuard.* Of entries with one time, those behind a page boundary, or logged after
  the poll that read the first, are lost; an entry whose time does not parse fails
  every poll that reaches it, until the log forgets it.
- *Wizard.* A test that answers after the form was edited marks the edited form as
  tested, although `dirty()` resets the test; the daemon probes again before it
  saves, so only `OnlyReachedIsSaved` matters and it holds. `FailedSavedNothing` is
  about errors the daemon answers with; an answer that is lost with its connection
  also shows an error, and pressing "Start" then may save the server twice. "Start" is enabled again
  between the 201 and the answer of the configuration request, or after that
  request has failed, and saves the server a second time.
- *Home.* A `set_home` that is cut short leaves the latitude of one submission with
  the longitude of another; both are in range, so the pair is used.
- *Projections.* A window drops the bucket in which it begins; a scorecard's name is
  not disambiguated as the list's is.
- *Interface.* A debounced refresh armed before the window is changed asks for the
  old window, and the page shows its arcs under the new label until the next poll,
  up to 15 s later (`ViewSettles` only says that this ends).
- *Registry.* A client that disconnects between the save and the spawn leaves a
  persisted source that only the next boot starts (the second disjunct of
  `ConfiguredRunsUnlessDropped`). When `list_source_configs` fails at boot, the daemon
  serves with no persisted source running until it is started once more (the
  disjunct `Unlisted`, which covers only sources saved before this process started,
  and the second disjunct of `AnsweredIsIngested`).
- *Devices.* Merging a row that is already an alias succeeds and moves it alone,
  without its group (`GroupsMoveWhole` allows it), and a canonical device whose
  aliases were all moved away and that has no queries of its own keeps its last
  snapshot row for ever, because the job skips devices without queries.

## 4. Proofs

Every safety property of section 3 is a theorem, for all values of the constants
that satisfy the assumptions named in the modules: bounds are naturals, page sizes
and caps are not zero; clients, domains, hours and requests are finite sets; a name
is a sequence of labels, and domains are numbered in their order; a week and an hour
have a positive length; the table of the logarithm does not fall and is at most 1; a
Setup form is never `Blank` as a server name. All of these hold of the code as it
stands. Each proof module defines an inductive invariant `IInv`, proves that
`Init` implies it and that every action preserves it, and derives the rest.

| Module | Proves | What the inductive invariant adds |
|---|---|---|
| `IngestLoopProofs` | `TypeOK`, `ExactlyOnce`, `NoStaleBatch`, `CountedIsVisible`, `AnnouncedWasCounted`, and the refinement `ImplementsPromise` | the same consistency for the database a power loss leaves behind, and for each loop what its next step relies on (`LoopInv`) |
| `PiholeProofs` | `TypeOK`, `CursorIsExact`; `OnlyBacklogsAreCut`, `PollsFindWork`, `CommitsAdvance` | the cursor's second was logged up to its id (`Seen`), and a batch on its way holds all that has to be between the cursor and the next one, which is beyond it, but for what its page had no room for, and that only when more match than a page holds (`BatchInv`) |
| `AdguardProofs` | `TypeOK`, `CountedOnceUpToCursor`, `CommitsAreComplete`; `CommitsAdvance`, `QuietPollsMissNothing` | the log is in the order of its times; what a poll has kept is later than the cursor and not later than its first entry (`PollInv`); the pages read hold everything they passed (`CompleteInv`) |
| `SourceRegistryProofs` | `TypeOK`, `ConfigIdsUnique`, `OneLoopPerId`, `ConfiguredRunsUnlessDropped`, `ExactlyOncePerSource` | ids go back to one request each; handles, loops and jobs match; a row is still to be listed or spawned at boot (`Due`), or it runs, was dropped, or was not listed (`Settled`); an id of no env source is spawned once in the life of a process |
| `SetupProofs` | `TypeOK`, `OnlyReachedIsSaved`, `HomeIsOnePair`, `FailedSavedNothing`, `HomeStaysSet`; `SpinnersHaveCause` | what a submission has achieved where its handler stands (`Progress`) |
| `PulseStreamProofs` | `TypeOK`, `PulsesInOrder`; `PageNeverAhead`, `StatusIsStream` | what the page was handed has been sent and lies behind the receiver, which is at most one pulse ahead of the channel |
| `StoreProofs`, overlay | `TypeOK`, `AliasesPointAtCanonical`, `EveryQueryListedOnce`, `GroupsMoveWhole` | no alias points at an alias, and, once the store is open, every client with queries has a row |
| `StoreProofs`, snapshots | that `Snapshots` implements `DeviceRegistry`; `SnapshotsNeverAhead`, `FullRunAddsUp`; `FullRunCatchesUp` | `SnapshotsNeverAhead` itself, for both are inductive on top of the overlay's invariant (`SnapshotsIInv`) |
| `StoreProofs`, read side | that `Projections` implements `DeviceRegistry`; `SubdomainsInherit`, `ArcsAddUp`, `ClickThroughAddsUp`, `ListAgrees`, `WindowsAddUp`, `NewTrackersComeFirst`, `TrackerQueryNeverImproves`, `MergeHidesNoRisk`; scores are percentages | every destination row is what some release knew of its domain (`ProjectionsIInv`) |

The properties after a semicolon are stated in the proof module and checked by no
run. Most of them are the part of a liveness property that is no matter of fairness:
a step that gets done gets on. `PollsFindWork` and `CommitsAdvance` say of Pi-hole
that every page a poll can get holds something new while a query is neither counted
nor passed over, unless the source stalls, and that a commit moves the cursor, which
is what `DeliveredOrCutOff` comes down to once polls and commits succeed; that the
exception stays one is `OnlyBacklogsAreCut`, from which a source whose backlogs fit
a page loses nothing;
`QuietPollsMissNothing` and `CommitsAdvance` say the same for `CursorCatchesUp`,
`FullRunCatchesUp` for `SnapshotsCatchUp`, `SpinnersHaveCause` for `SpinnersEnd`, and
`PageNeverAhead` and `StatusIsStream` are what `ViewSettles` builds on.

*IngestLoop.* The arithmetic of `apply_batch` is the lemma `TallySplit`: counting two
adjacent slices is counting their union. `TallyAppend` says that logging a query
changes no earlier slice. In the refinement a commit of a non-empty batch is `Count`,
a commit that only records the first cursor is a stutter, a checkpoint is `Save`, a
power loss is `FallBack`, a kill is a stutter.

*PiholeAdapter.* What is logged in order after the cursor matches (`InOrderIsMatched`),
so it is on the page, or later than the cursor the page leads to, or passed over; and a page
that leaves out something that matches is a full one, with more matching than it
holds (`CutPageIsFull`). Nothing is assumed about which part of the match it holds.

*AdguardAdapter.* That a commit is complete needs an argument about the cap:
`PagesAdd` says that the pages of a poll do not overlap, so that n pages stand
for at least n * `PageSize` entries, and `NotOnPage` that what is on no page lies
behind a full one. An entry that a poll has left out is then tied with the oldest
entry of a page, does not parse, or has `MaxPages * PageSize` newer ones. An entry
that is logged during the poll is newer than its first entry or tied with it
(`QueryComplete`). That a poll under way always has something new (its first entry
is later than the cursor) makes commits advance and quiet polls up to date.

*DeviceRegistry.* The bounded walk of `resolve_canonical` is one hop
(`WalkEndUnique` and `WalkEndExists` give `CanonicalIsFoldOwner`), and from that a
merge can only hang rows below a canonical one (`MergeMovesWhole`).

*Snapshots.* The folded groups of the listed devices are disjoint and hold every
client with queries (`FoldedPartition`), so that volumes add up to the week
(`VolumesAddUp`). A row is written with at most what its week holds, and a week's
total never falls (`WriteRowsNeverAhead`).

*Enrichment.* A suffix of a name is the name itself or a suffix of its parent. A name
that is not listed itself therefore has the longest listed suffix of its parent, and
the blocklist walk passes through the parent. `SubdomainsAlwaysInherit` says this of every name and all tables; the run, and
`SubdomainsInherit`, only of the names in `Examined`.

*Projections.* Each view is a set of rollup rows, and each property says that the
sets of one view part those of another: the rows of a window are parted by arc and
unmapped, an arc by domain, a domain by bucket, all rows by listed device (what has
queries has a device once the store is open). The sums follow by `SumOfParts`. The
list of new domains is the head of a strict total order (`FirstOfOrder`).

*Score.* `CappedMeaning` says what the capped ratio is without a division, which
shows that it grows with its numerator; a share of trackers grows by a tracker query
(`ShareGrows`), and the share of a union lies between those of its parts
(`ShareOfTwo`). A merge unites entities and countries and adds counts, so the device
with the lower share of trackers scores no higher than the union. This is about the
fixed-point score: rounding of the floats in the code is not modelled.

`FiniteSetFacts` makes this possible. The induction theorems of the library take an
operator, which no prover here can instantiate; `SubsetInduction`, over the subsets of
a finite set, takes the set of those for which the claim holds, and is proved from the
well-foundedness of the naturals. From it follows that `SumFunctionOnSet`, a fold
over choices, obeys the laws of sums whatever the choices.

Model-checked only: liveness, which is out of this prover's reach
(`EveryQueryCounted`, `AnsweredIsIngested`, `SnapshotsCatchUp`, `DeliveredOrCutOff`,
`CursorCatchesUp`, `ViewSettles`, `StreamRecovers`, `SpinnersEnd`), and the four
violated properties, each a counterexample.

## 5. Not modelled

- Mutual exclusion: what the code does under the connection mutex or the registry
  lock is one step here, so the properties would not notice a lock that is not taken
  (`OneLoopPerId` is about aborts and handles, `HomeIsOnePair` about what is
  written). A page has one stream and one retry timer, so two timers for one stream
  cannot be told from one; `useSSE.ts` arms one per error.
- Of the store: blocked counts, timestamps and the content of a pulse, which ride in
  the same statements as what is modelled; of a snapshot row, the columns beyond the
  volume.
- Naming and vendor lookup (`naming.rs`, `oui.rs`): a precedence of names and a table
  lookup. No state depends on a name, and no row ever gets the DHCP and mDNS names.
- The file behind the replayer: a fixture is committed beside the code, and nothing
  in the repository shrinks it while a database is kept. The generator of fixtures
  (`gen_fixture.rs`) is a development tool.
- HTTP encoding and the shape of JSON; the health, configuration and diff queries of
  the page; rendering and the globe; packaging and documentation: no protocol state.

## 6. Plan

Done: the ingestion core with its abstract specification; the registry of sources
and both adapters; the device registry with snapshots and projections; the pulse
stream; setup and home. The components that are left out have no state to check.

Left:
1. A composition of `SourceRegistry` with the failing ticks of `IngestLoop`, and that
   it implements `ExactlyOnce` for the sources that no env source displaces.
2. That the two adapters implement the contract `IngestLoop` takes from the replayer,
   up to the exceptions section 3 names.
3. Of `Snapshots`, what the diff reads back: that a row of an earlier week only
   changes by a run that finds other queries or another fold.
