--------------------------- MODULE SourceRegistry ----------------------------
(***************************************************************************)
(* Which ingest loops run: boot (main), POST /api/sources (create_source), *)
(* the registry of loop handles (spawn_source) and the persisted source    *)
(* configurations (save_source_config, list_source_configs).  A loop is    *)
(* reduced to what replacing it can disturb: it reads the cursor of its    *)
(* id, polls its server, and hands the batch to the blocking pool, where   *)
(* the job runs to its end whatever becomes of the loop.                   *)
(*                                                                         *)
(* A request handler is a future that is dropped when its client           *)
(* disconnects; a job it has handed to the blocking pool still runs.       *)
(*                                                                         *)
(* Simplifications: failed ticks and power loss are in IngestLoop; every   *)
(* query of a server is one position of its log, so the rollups of an id   *)
(* are how often it counted each position of each server; a page holds     *)
(* everything after the cursor; the home origin that create_source may     *)
(* persist before it spawns is only the await it adds; an abort takes      *)
(* effect at once (a task that is running when it is aborted still gets to *)
(* its next await, which at most submits a job a little later than here).  *)
(***************************************************************************)
EXTENDS Integers, Sequences, FiniteSets

CONSTANTS Servers,       \* DNS filters that can be polled
          EnvSources,    \* sequence of [id, server]: the sources set by env
          Requests,      \* wizard submissions
          KindOf,        \* KindOf[r]: the adapter kind request r asks for
          ServerOf,      \* ServerOf[r]: the server request r names
          MaxLoops,      \* bound: loops and jobs of aborted loops at once
          MaxLog,        \* bound: queries a server logs
          MaxRestarts    \* bound: kills of the process

Kinds == {KindOf[r] : r \in Requests}
EnvIds == {EnvSources[i].id : i \in DOMAIN EnvSources}
\* An id is <<kind, n>>: n = 1 is {kind}-main, n > 1 is {kind}-n.
Ids == EnvIds \cup (Kinds \X (1 .. Cardinality(Requests)))

Slots == 1 .. MaxLoops

ASSUME BoundsAssumption == MaxLoops \in Nat /\ MaxLog \in Nat /\ MaxRestarts \in Nat
ASSUME EnvAssumption == EnvSources \in Seq([id : EnvIds, server : Servers])
ASSUME RequestAssumption == IsFiniteSet(Requests) /\ ServerOf \in [Requests -> Servers]

VARIABLES
    logged,    \* logged[v]: queries server v has logged
    config,    \* the source_config rows, in creation order: [id, server]
    cursor,    \* cursor[i]: the sources row of id i, 0 when it has none
    counted,   \* counted[i][v][n]: times id i counted query n of server v
    boot,      \* sources main has at hand to spawn before it serves requests
    listing,   \* list_source_configs at this boot: "due", "done" or "failed"
    loop,      \* loop[n]: the loop task in slot n
    registry,  \* registry[i]: the slot of the handle kept for id i, 0 if none
    jobs,      \* apply_batch jobs on the blocking pool: [slot, id, server, from, to]
    request,   \* request[r]: where the handler of r is, and the id it was given
    restarts   \* kills so far

vars == <<logged, config, cursor, counted, boot, listing, loop, registry, jobs, request, restarts>>

Free == [pc |-> "free"]
Loops == {Free} \cup [pc : {"top"}, id : Ids, server : Servers]
                \cup [pc : {"poll", "apply"}, id : Ids, server : Servers, seen : 0 .. MaxLog]
Source == [id : Ids, server : Servers]
NoId == <<>>
RequestPCs == {"idle", "probe", "save", "orphanSave", "spawn", "done", "failed", "gone", "killed"}

TypeOK ==
    /\ logged \in [Servers -> 0 .. MaxLog]
    /\ config \in Seq(Source)
    /\ cursor \in [Ids -> 0 .. MaxLog]
    /\ counted \in [Ids -> [Servers -> [1 .. MaxLog -> Nat]]]
    /\ boot \in Seq(Source)
    /\ listing \in {"due", "done", "failed"}
    /\ loop \in [Slots -> Loops]
    /\ registry \in [Ids -> Slots \cup {0}]
    /\ jobs \subseteq [slot : Slots, id : Ids, server : Servers, from : 0 .. MaxLog, to : 0 .. MaxLog]
    /\ request \in [Requests -> [pc : RequestPCs, id : Ids \cup {NoId}]]
    /\ restarts \in 0 .. MaxRestarts
-----------------------------------------------------------------------------
Init ==
    /\ logged = [v \in Servers |-> 0]
    /\ config = <<>>
    /\ cursor = [i \in Ids |-> 0]
    /\ counted = [i \in Ids |-> [v \in Servers |-> [n \in 1 .. MaxLog |-> 0]]]
    /\ boot = EnvSources
    /\ listing = "due"
    /\ loop = [n \in Slots |-> Free]
    /\ registry = [i \in Ids |-> 0]
    /\ jobs = {}
    /\ request = [r \in Requests |-> [pc |-> "idle", id |-> NoId]]
    /\ restarts = 0

\* A client behind server v makes a query.
Query(v) ==
    /\ logged[v] < MaxLog
    /\ logged' = [logged EXCEPT ![v] = @ + 1]
    /\ UNCHANGED <<config, cursor, counted, boot, listing, loop, registry, jobs, request, restarts>>
-----------------------------------------------------------------------------
\* Mutant of AbortOld: the handle is dropped, which only detaches the task.
AbortNothing(id) == loop

\* spawn_source, under the registry lock: the old loop of the id is aborted,
\* then a new one is spawned.  A job the old loop has submitted stays.
AbortOld(id) == IF registry[id] = 0 THEN loop
                ELSE [loop EXCEPT ![registry[id]] = Free]

\* A slot is not used again while a job of its last loop is pending.
Usable(id) == {n \in Slots : AbortOld(id)[n] = Free /\ \A j \in jobs : j.slot # n}

Spawn(id, server) ==
    \E n \in Usable(id) :
        /\ \A m \in Usable(id) : n <= m
        /\ loop' = [AbortOld(id) EXCEPT ![n] = [pc |-> "top", id |-> id, server |-> server]]
        /\ registry' = [registry EXCEPT ![id] = n]

\* main spawns the next source: an env source, or one it has listed.
BootStep ==
    /\ boot # <<>>
    /\ Spawn(Head(boot).id, Head(boot).server)
    /\ boot' = Tail(boot)
    /\ UNCHANGED <<logged, config, cursor, counted, listing, jobs, request, restarts>>

\* Mutant of ListSources: the persisted sources are not loaded.
ListSourcesUnread ==
    /\ listing = "due" /\ boot = <<>>
    /\ listing' = "done"
    /\ UNCHANGED <<logged, config, cursor, counted, boot, loop, registry, jobs, request, restarts>>

\* With the env sources spawned, list_source_configs: the rows, in order, are
\* spawned next.
ListSources ==
    /\ listing = "due" /\ boot = <<>>
    /\ listing' = "done"
    /\ boot' = config
    /\ UNCHANGED <<logged, config, cursor, counted, loop, registry, jobs, request, restarts>>

\* The statement fails: main logs it and serves without the persisted sources.
ListFails ==
    /\ listing = "due" /\ boot = <<>>
    /\ listing' = "failed"
    /\ UNCHANGED <<logged, config, cursor, counted, boot, loop, registry, jobs, request, restarts>>

Serving == boot = <<>> /\ listing # "due"

Handle(r, label) == request' = [request EXCEPT ![r].pc = label]
Untouched == UNCHANGED <<logged, cursor, counted, boot, listing, jobs, restarts>>

\* POST /api/sources arrives; the handler probes the server.
Submit(r) ==
    /\ Serving
    /\ request[r].pc = "idle"
    /\ Handle(r, "probe")
    /\ UNCHANGED <<config, loop, registry>> /\ Untouched

\* The probe is rejected: nothing is persisted.
ProbeFails(r) ==
    /\ request[r].pc = "probe"
    /\ Handle(r, "failed")
    /\ UNCHANGED <<config, loop, registry>> /\ Untouched

\* The probe succeeds; the save is handed to the blocking pool.
ProbeOk(r) ==
    /\ request[r].pc = "probe"
    /\ Handle(r, "save")
    /\ UNCHANGED <<config, loop, registry>> /\ Untouched

\* Mutant of AllocId: the next number is the count of the rows but -main.
AllocByCount(kind, existing) == <<kind, Cardinality(existing \ {<<kind, 1>>}) + 1>>

\* Mutant of AllocId: numbering starts at zero.
AllocFromZero(kind, existing) == <<kind, Cardinality(existing)>>

\* alloc_source_id over the ids of the existing rows.
AllocId(kind, existing) ==
    <<kind, CHOOSE n \in 1 .. (Cardinality(existing) + 1) :
                /\ <<kind, n>> \notin existing
                /\ \A m \in 1 .. (n - 1) : <<kind, m>> \in existing>>

ConfigIds == {config[i].id : i \in DOMAIN config}

\* The save job: the row is inserted under a fresh id, and the handler, if it
\* is still there, goes on with it.
Save(r) ==
    /\ request[r].pc \in {"save", "orphanSave"}
    /\ LET id == AllocId(KindOf[r], ConfigIds)
       IN /\ config' = Append(config, [id |-> id, server |-> ServerOf[r]])
          /\ request' = [request EXCEPT
                ![r] = [pc |-> IF @.pc = "save" THEN "spawn" ELSE "gone", id |-> id]]
    /\ UNCHANGED <<loop, registry>> /\ Untouched

SaveFails(r) ==
    /\ request[r].pc \in {"save", "orphanSave"}
    /\ Handle(r, "failed")
    /\ UNCHANGED <<config, loop, registry>> /\ Untouched

\* The home is stored, the registry lock taken, the loop spawned, 201 sent.
SpawnCreated(r) ==
    /\ request[r].pc = "spawn"
    /\ Spawn(request[r].id, ServerOf[r])
    /\ Handle(r, "done")
    /\ UNCHANGED config /\ Untouched

\* The client goes away: the handler is dropped at its await.  A probe has
\* no effect left, a save job still runs, a save that was made is not undone.
Disconnect(r) ==
    /\ request[r].pc \in {"probe", "save", "spawn"}
    /\ Handle(r, CASE request[r].pc = "probe" -> "failed"
                   [] request[r].pc = "save"  -> "orphanSave"
                   [] request[r].pc = "spawn" -> "gone")
    /\ UNCHANGED <<config, loop, registry>> /\ Untouched
-----------------------------------------------------------------------------
\* run, with an adapter that delivers everything after the cursor.
ReadCursor(n) ==
    /\ loop[n].pc = "top"
    /\ loop' = [loop EXCEPT ![n] = [pc |-> "poll", id |-> @.id, server |-> @.server,
                                    seen |-> cursor[@.id]]]
    /\ UNCHANGED <<logged, config, cursor, counted, boot, listing, registry, jobs, request, restarts>>

\* A batch of new queries goes to the blocking pool; an empty one ends the tick.
Poll(n) ==
    /\ loop[n].pc = "poll"
    /\ IF logged[loop[n].server] > loop[n].seen
       THEN /\ loop' = [loop EXCEPT ![n].pc = "apply"]
            /\ jobs' = jobs \cup {[slot |-> n, id |-> loop[n].id, server |-> loop[n].server,
                                   from |-> loop[n].seen, to |-> logged[loop[n].server]]}
       ELSE /\ loop' = [loop EXCEPT ![n] = [pc |-> "top", id |-> @.id, server |-> @.server]]
            /\ UNCHANGED jobs
    /\ UNCHANGED <<logged, config, cursor, counted, boot, listing, registry, request, restarts>>

\* Mutant of Apply: the cursor is not part of the transaction.
ApplyWithoutCursor(j) ==
    /\ counted' = [counted EXCEPT ![j.id][j.server] =
                    [n \in 1 .. MaxLog |-> IF n \in (j.from + 1) .. j.to THEN @[n] + 1 ELSE @[n]]]
    /\ jobs' = jobs \ {j}
    /\ loop' = [loop EXCEPT ![j.slot] =
                 IF @ = Free THEN Free ELSE [pc |-> "top", id |-> j.id, server |-> j.server]]
    /\ UNCHANGED <<logged, config, cursor, boot, listing, registry, request, restarts>>

\* apply_batch commits: rollups are added to, the cursor is overwritten, and
\* the loop that submitted the job goes on unless it has been aborted.
Apply(j) ==
    /\ cursor' = [cursor EXCEPT ![j.id] = j.to]
    /\ counted' = [counted EXCEPT ![j.id][j.server] =
                    [n \in 1 .. MaxLog |-> IF n \in (j.from + 1) .. j.to THEN @[n] + 1 ELSE @[n]]]
    /\ jobs' = jobs \ {j}
    /\ loop' = [loop EXCEPT ![j.slot] =
                 IF @ = Free THEN Free ELSE [pc |-> "top", id |-> j.id, server |-> j.server]]
    /\ UNCHANGED <<logged, config, boot, listing, registry, request, restarts>>

\* The process is killed and started again: loops, jobs and handlers are gone,
\* what was committed stays.
Restart ==
    /\ restarts < MaxRestarts
    /\ restarts' = restarts + 1
    /\ loop' = [n \in Slots |-> Free]
    /\ registry' = [i \in Ids |-> 0]
    /\ jobs' = {}
    /\ request' = [r \in Requests |->
                     IF request[r].pc = "idle" THEN request[r]
                     ELSE [pc |-> "killed", id |-> request[r].id]]
    /\ boot' = EnvSources
    /\ listing' = "due"
    /\ UNCHANGED <<logged, config, cursor, counted>>

HandlerStep(r) == \/ Submit(r) \/ ProbeOk(r) \/ ProbeFails(r)
                  \/ Save(r) \/ SaveFails(r) \/ SpawnCreated(r) \/ Disconnect(r)

Next == \/ \E v \in Servers : Query(v)
        \/ BootStep \/ ListSources \/ ListFails
        \/ \E r \in Requests : HandlerStep(r)
        \/ \E n \in Slots : ReadCursor(n) \/ Poll(n)
        \/ \E j \in jobs : Apply(j)
        \/ Restart

Spec == Init /\ [][Next]_vars

\* A boot goes on, though its listing may fail every time; every spawned loop
\* and every submitted job gets its turn; the handlers need no fairness, for
\* nothing is promised before they answer.
Fairness == /\ WF_vars(BootStep) /\ WF_vars(ListSources \/ ListFails)
            /\ \A n \in Slots : WF_vars(ReadCursor(n)) /\ WF_vars(Poll(n))
            /\ \A n \in Slots : WF_vars(\E j \in jobs : j.slot = n /\ Apply(j))

FairSpec == Spec /\ Fairness
-----------------------------------------------------------------------------
Running(id) == registry[id] # 0

\* spawn_source never leaves two loops of one id running, and the handle it
\* keeps is the one of the loop that runs.
OneLoopPerId ==
    \A n \in Slots : loop[n] # Free => registry[loop[n].id] = n

\* Concurrent submissions and restarts never give two rows the same id.
ConfigIdsUnique ==
    \A i, j \in DOMAIN config : config[i].id = config[j].id => i = j

\* A row that was there when this process was started, and was not listed.
Unlisted(row) == /\ listing = "failed"
                 /\ \E r \in Requests : request[r].id = row.id /\ request[r].pc = "killed"

\* Once the daemon serves, a persisted source is polled by a loop of its own
\* on the server it names, unless its handler is still to spawn it or was
\* dropped between the save and the spawn since the process started, or the
\* listing failed at this boot, which only costs the sources saved before it.
ConfiguredRunsUnlessDropped ==
    Serving => \A i \in DOMAIN config :
        LET row == config[i]
        IN \/ Running(row.id) /\ loop[registry[row.id]].server = row.server
           \/ \E r \in Requests : /\ request[r].id = row.id
                                  /\ request[r].pc \in {"spawn", "gone"}
           \/ Unlisted(row)

\* spawn_source: "Abort is loss/dup-safe".  No id counts a query twice.
CountedOnce ==
    \A i \in Ids, v \in Servers, n \in 1 .. MaxLog : counted[i][v][n] <= 1

\* A source whose id no env source has, and so no later spawn replaces, has
\* counted exactly the queries of its server up to its cursor, across kills
\* and restarts, whatever happens to the loops of other ids.
ExactlyOncePerSource ==
    \A m \in Slots : loop[m] # Free /\ loop[m].id \notin EnvIds =>
        \A n \in 1 .. MaxLog :
            counted[loop[m].id][loop[m].server][n] = IF n <= cursor[loop[m].id] THEN 1 ELSE 0

\* alloc_source_id: env- and wizard-configured sources "never collide", and
\* at boot "the two coexist".  Once the daemon serves, every env source has a
\* loop on its own server.
EnvSourceCoexists ==
    Serving => \A i \in DOMAIN EnvSources :
        /\ Running(EnvSources[i].id)
        /\ loop[registry[EnvSources[i].id]].server = EnvSources[i].server

\* A source whose submission was answered with 201, or was saved before a kill,
\* under an id no env source has, is ingested: every query its server logs is
\* eventually counted, without the wizard being run again and across restarts,
\* and after a boot whose listing failed the next one that lists makes up for
\* it.  Only a process whose own listing failed owes older sources nothing.
AnsweredIsIngested ==
    \A r \in Requests : \A n \in 1 .. MaxLog :
        (/\ request[r].pc \in {"done", "killed"}
         /\ request[r].id \notin EnvIds \cup {NoId}
         /\ logged[ServerOf[r]] >= n)
            ~> (\/ \E i \in Ids : i = request[r].id /\ counted[i][ServerOf[r]][n] >= 1
                \/ listing = "failed" /\ request[r].pc = "killed")
=============================================================================
