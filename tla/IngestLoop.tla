----------------------------- MODULE IngestLoop ------------------------------
(***************************************************************************)
(* The per-source ingest loop of the daemon (daemon/src/ingest.rs, run)    *)
(* over the shared SQLite store (daemon/src/store.rs: cursor, apply_batch, *)
(* init) and an adapter that keeps the Ingestor contract the way the       *)
(* fixture replayer does (core/src/replay.rs, poll): a cursor is the       *)
(* number of events already delivered.                                     *)
(*                                                                         *)
(* One step of a loop is what runs between two awaits: read the cursor,    *)
(* poll, apply the batch in one transaction, send the pulses, sleep.  Any  *)
(* of the fallible steps may fail, the process may be killed between any   *)
(* two steps, and a power loss may undo the latest commits: the store runs *)
(* in WAL mode with synchronous=NORMAL, so what survives is the database   *)
(* as of some earlier commit.                                              *)
(*                                                                         *)
(* Simplifications: an event is its rollup key (client_key, domain, hour), *)
(* blocked counts and timestamps are left out, and all sources are the     *)
(* ones spawned at boot (replacing a running source is SourceRegistry).    *)
(***************************************************************************)
EXTENDS LogTally

CONSTANTS Sources,         \* ids of the configured sources
          Keys,            \* rollup keys: (client, domain, hour)
          ClientOf,        \* the client_key of a rollup key
          DomainOf,        \* the domain of a rollup key
          Chunk,           \* the adapter's page size
          MaxLog,          \* bound: queries logged, for each source
          MaxPowerLosses   \* bound: power losses in a behaviour

ASSUME ConstantsAssumption ==
    /\ Chunk \in Nat \ {0}
    /\ MaxLog \in [Sources -> Nat]
    /\ MaxPowerLosses \in Nat

VARIABLES
    log,        \* log[s]: queries logged by the DNS server of source s
    db,         \* the committed database: cursor, rollups, devices, destinations
    disk,       \* the committed database that a power loss leaves behind
    pc,         \* pc[s]: where the loop of source s is
    seen,       \* seen[s]: the cursor the loop read from the store
    batch,      \* batch[s]: the polled slice, entries start+1 .. end of the log
    announced,  \* announced[s][k]: queries announced on this process's channel
    losses      \* power losses so far

vars == <<log, db, disk, pc, seen, batch, announced, losses>>

NoCursor == -1   \* the stored cursor is None

Offset(c) == IF c = NoCursor THEN 0 ELSE c
Least(a, b) == IF a <= b THEN a ELSE b

Clients == {ClientOf[k] : k \in Keys}
Domains == {DomainOf[k] : k \in Keys}
PCs == {"top", "poll", "apply", "emit", "sleep"}

Databases == [cursor : [Sources -> Nat \cup {NoCursor}],
              rollup : [Sources -> [Keys -> Nat]],
              devices : SUBSET Clients,
              destinations : SUBSET Domains]

TypeOK ==
    /\ log \in [Sources -> Seq(Keys)]
    /\ db \in Databases
    /\ disk \in Databases
    /\ pc \in [Sources -> PCs]
    /\ seen \in [Sources -> Nat \cup {NoCursor}]
    /\ batch \in [Sources -> [start : Nat, end : Nat]]
    /\ announced \in [Sources -> [Keys -> Nat]]
    /\ losses \in Nat
-----------------------------------------------------------------------------
EmptyDb == [cursor |-> [s \in Sources |-> NoCursor],
            rollup |-> [s \in Sources |-> [k \in Keys |-> 0]],
            devices |-> {},
            destinations |-> {}]

NothingAnnounced == [s \in Sources |-> [k \in Keys |-> 0]]
NoBatch == [start |-> 0, end |-> 0]

Init ==
    /\ log = [s \in Sources |-> <<>>]
    /\ db = EmptyDb
    /\ disk = EmptyDb
    /\ pc = [s \in Sources |-> "top"]
    /\ seen = [s \in Sources |-> NoCursor]
    /\ batch = [s \in Sources |-> NoBatch]
    /\ announced = NothingAnnounced
    /\ losses = 0

Goto(s, label) == pc' = [pc EXCEPT ![s] = label]

\* The iteration is over: the loop sleeps and its locals are gone.
EndTick(s) == /\ Goto(s, "sleep")
              /\ seen' = [seen EXCEPT ![s] = NoCursor]
              /\ batch' = [batch EXCEPT ![s] = NoBatch]

\* The DNS server behind source s logs one more query.
Query(s, k) ==
    /\ Len(log[s]) < MaxLog[s]
    /\ log' = [log EXCEPT ![s] = Append(@, k)]
    /\ UNCHANGED <<db, disk, pc, seen, batch, announced, losses>>

\* Store::cursor on the blocking pool, under the connection mutex.
ReadCursor(s) ==
    /\ pc[s] = "top"
    /\ seen' = [seen EXCEPT ![s] = db.cursor[s]]
    /\ Goto(s, "poll")
    /\ UNCHANGED <<log, db, disk, batch, announced, losses>>

\* Mutant of CursorFails: a failed read is taken for "no cursor yet".
CursorFailsPollsFromStart(s) ==
    /\ pc[s] = "top"
    /\ seen' = [seen EXCEPT ![s] = NoCursor]
    /\ Goto(s, "poll")
    /\ UNCHANGED <<log, db, disk, batch, announced, losses>>

\* A store error or a panicked task skips the tick: the loop never polls
\* without the stored cursor.
CursorFails(s) ==
    /\ pc[s] = "top"
    /\ EndTick(s)
    /\ UNCHANGED <<log, db, disk, announced, losses>>

\* Mutant of Page: a missing cursor is not read as "from the beginning".
PageFromRawCursor(l, cursor) ==
    LET start == Least(cursor, Len(l))
    IN [start |-> start, end |-> Least(start + Chunk, Len(l))]

\* The page the adapter answers a cursor with.
Page(l, cursor) == LET start == Least(Offset(cursor), Len(l))
                   IN [start |-> start, end |-> Least(start + Chunk, Len(l))]

\* The adapter answers; the batch goes to apply unless it is empty and
\* leaves the cursor where it was.
Poll(s) ==
    /\ pc[s] = "poll"
    /\ LET page == Page(log[s], seen[s])
       IN IF page.end > page.start \/ page.end # seen[s]
          THEN /\ batch' = [batch EXCEPT ![s] = page]
               /\ Goto(s, "apply")
               /\ UNCHANGED seen
          ELSE EndTick(s)
    /\ UNCHANGED <<log, db, disk, announced, losses>>

\* Mutant of PollFails: a source that fails once is never polled again.
PollFailsEndsLoop(s) ==
    /\ pc[s] = "poll"
    /\ Goto(s, "stopped")
    /\ UNCHANGED <<log, db, disk, seen, batch, announced, losses>>

\* A poll error is logged; the loop tries again after its interval.
PollFails(s) ==
    /\ pc[s] = "poll"
    /\ EndTick(s)
    /\ UNCHANGED <<log, db, disk, announced, losses>>

\* What a batch of source s adds to a tally, per key.
Added(counts, s) ==
    [k \in Keys |-> counts[k] + Tally(log[s], batch[s].start, batch[s].end, k)]

KeysIn(s) == {log[s][i] : i \in (batch[s].start + 1) .. batch[s].end}

\* Mutant of Applied: the identities are left to a later transaction.
AppliedWithoutIdentities(s) ==
    [cursor |-> [db.cursor EXCEPT ![s] = batch[s].end],
     rollup |-> [db.rollup EXCEPT ![s] = Added(@, s)],
     devices |-> db.devices,
     destinations |-> db.destinations \cup {DomainOf[k] : k \in KeysIn(s)}]

\* The database after the transaction of apply_batch: rollups, devices,
\* destinations and the cursor, together.
Applied(s) ==
    [cursor |-> [db.cursor EXCEPT ![s] = batch[s].end],
     rollup |-> [db.rollup EXCEPT ![s] = Added(@, s)],
     devices |-> db.devices \cup {ClientOf[k] : k \in KeysIn(s)},
     destinations |-> db.destinations \cup {DomainOf[k] : k \in KeysIn(s)}]

ApplyBatch(s) ==
    /\ pc[s] = "apply"
    /\ db' = Applied(s)
    /\ Goto(s, "emit")
    /\ UNCHANGED <<log, disk, seen, batch, announced, losses>>

\* Mutant of ApplyFails: the pulses are sent whether or not the commit worked.
ApplyFailsAnnounces(s) ==
    /\ pc[s] = "apply"
    /\ Goto(s, "emit")
    /\ UNCHANGED <<log, db, disk, seen, batch, announced, losses>>

\* The transaction rolls back; the batch will be polled again.
ApplyFails(s) ==
    /\ pc[s] = "apply"
    /\ EndTick(s)
    /\ UNCHANGED <<log, db, disk, announced, losses>>

\* The pulses of the committed batch are sent; no await separates the sends.
Emit(s) ==
    /\ pc[s] = "emit"
    /\ announced' = [announced EXCEPT ![s] = Added(@, s)]
    /\ EndTick(s)
    /\ UNCHANGED <<log, db, disk, losses>>

\* Mutant of Wake: the loop polls with the cursor it holds, without reading it.
WakeWithoutReading(s) ==
    /\ pc[s] = "sleep"
    /\ Goto(s, "poll")
    /\ UNCHANGED <<log, db, disk, seen, batch, announced, losses>>

\* The interval is over.
Wake(s) ==
    /\ pc[s] = "sleep"
    /\ Goto(s, "top")
    /\ UNCHANGED <<log, db, disk, seen, batch, announced, losses>>

\* The log of committed transactions reaches the disk (WAL checkpoint).
Checkpoint ==
    /\ disk' = db
    /\ UNCHANGED <<log, db, pc, seen, batch, announced, losses>>

\* Store::init: every client with a rollup gets a device.
Backfilled(d) ==
    [d EXCEPT !.devices =
        @ \cup {ClientOf[k] : k \in {j \in Keys : \E s \in Sources : d.rollup[s][j] > 0}}]

\* Mutant of BootOn: the rollups survive a restart, the cursors do not.
BootForgetsCursors(d) ==
    /\ db' = [Backfilled(d) EXCEPT !.cursor = [s \in Sources |-> NoCursor]]
    /\ pc' = [s \in Sources |-> "top"]
    /\ seen' = [s \in Sources |-> NoCursor]
    /\ batch' = [s \in Sources |-> NoBatch]
    /\ announced' = NothingAnnounced
    /\ UNCHANGED <<log, disk>>

\* The process starts over on database d, with fresh loops and a new channel.
BootOn(d) ==
    /\ db' = Backfilled(d)
    /\ pc' = [s \in Sources |-> "top"]
    /\ seen' = [s \in Sources |-> NoCursor]
    /\ batch' = [s \in Sources |-> NoBatch]
    /\ announced' = NothingAnnounced
    /\ UNCHANGED <<log, disk>>

\* The process is killed and started again: every commit survives.
Restart == BootOn(db) /\ UNCHANGED losses

\* The machine loses power: only what had reached the disk survives.
PowerLoss ==
    /\ losses < MaxPowerLosses
    /\ losses' = losses + 1
    /\ BootOn(disk)

LoopStep(s) == \/ ReadCursor(s) \/ CursorFails(s)
               \/ Poll(s) \/ PollFails(s)
               \/ ApplyBatch(s) \/ ApplyFails(s)
               \/ Emit(s) \/ Wake(s)

Next == \/ \E s \in Sources : LoopStep(s) \/ \E k \in Keys : Query(s, k)
        \/ Checkpoint
        \/ Restart
        \/ PowerLoss

Spec == Init /\ [][Next]_vars

\* A loop task is always scheduled again (WF), and a store or a DNS server
\* that is asked over and over does not fail every time (SF), even though the
\* process may be killed again and again in between.
Fairness == \A s \in Sources : /\ SF_vars(ReadCursor(s))
                               /\ SF_vars(Poll(s))
                               /\ SF_vars(ApplyBatch(s))
                               /\ WF_vars(Emit(s))
                               /\ WF_vars(Wake(s))

FairSpec == Spec /\ Fairness
-----------------------------------------------------------------------------
\* The rollups of a database are those of the prefix of each log its cursor
\* stands for.
CountsPrefix(d) ==
    \A s \in Sources :
        /\ Offset(d.cursor[s]) <= Len(log[s])
        /\ \A k \in Keys :
             d.rollup[s][k] = Tally(log[s], 0, Offset(d.cursor[s]), k)

\* Exactly once: whatever fails and whenever the process dies, every logged
\* query up to the stored cursor is in the rollups once, and no later query
\* is in them (apply_batch commits rollups and cursor in one transaction).
ExactlyOnce == CountsPrefix(db)

\* The batch a loop is about to apply starts where the stored cursor stands,
\* although apply_batch overwrites the cursor without comparing it: nothing
\* moves the cursor between the read, the poll and the commit of one loop.
NoStaleBatch ==
    \A s \in Sources :
        pc[s] = "apply" => /\ seen[s] = db.cursor[s]
                           /\ batch[s].start = Offset(db.cursor[s])

\* Every query in a database has a device and a destination row.
Visible(d) ==
    \A s \in Sources, k \in Keys :
        d.rollup[s][k] > 0 => /\ ClientOf[k] \in d.devices
                              /\ DomainOf[k] \in d.destinations

\* No counted query is invisible: its client has a device, so list_devices'
\* join finds it, and its domain has a destination row.
CountedIsVisible == Visible(db)

\* The live channel never runs ahead of the store: a process announces no
\* query twice and none it has not committed (pulses are sent after the
\* commit, and a failed batch that is polled again was never announced).
AnnouncedWasCounted ==
    \A s \in Sources, k \in Keys : announced[s][k] <= db.rollup[s][k]

Promise == INSTANCE ExactlyOnce WITH
    done <- [s \in Sources |-> Offset(db.cursor[s])],
    tally <- db.rollup,
    saved <- [s \in Sources |-> Offset(disk.cursor[s])]

\* The loops implement the ingestion contract: every step of the daemon maps
\* to counting a whole batch, saving, falling back to a saved prefix, or to
\* nothing.
ImplementsPromise == Promise!Spec

\* Nothing is lost: every query a source has logged is eventually counted,
\* through failures, restarts and a bounded number of power losses.
EveryQueryCounted ==
    \A s \in Sources : \A i \in 1 .. MaxLog[s] :
        Len(log[s]) >= i ~> Offset(db.cursor[s]) >= i
=============================================================================
