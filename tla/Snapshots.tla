------------------------------ MODULE Snapshots ------------------------------
(***************************************************************************)
(* The weekly snapshots over the device overlay (daemon/src/store.rs):     *)
(* the periodic job of main.rs (snapshot_loop, snapshot_all_weeks) and     *)
(* what the diff endpoint reads back (week_diffs).  A snapshot row is      *)
(* reduced to its volume; the other columns are computed from the same     *)
(* folded rollups in the same statement.                                   *)
(*                                                                         *)
(* The job holds the connection mutex but has no transaction: every row    *)
(* commits on its own, so a failing statement or a kill in the middle      *)
(* leaves the rows written so far.                                         *)
(***************************************************************************)
EXTENDS DeviceRegistry, Functions

\* The cells of week w.
CellsOf(w) == {x \in Cells : x[2] \div HoursPerWeek = w}

VARIABLE snapshots  \* snapshots[d][w]: volume of the row of d and w, 0 if none

snapshotVars == <<opened, rollups, devices, mergedInto, nameUser, snapshots>>

SnapshotsTypeOK == /\ TypeOK
                   /\ snapshots \in [Clients -> [Weeks -> Nat]]

SnapshotsInit == /\ Init
                 /\ snapshots = [d \in Clients |-> [w \in Weeks |-> 0]]

\* SUM(count) of one client in week w.
Asked(c, w) == SumFunctionOnSet(rollups[c], CellsOf(w))

\* Mutant of Volume: the device's own rows are joined twice.
VolumeOwnTwice(d, w) ==
    Asked(d, w) + SumFunction([c \in Folded(d) |-> Asked(c, w)])

\* aggregate: the queries of d and everything folded into it, in week w.
Volume(d, w) == SumFunction([c \in Folded(d) |-> Asked(c, w)])

\* The weeks present in the data.
WeeksPresent == {w \in Weeks : \E c \in Clients : Asked(c, w) > 0}

\* The rows a full run writes: canonical devices with queries in that week.
Due == {r \in Listed \X WeeksPresent : Volume(r[1], r[2]) > 0}

\* Mutant of WriteRows: INSERT OR IGNORE keeps the row of an earlier run.
WriteNewRows(written) ==
    snapshots' = [d \in Clients |-> [w \in Weeks |->
                    IF <<d, w>> \in written /\ snapshots[d][w] = 0
                    THEN Volume(d, w) ELSE snapshots[d][w]]]

\* Upsert the rows of the pairs in written.
WriteRows(written) ==
    snapshots' = [d \in Clients |-> [w \in Weeks |->
                    IF <<d, w>> \in written THEN Volume(d, w) ELSE snapshots[d][w]]]

SnapshotAllWeeks ==
    /\ opened
    /\ WriteRows(Due)
    /\ UNCHANGED deviceVars

\* A statement fails or the process is killed before every row is written.
SnapshotCutShort ==
    /\ opened
    /\ \E written \in (SUBSET Due) \ {Due} : WriteRows(written)
    /\ UNCHANGED <<rollups, devices, mergedInto, nameUser>>
    /\ opened' \in BOOLEAN

SnapshotsNext == \/ DeviceStep /\ UNCHANGED snapshots
                 \/ SnapshotAllWeeks
                 \/ SnapshotCutShort

SnapshotsSpec == SnapshotsInit /\ [][SnapshotsNext]_snapshotVars

\* The ticker fires for as long as the process runs and a killed daemon is
\* started again; the job may fail, but not every time.
SnapshotsFairSpec ==
    /\ SnapshotsSpec
    /\ WF_snapshotVars(Open /\ UNCHANGED snapshots)
    /\ SF_snapshotVars(SnapshotAllWeeks)
-----------------------------------------------------------------------------
\* week_diffs lists one entry per snapshot row of the newest week.
NewestWeek == {w \in Weeks : /\ \E d \in Clients : snapshots[d][w] > 0
                             /\ \A v \in Weeks : v > w => \A d \in Clients : snapshots[d][v] = 0}
Diffed == {d \in Clients : \E w \in NewestWeek : snapshots[d][w] > 0}

\* stats: the queries of all clients in week w.
WeekTotal(w) == SumFunction([c \in Clients |-> Asked(c, w)])

\* A snapshot is never ahead of the data: no row claims more queries than
\* all clients together made in that week, and none is left behind for a
\* device that does not exist, however often devices were merged since.
SnapshotsNeverAhead ==
    \A d \in Clients, w \in Weeks : snapshots[d][w] > 0 =>
        d \in devices /\ snapshots[d][w] <= WeekTotal(w)

\* A complete run adds up: the rows it writes for a week hold every query of
\* that week once, whatever was merged (aggregate folds a partition).
FullRunAddsUp ==
    [][SnapshotAllWeeks =>
         \A w \in Weeks :
            SumFunction([d \in {d \in Listed : Volume(d, w) > 0} |-> snapshots'[d][w]])
              = WeekTotal(w)]_snapshotVars

\* The job catches up: once queries and merges stop, the row of every listed
\* device and week is its folded activity, also after runs cut short.
SnapshotsCatchUp ==
    []<>(\A d \in Listed, w \in Weeks : Volume(d, w) > 0 => snapshots[d][w] = Volume(d, w))

\* WeekDiff: "One canonical device's week-over-week change"; week_diffs: "Per
\* canonical device".  Every device the diff lists is one the list shows.
DiffsPerCanonicalDevice == Diffed \subseteq Listed
=============================================================================
