----------------------------- MODULE StoreProofs ------------------------------
(***************************************************************************)
(* Theorems about the store's overlay and read side, for every set of      *)
(* clients, domains, hours and names and every cap of the walk.            *)
(*   DeviceRegistry: merges never form a chain, the walk of                *)
(*     resolve_canonical is the one hop of the read queries, every counted *)
(*     query is listed once, and groups move whole.                        *)
(*   Snapshots: implements DeviceRegistry; no snapshot is ahead of the     *)
(*     data, and a complete run adds up to the week and catches up.        *)
(*   Enrichment: subdomains inherit, for every name and all tables.        *)
(*   Projections: implements DeviceRegistry; the list, the arcs, what is   *)
(*     behind them and the windows add up, and new trackers come first.    *)
(*   Score: a percentage that a tracker query never improves and that no   *)
(*     merge hides.                                                        *)
(***************************************************************************)
EXTENDS Snapshots, Projections, FiniteSetFacts

USE HopsAssumption, CountAssumption, NullAssumption

\* An alias and its target have device rows, and the target is no alias.
ShallowAliases ==
    \A d \in Clients : mergedInto[d] # NoDevice =>
        /\ d \in devices
        /\ mergedInto[d] \in devices
        /\ mergedInto[mergedInto[d]] = NoDevice

\* Once the store is open, what has been counted has a device row.
ActiveKnown == opened => Active \subseteq devices

IInv == TypeOK /\ ShallowAliases /\ ActiveKnown
-----------------------------------------------------------------------------
\* A walk that starts at a canonical device stays there; one that starts at an
\* alias takes one hop.
LEMMA WalkEndUnique ==
    ASSUME TypeOK, ShallowAliases, NEW d \in Clients, NEW end \in Clients, WalkEnd(d, end)
    PROVE  end = FoldOwner(d)
<1>0. PICK n \in 0 .. MaxHops : \E p \in [0 .. n -> Clients] :
         /\ p[0] = d /\ p[n] = end
         /\ IsWalk(p, n)
         /\ mergedInto[end] = NoDevice \/ n = MaxHops
  BY DEF WalkEnd
<1>1. PICK p \in [0 .. n -> Clients] :
         /\ p[0] = d /\ p[n] = end
         /\ IsWalk(p, n)
         /\ mergedInto[end] = NoDevice \/ n = MaxHops
  BY <1>0
<1>2. \A i \in 1 .. n : /\ p[i - 1] \in Clients /\ p[i] \in Clients
                        /\ mergedInto[p[i - 1]] = p[i]
                        /\ mergedInto[p[i - 1]] # NoDevice
  BY <1>1 DEF IsWalk
<1>3. n >= 1 => mergedInto[d] = p[1] /\ mergedInto[d] # NoDevice
  BY <1>1, <1>2
<1>4. n < 2
  <2>1. SUFFICES ASSUME n >= 2 PROVE FALSE  BY <1>1
  <2>2. mergedInto[p[1]] # NoDevice
    <3>1. 2 \in 1 .. n /\ 2 - 1 = 1  BY <1>1, <2>1
    <3> QED  BY <1>2, <3>1
  <2>3. mergedInto[mergedInto[d]] = NoDevice  BY <1>3, <2>1 DEF ShallowAliases
  <2> QED  BY <1>3, <2>1, <2>2, <2>3
<1>5. CASE n = 0
  <2>1. end = d /\ mergedInto[d] = NoDevice  BY <1>1, <1>5
  <2> QED  BY <2>1 DEF FoldOwner
<1>6. CASE n = 1
  BY <1>1, <1>3, <1>6 DEF FoldOwner
<1> QED  BY <1>1, <1>4, <1>5, <1>6

\* The walk reaches the device that the read queries fold into.
LEMMA WalkEndExists ==
    ASSUME TypeOK, ShallowAliases, NEW d \in Clients
    PROVE  FoldOwner(d) \in Clients /\ WalkEnd(d, FoldOwner(d))
<1>1. CASE mergedInto[d] = NoDevice
  <2> DEFINE p == [i \in 0 .. 0 |-> d]
  <2>1. 0 \in 0 .. MaxHops /\ p \in [0 .. 0 -> Clients] /\ p[0] = d
    OBVIOUS
  <2>2. IsWalk(p, 0)  BY DEF IsWalk
  <2>3. \E q \in [0 .. 0 -> Clients] :
           /\ q[0] = d /\ q[0] = d
           /\ IsWalk(q, 0)
           /\ mergedInto[d] = NoDevice \/ 0 = MaxHops
    <3> HIDE DEF p
    <3> QED  BY <1>1, <2>1, <2>2
  <2>4. WalkEnd(d, d)  BY <2>1, <2>3 DEF WalkEnd
  <2> QED  BY <1>1, <2>4 DEF FoldOwner
<1>2. CASE mergedInto[d] # NoDevice
  <2> DEFINE e == mergedInto[d]
             p == [i \in 0 .. 1 |-> IF i = 0 THEN d ELSE e]
  <2>1. e \in Clients /\ mergedInto[e] = NoDevice
    BY <1>2 DEF TypeOK, ShallowAliases
  <2>2. 1 \in 0 .. MaxHops /\ p \in [0 .. 1 -> Clients] /\ p[0] = d /\ p[1] = e
    BY <2>1
  <2>3. IsWalk(p, 1)  BY <2>2 DEF IsWalk
  <2> QED  BY <1>2, <2>1, <2>2, <2>3 DEF WalkEnd, FoldOwner
<1> QED  BY <1>1, <1>2

\* resolve_canonical and the one hop of list_devices agree.
LEMMA CanonicalIsFoldOwner ==
    ASSUME TypeOK, ShallowAliases, NEW d \in Clients
    PROVE  Canonical(d) = FoldOwner(d)
BY WalkEndUnique, WalkEndExists DEF Canonical

\* The target a merge resolves to is a canonical device with a row.
LEMMA TargetIsListed ==
    ASSUME TypeOK, ShallowAliases, NEW d \in devices
    PROVE  /\ d \in Clients
           /\ Canonical(d) \in Clients
           /\ Canonical(d) \in devices
           /\ mergedInto[Canonical(d)] = NoDevice
<1>1. d \in Clients  BY DEF TypeOK
<1>2. Canonical(d) = FoldOwner(d)  BY <1>1, CanonicalIsFoldOwner
<1> QED  BY <1>1, <1>2 DEF FoldOwner, ShallowAliases, TypeOK
-----------------------------------------------------------------------------
\* The initial states satisfy the inductive invariant.
LEMMA InitIInv == Init => IInv
<1> SUFFICES ASSUME Init PROVE IInv  OBVIOUS
<1>1. rollups \in [Clients -> [Cells -> Nat]]
  <2>1. 0 .. MaxCount \subseteq Nat  OBVIOUS
  <2>2. \A c \in Clients : rollups[c] \in [Cells -> Nat]
    BY <2>1 DEF Init
  <2> QED  BY <2>2 DEF Init
<1>2. TypeOK  BY <1>1 DEF Init, TypeOK
<1>3. ShallowAliases /\ ActiveKnown  BY DEF Init, ShallowAliases, ActiveKnown
<1> QED  BY <1>2, <1>3 DEF IInv

\* A committed batch preserves it: its clients get rows with their rollups.
LEMMA ApplyBatchIInv ==
    ASSUME IInv, NEW batch \in SUBSET Clients, NEW w \in Cells, ApplyBatch(batch, w)
    PROVE  IInv'
<1>1. TypeOK'
  <2>1. ASSUME NEW c \in Clients
        PROVE  [rollups[c] EXCEPT ![w] = @ + 1] \in [Cells -> Nat]
    BY DEF IInv, TypeOK
  <2>2. rollups' \in [Clients -> [Cells -> Nat]]
    BY <2>1 DEF IInv, TypeOK, ApplyBatch
  <2> QED  BY <2>2 DEF IInv, TypeOK, ApplyBatch
<1>2. ShallowAliases'  BY DEF IInv, ShallowAliases, ApplyBatch
<1>3. ASSUME NEW c \in Clients, NEW v \in Cells, rollups'[c][v] > 0
      PROVE  c \in devices'
  <2>1. CASE c \in batch  BY <2>1 DEF ApplyBatch
  <2>2. CASE c \notin batch
    <3>1. rollups'[c] = rollups[c]  BY <2>2 DEF ApplyBatch
    <3> QED  BY <1>3, <3>1 DEF IInv, ActiveKnown, Active, ApplyBatch
  <2> QED  BY <2>1, <2>2
<1>4. ActiveKnown'  BY <1>3 DEF ActiveKnown, Active
<1> QED  BY <1>1, <1>2, <1>4 DEF IInv

\* A merge preserves it: the aliases of the source move to a canonical target.
LEMMA MergeIInv ==
    ASSUME IInv, NEW source \in Clients, NEW into \in Clients, Merge(source, into)
    PROVE  IInv'
<1> DEFINE canon == Canonical(into)
<1>1. /\ source \in devices /\ into \in devices /\ canon # source
      /\ mergedInto' = [d \in Clients |->
            IF d = source \/ mergedInto[d] = source THEN canon ELSE mergedInto[d]]
      /\ UNCHANGED <<opened, rollups, devices, nameUser>>
  BY DEF Merge
<1>2. canon \in Clients /\ canon \in devices /\ mergedInto[canon] = NoDevice
  BY <1>1, TargetIsListed DEF IInv
<1>3. TypeOK'  BY <1>1, <1>2 DEF IInv, TypeOK
<1>4. mergedInto'[canon] = NoDevice  BY <1>1, <1>2
<1>5. ASSUME NEW d \in Clients, mergedInto'[d] # NoDevice
      PROVE  /\ d \in devices'
             /\ mergedInto'[d] \in devices'
             /\ mergedInto'[mergedInto'[d]] = NoDevice
  <2>1. CASE d = source \/ mergedInto[d] = source
    BY <1>1, <1>2, <1>4, <2>1 DEF IInv, ShallowAliases
  <2>2. CASE ~(d = source \/ mergedInto[d] = source)
    <3>1. mergedInto'[d] = mergedInto[d]  BY <1>1, <2>2
    <3>2. /\ d \in devices /\ mergedInto[d] \in devices
          /\ mergedInto[mergedInto[d]] = NoDevice
          /\ mergedInto[d] \in Clients
      BY <1>5, <3>1 DEF IInv, ShallowAliases, TypeOK
    <3>3. mergedInto'[mergedInto[d]] = NoDevice
      BY <1>1, <2>2, <3>2
    <3> QED  BY <1>1, <3>1, <3>2, <3>3
  <2> QED  BY <2>1, <2>2
<1>6. ShallowAliases'  BY <1>5 DEF ShallowAliases
<1>7. ActiveKnown'  BY <1>1 DEF IInv, ActiveKnown, Active
<1> QED  BY <1>3, <1>6, <1>7 DEF IInv

\* Every step, and every stutter, preserves the inductive invariant.
LEMMA NextIInv == IInv /\ [DeviceStep]_deviceVars => IInv'
<1> SUFFICES ASSUME IInv, [DeviceStep]_deviceVars PROVE IInv'  OBVIOUS
<1> USE DEF IInv
<1>1. CASE Open
  BY <1>1 DEF Open, TypeOK, ShallowAliases, ActiveKnown, Active
<1>2. CASE Close
  BY <1>2 DEF Close, TypeOK, ShallowAliases, ActiveKnown
<1>3. ASSUME NEW batch \in (SUBSET Clients) \ {{}}, NEW w \in Cells, ApplyBatch(batch, w)
      PROVE  IInv'
  BY <1>3, ApplyBatchIInv
<1>4. ASSUME NEW d \in Clients, NEW name \in Names \cup {NoName}, Rename(d, name)
      PROVE  IInv'
  BY <1>4 DEF Rename, TypeOK, ShallowAliases, ActiveKnown, Active
<1>5. ASSUME NEW source \in Clients, NEW into \in Clients, Merge(source, into)
      PROVE  IInv'
  BY <1>5, MergeIInv
<1>6. CASE UNCHANGED deviceVars
  BY <1>6 DEF deviceVars, TypeOK, ShallowAliases, ActiveKnown, Active
<1> QED  BY <1>1, <1>2, <1>3, <1>4, <1>5, <1>6 DEF DeviceStep

\* The inductive invariant holds in every reachable state (apply_batch,
\* backfill_devices, rename_device, merge_devices).
THEOREM InductiveInvariant == Spec => []IInv
BY InitIInv, NextIInv, PTL DEF Spec

\* Type correctness of the device overlay.
THEOREM TypeCorrect == Spec => []TypeOK
BY InductiveInvariant, PTL DEF IInv

\* Merges never form a chain or a cycle, so the one hop of the read queries
\* and the walk of resolve_canonical agree (merge_devices).
THEOREM AliasesPointAtCanonicalHolds == Spec => []AliasesPointAtCanonical
<1>1. IInv => AliasesPointAtCanonical
  <2> SUFFICES ASSUME IInv, NEW d \in Clients, mergedInto[d] # NoDevice
               PROVE  /\ d \in devices
                      /\ mergedInto[d] \in Listed
                      /\ Canonical(d) = FoldOwner(d)
    BY DEF AliasesPointAtCanonical
  <2> QED  BY CanonicalIsFoldOwner DEF IInv, ShallowAliases, Listed
<1> QED  BY <1>1, InductiveInvariant, PTL

\* Every client with counted queries is folded into exactly one listed device
\* (backfill_devices, apply_batch, list_devices).
THEOREM EveryQueryListedOnceHolds == Spec => []EveryQueryListedOnce
<1>1. IInv => EveryQueryListedOnce
  <2> SUFFICES ASSUME IInv, opened, NEW c \in Active
               PROVE  {d \in Listed : c \in Folded(d)} = {FoldOwner(c)}
    BY DEF EveryQueryListedOnce
  <2>1. c \in Clients /\ c \in devices  BY DEF IInv, ActiveKnown, Active
  <2>2. FoldOwner(c) \in Listed
    BY <2>1 DEF FoldOwner, Listed, IInv, ShallowAliases
  <2>3. \A d : c \in Folded(d) <=> FoldOwner(c) = d  BY <2>1 DEF Folded
  <2> QED  BY <2>2, <2>3
<1> QED  BY <1>1, InductiveInvariant, PTL
-----------------------------------------------------------------------------
\* What GroupsMoveWhole says of one step and one device.
MovesWhole(c) ==
    /\ mergedInto[c] # NoDevice => mergedInto'[c] # NoDevice
    /\ FoldOwner(c)' # FoldOwner(c) =>
         \/ \A x \in Folded(FoldOwner(c)) : FoldOwner(x)' = FoldOwner(c)'
         \/ /\ mergedInto[c] # NoDevice
            /\ \A x \in devices \ {c} : FoldOwner(x)' = FoldOwner(x)

\* A merge of a canonical device takes its aliases along; a merge of an alias,
\* which has no aliases of its own, moves nothing else.
LEMMA MergeMovesWhole ==
    ASSUME IInv, NEW source \in Clients, NEW into \in Clients, Merge(source, into),
           NEW c \in devices
    PROVE  MovesWhole(c)
<1> DEFINE canon == Canonical(into)
<1>1. /\ into \in devices
      /\ mergedInto' = [d \in Clients |->
            IF d = source \/ mergedInto[d] = source THEN canon ELSE mergedInto[d]]
  BY DEF Merge
<1>2. canon # NoDevice
  BY <1>1, TargetIsListed DEF IInv
<1>3. devices \subseteq Clients  BY DEF IInv, TypeOK
<1>4. \A x \in devices : IF x = source \/ mergedInto[x] = source
                         THEN FoldOwner(x)' = canon /\ mergedInto'[x] = canon
                         ELSE FoldOwner(x)' = FoldOwner(x) /\ mergedInto'[x] = mergedInto[x]
  BY <1>1, <1>2, <1>3 DEF FoldOwner
<1>5. mergedInto[c] # NoDevice => mergedInto'[c] # NoDevice
  BY <1>2, <1>4
<1>6. ASSUME FoldOwner(c)' # FoldOwner(c)
      PROVE  \/ \A x \in Folded(FoldOwner(c)) : FoldOwner(x)' = FoldOwner(c)'
             \/ /\ mergedInto[c] # NoDevice
                /\ \A x \in devices \ {c} : FoldOwner(x)' = FoldOwner(x)
  <2>1. (c = source \/ mergedInto[c] = source) /\ FoldOwner(c)' = canon
    BY <1>4, <1>6
  <2>2. CASE mergedInto[source] = NoDevice
    <3>1. FoldOwner(c) = source  BY <2>1, <2>2 DEF FoldOwner, IInv, TypeOK
    <3>2. \A x \in Folded(source) : x \in devices /\ (x = source \/ mergedInto[x] = source)
      BY DEF Folded, FoldOwner
    <3> QED  BY <1>4, <2>1, <3>1, <3>2
  <2>3. CASE mergedInto[source] # NoDevice
    <3>1. \A x \in devices : mergedInto[x] # source
      BY <1>3, <2>3 DEF IInv, ShallowAliases
    <3>2. c = source  BY <2>1, <3>1
    <3> QED  BY <1>4, <2>3, <3>1, <3>2
  <2> QED  BY <2>2, <2>3
<1> QED  BY <1>5, <1>6 DEF MovesWhole

\* A step that leaves the aliases alone moves nothing.
LEMMA AliasesKeptMovesWhole ==
    ASSUME UNCHANGED mergedInto, NEW c \in devices
    PROVE  MovesWhole(c)
BY DEF MovesWhole, FoldOwner

\* No step makes an alias canonical again, and a merge moves a whole group or
\* one alias (merge_devices, upsert_device, backfill_devices).
THEOREM GroupsMoveWholeHolds == Spec => GroupsMoveWhole
<1>1. IInv /\ [DeviceStep]_deviceVars => [\A c \in devices : MovesWhole(c)]_deviceVars
  <2> SUFFICES ASSUME IInv, DeviceStep, NEW c \in devices PROVE MovesWhole(c)
    OBVIOUS
  <2>1. ASSUME NEW source \in Clients, NEW into \in Clients, Merge(source, into)
        PROVE  MovesWhole(c)
    BY <2>1, MergeMovesWhole
  <2>2. CASE UNCHANGED mergedInto  BY <2>2, AliasesKeptMovesWhole
  <2> QED  BY <2>1, <2>2 DEF DeviceStep, Open, Close, ApplyBatch, Rename
<1>2. Spec => [][\A c \in devices : MovesWhole(c)]_deviceVars
  BY <1>1, InductiveInvariant, PTL DEF Spec
<1> QED  BY <1>2 DEF GroupsMoveWhole, MovesWhole
-----------------------------------------------------------------------------
(* Snapshots *)

\* What a run writes and what a killed one leaves is a step of the overlay, or
\* none: the snapshots implement DeviceRegistry.
THEOREM SnapshotsImplementRegistry == SnapshotsSpec => Spec
<1>1. SnapshotsInit => Init  BY DEF SnapshotsInit
<1>2. [SnapshotsNext]_snapshotVars => [DeviceStep]_deviceVars
  <2> SUFFICES ASSUME [SnapshotsNext]_snapshotVars PROVE [DeviceStep]_deviceVars
    OBVIOUS
  <2>1. CASE SnapshotAllWeeks  BY <2>1 DEF SnapshotAllWeeks
  <2>2. CASE SnapshotCutShort
    BY <2>2 DEF SnapshotCutShort, DeviceStep, Close, deviceVars
  <2> QED  BY <2>1, <2>2 DEF SnapshotsNext, snapshotVars, deviceVars
<1> QED  BY <1>1, <1>2, PTL DEF SnapshotsSpec, Spec

\* So what is proved of the overlay holds while snapshots are taken and cut
\* short (snapshot_all_weeks, merge_devices, apply_batch).
THEOREM OverlayUnderSnapshots ==
    SnapshotsSpec => []AliasesPointAtCanonical /\ []EveryQueryListedOnce /\ GroupsMoveWhole
BY SnapshotsImplementRegistry, AliasesPointAtCanonicalHolds, EveryQueryListedOnceHolds,
   GroupsMoveWholeHolds

\* The cells of a week are finitely many.
LEMMA CellsFinite ==
    /\ IsFiniteSet(Cells)
    /\ \A w : CellsOf(w) \subseteq Cells /\ IsFiniteSet(CellsOf(w))
<1>1. IsFiniteSet(Cells)  BY FiniteAssumption, FS_Product DEF Cells
<1> QED  BY <1>1, FS_Subset DEF CellsOf

\* Queries counted are a natural number, and none without rollups.
LEMMA AskedType ==
    ASSUME TypeOK, NEW c \in Clients, NEW w
    PROVE  /\ Asked(c, w) \in Nat
           /\ c \notin Active => Asked(c, w) = 0
<1>1. \A x \in CellsOf(w) : rollups[c][x] \in Nat  BY CellsFinite DEF TypeOK
<1>2. Asked(c, w) \in Nat  BY <1>1, CellsFinite, SumType DEF Asked
<1>3. ASSUME c \notin Active PROVE Asked(c, w) = 0
  <2>1. \A x \in CellsOf(w) : rollups[c][x] = 0
    BY <1>1, <1>3, CellsFinite DEF Active
  <2> QED  BY <2>1, CellsFinite, SumZero DEF Asked
<1> QED  BY <1>2, <1>3

\* The queries of every client in a week.
AskedIn(w) == [c \in Clients |-> Asked(c, w)]

\* The volume of a device and the total of a week sum the same terms.
LEMMA VolumeIsSum ==
    ASSUME TypeOK, NEW w
    PROVE  /\ \A c \in Clients : AskedIn(w)[c] \in Nat
           /\ \A d : Volume(d, w) = SumFunctionOnSet(AskedIn(w), Folded(d))
           /\ WeekTotal(w) = SumFunctionOnSet(AskedIn(w), Clients)
           /\ \A d : Volume(d, w) \in Nat /\ Volume(d, w) <= WeekTotal(w)
           /\ WeekTotal(w) \in Nat
<1>1. \A c \in Clients : AskedIn(w)[c] = Asked(c, w) /\ AskedIn(w)[c] \in Nat
  BY AskedType DEF AskedIn
<1>2. \A d : Folded(d) \subseteq Clients /\ IsFiniteSet(Folded(d))
  BY FiniteAssumption, FS_Subset DEF Folded, TypeOK
<1>3. ASSUME NEW d PROVE Volume(d, w) = SumFunctionOnSet(AskedIn(w), Folded(d))
  <2> DEFINE f == [c \in Folded(d) |-> Asked(c, w)]
  <2>1. \A c \in Folded(d) : f[c] = AskedIn(w)[c]  BY <1>1, <1>2
  <2>2. Volume(d, w) = SumFunctionOnSet(f, Folded(d))  BY DEF Volume, SumFunction
  <2> HIDE DEF f
  <2> QED  BY <1>2, <2>1, <2>2, SumEqual
<1>4. WeekTotal(w) = SumFunctionOnSet(AskedIn(w), Clients)
  BY DEF WeekTotal, SumFunction, AskedIn
<1>5. \A d : Volume(d, w) \in Nat /\ Volume(d, w) <= WeekTotal(w)
  BY <1>1, <1>2, <1>3, <1>4, FiniteAssumption, SumType, SumPart
<1>6. WeekTotal(w) \in Nat  BY <1>1, <1>4, FiniteAssumption, SumType
<1> QED  BY <1>1, <1>3, <1>4, <1>5, <1>6

\* What a week held it keeps: counts only grow, and devices only get more.
LEMMA TotalsGrow ==
    ASSUME TypeOK, [DeviceStep]_deviceVars, TypeOK', NEW w
    PROVE  WeekTotal(w) <= WeekTotal(w)' /\ devices \subseteq devices'
<1>1. /\ devices \subseteq devices'
      /\ \A c \in Clients, x \in Cells : rollups[c][x] <= rollups'[c][x]
  <2>1. CASE UNCHANGED <<rollups, devices>>  BY <2>1 DEF TypeOK
  <2>2. CASE Open  BY <2>2 DEF Open, TypeOK
  <2>3. ASSUME NEW batch \in SUBSET Clients, NEW v \in Cells, ApplyBatch(batch, v)
        PROVE  /\ devices \subseteq devices'
               /\ \A c \in Clients, x \in Cells : rollups[c][x] <= rollups'[c][x]
    BY <2>3 DEF ApplyBatch, TypeOK
  <2> QED  BY <2>1, <2>2, <2>3 DEF DeviceStep, deviceVars, Close, Rename, Merge
<1>2. ASSUME NEW c \in Clients PROVE Asked(c, w) <= Asked(c, w)'
  <2>1. \A x \in CellsOf(w) : /\ rollups[c][x] \in Nat /\ rollups'[c][x] \in Nat
                               /\ rollups[c][x] <= rollups'[c][x]
    BY <1>1, CellsFinite DEF TypeOK
  <2> QED  BY <2>1, CellsFinite, SumMonotone DEF Asked
<1>3. \A c \in Clients : Asked(c, w) \in Nat /\ Asked(c, w)' \in Nat
  <2>1. \A c \in Clients : Asked(c, w) \in Nat  BY AskedType
  <2>2. \A c \in Clients : \A x \in CellsOf(w) : rollups'[c][x] \in Nat
    BY CellsFinite DEF TypeOK
  <2>3. \A c \in Clients : Asked(c, w)' \in Nat
    BY <2>2, CellsFinite, SumType DEF Asked
  <2> QED  BY <2>1, <2>3
<1> DEFINE f == [c \in Clients |-> Asked(c, w)]
           g == [c \in Clients |-> Asked(c, w)']
<1>4. \A c \in Clients : f[c] \in Nat /\ g[c] \in Nat /\ f[c] <= g[c]  BY <1>2, <1>3
<1>5. /\ WeekTotal(w) = SumFunctionOnSet(f, Clients)
      /\ WeekTotal(w)' = SumFunctionOnSet(g, Clients)
  BY DEF WeekTotal, SumFunction
<1> HIDE DEF f, g
<1> QED  BY <1>1, <1>4, <1>5, FiniteAssumption, SumMonotone

\* The inductive invariant of the snapshots.
SnapshotsIInv == IInv /\ SnapshotsTypeOK /\ SnapshotsNeverAhead

\* Rows that are due may be written, all of them or some.
LEMMA WriteRowsNeverAhead ==
    ASSUME SnapshotsIInv, NEW written \in SUBSET Due, WriteRows(written),
           UNCHANGED <<rollups, devices, mergedInto>>
    PROVE  /\ snapshots' \in [Clients -> [Weeks -> Nat]]
           /\ SnapshotsNeverAhead'
<1> USE DEF SnapshotsIInv
<1>1. TypeOK  BY DEF IInv
<1>2. \A d \in Clients, w \in Weeks :
         snapshots'[d][w] = IF <<d, w>> \in written THEN Volume(d, w) ELSE snapshots[d][w]
  BY DEF WriteRows
<1>3. ASSUME NEW d \in Clients, NEW w \in Weeks
      PROVE  /\ snapshots'[d][w] \in Nat
             /\ snapshots'[d][w] > 0 => d \in devices /\ snapshots'[d][w] <= WeekTotal(w)
  <2>1. CASE <<d, w>> \in written
    <3>1. d \in devices  BY <2>1 DEF Due, Listed
    <3>2. Volume(d, w) \in Nat /\ Volume(d, w) <= WeekTotal(w)  BY <1>1, VolumeIsSum
    <3> QED  BY <1>2, <2>1, <3>1, <3>2
  <2>2. CASE <<d, w>> \notin written
    BY <1>2, <2>2 DEF SnapshotsTypeOK, SnapshotsNeverAhead
  <2> QED  BY <2>1, <2>2
<1>4. snapshots' \in [Clients -> [Weeks -> Nat]]
  <2>1. \A d \in Clients : snapshots'[d] \in [Weeks -> Nat]  BY <1>3 DEF WriteRows
  <2> QED  BY <2>1 DEF WriteRows
<1>5. \A w : WeekTotal(w)' = WeekTotal(w)  BY DEF WeekTotal, Asked
<1>6. SnapshotsNeverAhead'  BY <1>3, <1>5 DEF SnapshotsNeverAhead
<1> QED  BY <1>4, <1>6

\* Every step preserves the inductive invariant of the snapshots.
LEMMA SnapshotsNextIInv == SnapshotsIInv /\ [SnapshotsNext]_snapshotVars => SnapshotsIInv'
<1> SUFFICES ASSUME SnapshotsIInv, [SnapshotsNext]_snapshotVars PROVE SnapshotsIInv'
  OBVIOUS
<1> USE DEF SnapshotsIInv
<1>1. CASE [DeviceStep]_deviceVars /\ UNCHANGED snapshots
  <2>1. IInv'  BY <1>1, NextIInv
  <2>2. SnapshotsTypeOK'  BY <1>1, <2>1 DEF SnapshotsTypeOK, IInv
  <2>3. ASSUME NEW d \in Clients, NEW w \in Weeks, snapshots'[d][w] > 0
        PROVE  d \in devices' /\ snapshots'[d][w] <= WeekTotal(w)'
    <3>1. /\ d \in devices /\ snapshots[d][w] <= WeekTotal(w) /\ snapshots[d][w] \in Nat
          /\ snapshots'[d][w] = snapshots[d][w]
      BY <1>1, <2>3 DEF SnapshotsNeverAhead, SnapshotsTypeOK
    <3>2. WeekTotal(w) <= WeekTotal(w)' /\ devices \subseteq devices'
      BY <1>1, <2>1, TotalsGrow DEF IInv
    <3>3. WeekTotal(w) \in Nat  BY VolumeIsSum DEF IInv
    <3>4. WeekTotal(w)' \in Nat
      <4>1. ASSUME NEW c \in Clients PROVE Asked(c, w)' \in Nat
        <5>1. \A x \in CellsOf(w) : rollups'[c][x] \in Nat
          BY <2>1, CellsFinite DEF IInv, TypeOK
        <5> QED  BY <5>1, CellsFinite, SumType DEF Asked
      <4> DEFINE g == [c \in Clients |-> Asked(c, w)']
      <4>2. WeekTotal(w)' = SumFunctionOnSet(g, Clients)  BY DEF WeekTotal, SumFunction
      <4>3. \A c \in Clients : g[c] \in Nat  BY <4>1
      <4> HIDE DEF g
      <4> QED  BY <4>2, <4>3, FiniteAssumption, SumType
    <3> QED  BY <3>1, <3>2, <3>3, <3>4
  <2>4. SnapshotsNeverAhead'  BY <2>3 DEF SnapshotsNeverAhead
  <2> QED  BY <2>1, <2>2, <2>4
<1>2. CASE SnapshotAllWeeks
  <2>1. UNCHANGED deviceVars /\ WriteRows(Due)  BY <1>2 DEF SnapshotAllWeeks
  <2>2. IInv'  BY <2>1, NextIInv
  <2>3. snapshots' \in [Clients -> [Weeks -> Nat]] /\ SnapshotsNeverAhead'
    BY <2>1, WriteRowsNeverAhead DEF deviceVars
  <2> QED  BY <2>2, <2>3 DEF SnapshotsTypeOK, IInv
<1>3. CASE SnapshotCutShort
  <2>1. PICK written \in SUBSET Due : WriteRows(written)  BY <1>3 DEF SnapshotCutShort
  <2>2. UNCHANGED <<rollups, devices, mergedInto, nameUser>> /\ [DeviceStep]_deviceVars
    BY <1>3 DEF SnapshotCutShort, DeviceStep, Close, deviceVars
  <2>3. IInv'  BY <2>2, NextIInv
  <2>4. snapshots' \in [Clients -> [Weeks -> Nat]] /\ SnapshotsNeverAhead'
    BY <2>1, <2>2, WriteRowsNeverAhead
  <2> QED  BY <2>3, <2>4 DEF SnapshotsTypeOK, IInv
<1> QED  BY <1>1, <1>2, <1>3 DEF SnapshotsNext, snapshotVars, deviceVars

\* The invariant holds in every reachable state of the snapshot job (apply_batch,
\* merge_devices, snapshot_all_weeks, also when it is cut short).
THEOREM SnapshotsInductive == SnapshotsSpec => []SnapshotsIInv
<1>1. SnapshotsInit => SnapshotsIInv
  <2> SUFFICES ASSUME SnapshotsInit PROVE SnapshotsIInv  OBVIOUS
  <2>1. IInv  BY InitIInv DEF SnapshotsInit
  <2>2. snapshots = [d \in Clients |-> [w \in Weeks |-> 0]]  BY DEF SnapshotsInit
  <2>3. SnapshotsTypeOK  BY <2>1, <2>2 DEF SnapshotsTypeOK, IInv
  <2>4. SnapshotsNeverAhead  BY <2>2 DEF SnapshotsNeverAhead
  <2> QED  BY <2>1, <2>3, <2>4 DEF SnapshotsIInv
<1> QED  BY <1>1, SnapshotsNextIInv, PTL DEF SnapshotsSpec

\* No snapshot row claims more than its week holds or stands for a device that
\* does not exist, however often devices are merged and runs cut short
\* (snapshot_all_weeks, merge_devices).
THEOREM SnapshotsNeverAheadHolds == SnapshotsSpec => []SnapshotsNeverAhead
BY SnapshotsInductive, PTL DEF SnapshotsIInv

\* The listed devices part the clients that have asked for something.
LEMMA FoldedPartition ==
    ASSUME IInv, opened
    PROVE  /\ \A k \in Listed : Folded(k) \subseteq devices /\ k \in Clients
           /\ \A j, k \in Listed : j # k => Folded(j) \cap Folded(k) = {}
           /\ \A c \in Clients : c \notin UNION {Folded(k) : k \in Listed} => c \notin Active
<1>1. devices \subseteq Clients  BY DEF IInv, TypeOK
<1>2. ASSUME NEW c \in Active PROVE c \in UNION {Folded(k) : k \in Listed}
  <2>1. c \in devices  BY DEF IInv, ActiveKnown
  <2>2. FoldOwner(c) \in Listed
    BY <1>1, <2>1 DEF FoldOwner, Listed, IInv, ShallowAliases
  <2> QED  BY <2>1, <2>2 DEF Folded
<1> QED  BY <1>1, <1>2 DEF Folded, Listed

\* The volumes of the listed devices add up to the week.
LEMMA VolumesAddUp ==
    ASSUME IInv, opened, NEW w, NEW volume,
           \A d \in Listed : volume[d] = Volume(d, w)
    PROVE  SumFunctionOnSet(volume, Listed) = WeekTotal(w)
<1> DEFINE part == [d \in Listed |-> Folded(d)]
           all == UNION {part[d] : d \in Listed}
<1>1. TypeOK /\ IsFiniteSet(Clients)  BY FiniteAssumption DEF IInv
<1>2. /\ \A c \in Clients : AskedIn(w)[c] \in Nat
      /\ WeekTotal(w) = SumFunctionOnSet(AskedIn(w), Clients)
  BY <1>1, VolumeIsSum
<1>3. \A d \in Listed : /\ part[d] \subseteq Clients
                         /\ volume[d] = SumFunctionOnSet(AskedIn(w), part[d])
  BY <1>1, VolumeIsSum, FoldedPartition DEF TypeOK
<1>4. \A j, k \in Listed : j # k => part[j] \cap part[k] = {}  BY FoldedPartition
<1>5. IsFiniteSet(Listed)  BY <1>1, FoldedPartition, FS_Subset
<1>6. all \in SUBSET Clients /\ \A c \in Clients \ all : AskedIn(w)[c] = 0
  <2>1. all = UNION {Folded(d) : d \in Listed}  OBVIOUS
  <2>2. all \subseteq Clients  BY <1>3
  <2> HIDE DEF all
  <2>3. \A c \in Clients \ all : AskedIn(w)[c] = 0
    BY <1>1, <2>1, FoldedPartition, AskedType DEF AskedIn
  <2> QED  BY <2>2, <2>3
<1> HIDE DEF part
<1>7. SumFunctionOnSet(volume, Listed) = SumFunctionOnSet(AskedIn(w), all)
  BY <1>1, <1>2, <1>3, <1>4, <1>5, SumOfParts
<1> HIDE DEF all
<1>8. SumFunctionOnSet(AskedIn(w), all) = SumFunctionOnSet(AskedIn(w), Clients)
  BY <1>1, <1>2, <1>6, SumSupport
<1> QED  BY <1>2, <1>7, <1>8

\* A complete run leaves no row behind: week by week it brings every listed
\* device with queries up to its folded volume.
LEMMA FullRunBringsUpToDate ==
    ASSUME IInv, SnapshotAllWeeks, NEW d \in Listed, NEW w \in Weeks, Volume(d, w) > 0
    PROVE  snapshots'[d][w] = Volume(d, w)
<1>1. TypeOK /\ opened /\ WriteRows(Due)  BY DEF IInv, SnapshotAllWeeks
<1>2. d \in Clients /\ IsFiniteSet(Folded(d)) /\ Folded(d) \subseteq Clients
  BY <1>1, FiniteAssumption, FS_Subset DEF Listed, Folded, TypeOK
<1>3. w \in WeeksPresent
  <2>1. SUFFICES ASSUME \A c \in Clients : Asked(c, w) = 0 PROVE FALSE
    BY <1>1, AskedType DEF WeeksPresent
  <2>2. \A c \in Folded(d) : AskedIn(w)[c] = 0  BY <1>2, <2>1 DEF AskedIn
  <2>3. SumFunctionOnSet(AskedIn(w), Folded(d)) = 0  BY <1>2, <2>2, SumZero
  <2> QED  BY <1>1, <2>3, VolumeIsSum
<1>4. <<d, w>> \in Due  BY <1>3 DEF Due
<1> QED  BY <1>1, <1>2, <1>4 DEF WriteRows

\* A complete run writes the week, each of its queries once.
LEMMA FullRunWrites ==
    ASSUME IInv, SnapshotAllWeeks, NEW w \in Weeks
    PROVE  SumFunction([d \in {d \in Listed : Volume(d, w) > 0} |-> snapshots'[d][w]])
             = WeekTotal(w)
<1> DEFINE D == {d \in Listed : Volume(d, w) > 0}
           written == [d \in D |-> snapshots'[d][w]]
           volume == [d \in Listed |-> Volume(d, w)]
<1>1. TypeOK /\ opened /\ WriteRows(Due)  BY DEF IInv, SnapshotAllWeeks
<1>2. \A d \in D : written[d] = volume[d]  BY FullRunBringsUpToDate
<1>3. IsFiniteSet(Listed) /\ IsFiniteSet(D) /\ D \in SUBSET Listed
  BY <1>1, FiniteAssumption, FS_Subset DEF Listed, TypeOK
<1>4. /\ \A d \in Listed : volume[d] \in Nat /\ volume[d] = Volume(d, w)
      /\ \A d \in Listed \ D : volume[d] = 0
  BY <1>1, VolumeIsSum
<1>5. SumFunction(written) = SumFunctionOnSet(written, D)  BY DEF SumFunction
<1> HIDE DEF written, volume, D
<1>6. SumFunctionOnSet(written, D) = SumFunctionOnSet(volume, D)
  BY <1>2, <1>3, SumEqual
<1>7. SumFunctionOnSet(volume, D) = SumFunctionOnSet(volume, Listed)
  BY <1>3, <1>4, SumSupport
<1>8. SumFunctionOnSet(volume, Listed) = WeekTotal(w)  BY <1>1, <1>4, VolumesAddUp
<1>9. SumFunction(written) = WeekTotal(w)  BY <1>5, <1>6, <1>7, <1>8
<1> QED  BY <1>9 DEF written, D

\* What a complete run writes for a week is the week, each query once
\* (snapshot_all_weeks, aggregate), whatever was merged before.
THEOREM FullRunAddsUpHolds == SnapshotsSpec => FullRunAddsUp
<1> DEFINE AddsUp == SnapshotAllWeeks =>
              \A w \in Weeks :
                 SumFunction([d \in {d \in Listed : Volume(d, w) > 0} |-> snapshots'[d][w]])
                   = WeekTotal(w)
<1>1. SnapshotsIInv /\ [SnapshotsNext]_snapshotVars => [AddsUp]_snapshotVars
  BY FullRunWrites DEF SnapshotsIInv
<1>2. SnapshotsSpec => [][AddsUp]_snapshotVars
  BY <1>1, SnapshotsInductive, PTL DEF SnapshotsSpec
<1> QED  BY <1>2, PTL DEF FullRunAddsUp

\* A complete run catches up: it leaves the row of every listed device and week
\* at the folded volume, whatever runs cut short left (snapshot_all_weeks).
FullRunCatchesUp ==
    [][SnapshotAllWeeks =>
         \A d \in Listed, w \in Weeks :
            Volume(d, w) > 0 => snapshots'[d][w] = Volume(d, w)]_snapshotVars

THEOREM FullRunCatchesUpHolds == SnapshotsSpec => FullRunCatchesUp
<1> DEFINE A == SnapshotAllWeeks =>
         \A d \in Listed, w \in Weeks :
            Volume(d, w) > 0 => snapshots'[d][w] = Volume(d, w)
<1>1. SnapshotsIInv /\ [SnapshotsNext]_snapshotVars => [A]_snapshotVars
  BY FullRunBringsUpToDate DEF SnapshotsIInv
<1> HIDE DEF A
<1>2. SnapshotsSpec => [][A]_snapshotVars
  BY <1>1, SnapshotsInductive, PTL DEF SnapshotsSpec
<1> QED  BY <1>2, PTL DEF A, FullRunCatchesUp
-----------------------------------------------------------------------------
(* Enrichment *)

\* What it means to end a name at a dot.
LEMMA SuffixMeaning ==
    ASSUME NEW s \in Seq(STRING), NEW t \in Seq(STRING)
    PROVE  IsSuffix(s, t) <=>
             /\ Len(s) <= Len(t)
             /\ \A i \in 1 .. Len(s) : s[i] = t[Len(t) - Len(s) + i]
<1> DEFINE m == Len(s)
           n == Len(t)
<1>1. m \in Nat /\ n \in Nat  OBVIOUS
<1>2. /\ Len(Reverse(s)) = m /\ Reverse(s) \in Seq(STRING)
      /\ Len(Reverse(t)) = n /\ Reverse(t) \in Seq(STRING)
      /\ \A i \in 1 .. m : Reverse(s)[i] = s[m - i + 1]
      /\ \A i \in 1 .. n : Reverse(t)[i] = t[n - i + 1]
  BY DEF Reverse
<1>3. IsSuffix(s, t) <=> m <= n /\ \A i \in 1 .. m : Reverse(s)[i] = Reverse(t)[i]
  BY <1>2 DEF IsSuffix, IsPrefix
<1>4. ASSUME m <= n
      PROVE  (\A i \in 1 .. m : Reverse(s)[i] = Reverse(t)[i])
               <=> \A i \in 1 .. m : s[i] = t[n - m + i]
  <2>1. ASSUME \A i \in 1 .. m : Reverse(s)[i] = Reverse(t)[i], NEW i \in 1 .. m
        PROVE  s[i] = t[n - m + i]
    <3>1. m - i + 1 \in 1 .. m /\ m - i + 1 \in 1 .. n  BY <1>1, <1>4
    <3>2. m - (m - i + 1) + 1 = i /\ n - (m - i + 1) + 1 = n - m + i  BY <1>1
    <3> QED  BY <1>2, <2>1, <3>1, <3>2
  <2>2. ASSUME \A i \in 1 .. m : s[i] = t[n - m + i], NEW i \in 1 .. m
        PROVE  Reverse(s)[i] = Reverse(t)[i]
    <3>1. m - i + 1 \in 1 .. m /\ i \in 1 .. n  BY <1>1, <1>4
    <3>2. n - m + (m - i + 1) = n - i + 1  BY <1>1
    <3> QED  BY <1>2, <2>2, <3>1, <3>2
  <2> QED  BY <2>1, <2>2
<1> QED  BY <1>3, <1>4

\* A suffix of a name is the name itself or a suffix of its parent.
LEMMA SuffixOfParent ==
    ASSUME NEW s \in Seq(STRING), NEW name \in Seq(STRING), Len(name) > 0
    PROVE  /\ IsSuffix(name, name)
           /\ IsSuffix(s, name) => Len(s) <= Len(name)
           /\ IsSuffix(s, name) /\ Len(s) = Len(name) => s = name
           /\ s # name => (IsSuffix(s, name) <=> IsSuffix(s, Tail(name)))
<1> DEFINE m == Len(s)
           n == Len(name)
           parent == Tail(name)
<1>1. /\ m \in Nat /\ n \in Nat /\ parent \in Seq(STRING) /\ Len(parent) = n - 1
      /\ \A i \in 1 .. n - 1 : parent[i] = name[i + 1]
  OBVIOUS
<1>2. IsSuffix(s, name) <=> m <= n /\ \A i \in 1 .. m : s[i] = name[n - m + i]
  BY SuffixMeaning
<1>3. IsSuffix(s, parent) <=> m <= n - 1 /\ \A i \in 1 .. m : s[i] = parent[n - 1 - m + i]
  <2>1. IsSuffix(s, parent) <=>
          m <= Len(parent) /\ \A i \in 1 .. m : s[i] = parent[Len(parent) - m + i]
    BY <1>1, SuffixMeaning
  <2> HIDE DEF m, n, parent
  <2> QED  BY <1>1, <2>1
<1>4. IsSuffix(name, name)
  <2>1. \A i \in 1 .. n : n - n + i = i  OBVIOUS
  <2> QED  BY <2>1, SuffixMeaning
<1>5. ASSUME IsSuffix(s, name), m = n PROVE s = name
  <2>1. \A i \in 1 .. m : n - m + i = i  BY <1>5
  <2>2. \A i \in 1 .. m : s[i] = name[i]  BY <1>2, <1>5, <2>1
  <2> QED  BY <1>5, <2>2
<1>6. ASSUME m <= n - 1
      PROVE  IsSuffix(s, name) <=> IsSuffix(s, parent)
  <2>1. \A i \in 1 .. m : n - 1 - m + i \in 1 .. n - 1 /\ n - 1 - m + i + 1 = n - m + i
    BY <1>1, <1>6
  <2>2. \A i \in 1 .. m : parent[n - 1 - m + i] = name[n - m + i]  BY <1>1, <2>1
  <2>3. m <= n  BY <1>1, <1>6
  <2> HIDE DEF m, n, parent
  <2> QED  BY <1>2, <1>3, <1>6, <2>2, <2>3
<1>7. IsSuffix(s, name) => m <= n  BY <1>2
<1>8. s # name => (IsSuffix(s, name) <=> IsSuffix(s, parent))
  <2>1. m <= n /\ m # n => m <= n - 1  BY <1>1
  <2>2. ~(m <= n - 1) => ~IsSuffix(s, parent)  BY <1>3
  <2> QED  BY <1>5, <1>6, <1>7, <2>1, <2>2
<1> QED  BY <1>4, <1>5, <1>7, <1>8
\* The walk over the parents of a name finds it or a parent of two labels.
BlockedAt(r, name, n) ==
    \/ Parent(name, n) \in Blocklist[r]
    \/ \E m \in 2 .. n : Parent(name, m) \in Blocklist[r]

LEMMA WalkFinds ==
    ASSUME NEW r, NEW name \in Seq(STRING)
    PROVE  OnBlocklist(r, name) <=> BlockedAt(r, name, Len(name))
<1> DEFINE N == Len(name)
           On(n) == Parent(name, n) \in Blocklist[r]
           IsIt(w) == w = [n \in 0 .. N |-> On(n) \/ (n > 2 /\ w[n - 1])]
           found == [n \in 0 .. N |-> BlockedAt(r, name, n)]
<1>1. N \in Nat  OBVIOUS
<1>2. OnBlocklist(r, name) = (CHOOSE w : IsIt(w))[N]  BY DEF OnBlocklist
<1>3. IsIt(found)
  <2>1. ASSUME NEW n \in 0 .. N
        PROVE  BlockedAt(r, name, n) = (On(n) \/ (n > 2 /\ found[n - 1]))
    <3>1. CASE n <= 2
      <4>1. \A m \in 2 .. n : m = n  BY <1>1, <3>1
      <4> QED  BY <1>1, <3>1, <4>1 DEF BlockedAt
    <3>2. CASE n > 2
      <4>1. n - 1 \in 0 .. N /\ n - 1 \in 2 .. n  BY <1>1, <3>2
      <4>2. found[n - 1] = BlockedAt(r, name, n - 1)  BY <4>1
      <4>3. \A m : m \in 2 .. n <=> m = n \/ m \in 2 .. n - 1  BY <1>1, <3>2
      <4> QED  BY <3>2, <4>1, <4>2, <4>3 DEF BlockedAt
    <3> QED  BY <1>1, <3>1, <3>2
  <2> QED  BY <2>1
<1>4. PICK w : IsIt(w) /\ OnBlocklist(r, name) = w[N]  BY <1>2, <1>3
<1> DEFINE bad == {n \in 0 .. N : ~(w[n] <=> BlockedAt(r, name, n))}
<1>5. \A n \in 0 .. N : w[n] = (On(n) \/ (n > 2 /\ w[n - 1]))  BY <1>4
<1>6. \A n \in 0 .. N : found[n] = (On(n) \/ (n > 2 /\ found[n - 1]))  BY <1>3
<1>7. \A n \in 0 .. N : found[n] = BlockedAt(r, name, n)  OBVIOUS
<1> HIDE DEF IsIt, found, On
<1>8. bad = {}
  <2>1. SUFFICES ASSUME bad # {} PROVE FALSE  OBVIOUS
  <2>2. bad \in SUBSET Nat  BY <1>1
  <2>3. PICK n \in bad : \A m \in bad : n <= m  BY <2>1, <2>2, LeastExists
  <2>4. n \in 0 .. N /\ ~(w[n] <=> found[n])  BY <1>7
  <2>5. CASE n > 2
    <3>1. n - 1 \in 0 .. N /\ n - 1 \notin bad  BY <1>1, <2>3, <2>4, <2>5
    <3>2. w[n - 1] <=> found[n - 1]  BY <1>7, <3>1
    <3> QED  BY <1>5, <1>6, <2>4, <3>2
  <2>6. CASE ~(n > 2)  BY <1>5, <1>6, <2>4, <2>6
  <2> QED  BY <2>5, <2>6
<1>9. N \in 0 .. N  BY <1>1
<1> QED  BY <1>4, <1>8, <1>9

\* A blocked name is found, and so is what lies below a blocked parent of two
\* labels or more.
LEMMA BlocklistInherited ==
    ASSUME NEW r, NEW name \in Seq(STRING), Len(name) > 1
    PROVE  /\ name \in Blocklist[r] => OnBlocklist(r, name)
           /\ Len(Tail(name)) > 1 /\ OnBlocklist(r, Tail(name)) => OnBlocklist(r, name)
<1> DEFINE n == Len(name)
           parent == Tail(name)
<1>1. /\ n \in Nat /\ parent \in Seq(STRING) /\ Len(parent) = n - 1
      /\ \A i \in 1 .. n - 1 : parent[i] = name[i + 1]
  OBVIOUS
<1>2. Parent(name, n) = name
  <2>1. Parent(name, n) = SubSeq(name, 1, n)  BY <1>1 DEF Parent
  <2> QED  BY <2>1
<1>3. ASSUME NEW m \in 0 .. n - 1 PROVE Parent(parent, m) = Parent(name, m)
  <2> DEFINE below == SubSeq(parent, n - 1 - m + 1, n - 1)
             same == SubSeq(name, n - m + 1, n)
  <2>1. Parent(parent, m) = below /\ Parent(name, m) = same  BY <1>1 DEF Parent
  <2>2. /\ below \in Seq(STRING) /\ Len(below) = m
        /\ same \in Seq(STRING) /\ Len(same) = m
        /\ \A i \in 1 .. m : below[i] = parent[n - 1 - m + i]
        /\ \A i \in 1 .. m : same[i] = name[n - m + i]
    BY <1>1
  <2>3. \A i \in 1 .. m : parent[n - 1 - m + i] = name[n - m + i]
    <3>1. \A i \in 1 .. m : n - 1 - m + i \in 1 .. n - 1 /\ n - 1 - m + i + 1 = n - m + i
      BY <1>1
    <3> QED  BY <1>1, <3>1
  <2> HIDE DEF below, same
  <2>4. \A i \in 1 .. m : below[i] = same[i]  BY <2>2, <2>3
  <2>5. below = same  BY <2>2, <2>4
  <2> QED  BY <2>1, <2>5
<1>4. name \in Blocklist[r] => OnBlocklist(r, name)
  BY <1>2, WalkFinds DEF BlockedAt
<1>5. ASSUME n - 1 > 1, OnBlocklist(r, parent) PROVE OnBlocklist(r, name)
  <2>1. BlockedAt(r, parent, n - 1)  BY <1>1, <1>5, WalkFinds
  <2>2. PICK m \in 2 .. n - 1 : Parent(parent, m) \in Blocklist[r]
    BY <1>1, <1>5, <2>1 DEF BlockedAt
  <2>3. m \in 2 .. n /\ Parent(name, m) \in Blocklist[r]  BY <1>1, <1>3, <2>2
  <2> QED  BY <2>3, WalkFinds DEF BlockedAt
<1> QED  BY <1>1, <1>4, <1>5
\* The longest matching entry is unique and is chosen.
LEMMA BestType ==
    ASSUME NEW r \in Releases, NEW name \in Seq(STRING),
           NEW e \in Matching(r, name),
           \A f \in Matching(r, name) : Len(f.suffix) <= Len(e.suffix),
           \A f \in Matching(r, name) : Len(f.suffix) = Len(e.suffix) => f = e
    PROVE  Best(Matching(r, name)) = e
<1> DEFINE M == Matching(r, name)
           f == Best(M)
<1>1. \A g \in M : Len(g.suffix) \in Nat  BY NameAssumption DEF Matching
<1>2. f \in M /\ \A g \in M : Len(g.suffix) <= Len(f.suffix)  BY DEF Best
<1> HIDE DEF M, f
<1>3. e \in M /\ Len(f.suffix) <= Len(e.suffix)  BY <1>2 DEF M
<1>4. Len(f.suffix) = Len(e.suffix)  BY <1>1, <1>2, <1>3
<1>5. f = e  BY <1>2, <1>4 DEF M
<1> QED  BY <1>5 DEF f, M

\* The fields of an enriched row.
LEMMA EnrichFields ==
    ASSUME NEW r, NEW name
    PROVE  LET best == Best(Matching(r, name))
           IN /\ Enrich(r, name).entity = IF Matching(r, name) = {} THEN NoEntity ELSE best.name
              /\ Enrich(r, name).country
                   = IF Matching(r, name) = {} THEN NoCountry ELSE best.country
              /\ OnBlocklist(r, name) => Enrich(r, name).tracker
<1>1. CASE Matching(r, name) = {}  BY <1>1 DEF Enrich, Unknown
<1>2. CASE Matching(r, name) # {}  BY <1>2 DEF Enrich
<1> QED  BY <1>1, <1>2

\* A subdomain is enriched like its parent, or like its own entry, and never
\* escapes the blocklist (enrich, on_blocklist), for every name.
THEOREM SubdomainsAlwaysInherit ==
    ASSUME NEW r \in Releases, NEW name \in Seq(STRING), Len(name) > 1
    PROVE  Inherits(r, name)
<1> DEFINE parent == Tail(name)
           own == {e \in Entities[r] : e.suffix = name}
           row == Enrich(r, name)
<1>1. Len(name) \in Nat /\ Len(name) > 0  OBVIOUS
<1>2. \A e \in Entities[r] : e.suffix \in Seq(STRING)  BY NameAssumption
<1>3. /\ name \in Blocklist[r] => row.tracker
      /\ Len(parent) > 1 /\ OnBlocklist(r, parent) => row.tracker
  BY EnrichFields, BlocklistInherited
<1>4. ASSUME own = {}
      PROVE  row.entity = Enrich(r, parent).entity /\ row.country = Enrich(r, parent).country
  <2>1. \A e \in Entities[r] : IsSuffix(e.suffix, name) <=> IsSuffix(e.suffix, parent)
    BY <1>1, <1>2, <1>4, SuffixOfParent
  <2>2. Matching(r, name) = Matching(r, parent)  BY <2>1 DEF Matching
  <2> QED  BY <2>2, EnrichFields
<1>5. ASSUME own # {}
      PROVE  LET e == CHOOSE e \in own : TRUE
             IN row.entity = e.name /\ row.country = e.country
  <2> DEFINE e == CHOOSE e \in own : TRUE
  <2>1. e \in own  BY <1>5
  <2> HIDE DEF e
  <2>2. e \in Entities[r] /\ e.suffix = name  BY <2>1
  <2>3. e \in Matching(r, name)  BY <1>1, <2>2, SuffixOfParent DEF Matching
  <2>4. ASSUME NEW f \in Matching(r, name)
        PROVE  /\ Len(f.suffix) <= Len(e.suffix)
               /\ Len(f.suffix) = Len(e.suffix) => f = e
    <3>1. f \in Entities[r] /\ IsSuffix(f.suffix, name) /\ f.suffix \in Seq(STRING)
      BY <1>2 DEF Matching
    <3>2. Len(f.suffix) <= Len(name) /\ (Len(f.suffix) = Len(name) => f.suffix = name)
      BY <1>1, <3>1, SuffixOfParent
    <3> QED  BY <2>2, <3>1, <3>2, SuffixAssumption
  <2>5. Best(Matching(r, name)) = e  BY <2>3, <2>4, BestType
  <2>6. row.entity = e.name /\ row.country = e.country  BY <2>3, <2>5, EnrichFields
  <2> QED  BY <2>6 DEF e
<1> HIDE DEF row, parent, own
<1>6. CASE own = {}
  BY <1>3, <1>4, <1>6 DEF Inherits, row, parent, own
<1>7. CASE own # {}
  <2> DEFINE e == CHOOSE e \in own : TRUE
  <2>1. row.entity = e.name /\ row.country = e.country  BY <1>5, <1>7
  <2> QED  BY <1>3, <1>7, <2>1 DEF Inherits, row, parent, own
<1> QED  BY <1>6, <1>7
-----------------------------------------------------------------------------
(* Projections *)

\* With destinations and releases beside it, the overlay still implements
\* DeviceRegistry.
THEOREM ProjectionsImplementRegistry == ProjectionsSpec => Spec
<1>1. ProjectionsInit => Init  BY DEF ProjectionsInit
<1>2. [Next]_vars => [DeviceStep]_deviceVars
  BY DEF Next, Start, CountBatch, EditOverlay, DeviceStep, vars, deviceVars
<1> QED  BY <1>1, <1>2, PTL DEF ProjectionsSpec, Spec

\* The inductive invariant of the projections.
ProjectionsIInv == IInv /\ ProjectionsTypeOK

\* A batch refreshes the row of its domain with what the running release knows.
LEMMA CountBatchTypeOK ==
    ASSUME ProjectionsTypeOK, TypeOK', NEW batch, NEW x \in Cells, CountBatch(batch, x)
    PROVE  ProjectionsTypeOK'
<1> DEFINE row == Enrich(release, LabelsOf[x[1]])
<1>1. x[1] \in Domains  BY DEF Cells
<1>2. release' = release  BY DEF CountBatch
<1>3. /\ DOMAIN destinations' = {x[1]} \cup DOMAIN destinations
      /\ \A d \in DOMAIN destinations' :
            destinations'[d] = IF d = x[1] THEN row ELSE destinations[d]
  BY DEF CountBatch
<1> HIDE DEF row
<1>4. DOMAIN destinations' \subseteq Domains  BY <1>1, <1>3 DEF ProjectionsTypeOK
<1>5. ASSUME NEW d \in DOMAIN destinations'
      PROVE  \E r \in Releases : destinations'[d] = Enrich(r, LabelsOf[d])
  BY <1>3 DEF ProjectionsTypeOK, row
<1> QED  BY <1>2, <1>4, <1>5 DEF ProjectionsTypeOK

\* The inductive invariant holds in every reachable state (apply_batch with
\* upsert_destination, over restarts in other releases).
THEOREM ProjectionsInductive == ProjectionsSpec => []ProjectionsIInv
<1>1. ProjectionsInit => ProjectionsIInv
  <2> SUFFICES ASSUME ProjectionsInit PROVE ProjectionsIInv  OBVIOUS
  <2>1. IInv /\ TypeOK  BY InitIInv DEF ProjectionsInit, IInv
  <2>2. DOMAIN destinations = {}  BY DEF ProjectionsInit
  <2> QED  BY <2>1, <2>2 DEF ProjectionsIInv, ProjectionsTypeOK, ProjectionsInit
<1>2. ProjectionsIInv /\ [Next]_vars => ProjectionsIInv'
  <2> SUFFICES ASSUME ProjectionsIInv, [Next]_vars PROVE ProjectionsIInv'  OBVIOUS
  <2>1. IInv' /\ TypeOK'
    <3>1. [DeviceStep]_deviceVars
      BY DEF Next, Start, CountBatch, EditOverlay, DeviceStep, vars, deviceVars
    <3> QED  BY <3>1, NextIInv DEF ProjectionsIInv, IInv
  <2>2. ProjectionsTypeOK'
    <3>1. CASE UNCHANGED destinations /\ release' \in Releases
      BY <2>1, <3>1 DEF ProjectionsIInv, ProjectionsTypeOK
    <3>2. ASSUME NEW batch, NEW x \in Cells, CountBatch(batch, x)
          PROVE  ProjectionsTypeOK'
      BY <2>1, <3>2, CountBatchTypeOK DEF ProjectionsIInv
    <3> QED  BY <3>1, <3>2 DEF Next, Start, EditOverlay, vars, ProjectionsIInv, ProjectionsTypeOK
  <2> QED  BY <2>1, <2>2 DEF ProjectionsIInv
<1> QED  BY <1>1, <1>2, PTL DEF ProjectionsSpec

\* The queries behind every row of the rollups.
AllRows == Clients \X Domains \X Hours
Counted == [r \in AllRows |-> rollups[r[1]][<<r[2], r[3]>>]]

\* Every query of the read side sums these terms over some of these rows.
LEMMA SumIsSum ==
    ASSUME TypeOK
    PROVE  /\ IsFiniteSet(AllRows)
           /\ \A r \in AllRows : Counted[r] \in Nat
           /\ \A rows \in SUBSET AllRows : /\ IsFiniteSet(rows)
                                           /\ Sum(rows) = SumFunctionOnSet(Counted, rows)
                                           /\ Sum(rows) \in Nat
<1>1. IsFiniteSet(AllRows)
  <2>1. IsFiniteSet(Domains \X Hours)  BY FiniteAssumption, FS_Product
  <2>2. IsFiniteSet(Clients \X (Domains \X Hours))
    BY <2>1, FiniteAssumption, FS_Product
  <2> DEFINE f == [p \in Clients \X (Domains \X Hours) |-> <<p[1], p[2][1], p[2][2]>>]
  <2>3. \A r \in AllRows : <<r[1], <<r[2], r[3]>>>> \in Clients \X (Domains \X Hours)
                           /\ f[<<r[1], <<r[2], r[3]>>>>] = r
    BY DEF AllRows
  <2>4. \A p \in Clients \X (Domains \X Hours) : f[p] \in AllRows  BY DEF AllRows
  <2> DEFINE P == Clients \X (Domains \X Hours)
  <2> HIDE DEF f, P
  <2>5. AllRows = {f[p] : p \in P}
    <3>1. \A r \in AllRows : \E p \in P : f[p] = r  BY <2>3 DEF P
    <3>2. \A p \in P : f[p] \in AllRows  BY <2>4 DEF P
    <3> QED  BY <3>1, <3>2
  <2> QED  BY <2>2, <2>5, ImageFinite DEF P
<1>2. \A r \in AllRows : Counted[r] \in Nat /\ Counted[r] = rollups[r[1]][<<r[2], r[3]>>]
  BY DEF Counted, AllRows, TypeOK, Cells
<1>3. ASSUME NEW rows \in SUBSET AllRows
      PROVE  /\ IsFiniteSet(rows)
             /\ Sum(rows) = SumFunctionOnSet(Counted, rows)
             /\ Sum(rows) \in Nat
  <2> DEFINE f == [r \in rows |-> rollups[r[1]][<<r[2], r[3]>>]]
  <2>1. IsFiniteSet(rows)  BY <1>1, FS_Subset
  <2>2. Sum(rows) = SumFunctionOnSet(f, rows)  BY DEF Sum, SumFunction
  <2>3. \A r \in rows : f[r] = Counted[r] /\ Counted[r] \in Nat  BY <1>2
  <2> HIDE DEF f
  <2> QED  BY <2>1, <2>2, <2>3, SumEqual, SumType
<1> QED  BY <1>1, <1>2, <1>3

\* Sums over disjoint sets of rows add up to the sum over their union.
LEMMA SumsOfRows ==
    ASSUME TypeOK, NEW K, IsFiniteSet(K), NEW part, NEW total, DOMAIN total = K,
           \A k \in K : part[k] \subseteq AllRows /\ total[k] = Sum(part[k]),
           \A j, k \in K : j # k => part[j] \cap part[k] = {}
    PROVE  SumFunction(total) = Sum(UNION {part[k] : k \in K})
<1> DEFINE all == UNION {part[k] : k \in K}
<1>1. \A k \in K : total[k] = SumFunctionOnSet(Counted, part[k])  BY SumIsSum
<1>2. SumFunctionOnSet(total, K) = SumFunctionOnSet(Counted, all)
  BY <1>1, SumIsSum, SumOfParts
<1>3. all \in SUBSET AllRows  OBVIOUS
<1>4. Sum(all) = SumFunctionOnSet(Counted, all)  BY <1>3, SumIsSum
<1> QED  BY <1>2, <1>4 DEF SumFunction

\* Two disjoint sets of rows.
LEMMA SumOfTwo ==
    ASSUME TypeOK, NEW R \in SUBSET AllRows, NEW T \in SUBSET AllRows, R \cap T = {}
    PROVE  Sum(R \cup T) = Sum(R) + Sum(T)
<1>1. R \cup T \in SUBSET AllRows /\ \A r \in R \cup T : Counted[r] \in Nat  BY SumIsSum
<1> QED  BY <1>1, SumIsSum, SumDisjoint

\* The rows of a window: some of all, each of a client that has asked.
LEMMA RowsType ==
    ASSUME NEW w
    PROVE  Rows(w) \subseteq AllRows /\ \A r \in Rows(w) : r[1] \in Active
BY DEF Rows, AllRows, Active, Cells

\* Listed devices and countries are finitely many.
LEMMA ListedFinite ==
    ASSUME ProjectionsIInv
    PROVE  IsFiniteSet(Listed) /\ IsFiniteSet(Countries)
<1>1. devices \subseteq Clients /\ DOMAIN destinations \subseteq Domains
  BY DEF ProjectionsIInv, IInv, TypeOK, ProjectionsTypeOK
<1>2. IsFiniteSet(Listed)  BY <1>1, FiniteAssumption, FS_Subset DEF Listed
<1> DEFINE D == DOMAIN destinations
           f == [d \in D |-> destinations[d].country]
<1>3. IsFiniteSet(D)  BY <1>1, FiniteAssumption, FS_Subset
<1>4. {f[d] : d \in D} = {destinations[d].country : d \in D}  OBVIOUS
<1>5. IsFiniteSet({f[d] : d \in D})
  <2> HIDE DEF f, D
  <2> QED  BY <1>3, ImageFinite
<1>6. Countries \subseteq {f[d] : d \in D}  BY <1>4 DEF Countries
<1> HIDE DEF f, D
<1>7. IsFiniteSet(Countries)  BY <1>5, <1>6, FS_Subset
<1> QED  BY <1>2, <1>7

\* The device list adds up to the statistics and shows what the scorecards are
\* computed from (list_devices, aggregate, stats).
THEOREM ListAgreesHolds == ProjectionsSpec => []ListAgrees
<1>1. ProjectionsIInv => ListAgrees
  <2> SUFFICES ASSUME ProjectionsIInv, opened
               PROVE  /\ SumFunction([k \in Listed |-> ListRow(k).queries]) = TotalQueries
                      /\ \A k \in Listed :
                            LET row == ListRow(k)
                                inputs == Aggregate(k, AllTime)
                            IN <<row.queries, row.trackerQueries, row.domains>>
                                 = <<inputs.total, inputs.trackerQueries, inputs.domains>>
    BY DEF ListAgrees
  <2> DEFINE of(k) == {r \in Rows(AllTime) : r[1] \in Folded(k)}
             part == [k \in Listed |-> of(k)]
             total == [k \in Listed |-> ListRow(k).queries]
  <2>1. TypeOK /\ IInv  BY DEF ProjectionsIInv, IInv
  <2>2. \A k : {r \in Rows(AllTime) : r[1] \in devices /\ FoldOwner(r[1]) = k} = of(k)
    BY DEF Folded
  <2>3. \A k \in Listed : total[k] = Sum(part[k])  BY <2>2 DEF ListRow
  <2>4. \A k \in Listed : part[k] \subseteq AllRows  BY RowsType
  <2>5. \A j, k \in Listed : j # k => part[j] \cap part[k] = {}
    BY <2>1, FoldedPartition
  <2>6. UNION {part[k] : k \in Listed} = Rows(AllTime)
    <3>1. \A r \in Rows(AllTime) : \E k \in Listed : r[1] \in Folded(k)
      BY <2>1, RowsType, FoldedPartition DEF Active
    <3> QED  BY <3>1
  <2>7. SumFunction(total) = TotalQueries
    <3> HIDE DEF part
    <3>1. DOMAIN total = Listed  OBVIOUS
    <3> HIDE DEF total
    <3> QED  BY <2>1, <2>3, <2>4, <2>5, <2>6, <3>1, ListedFinite, SumsOfRows DEF TotalQueries
  <2>8. ASSUME NEW k \in Listed
        PROVE  LET row == ListRow(k)
                   inputs == Aggregate(k, AllTime)
               IN <<row.queries, row.trackerQueries, row.domains>>
                    = <<inputs.total, inputs.trackerQueries, inputs.domains>>
    BY <2>2 DEF ListRow, Aggregate
  <2> QED  BY <2>7, <2>8
<1> QED  BY <1>1, ProjectionsInductive, PTL

\* Every row of a window is behind one arc or unmapped, and never both.
LEMMA ArcsPartRows ==
    ASSUME ProjectionsIInv, opened, NEW w
    PROVE  LET K == Listed \X Countries
               mapped == UNION {ArcRows(a[1], a[2], w) : a \in K}
           IN /\ \A a, b \in K : a # b => ArcRows(a[1], a[2], w) \cap ArcRows(b[1], b[2], w) = {}
              /\ mapped \cap UnmappedRows(w) = {}
              /\ mapped \cup UnmappedRows(w) = Rows(w)
<1> DEFINE K == Listed \X Countries
           mapped == UNION {ArcRows(a[1], a[2], w) : a \in K}
<1>1. IInv /\ ShallowAliases  BY DEF ProjectionsIInv, IInv
<1>2. \A a, b \in K : a # b => ArcRows(a[1], a[2], w) \cap ArcRows(b[1], b[2], w) = {}
  BY DEF ArcRows
<1>3. \A r \in mapped : /\ r \in Rows(w) /\ r[2] \in DOMAIN destinations
                        /\ destinations[r[2]].country # NoCountry
  BY DEF ArcRows, Countries
<1>4. mapped \cap UnmappedRows(w) = {}
  BY <1>3 DEF UnmappedRows, Destination
<1>5. ASSUME NEW r \in Rows(w), r \notin UnmappedRows(w) PROVE r \in mapped
  <2>1. r[2] \in DOMAIN destinations /\ destinations[r[2]].country # NoCountry
    BY <1>5 DEF UnmappedRows, Destination, Unknown
  <2>2. destinations[r[2]].country \in Countries  BY <2>1 DEF Countries
  <2>3. PICK k \in Listed : r[1] \in Folded(k)
    BY <1>1, RowsType, FoldedPartition DEF Active
  <2>4. r \in ArcRows(k, destinations[r[2]].country, w)
    BY <2>1, <2>3 DEF ArcRows, Folded
  <2>5. <<k, destinations[r[2]].country>> \in K  BY <2>2
  <2> HIDE DEF K
  <2>6. \E a \in K : r \in ArcRows(a[1], a[2], w)  BY <2>4, <2>5
  <2> QED  BY <2>6
<1>6. mapped \cup UnmappedRows(w) = Rows(w)
  <2>1. UnmappedRows(w) \subseteq Rows(w)  BY DEF UnmappedRows
  <2> HIDE DEF mapped
  <2> QED  BY <1>3, <1>5, <2>1
<1> QED  BY <1>2, <1>4, <1>6

\* The arcs and the unmapped queries account for every query of a window,
\* after merges and for rollups older than their destinations (arcs).
THEOREM ArcsAddUpHolds == ProjectionsSpec => []ArcsAddUp
<1>1. ProjectionsIInv => ArcsAddUp
  <2> SUFFICES ASSUME ProjectionsIInv, opened, NEW w \in Windows
               PROVE  SumFunction([a \in Listed \X Countries |-> Sum(ArcRows(a[1], a[2], w))])
                        + Sum(UnmappedRows(w)) = Sum(Rows(w))
    BY DEF ArcsAddUp
  <2> DEFINE K == Listed \X Countries
             part == [a \in K |-> ArcRows(a[1], a[2], w)]
             total == [a \in K |-> Sum(ArcRows(a[1], a[2], w))]
             mapped == UNION {part[a] : a \in K}
  <2>1. TypeOK /\ IsFiniteSet(K)
    BY ListedFinite, FS_Product DEF ProjectionsIInv, IInv
  <2>2. \A a \in K : part[a] \subseteq AllRows /\ total[a] = Sum(part[a])
    BY RowsType DEF ArcRows
  <2>3. \A a, b \in K : a # b => part[a] \cap part[b] = {}  BY ArcsPartRows
  <2>4. UNION {ArcRows(a[1], a[2], w) : a \in K} = mapped  OBVIOUS
  <2>5. mapped \cap UnmappedRows(w) = {} /\ mapped \cup UnmappedRows(w) = Rows(w)
    BY <2>4, ArcsPartRows
  <2>6. mapped \subseteq AllRows /\ UnmappedRows(w) \subseteq AllRows
    BY <2>2, RowsType DEF UnmappedRows
  <2>7. DOMAIN total = K  OBVIOUS
  <2> HIDE DEF K, part, total
  <2>8. SumFunction(total) = Sum(mapped)  BY <2>1, <2>2, <2>3, <2>7, SumsOfRows
  <2> HIDE DEF mapped
  <2>9. Sum(mapped) + Sum(UnmappedRows(w)) = Sum(Rows(w))
    BY <2>1, <2>5, <2>6, SumOfTwo
  <2> QED  BY <2>8, <2>9 DEF total, K
<1> QED  BY <1>1, ProjectionsInductive, PTL

\* The domains behind an arc add up to it.
LEMMA DomainsAddUp ==
    ASSUME ProjectionsIInv, NEW w, NEW k, NEW country
    PROVE  Sum(ArcRows(k, country, w))
             = SumFunction([d \in Domains |-> Sum(ArcDomainRows(k, country, d, w))])
<1> DEFINE part == [d \in Domains |-> ArcDomainRows(k, country, d, w)]
           total == [d \in Domains |-> Sum(ArcDomainRows(k, country, d, w))]
<1>1. TypeOK  BY DEF ProjectionsIInv, IInv
<1>2. \A d \in Domains : part[d] \subseteq AllRows /\ total[d] = Sum(part[d])
  BY RowsType DEF ArcDomainRows
<1>3. \A d, e \in Domains : d # e => part[d] \cap part[e] = {}  BY DEF ArcDomainRows
<1>4. UNION {part[d] : d \in Domains} = ArcRows(k, country, w)
  <2>1. \A r \in Rows(w) : r[2] \in Domains  BY DEF Rows
  <2>2. \A r : r \in ArcRows(k, country, w) <=>
                \E d \in Domains : r \in ArcDomainRows(k, country, d, w)
    BY <2>1 DEF ArcRows, ArcDomainRows, Folded
  <2> QED  BY <2>2
<1>5. DOMAIN total = Domains  OBVIOUS
<1> HIDE DEF part, total
<1>6. SumFunction(total) = Sum(ArcRows(k, country, w))
  BY <1>1, <1>2, <1>3, <1>4, <1>5, FiniteAssumption, SumsOfRows
<1> QED  BY <1>6 DEF total

\* The buckets behind a domain of an arc add up to it.
LEMMA BucketsAddUp ==
    ASSUME ProjectionsIInv, NEW w, NEW k, NEW country, NEW d \in Domains,
           Sum(ArcDomainRows(k, country, d, w)) > 0
    PROVE  Sum(ArcDomainRows(k, country, d, w))
             = SumFunction([h \in Hours |-> Sum(RollupRows(k, d, h, w))])
<1> DEFINE part == [h \in Hours |-> RollupRows(k, d, h, w)]
           total == [h \in Hours |-> Sum(RollupRows(k, d, h, w))]
<1>1. TypeOK  BY DEF ProjectionsIInv, IInv
<1>2. \A h \in Hours : part[h] \subseteq AllRows /\ total[h] = Sum(part[h])
  BY RowsType DEF RollupRows
<1>3. \A h, i \in Hours : h # i => part[h] \cap part[i] = {}  BY DEF RollupRows
<1>4. d \in DOMAIN destinations /\ destinations[d].country = country
  <2>1. ArcDomainRows(k, country, d, w) # {}  BY SumEmpty DEF Sum, SumFunction
  <2> QED  BY <2>1 DEF ArcDomainRows
<1>5. UNION {part[h] : h \in Hours} = ArcDomainRows(k, country, d, w)
  <2>1. \A r \in Rows(w) : r[3] \in Hours  BY DEF Rows
  <2>2. \A r : r \in ArcDomainRows(k, country, d, w) <=>
                \E h \in Hours : r \in RollupRows(k, d, h, w)
    BY <1>4, <2>1 DEF ArcDomainRows, RollupRows
  <2> QED  BY <2>2
<1>6. DOMAIN total = Hours  OBVIOUS
<1> HIDE DEF part, total
<1>7. SumFunction(total) = Sum(ArcDomainRows(k, country, d, w))
  BY <1>1, <1>2, <1>3, <1>5, <1>6, FiniteAssumption, SumsOfRows
<1> QED  BY <1>7 DEF total

\* A click leads to what was clicked: arc to domains to buckets (arcs,
\* arc_domains, domain_rollups).
THEOREM ClickThroughAddsUpHolds == ProjectionsSpec => []ClickThroughAddsUp
<1>1. ProjectionsIInv => ClickThroughAddsUp
  BY DomainsAddUp, BucketsAddUp DEF ClickThroughAddsUp
<1> QED  BY <1>1, ProjectionsInductive, PTL

\* The bucket that began last before now starts within an hour of it.
LEMMA LatestBucket ==
    ASSUME NEW now \in Int, now > 0
    PROVE  LET h == (now - 1) \div HourTicks
           IN h \in Nat /\ h * HourTicks < now /\ h * HourTicks >= now - HourTicks
<1> DEFINE n == now - 1
<1>1. n \in Nat /\ HourTicks \in Nat \ {0}  BY TimeAssumption
<1> HIDE DEF n
<1>2. /\ n \div HourTicks \in Nat /\ n % HourTicks \in 0 .. HourTicks - 1
      /\ n = HourTicks * (n \div HourTicks) + (n % HourTicks)
  BY <1>1
<1> QED  BY <1>1, <1>2 DEF n

\* A longer span of hours is no shorter in ticks.
LEMMA SpanGrows ==
    ASSUME NEW m \in Nat, NEW n \in Nat, m <= n
    PROVE  /\ m * HourTicks \in Nat /\ n * HourTicks \in Nat
           /\ m * HourTicks <= n * HourTicks
<1>1. HourTicks \in Nat  BY TimeAssumption
<1>2. /\ n - m \in Nat /\ m * HourTicks \in Nat /\ n * HourTicks \in Nat
      /\ (n - m) * HourTicks \in Nat
  BY <1>1
<1>3. n * HourTicks = (m * HourTicks) + (n - m) * HourTicks  BY <1>1
<1> QED  BY <1>2, <1>3

\* Buckets start at natural numbers of ticks.
LEMMA RowTicks ==
    ASSUME NEW r \in AllRows
    PROVE  r[3] \in Nat /\ r[3] * HourTicks \in Nat
<1>1. r[3] \in Nat  BY WeekAssumption DEF AllRows
<1> QED  BY <1>1, TimeAssumption

\* A window that is answered, and the rows it shows.
LEMMA WindowOfHours ==
    ASSUME NEW now \in Int, NEW h \in Nat \ {0}, ResolveWindow(now, h) # BadRequest
    PROVE  /\ h * HourTicks <= MaxInt /\ now - h * HourTicks >= -MaxInt - 1
           /\ \A r \in AllRows : r \in Rows(ResolveWindow(now, h)) <=>
                 /\ rollups[r[1]][<<r[2], r[3]>>] > 0
                 /\ r[3] * HourTicks >= now - h * HourTicks
                 /\ r[3] * HourTicks < now
<1>1. ~(h <= 0 \/ h * HourTicks > MaxInt \/ now - h * HourTicks < -MaxInt - 1)
  BY DEF ResolveWindow
<1>2. ResolveWindow(now, h) = <<now - h * HourTicks, now>>  BY <1>1 DEF ResolveWindow
<1>3. h * HourTicks \in Nat /\ MaxInt \in Nat  BY TimeAssumption, SpanGrows
<1>4. ResolveWindow(now, h) # AllTime  BY <1>2 DEF AllTime
<1>5. ASSUME NEW r \in AllRows
      PROVE  r \in Rows(ResolveWindow(now, h)) <=>
                 /\ rollups[r[1]][<<r[2], r[3]>>] > 0
                 /\ r[3] * HourTicks >= now - h * HourTicks
                 /\ r[3] * HourTicks < now
  BY <1>2, <1>4 DEF Rows, InWindow, AllRows
<1> QED  BY <1>1, <1>3, <1>5

\* Fewer hours are answered too, and show no more.
LEMMA MoreHoursShowMore ==
    ASSUME NEW now \in Int, NEW h \in Nat \ {0, 1}, ResolveWindow(now, h) # BadRequest
    PROVE  /\ ResolveWindow(now, h - 1) # BadRequest
           /\ Rows(ResolveWindow(now, h - 1)) \subseteq Rows(ResolveWindow(now, h))
<1>1. /\ h - 1 \in Nat \ {0} /\ h * HourTicks \in Nat /\ (h - 1) * HourTicks \in Nat
      /\ (h - 1) * HourTicks <= h * HourTicks
  BY SpanGrows
<1>2. h * HourTicks <= MaxInt /\ now - h * HourTicks >= -MaxInt - 1 /\ MaxInt \in Nat
  BY WindowOfHours, TimeAssumption
<1>3. ~(h - 1 <= 0 \/ (h - 1) * HourTicks > MaxInt \/ now - (h - 1) * HourTicks < -MaxInt - 1)
  BY <1>1, <1>2
<1>4. ResolveWindow(now, h - 1) = <<now - (h - 1) * HourTicks, now>>
  BY <1>3 DEF ResolveWindow
<1>5. ResolveWindow(now, h - 1) # BadRequest  BY <1>4 DEF BadRequest
<1>6. ASSUME NEW r \in Rows(ResolveWindow(now, h - 1))
      PROVE  r \in Rows(ResolveWindow(now, h))
  <2>1. r \in AllRows /\ r[3] * HourTicks \in Nat  BY RowsType, RowTicks
  <2>2. /\ rollups[r[1]][<<r[2], r[3]>>] > 0
        /\ r[3] * HourTicks >= now - (h - 1) * HourTicks
        /\ r[3] * HourTicks < now
    BY <1>1, <1>5, <2>1, WindowOfHours
  <2>3. r[3] * HourTicks >= now - h * HourTicks  BY <1>1, <2>1, <2>2
  <2> QED  BY <2>1, <2>2, <2>3, WindowOfHours
<1> QED  BY <1>5, <1>6

\* Every answered window shows the bucket that began last before now.
LEMMA LatestShown ==
    ASSUME NEW now \in Int, now > 0, NEW h \in Nat \ {0},
           ResolveWindow(now, h) # BadRequest,
           NEW r \in Rows(AllTime), r[3] = (now - 1) \div HourTicks
    PROVE  r \in Rows(ResolveWindow(now, h))
<1>1. r \in AllRows /\ rollups[r[1]][<<r[2], r[3]>>] > 0  BY DEF Rows, AllRows
<1>2. r[3] \in Nat /\ r[3] * HourTicks < now /\ r[3] * HourTicks >= now - HourTicks
  BY LatestBucket
<1>3. /\ r[3] * HourTicks \in Nat /\ h * HourTicks \in Nat
      /\ HourTicks \in Nat /\ HourTicks <= h * HourTicks
  BY <1>2, TimeAssumption, SpanGrows
<1>4. r[3] * HourTicks >= now - h * HourTicks  BY <1>2, <1>3
<1> QED  BY <1>1, <1>2, <1>4, WindowOfHours

\* Two adjacent windows part the rows of the window they make up.
LEMMA AdjacentWindows ==
    ASSUME TypeOK, NEW from \in Int, NEW mid \in Int, NEW to \in Int,
           from <= mid, mid <= to
    PROVE  Sum(Rows(<<from, mid>>)) + Sum(Rows(<<mid, to>>)) = Sum(Rows(<<from, to>>))
<1>1. ASSUME NEW i \in Int, NEW j \in Int, NEW r \in AllRows
      PROVE  r \in Rows(<<i, j>>) <=>
                 /\ rollups[r[1]][<<r[2], r[3]>>] > 0
                 /\ r[3] * HourTicks >= i
                 /\ r[3] * HourTicks < j
  BY DEF Rows, InWindow, AllTime, AllRows
<1>2. \A w : Rows(w) \subseteq AllRows  BY RowsType
<1>3. Rows(<<from, mid>>) \cap Rows(<<mid, to>>) = {}
  <2>1. ASSUME NEW r \in AllRows, r \in Rows(<<from, mid>>) PROVE r \notin Rows(<<mid, to>>)
    <3>1. r[3] * HourTicks \in Nat /\ r[3] * HourTicks < mid  BY <1>1, <2>1, RowTicks
    <3>2. ~(r[3] * HourTicks >= mid)  BY <3>1
    <3> QED  BY <1>1, <3>2
  <2> QED  BY <1>2, <2>1
<1>4. Rows(<<from, mid>>) \cup Rows(<<mid, to>>) = Rows(<<from, to>>)
  <2>1. ASSUME NEW r \in AllRows
        PROVE  r \in Rows(<<from, to>>) <=> r \in Rows(<<from, mid>>) \/ r \in Rows(<<mid, to>>)
    <3> DEFINE t == r[3] * HourTicks
    <3>1. t \in Nat  BY RowTicks
    <3> HIDE DEF t
    <3>2. t >= from /\ t < to <=> (t >= from /\ t < mid) \/ (t >= mid /\ t < to)
      BY <3>1
    <3> QED  BY <1>1, <3>2 DEF t
  <2> QED  BY <1>2, <2>1
<1> QED  BY <1>2, <1>3, <1>4, SumOfTwo

\* Windows lose nothing and repeat nothing (resolve_window, window_clause).
THEOREM WindowsAddUpHolds == ProjectionsSpec => []WindowsAddUp
<1>1. ProjectionsIInv => WindowsAddUp
  <2> SUFFICES ASSUME ProjectionsIInv PROVE WindowsAddUp  OBVIOUS
  <2>1. TypeOK /\ Instants \subseteq Int /\ MaxInt \in Nat
    BY TimeAssumption DEF ProjectionsIInv, IInv
  <2>2. ASSUME NEW now \in Instants, NEW h \in 1 .. MaxInt,
               ResolveWindow(now, h) # BadRequest
        PROVE  /\ h > 1 => /\ ResolveWindow(now, h - 1) # BadRequest
                           /\ Rows(ResolveWindow(now, h - 1)) \subseteq Rows(ResolveWindow(now, h))
               /\ \A r \in Rows(AllTime) :
                    r[3] = (now - 1) \div HourTicks /\ now > 0 => r \in Rows(ResolveWindow(now, h))
    <3>1. now \in Int /\ h \in Nat \ {0} /\ (h > 1 => h \in Nat \ {0, 1})  BY <2>1
    <3> QED  BY <2>2, <3>1, MoreHoursShowMore, LatestShown
  <2>3. \A from, mid, to \in Instants : from <= mid /\ mid <= to =>
          Sum(Rows(<<from, mid>>)) + Sum(Rows(<<mid, to>>)) = Sum(Rows(<<from, to>>))
    BY <2>1, AdjacentWindows
  <2> QED  BY <2>2, <2>3 DEF WindowsAddUp
<1> QED  BY <1>1, ProjectionsInductive, PTL

\* What the order of the new domains compares.
LEMMA OrderTypes ==
    ASSUME TypeOK, NEW rows \in SUBSET AllRows, NEW d
    PROVE  /\ Rank(d) \in 0 .. 2
           /\ Rank(d) = 2 <=> Destination(d).tracker
           /\ Busy(rows, d) \in Nat
<1>1. Rank(d) \in 0 .. 2 /\ (Rank(d) = 2 <=> Destination(d).tracker)
  BY DEF Rank, Destination, Unknown
<1>2. Busy(rows, d) \in Nat  BY SumIsSum DEF Busy
<1> QED  BY <1>1, <1>2

\* ORDER BY is a strict total order of the domains.
LEMMA OrderIsTotal ==
    ASSUME TypeOK, NEW rows \in SUBSET AllRows,
           NEW c \in Domains, NEW d \in Domains, NEW e \in Domains
    PROVE  /\ ~Precedes(rows, d, d)
           /\ d = e \/ Precedes(rows, d, e) \/ Precedes(rows, e, d)
           /\ Precedes(rows, c, d) /\ Precedes(rows, d, e) => Precedes(rows, c, e)
<1>1. /\ Rank(c) \in Int /\ Rank(d) \in Int /\ Rank(e) \in Int
      /\ Busy(rows, c) \in Int /\ Busy(rows, d) \in Int /\ Busy(rows, e) \in Int
      /\ c \in Int /\ d \in Int /\ e \in Int
  BY OrderTypes, DomainAssumption
<1> QED  BY <1>1 DEF Precedes

\* The buckets of a week, in ticks.
LEMMA WeekTicks ==
    ASSUME NEW h \in Nat
    PROVE  LET n == h \div HoursPerWeek
           IN InWindow(h, Week(n))
<1> DEFINE n == h \div HoursPerWeek
<1>1. HoursPerWeek \in Nat \ {0} /\ HourTicks \in Nat \ {0}
  BY WeekAssumption, TimeAssumption
<1>2. n \in Nat /\ n * HoursPerWeek <= h /\ h + 1 <= (n + 1) * HoursPerWeek
  <2>1. /\ n \in Nat /\ h % HoursPerWeek \in 0 .. HoursPerWeek - 1
        /\ h = HoursPerWeek * n + (h % HoursPerWeek)
    BY <1>1
  <2> QED  BY <1>1, <2>1
<1> HIDE DEF n
<1>3. /\ n * HoursPerWeek \in Nat /\ (n + 1) * HoursPerWeek \in Nat
      /\ n * HoursPerWeek * HourTicks <= h * HourTicks
      /\ (h + 1) * HourTicks <= (n + 1) * HoursPerWeek * HourTicks
  <2>1. n * HoursPerWeek \in Nat /\ (n + 1) * HoursPerWeek \in Nat  BY <1>1, <1>2
  <2> QED  BY <1>2, <2>1, SpanGrows
<1>4. h * HourTicks < (n + 1) * HoursPerWeek * HourTicks
  <2>1. (h + 1) * HourTicks = h * HourTicks + HourTicks /\ h * HourTicks \in Nat  BY <1>1
  <2>2. (n + 1) * HoursPerWeek * HourTicks \in Nat  BY <1>1, <1>3
  <2> QED  BY <1>1, <1>3, <2>1, <2>2
<1>5. InWindow(h, Week(n))  BY <1>3, <1>4 DEF InWindow, Week
<1> QED  BY <1>5 DEF n

\* The limit takes the first of the new domains, and a tracker among the
\* domains it hides means that it shows trackers only.
LEMMA ShownComeFirst ==
    ASSUME TypeOK, NEW k, NEW cur, NEW prev
    PROVE  LET rows == NewRows(k, cur, prev)
               shown == NewDomains(k, cur, prev)
               hidden == DomainsIn(rows) \ shown
           IN /\ shown \subseteq DomainsIn(rows) /\ rows \subseteq AllRows
              /\ hidden # {} => Cardinality(shown) = NewDomainLimit
              /\ \A d \in hidden, e \in shown : Destination(d).tracker => Destination(e).tracker
<1> DEFINE rows == NewRows(k, cur, prev)
           D == DomainsIn(rows)
           shown == NewDomains(k, cur, prev)
           before == [d \in D |-> {e \in D : Precedes(rows, e, d)}]
           first == {d \in D : Cardinality(before[d]) < NewDomainLimit}
<1>1. rows \in SUBSET AllRows  BY RowsType DEF NewRows
<1>2. D \subseteq Domains  BY <1>1 DEF DomainsIn, AllRows
<1>3. shown = first  BY DEF NewDomains
<1> HIDE DEF rows, shown, D
<1>4. IsFiniteSet(D) /\ NewDomainLimit \in Nat
  BY <1>2, FiniteAssumption, LimitAssumption, FS_Subset
<1>5. \A d \in D : before[d] \subseteq D /\ d \notin before[d]
  BY <1>1, <1>2, OrderIsTotal
<1>6. \A d, e \in D : e \in before[d] => before[e] \subseteq before[d]
  BY <1>1, <1>2, OrderIsTotal
<1>7. \A d, e \in D : d = e \/ d \in before[e] \/ e \in before[d]
  BY <1>1, <1>2, OrderIsTotal
<1>8. \A d, e \in D : e \in before[d] => Precedes(rows, e, d)  OBVIOUS
<1> HIDE DEF before
<1>9. /\ first # D => Cardinality(first) = NewDomainLimit
      /\ \A d \in D \ first, e \in first : e \in before[d]
  BY <1>4, <1>5, <1>6, <1>7, FirstOfOrder
<1>10. ASSUME NEW d \in D \ shown, NEW e \in shown, Destination(d).tracker
       PROVE  Destination(e).tracker
  <2>1. Precedes(rows, e, d)  BY <1>3, <1>8, <1>9
  <2>2. /\ Rank(d) = 2 /\ Rank(e) \in 0 .. 2
        /\ Rank(e) = 2 <=> Destination(e).tracker
    BY <1>1, <1>10, OrderTypes
  <2>3. Rank(e) = 2  BY <2>1, <2>2 DEF Precedes
  <2> QED  BY <2>2, <2>3
<1>11. shown \subseteq D /\ (D \ shown # {} => Cardinality(shown) = NewDomainLimit)
  BY <1>3, <1>9
<1> QED  BY <1>1, <1>10, <1>11 DEF rows, D, shown

\* The limit never hides a new tracker behind a domain that is none, and what
\* any of the folded devices asked for the week before is not new
\* (new_domains_for).
THEOREM NewTrackersComeFirstHolds == ProjectionsSpec => []NewTrackersComeFirst
<1>1. ProjectionsIInv => NewTrackersComeFirst
  <2> SUFFICES ASSUME ProjectionsIInv, NEW k \in Listed,
                      NEW cur \in Weeks, NEW prev \in Weeks
               PROVE  LET shown == NewDomains(k, cur, prev)
                          hidden == DomainsIn(NewRows(k, cur, prev)) \ shown
                      IN /\ hidden # {} => Cardinality(shown) = NewDomainLimit
                         /\ \A d \in hidden, e \in shown :
                              Destination(d).tracker => Destination(e).tracker
                         /\ \A d \in shown, c \in Clients, h \in Hours :
                              h \div HoursPerWeek = prev /\ c \in devices /\ FoldOwner(c) = k
                                  => rollups[c][<<d, h>>] = 0
    BY DEF NewTrackersComeFirst
  <2>1. TypeOK  BY DEF ProjectionsIInv, IInv
  <2>2. ASSUME NEW d \in NewDomains(k, cur, prev), NEW c \in Clients, NEW h \in Hours,
               h \div HoursPerWeek = prev, c \in devices, FoldOwner(c) = k
        PROVE  rollups[c][<<d, h>>] = 0
    <3> DEFINE of(week) == {r \in Rows(Week(week)) : r[1] \in Folded(k)}
    <3>1. d \in DomainsIn(NewRows(k, cur, prev)) /\ NewRows(k, cur, prev) \subseteq AllRows
      BY <2>1, ShownComeFirst
    <3>2. d \in Domains  BY <3>1 DEF DomainsIn, AllRows
    <3>3. d \notin DomainsIn(of(prev))  BY <3>1 DEF NewRows, DomainsIn
    <3>4. rollups[c][<<d, h>>] \in Nat  BY <2>1, <3>2 DEF TypeOK, Cells
    <3>5. InWindow(h, Week(prev))  BY <2>2, WeekAssumption, WeekTicks
    <3>6. rollups[c][<<d, h>>] > 0 => <<c, d, h>> \in of(prev)
      BY <2>2, <3>2, <3>5 DEF Rows, Folded
    <3>7. <<c, d, h>>[2] = d  OBVIOUS
    <3> HIDE DEF of
    <3>8. <<c, d, h>> \notin of(prev)  BY <3>3, <3>7 DEF DomainsIn
    <3> QED  BY <3>4, <3>6, <3>8
  <2> QED  BY <2>1, <2>2, ShownComeFirst
<1> QED  BY <1>1, ProjectionsInductive, PTL

\* The examined names are names.
LEMMA ExaminedType == Examined \subseteq Seq(STRING)
<1> DEFINE listed == UNION {Blocklist[r] \cup {e.suffix : e \in Entities[r]} : r \in Releases}
           labels == UNION {ToSet(name) : name \in listed}
<1>1. listed \subseteq Seq(STRING)  BY NameAssumption
<1>2. labels \subseteq STRING
  <2>1. ASSUME NEW name \in listed PROVE ToSet(name) \subseteq STRING
    <3>1. name \in Seq(STRING)  BY <1>1
    <3> QED  BY <3>1 DEF ToSet
  <2> QED  BY <2>1
<1> DEFINE Below(l) == {<<l>> \o name : name \in listed}
<1>3. Examined = listed \cup UNION {Below(l) : l \in labels}  BY DEF Examined
<1> HIDE DEF labels, listed
<1>4. ASSUME NEW l \in labels, NEW name \in listed PROVE <<l>> \o name \in Seq(STRING)
  <2> DEFINE S == STRING
  <2>1. l \in S /\ name \in Seq(S)  BY <1>1, <1>2
  <2> HIDE DEF S
  <2>2. <<l>> \o name \in Seq(S)  BY <2>1
  <2> QED  BY <2>2 DEF S
<1>5. ASSUME NEW x \in Examined PROVE x \in Seq(STRING)
  <2>1. CASE x \in listed  BY <1>1, <2>1
  <2>2. CASE x \notin listed
    <3>1. PICK l \in labels : x \in Below(l)
      <4> HIDE DEF Below
      <4> QED  BY <1>3, <2>2
    <3>2. PICK name \in listed : x = <<l>> \o name  BY <3>1
    <3> QED  BY <1>4, <3>2
  <2> QED  BY <2>1, <2>2
<1> QED  BY <1>5

\* Whatever the running release, a subdomain of the names in the tables is
\* enriched like its parent or like its own entry (enrich).
THEOREM SubdomainsInheritHolds == ProjectionsSpec => []SubdomainsInherit
<1>1. ProjectionsIInv => SubdomainsInherit
  BY ExaminedType, SubdomainsAlwaysInherit
     DEF ProjectionsIInv, ProjectionsTypeOK, SubdomainsInherit
<1> QED  BY <1>1, ProjectionsInductive, PTL
-----------------------------------------------------------------------------
(* Score *)

\* A component is at most one Unit's worth.
LEMMA UnitType == Unit \in Nat \ {0} /\ 0 .. Unit \subseteq Nat
BY DEF Unit

\* A capped ratio is at least q Units exactly when q parts of the cap are at
\* most x.
LEMMA CappedMeaning ==
    ASSUME NEW x \in Nat, NEW cap \in Nat \ {0}
    PROVE  /\ Capped(x, cap) \in 0 .. Unit
           /\ \A q \in 0 .. Unit : q <= Capped(x, cap) <=> q * cap <= x * Unit
<1>1. CASE x >= cap
  <2>1. Capped(x, cap) = Unit  BY <1>1 DEF Capped
  <2>2. ASSUME NEW q \in 0 .. Unit
        PROVE  q * cap <= x * Unit
    <3>1. \A m, n, c \in Nat : m <= n => m * c <= n * c  OBVIOUS
    <3>2. q * cap <= Unit * cap  BY <3>1 DEF Unit
    <3>3. Unit * cap <= x * Unit  BY <1>1 DEF Unit
    <3>4. q * cap \in Nat /\ Unit * cap \in Nat /\ x * Unit \in Nat  BY DEF Unit
    <3> QED  BY <3>2, <3>3, <3>4
  <2> QED  BY <2>1, <2>2 DEF Unit
<1>2. CASE x < cap
  <2> DEFINE n == x * Unit
             d == n \div cap
  <2>1. n \in Nat /\ Capped(x, cap) = d  BY <1>2 DEF Capped, Unit
  <2>2. d \in Nat /\ d * cap <= n /\ n < (d + 1) * cap
    <3>1. n \in Nat  BY <2>1
    <3> HIDE DEF n
    <3>2. n \div cap \in Nat /\ n % cap \in 0 .. cap - 1 /\ n = cap * (n \div cap) + (n % cap)
      BY <3>1
    <3> HIDE DEF d
    <3>3. n = cap * d + (n % cap) /\ n % cap \in 0 .. cap - 1 /\ d \in Nat  BY <3>2 DEF d
    <3> QED  BY <3>3
  <2>3. ASSUME NEW q \in Nat
        PROVE  q <= d <=> q * cap <= n
    <3>1. ASSUME q <= d PROVE q * cap <= n
      <4>1. \A a, b, c \in Nat : a <= b => a * c <= b * c  OBVIOUS
      <4> HIDE DEF d, n
      <4>2. q * cap <= d * cap  BY <2>2, <3>1, <4>1
      <4> QED  BY <2>1, <2>2, <4>2
    <3>2. ASSUME q > d PROVE q * cap > n
      <4>1. \A a, b, c \in Nat : a <= b => a * c <= b * c  OBVIOUS
      <4> HIDE DEF d, n
      <4>2. (d + 1) * cap <= q * cap  BY <2>2, <3>2, <4>1
      <4> QED  BY <2>1, <2>2, <4>2
    <3> HIDE DEF d, n
    <3>3. q * cap \in Nat  OBVIOUS
    <3> QED  BY <2>1, <2>2, <3>1, <3>2, <3>3
  <2>4. d <= Unit
    <3>1. Unit \in Nat /\ n < (Unit + 1) * cap  BY <1>2 DEF Unit
    <3>2. ~ (Unit + 1 <= d)
      <4> HIDE DEF d, n
      <4> QED  BY <2>3, <3>1, <2>1
    <3> QED  BY <2>2, <3>1, <3>2
  <2>5. \A q \in 0 .. Unit : q \in Nat  BY DEF Unit
  <2>6. Capped(x, cap) \in 0 .. Unit  BY <2>1, <2>2, <2>4 DEF Unit
  <2> HIDE DEF d
  <2>7. \A q \in 0 .. Unit : q <= Capped(x, cap) <=> q * cap <= n  BY <2>1, <2>3, <2>5
  <2> QED  BY <2>6, <2>7
<1> QED  BY <1>1, <1>2

\* Products of natural numbers grow with either factor.
LEMMA ProductGrows ==
    \A a, b, c \in Nat : a <= b => /\ a * c \in Nat /\ b * c \in Nat /\ a * c <= b * c
                                  /\ c * a <= c * b
OBVIOUS

\* More of what is capped is never less.
LEMMA CappedGrows ==
    ASSUME NEW x \in Nat, NEW y \in Nat, NEW cap \in Nat \ {0}, x <= y
    PROVE  Capped(x, cap) <= Capped(y, cap)
<1> DEFINE q == Capped(x, cap)
<1>1. q \in 0 .. Unit  BY CappedMeaning
<1>2. Unit \in Nat /\ q \in Nat /\ q <= q  BY <1>1, UnitType
<1>3. q * cap <= x * Unit  BY <1>1, <1>2, CappedMeaning
<1>4. q * cap \in Nat /\ x * Unit \in Nat /\ y * Unit \in Nat /\ x * Unit <= y * Unit
  BY <1>2, ProductGrows
<1> HIDE DEF q
<1>5. q * cap <= y * Unit  BY <1>3, <1>4
<1> QED  BY <1>1, <1>5, CappedMeaning DEF q

\* The share of t in t + n grows with t.
LEMMA ShareGrows ==
    ASSUME NEW t \in Nat, NEW u \in Nat, NEW n \in Nat, t <= u, t + n > 0
    PROVE  Capped(t, t + n) <= Capped(u, u + n)
<1> DEFINE q == Capped(t, t + n)
           e == u - t
<1>1. /\ t + n \in Nat \ {0} /\ u + n \in Nat \ {0}
      /\ e \in Nat /\ u = t + e /\ Unit \in Nat
  BY DEF Unit
<1>2. q \in 0 .. Unit /\ q * (t + n) <= t * Unit
  BY <1>1, CappedMeaning
<1>3. q \in Nat /\ q <= Unit  BY <1>1, <1>2
<1> HIDE DEF q, e
<1>4. q * e \in Nat /\ e * Unit \in Nat /\ q * e <= e * Unit  BY <1>1, <1>3, ProductGrows
<1>5. q * (u + n) = q * (t + n) + q * e /\ u * Unit = t * Unit + e * Unit
  BY <1>1, <1>3
<1>6. q * (t + n) \in Nat /\ t * Unit \in Nat  BY <1>1, <1>3
<1>7. q * (u + n) <= u * Unit  BY <1>2, <1>4, <1>5, <1>6
<1> QED  BY <1>1, <1>2, <1>7, CappedMeaning DEF q

\* A common share lies between the two it is made of.
LEMMA ShareOfTwo ==
    ASSUME NEW t \in Nat, NEW n \in Nat \ {0}, NEW u \in Nat, NEW m \in Nat \ {0}
    PROVE  \/ Capped(t + u, n + m) >= Capped(t, n)
           \/ Capped(t + u, n + m) >= Capped(u, m)
<1> DEFINE p == Capped(t, n)
           q == Capped(u, m)
<1>1. /\ p \in 0 .. Unit /\ p * n <= t * Unit
      /\ q \in 0 .. Unit /\ q * m <= u * Unit
  BY CappedMeaning
<1>2. Unit \in Nat  BY DEF Unit
<1> HIDE DEF p, q
<1>3. ASSUME NEW r \in Nat, r <= p, r <= q
      PROVE  r * (n + m) <= (t + u) * Unit
  <2>1. p \in Nat /\ q \in Nat /\ n \in Nat /\ m \in Nat  BY <1>1, <1>2
  <2>2. r * n <= p * n /\ r * m <= q * m
    BY <1>3, <2>1, ProductGrows
  <2>3. r * (n + m) = r * n + r * m /\ (t + u) * Unit = t * Unit + u * Unit
    BY <1>2, <2>1
  <2>4. /\ r * n \in Nat /\ r * m \in Nat /\ p * n \in Nat /\ q * m \in Nat
        /\ t * Unit \in Nat /\ u * Unit \in Nat
    BY <1>2, <2>1
  <2> QED  BY <1>1, <2>2, <2>3, <2>4
<1>4. n + m \in Nat \ {0} /\ t + u \in Nat  OBVIOUS
<1>5. CASE p <= q
  <2>1. p * (n + m) <= (t + u) * Unit  BY <1>1, <1>2, <1>3, <1>5
  <2> QED  BY <1>1, <1>4, <2>1, CappedMeaning DEF p
<1>6. CASE q <= p
  <2>1. q * (n + m) <= (t + u) * Unit  BY <1>1, <1>2, <1>3, <1>6
  <2> QED  BY <1>1, <1>4, <2>1, CappedMeaning DEF q
<1> QED  BY <1>1, <1>2, <1>5, <1>6

\* More queries are never less chatty.
LEMMA ChattyGrows ==
    ASSUME NEW m \in Nat, NEW n \in Nat, m <= n
    PROVE  Chatty(m) \in 0 .. Unit /\ Chatty(n) \in 0 .. Unit /\ Chatty(m) <= Chatty(n)
<1>1. ASSUME NEW k \in Nat
      PROVE  /\ k <= ChattinessCap => Chatty(k) = Chattiness[k] /\ k \in 0 .. ChattinessCap
             /\ ~(k <= ChattinessCap) => Chatty(k) = Unit
             /\ Chatty(k) \in 0 .. Unit
  BY ChattinessAssumption, UnitType DEF Chatty
<1>2. Chatty(m) \in 0 .. Unit /\ Chatty(n) \in 0 .. Unit  BY <1>1
<1>3. CASE n <= ChattinessCap
  <2>1. m <= ChattinessCap  BY <1>3, ChattinessAssumption
  <2> QED  BY <1>1, <1>2, <1>3, <2>1, ChattinessAssumption
<1>4. CASE ~(n <= ChattinessCap)
  BY <1>1, <1>2, <1>4, UnitType
<1> QED  BY <1>3, <1>4

\* What aggregate hands to score.
ScoreInputs ==
    [total : Nat, trackerQueries : Nat, entities : Nat, countries : Nat, domains : Nat]

\* With traffic, a score is the larger the larger its components.
LEMMA ScoreGrows ==
    ASSUME NEW in \in ScoreInputs, NEW out \in ScoreInputs, in.total > 0,
           Capped(in.trackerQueries, in.total) <= Capped(out.trackerQueries, out.total),
           in.entities <= out.entities, in.countries <= out.countries,
           in.total <= out.total
    PROVE  ScoreOf(out) >= ScoreOf(in)
<1> DEFINE sum(s, e, c, v) == 45 * s + 25 * e + 15 * c + 15 * v
           in4 == sum(Capped(in.trackerQueries, in.total), Capped(in.entities, EntityCap),
                      Capped(in.countries, CountryCap), Chatty(in.total))
           out4 == sum(Capped(out.trackerQueries, out.total), Capped(out.entities, EntityCap),
                       Capped(out.countries, CountryCap), Chatty(out.total))
<1>1. /\ in.total \in Nat \ {0} /\ out.total \in Nat \ {0}
      /\ in.trackerQueries \in Nat /\ out.trackerQueries \in Nat
      /\ in.entities \in Nat /\ out.entities \in Nat
      /\ in.countries \in Nat /\ out.countries \in Nat
      /\ EntityCap \in Nat \ {0} /\ CountryCap \in Nat \ {0}
  BY CapAssumption DEF ScoreInputs
<1>2. /\ Capped(in.entities, EntityCap) <= Capped(out.entities, EntityCap)
      /\ Capped(in.countries, CountryCap) <= Capped(out.countries, CountryCap)
      /\ Chatty(in.total) <= Chatty(out.total)
  BY <1>1, CappedGrows, ChattyGrows
<1>3. {Capped(in.trackerQueries, in.total), Capped(in.entities, EntityCap),
       Capped(in.countries, CountryCap), Chatty(in.total),
       Capped(out.trackerQueries, out.total), Capped(out.entities, EntityCap),
       Capped(out.countries, CountryCap), Chatty(out.total)} \subseteq Nat
  <2>1. \A n \in Nat : Chatty(n) \in 0 .. Unit  BY ChattyGrows
  <2>2. \A x \in Nat, cap \in Nat \ {0} : Capped(x, cap) \in 0 .. Unit  BY CappedMeaning
  <2> QED  BY <1>1, <2>1, <2>2, UnitType
<1>4. \A a, b, c, d, e, f, g, h \in Nat :
         a <= e /\ b <= f /\ c <= g /\ d <= h
            => sum(a, b, c, d) \in Nat /\ sum(e, f, g, h) \in Nat /\ sum(a, b, c, d) <= sum(e, f, g, h)
  OBVIOUS
<1>5. in4 \in Nat /\ out4 \in Nat /\ in4 <= out4
  <2> HIDE DEF sum
  <2> QED  BY <1>2, <1>3, <1>4
<1>6. ScoreOf(in) = Pct(in4 \div 100) /\ ScoreOf(out) = Pct(out4 \div 100)
  BY <1>1 DEF ScoreOf
<1>7. \A m, n \in Nat : m <= n => m \div 100 \in Nat /\ n \div 100 \in Nat /\ m \div 100 <= n \div 100
  OBVIOUS
<1>8. \A m, n \in Nat : m <= n => Pct(m) <= Pct(n)
  BY DEF Pct, Unit
<1> HIDE DEF in4, out4
<1> QED  BY <1>5, <1>6, <1>7, <1>8

\* A score is a percentage, whatever the inputs (score, pct).
LEMMA ScoreType ==
    ASSUME NEW in \in ScoreInputs
    PROVE  ScoreOf(in) \in 0 .. 100 /\ (in.total = 0 => ScoreOf(in) = 0)
<1>1. CASE in.total = 0  BY <1>1 DEF ScoreOf
<1>2. CASE in.total # 0
  <2> DEFINE a == Capped(in.trackerQueries, in.total)
             b == Capped(in.entities, EntityCap)
             c == Capped(in.countries, CountryCap)
             v == Chatty(in.total)
             blended == (45 * a + 25 * b + 15 * c + 15 * v) \div 100
  <2>1. /\ in.total \in Nat \ {0} /\ in.trackerQueries \in Nat
        /\ in.entities \in Nat /\ in.countries \in Nat
        /\ EntityCap \in Nat \ {0} /\ CountryCap \in Nat \ {0}
    BY <1>2, CapAssumption DEF ScoreInputs
  <2>2. a \in 0 .. Unit /\ b \in 0 .. Unit /\ c \in 0 .. Unit /\ v \in 0 .. Unit
    <3>1. a \in 0 .. Unit /\ b \in 0 .. Unit /\ c \in 0 .. Unit  BY <2>1, CappedMeaning
    <3>2. v \in 0 .. Unit  BY <2>1, ChattyGrows
    <3> QED  BY <3>1, <3>2
  <2>3. ScoreOf(in) = Pct(blended)  BY <1>2 DEF ScoreOf
  <2> HIDE DEF a, b, c, v
  <2>4. blended \in 0 .. Unit
    <3>1. /\ a \in Nat /\ a <= 10000 /\ b \in Nat /\ b <= 10000
          /\ c \in Nat /\ c <= 10000 /\ v \in Nat /\ v <= 10000
      BY <2>2 DEF Unit
    <3>2. PICK n \in Nat : n = 45 * a + 25 * b + 15 * c + 15 * v  BY <3>1
    <3>3. n <= 1000000  BY <3>1, <3>2
    <3>4. n \div 100 \in 0 .. 10000  BY <3>3
    <3>5. blended = n \div 100  BY <3>1, <3>2
    <3> HIDE DEF blended
    <3> QED  BY <3>4, <3>5 DEF Unit
  <2>5. \A n \in 0 .. Unit : Pct(n) \in 0 .. 100  BY DEF Pct, Unit
  <2> HIDE DEF blended
  <2> QED  BY <1>2, <2>3, <2>4, <2>5
<1> QED  BY <1>1, <1>2

\* The rows a device's score is computed from, and those of trackers.
RowsOf(k) == {r \in Rows(AllTime) : r[1] \in Folded(k)}
TrackersOf(k) == TrackerRows(RowsOf(k))
EntitiesOf(k) == {Destination(d).entity : d \in DomainsIn(TrackersOf(k))} \ {NoEntity}
CountriesOf(k) == {Destination(d).country : d \in DomainsIn(RowsOf(k))} \ {NoCountry}

\* The inputs of a score, as sums and cardinalities of sets.
InputsOf(k) ==
    LET in == Aggregate(k, AllTime)
    IN /\ in \in ScoreInputs
       /\ in.total = SumFunctionOnSet(Counted, RowsOf(k))
       /\ in.trackerQueries = SumFunctionOnSet(Counted, TrackersOf(k))
       /\ in.entities = Cardinality(EntitiesOf(k)) /\ IsFiniteSet(EntitiesOf(k))
       /\ in.countries = Cardinality(CountriesOf(k)) /\ IsFiniteSet(CountriesOf(k))
       /\ TrackersOf(k) \subseteq RowsOf(k) /\ RowsOf(k) \subseteq AllRows
       /\ in.trackerQueries <= in.total

\* What is so in every state of the right type, to be cited of the next state too.
AllInputs ==
    /\ \A k \in Clients : InputsOf(k)
    /\ IsFiniteSet(AllRows) /\ \A r \in AllRows : Counted[r] \in Nat

\* Some rows name finitely many domains.
LEMMA DomainsFinite ==
    ASSUME TypeOK, NEW rows \in SUBSET AllRows
    PROVE  IsFiniteSet(DomainsIn(rows))
<1> DEFINE f == [r \in AllRows |-> r[2]]
<1>1. \A r \in rows : f[r] = r[2]  OBVIOUS
<1>2. IsFiniteSet(rows)  BY SumIsSum
<1> HIDE DEF f
<1>3. DomainsIn(rows) = {f[r] : r \in rows}  BY <1>1 DEF DomainsIn
<1> QED  BY <1>2, <1>3, ImageFinite

\* The aggregate of every device has inputs of that form (aggregate).
LEMMA InputsMeaning == TypeOK => AllInputs
<1> SUFFICES ASSUME TypeOK PROVE AllInputs  OBVIOUS
<1>1. ASSUME NEW k \in Clients PROVE InputsOf(k)
  <2> DEFINE in == Aggregate(k, AllTime)
             D == DomainsIn(RowsOf(k))
             E == DomainsIn(TrackersOf(k))
             f == [d \in D |-> Destination(d).country]
             g == [d \in E |-> Destination(d).entity]
  <2>1. TrackersOf(k) \subseteq RowsOf(k) /\ RowsOf(k) \subseteq AllRows
    BY RowsType DEF TrackersOf, RowsOf, TrackerRows
  <2>2. /\ in.total = Sum(RowsOf(k)) /\ in.trackerQueries = Sum(TrackersOf(k))
        /\ in.entities = Cardinality(EntitiesOf(k))
        /\ in.countries = Cardinality(CountriesOf(k))
        /\ in.domains = Cardinality(D)
        /\ in = [total |-> in.total, trackerQueries |-> in.trackerQueries,
                 entities |-> in.entities, countries |-> in.countries, domains |-> in.domains]
    BY DEF Aggregate, RowsOf, TrackersOf, EntitiesOf, CountriesOf
  <2>3. /\ in.total = SumFunctionOnSet(Counted, RowsOf(k)) /\ in.total \in Nat
        /\ in.trackerQueries = SumFunctionOnSet(Counted, TrackersOf(k)) /\ in.trackerQueries \in Nat
    BY <2>1, <2>2, SumIsSum
  <2>4. in.trackerQueries <= in.total
    BY <2>1, <2>3, SumIsSum, SumPart
  <2>5. IsFiniteSet(D) /\ IsFiniteSet(E)  BY <2>1, DomainsFinite
  <2>6. IsFiniteSet(CountriesOf(k))
    <3>1. CountriesOf(k) \subseteq {f[d] : d \in D}  BY DEF CountriesOf
    <3> HIDE DEF in, f, g, D, E
    <3>2. IsFiniteSet({f[d] : d \in D})  BY <2>5, ImageFinite
    <3> QED  BY <3>1, <3>2, FS_Subset
  <2>7. IsFiniteSet(EntitiesOf(k))
    <3>1. EntitiesOf(k) \subseteq {g[d] : d \in E}  BY DEF EntitiesOf
    <3> HIDE DEF in, f, g, D, E
    <3>2. IsFiniteSet({g[d] : d \in E})  BY <2>5, ImageFinite
    <3> QED  BY <3>1, <3>2, FS_Subset
  <2>8. in \in ScoreInputs
    <3>1. in.entities \in Nat /\ in.countries \in Nat /\ in.domains \in Nat
      BY <2>2, <2>5, <2>6, <2>7, FS_CardinalityType
    <3> HIDE DEF in
    <3> QED  BY <2>2, <2>3, <3>1 DEF ScoreInputs
  <2> QED  BY <2>1, <2>2, <2>3, <2>4, <2>6, <2>7, <2>8 DEF InputsOf
<1> QED  BY <1>1, SumIsSum DEF AllInputs

\* A batch leaves the destinations, the folding and the rows of other domains
\* as they are, and its own rows grow.
LEMMA BatchRows ==
    ASSUME ProjectionsIInv, NEW batch \in SUBSET Clients, NEW x \in Cells,
           CountBatch(batch, x), destinations' = destinations, NEW k \in Listed
    PROVE  /\ \A d : Destination(d)' = Destination(d)
           /\ Folded(k)' = Folded(k)
           /\ \A r \in AllRows : /\ Counted'[r] >= Counted[r]
                                 /\ r[2] # x[1] => Counted'[r] = Counted[r]
           /\ \A r \in AllRows : /\ r \in RowsOf(k) <=> Counted[r] > 0 /\ r[1] \in Folded(k)
                                 /\ r \in RowsOf(k)' <=> Counted'[r] > 0 /\ r[1] \in Folded(k)
<1>1. TypeOK /\ ShallowAliases  BY DEF ProjectionsIInv, IInv
<1>2. /\ mergedInto' = mergedInto /\ devices' = devices \cup batch
      /\ rollups' = [c \in Clients |->
                     IF c \in batch THEN [rollups[c] EXCEPT ![x] = @ + 1] ELSE rollups[c]]
  BY DEF CountBatch, ApplyBatch
<1>3. \A d : Destination(d)' = Destination(d)  BY DEF Destination
<1>4. Folded(k)' = Folded(k)
  <2>1. k \in devices /\ devices \subseteq Clients  BY <1>1 DEF TypeOK, Listed
  <2>2. \A c \in Clients : FoldOwner(c)' = FoldOwner(c)  BY <1>2 DEF FoldOwner
  <2>3. \A c \in batch \ devices : FoldOwner(c) = c
    BY <1>1 DEF ShallowAliases, FoldOwner
  <2>4. \A c \in batch \ devices : FoldOwner(c) # k  BY <2>1, <2>3
  <2>5. \A c \in devices' : FoldOwner(c)' = k => c \in devices
    BY <1>2, <2>1, <2>2, <2>4
  <2> QED  BY <1>2, <2>1, <2>2, <2>5 DEF Folded
<1>5. ASSUME NEW r \in AllRows
      PROVE  /\ r = <<r[1], r[2], r[3]>> /\ r[1] \in Clients /\ <<r[2], r[3]>> \in Cells
             /\ Counted[r] = rollups[r[1]][<<r[2], r[3]>>]
             /\ Counted'[r] = rollups'[r[1]][<<r[2], r[3]>>]
             /\ Counted[r] \in Nat
             /\ rollups[r[1]] \in [Cells -> Nat]
  <2>1. r = <<r[1], r[2], r[3]>> /\ r[1] \in Clients /\ <<r[2], r[3]>> \in Cells
    BY DEF AllRows, Cells
  <2>2. Counted[r] = rollups[r[1]][<<r[2], r[3]>>]  BY DEF Counted
  <2>3. Counted'[r] = rollups'[r[1]][<<r[2], r[3]>>]  BY DEF Counted, AllRows
  <2>4. rollups[r[1]] \in [Cells -> Nat]  BY <1>1, <2>1 DEF TypeOK
  <2> QED  BY <2>1, <2>2, <2>3, <2>4
<1>6. ASSUME NEW r \in AllRows
      PROVE  /\ Counted'[r] >= Counted[r]
             /\ r[2] # x[1] => Counted'[r] = Counted[r]
  <2>1. CASE r[1] \in batch /\ <<r[2], r[3]>> = x
    <3>1. rollups'[r[1]] = [rollups[r[1]] EXCEPT ![x] = @ + 1]  BY <1>2, <1>5, <2>1
    <3>2. rollups'[r[1]][x] = rollups[r[1]][x] + 1  BY <1>5, <3>1
    <3> QED  BY <1>5, <2>1, <3>2
  <2>2. CASE ~(r[1] \in batch /\ <<r[2], r[3]>> = x)
    <3>1. rollups'[r[1]][<<r[2], r[3]>>] = rollups[r[1]][<<r[2], r[3]>>]
      BY <1>2, <1>5, <2>2
    <3> QED  BY <1>5, <3>1
  <2> QED  BY <2>1, <2>2
<1>7. ASSUME NEW r \in AllRows
      PROVE  /\ r \in RowsOf(k) <=> Counted[r] > 0 /\ r[1] \in Folded(k)
             /\ r \in RowsOf(k)' <=> Counted'[r] > 0 /\ r[1] \in Folded(k)
  <2>1. r \in RowsOf(k) <=> Counted[r] > 0 /\ r[1] \in Folded(k)
    BY <1>5 DEF RowsOf, Rows, InWindow, AllTime, AllRows
  <2>2. r \in RowsOf(k)' <=> Counted'[r] > 0 /\ r[1] \in Folded(k)'
    BY <1>5 DEF RowsOf, Rows, InWindow, AllTime, AllRows
  <2> QED  BY <1>4, <2>1, <2>2
<1> QED  BY <1>3, <1>4, <1>6, <1>7

\* More queries to a tracker never lower the score.
LEMMA TrackerQueryRaises ==
    ASSUME ProjectionsIInv, TypeOK', NEW batch \in SUBSET Clients, NEW x \in Cells,
           CountBatch(batch, x), destinations' = destinations, NEW k \in Listed,
           Destination(x[1]).tracker
    PROVE  Scorecard(k)' >= Scorecard(k)
<1> DEFINE in == Aggregate(k, AllTime)
           out == Aggregate(k, AllTime)'
           R == RowsOf(k)
           S == RowsOf(k)'
           T == TrackersOf(k)
           U == TrackersOf(k)'
           N == R \ T
           old == Counted
           new == Counted'
           sum(f, rows) == SumFunctionOnSet(f, rows)
<1>1. k \in Clients /\ TypeOK  BY DEF ProjectionsIInv, IInv, TypeOK, Listed
<1>2. /\ in \in ScoreInputs /\ in.total = sum(old, R) /\ in.trackerQueries = sum(old, T)
      /\ in.entities = Cardinality(EntitiesOf(k)) /\ IsFiniteSet(EntitiesOf(k))
      /\ in.countries = Cardinality(CountriesOf(k)) /\ IsFiniteSet(CountriesOf(k))
      /\ T \subseteq R /\ R \subseteq AllRows
      /\ IsFiniteSet(AllRows) /\ \A r \in AllRows : old[r] \in Nat
  BY <1>1, InputsMeaning DEF AllInputs, InputsOf
<1>3. /\ out \in ScoreInputs /\ out.total = sum(new, S) /\ out.trackerQueries = sum(new, U)
      /\ out.entities = Cardinality(EntitiesOf(k)') /\ IsFiniteSet(EntitiesOf(k)')
      /\ out.countries = Cardinality(CountriesOf(k)') /\ IsFiniteSet(CountriesOf(k)')
      /\ U \subseteq S /\ S \subseteq AllRows
      /\ \A r \in AllRows : new[r] \in Nat
  <2>1. (TypeOK => AllInputs)'  BY InputsMeaning, PTL
  <2>2. AllRows' = AllRows  BY DEF AllRows
  <2> QED  BY <1>1, <2>1, <2>2 DEF AllInputs, InputsOf, ScoreInputs
<1>4. /\ \A d : Destination(d)' = Destination(d)
      /\ \A r \in AllRows : new[r] >= old[r] /\ (r[2] # x[1] => new[r] = old[r])
      /\ \A r \in AllRows : /\ r \in R <=> old[r] > 0 /\ r[1] \in Folded(k)
                            /\ r \in S <=> new[r] > 0 /\ r[1] \in Folded(k)
  BY BatchRows
<1>5. /\ \A r : r \in T <=> r \in R /\ Destination(r[2]).tracker
      /\ \A r : r \in U <=> r \in S /\ Destination(r[2]).tracker
  BY <1>4 DEF TrackersOf, TrackerRows
<1>6. /\ \A d : d \in DomainsIn(T) <=> \E r \in T : r[2] = d
      /\ \A d : d \in DomainsIn(R) <=> \E r \in R : r[2] = d
      /\ \A d : d \in DomainsIn(U) <=> \E r \in U : r[2] = d
      /\ \A d : d \in DomainsIn(S) <=> \E r \in S : r[2] = d
  BY DEF DomainsIn
<1>7. /\ \A e : e \in EntitiesOf(k) <=> e # NoEntity /\ \E d \in DomainsIn(T) : Destination(d).entity = e
      /\ \A e : e \in EntitiesOf(k)' <=> e # NoEntity /\ \E d \in DomainsIn(U) : Destination(d).entity = e
      /\ \A e : e \in CountriesOf(k) <=> e # NoCountry /\ \E d \in DomainsIn(R) : Destination(d).country = e
      /\ \A e : e \in CountriesOf(k)' <=> e # NoCountry /\ \E d \in DomainsIn(S) : Destination(d).country = e
  BY <1>4 DEF EntitiesOf, CountriesOf, DomainsIn
<1>8. Scorecard(k) = ScoreOf(in) /\ Scorecard(k)' = ScoreOf(out)  BY DEF Scorecard
<1> HIDE DEF in, out, R, S, T, U, old, new
<1>9. R \subseteq S
  BY <1>2, <1>3, <1>4
<1>10. T \subseteq U  BY <1>5, <1>9
<1>11. S = U \cup N /\ U \cap N = {} /\ R = T \cup N /\ T \cap N = {}
       /\ \A r \in N : old[r] = new[r]
  <2>1. \A r \in S \ U : r \in R /\ r \notin T
    BY <1>2, <1>3, <1>4, <1>5
  <2>2. \A r \in N : r \in S /\ r \notin U /\ r[2] # x[1]
    BY <1>5, <1>9
  <2>3. \A r \in N : old[r] = new[r]  BY <1>2, <1>4, <2>2
  <2> QED  BY <1>2, <1>3, <1>10, <2>1, <2>2, <2>3
<1>12. IsFiniteSet(T) /\ IsFiniteSet(U) /\ IsFiniteSet(N)
       /\ N \subseteq AllRows /\ T \subseteq AllRows /\ U \subseteq AllRows
  BY <1>2, <1>3, FS_Subset
<1> HIDE DEF N
<1>13. /\ sum(old, R) = sum(old, T) + sum(old, N)
       /\ sum(new, S) = sum(new, U) + sum(new, N)
  BY <1>2, <1>3, <1>11, <1>12, SumDisjoint
<1>14. sum(old, N) = sum(new, N)  BY <1>11, <1>12, SumEqual
<1>15. sum(old, T) <= sum(new, U)
  <2>1. sum(old, T) <= sum(new, T)
    <3>1. \A r \in T : old[r] \in Nat /\ new[r] \in Nat /\ old[r] <= new[r]
      BY <1>2, <1>3, <1>4, <1>12
    <3> QED  BY <1>12, <3>1, SumMonotone
  <2>2. sum(new, T) <= sum(new, U)
    <3>1. \A r \in U : new[r] \in Nat  BY <1>3, <1>12
    <3> QED  BY <1>10, <1>12, <3>1, SumPart
  <2>3. sum(old, T) \in Nat /\ sum(new, T) \in Nat /\ sum(new, U) \in Nat
    BY <1>2, <1>3, <1>12, SumType
  <2> QED  BY <2>1, <2>2, <2>3
<1>16. sum(old, T) \in Nat /\ sum(new, U) \in Nat /\ sum(old, N) \in Nat
  BY <1>2, <1>3, <1>12, SumType
<1>17. in.entities <= out.entities
  <2>1. EntitiesOf(k) \subseteq EntitiesOf(k)'  BY <1>6, <1>7, <1>10
  <2> QED  BY <1>2, <1>3, <2>1, FS_Subset
<1>18. in.countries <= out.countries
  <2>1. CountriesOf(k) \subseteq CountriesOf(k)'  BY <1>6, <1>7, <1>9
  <2> QED  BY <1>2, <1>3, <2>1, FS_Subset
<1>19. CASE in.total = 0
  <2>1. ScoreOf(in) = 0 /\ ScoreOf(out) \in 0 .. 100  BY <1>2, <1>3, <1>19, ScoreType
  <2> QED  BY <1>8, <2>1
<1>20. CASE in.total > 0
  <2> DEFINE t == sum(old, T)
             u == sum(new, U)
             n == sum(old, N)
  <2>1. /\ t \in Nat /\ u \in Nat /\ n \in Nat /\ t <= u /\ t + n > 0
        /\ in.total = t + n /\ in.trackerQueries = t
        /\ out.total = u + n /\ out.trackerQueries = u
    BY <1>2, <1>3, <1>13, <1>14, <1>15, <1>16, <1>20
  <2> HIDE DEF t, u, n
  <2>2. Capped(t, t + n) <= Capped(u, u + n)  BY <2>1, ShareGrows
  <2>3. in.total <= out.total  BY <2>1
  <2> QED  BY <1>2, <1>3, <1>8, <1>17, <1>18, <1>20, <2>1, <2>2, <2>3, ScoreGrows
<1>21. in.total \in Nat  BY <1>2 DEF ScoreInputs
<1> QED  BY <1>19, <1>20, <1>21

\* A query to a known tracker never improves a score (apply_batch, aggregate,
\* score).
THEOREM TrackerQueryNeverImprovesHolds == ProjectionsSpec => TrackerQueryNeverImproves
<1> DEFINE Raised ==
      /\ rollups' # rollups
      /\ destinations' = destinations
      /\ \A c \in Clients, x \in Cells :
           rollups'[c][x] # rollups[c][x] => Destination(x[1]).tracker
      => \A k \in Listed : Scorecard(k)' >= Scorecard(k)
<1>1. ProjectionsIInv /\ ProjectionsIInv' /\ [Next]_vars => [Raised]_vars
  <2> SUFFICES ASSUME ProjectionsIInv, ProjectionsIInv', Next, rollups' # rollups,
                      destinations' = destinations,
                      \A c \in Clients, x \in Cells :
                        rollups'[c][x] # rollups[c][x] => Destination(x[1]).tracker,
                      NEW k \in Listed
               PROVE  Scorecard(k)' >= Scorecard(k)
    BY DEF vars, deviceVars
  <2>1. PICK batch \in (SUBSET Clients) \ {{}}, x \in Cells : CountBatch(batch, x)
    BY DEF Next, Start, Open, EditOverlay, Close, Rename, Merge
  <2>2. TypeOK /\ TypeOK'  BY DEF ProjectionsIInv, IInv
  <2>3. Destination(x[1]).tracker
    <3>1. PICK c \in batch : TRUE  OBVIOUS
    <3>2. c \in Clients /\ rollups[c] \in [Cells -> Nat]  BY <2>2 DEF TypeOK
    <3>3. rollups'[c] = [rollups[c] EXCEPT ![x] = @ + 1]
      BY <2>1, <3>2 DEF CountBatch, ApplyBatch
    <3>4. rollups'[c][x] = rollups[c][x] + 1 /\ rollups[c][x] \in Nat  BY <3>2, <3>3
    <3> QED  BY <3>2, <3>4
  <2> QED  BY <2>1, <2>2, <2>3, TrackerQueryRaises
<1> QED  BY <1>1, ProjectionsInductive, PTL DEF ProjectionsSpec, TrackerQueryNeverImproves

\* A merge moves what is folded into the source to the target, and nothing else.
LEMMA MergeRows ==
    ASSUME ProjectionsIInv, NEW source \in Listed, NEW into \in Listed,
           NEW s \in Clients, NEW i \in Clients, Merge(s, i),
           destinations' = destinations, mergedInto'[source] = into
    PROVE  /\ source # into
           /\ \A d : Destination(d)' = Destination(d)
           /\ Counted' = Counted
           /\ RowsOf(into)' = RowsOf(source) \cup RowsOf(into)
           /\ RowsOf(source) \cap RowsOf(into) = {}
<1>1. TypeOK /\ ShallowAliases  BY DEF ProjectionsIInv, IInv
<1>2. /\ s \in devices /\ i \in devices /\ Canonical(i) # s
      /\ mergedInto' = [d \in Clients |->
            IF d = s \/ mergedInto[d] = s THEN Canonical(i) ELSE mergedInto[d]]
      /\ rollups' = rollups /\ devices' = devices
  BY DEF Merge
<1>3. /\ source \in Clients /\ into \in Clients /\ devices \subseteq Clients
      /\ source \in devices /\ into \in devices
      /\ mergedInto[source] = NoDevice /\ mergedInto[into] = NoDevice
  BY <1>1 DEF TypeOK, Listed
<1>4. s = source /\ Canonical(i) = into  BY <1>2, <1>3
<1>5. source # into  BY <1>2, <1>4
<1>6. \A d : Destination(d)' = Destination(d)  BY DEF Destination
<1>7. Counted' = Counted  BY <1>2 DEF Counted, AllRows
<1>8. Folded(into)' = Folded(source) \cup Folded(into)
  <2>1. ASSUME NEW d \in devices
        PROVE  FoldOwner(d)' = into <=> FoldOwner(d) \in {source, into}
    <3>1. d \in Clients  BY <1>3
    <3>2. CASE d = source \/ mergedInto[d] = source
      <4>1. mergedInto'[d] = into  BY <1>2, <1>4, <3>1, <3>2
      <4>2. FoldOwner(d) = source  BY <1>3, <3>2 DEF FoldOwner
      <4> QED  BY <1>3, <4>1, <4>2 DEF FoldOwner
    <3>3. CASE ~(d = source \/ mergedInto[d] = source)
      <4>1. mergedInto'[d] = mergedInto[d]  BY <1>2, <1>4, <3>1, <3>3
      <4>2. FoldOwner(d)' = FoldOwner(d)  BY <4>1 DEF FoldOwner
      <4>3. FoldOwner(d) # source  BY <3>3 DEF FoldOwner
      <4> QED  BY <4>2, <4>3
    <3> QED  BY <3>2, <3>3
  <2>2. Folded(into)' = {d \in devices : FoldOwner(d)' = into}  BY <1>2 DEF Folded
  <2> QED  BY <2>1, <2>2 DEF Folded
<1>9. Rows(AllTime)' = Rows(AllTime)  BY <1>2 DEF Rows, InWindow, AllTime
<1>10. RowsOf(into)' = {r \in Rows(AllTime) : r[1] \in Folded(into)'}  BY <1>9 DEF RowsOf
<1>11. RowsOf(into)' = RowsOf(source) \cup RowsOf(into)  BY <1>8, <1>10 DEF RowsOf
<1>12. RowsOf(source) \cap RowsOf(into) = {}  BY <1>5 DEF RowsOf, Folded
<1> QED  BY <1>5, <1>6, <1>7, <1>11, <1>12

\* The merged device scores no lower than the lower of the two.
LEMMA MergeScores ==
    ASSUME ProjectionsIInv, TypeOK', NEW source \in Listed, NEW into \in Listed,
           NEW s \in Clients, NEW i \in Clients, Merge(s, i),
           destinations' = destinations, mergedInto'[source] = into
    PROVE  Scorecard(into)' >= Scorecard(into) \/ Scorecard(into)' >= Scorecard(source)
<1> DEFINE a == Aggregate(source, AllTime)
           b == Aggregate(into, AllTime)
           out == Aggregate(into, AllTime)'
           sum(rows) == SumFunctionOnSet(Counted, rows)
           A == RowsOf(source)
           B == RowsOf(into)
           R == RowsOf(into)'
           TA == TrackersOf(source)
           TB == TrackersOf(into)
           T == TrackersOf(into)'
<1>1. TypeOK /\ source \in Clients /\ into \in Clients  BY DEF ProjectionsIInv, IInv, TypeOK, Listed
<1>2. AllInputs /\ InputsOf(source) /\ InputsOf(into)  BY <1>1, InputsMeaning DEF AllInputs
<1>3. /\ source # into
      /\ \A d : Destination(d)' = Destination(d)
      /\ Counted' = Counted
      /\ R = A \cup B /\ A \cap B = {}
  BY MergeRows
<1>4. /\ a \in ScoreInputs /\ a.total = sum(A) /\ a.trackerQueries = sum(TA)
      /\ a.entities = Cardinality(EntitiesOf(source)) /\ IsFiniteSet(EntitiesOf(source))
      /\ a.countries = Cardinality(CountriesOf(source)) /\ IsFiniteSet(CountriesOf(source))
      /\ a.trackerQueries <= a.total
  BY <1>2 DEF InputsOf
<1>5. /\ b \in ScoreInputs /\ b.total = sum(B) /\ b.trackerQueries = sum(TB)
      /\ b.entities = Cardinality(EntitiesOf(into)) /\ IsFiniteSet(EntitiesOf(into))
      /\ b.countries = Cardinality(CountriesOf(into)) /\ IsFiniteSet(CountriesOf(into))
      /\ b.trackerQueries <= b.total
  BY <1>2 DEF InputsOf
<1>6. /\ out \in ScoreInputs /\ out.total = sum(R) /\ out.trackerQueries = sum(T)
      /\ out.entities = Cardinality(EntitiesOf(into)') /\ IsFiniteSet(EntitiesOf(into)')
      /\ out.countries = Cardinality(CountriesOf(into)') /\ IsFiniteSet(CountriesOf(into)')
  <2>1. (TypeOK => AllInputs)'  BY InputsMeaning, PTL
  <2> QED  BY <1>1, <1>3, <2>1 DEF AllInputs, InputsOf, ScoreInputs
<1>7. /\ IsFiniteSet(A) /\ IsFiniteSet(B) /\ IsFiniteSet(TA) /\ IsFiniteSet(TB)
      /\ \A r \in A \cup B : Counted[r] \in Nat
      /\ TA \subseteq A /\ TB \subseteq B
  <2>1. A \subseteq AllRows /\ B \subseteq AllRows /\ TA \subseteq A /\ TB \subseteq B
    BY <1>2 DEF InputsOf
  <2>2. IsFiniteSet(AllRows) /\ \A r \in AllRows : Counted[r] \in Nat  BY <1>2 DEF AllInputs
  <2> HIDE DEF A, B, TA, TB
  <2>3. IsFiniteSet(A) /\ IsFiniteSet(B)  BY <2>1, <2>2, FS_Subset
  <2>4. IsFiniteSet(TA) /\ IsFiniteSet(TB)  BY <2>1, <2>3, FS_Subset
  <2> QED  BY <2>1, <2>2, <2>3, <2>4
<1>8. T = TA \cup TB /\ TA \cap TB = {}
  <2>1. \A r : r \in T <=> r \in R /\ Destination(r[2]).tracker
    BY <1>3 DEF TrackersOf, TrackerRows
  <2>2. \A r : /\ r \in TA <=> r \in A /\ Destination(r[2]).tracker
               /\ r \in TB <=> r \in B /\ Destination(r[2]).tracker
    BY DEF TrackersOf, TrackerRows
  <2> HIDE DEF T, TA, TB, R, A, B
  <2> QED  BY <1>3, <2>1, <2>2
<1>9. /\ out.total = a.total + b.total
      /\ out.trackerQueries = a.trackerQueries + b.trackerQueries
  <2> HIDE DEF T, TA, TB, R, A, B, out, a, b
  <2>1. sum(A \cup B) = sum(A) + sum(B)  BY <1>3, <1>7, SumDisjoint
  <2>2. sum(TA \cup TB) = sum(TA) + sum(TB)
    <3>1. \A r \in TA \cup TB : Counted[r] \in Nat  BY <1>7
    <3> QED  BY <1>7, <1>8, <3>1, SumDisjoint
  <2> QED  BY <1>3, <1>4, <1>5, <1>6, <1>8, <2>1, <2>2
<1>10. /\ a.entities <= out.entities /\ b.entities <= out.entities
       /\ a.countries <= out.countries /\ b.countries <= out.countries
  <2>1. \A e : /\ e \in EntitiesOf(source) <=>
                    e # NoEntity /\ \E r \in TA : Destination(r[2]).entity = e
               /\ e \in EntitiesOf(into) <=>
                    e # NoEntity /\ \E r \in TB : Destination(r[2]).entity = e
               /\ e \in CountriesOf(source) <=>
                    e # NoCountry /\ \E r \in A : Destination(r[2]).country = e
               /\ e \in CountriesOf(into) <=>
                    e # NoCountry /\ \E r \in B : Destination(r[2]).country = e
    BY DEF EntitiesOf, CountriesOf, DomainsIn
  <2>2. \A e : /\ e \in EntitiesOf(into)' <=>
                    e # NoEntity /\ \E r \in T : Destination(r[2]).entity = e
               /\ e \in CountriesOf(into)' <=>
                    e # NoCountry /\ \E r \in R : Destination(r[2]).country = e
    BY <1>3 DEF EntitiesOf, CountriesOf, DomainsIn
  <2> HIDE DEF T, TA, TB, R, A, B, out, a, b
  <2>3. /\ EntitiesOf(source) \subseteq EntitiesOf(into)'
        /\ EntitiesOf(into) \subseteq EntitiesOf(into)'
        /\ CountriesOf(source) \subseteq CountriesOf(into)'
        /\ CountriesOf(into) \subseteq CountriesOf(into)'
    BY <1>3, <1>8, <2>1, <2>2
  <2>4. /\ Cardinality(EntitiesOf(source)) <= Cardinality(EntitiesOf(into)')
        /\ Cardinality(EntitiesOf(into)) <= Cardinality(EntitiesOf(into)')
        /\ Cardinality(CountriesOf(source)) <= Cardinality(CountriesOf(into)')
        /\ Cardinality(CountriesOf(into)) <= Cardinality(CountriesOf(into)')
    BY <1>6, <2>3, FS_Subset
  <2> QED  BY <1>4, <1>5, <1>6, <2>4
<1>11. /\ Scorecard(source) = ScoreOf(a) /\ Scorecard(into) = ScoreOf(b)
       /\ Scorecard(into)' = ScoreOf(out)
  BY DEF Scorecard
<1> HIDE DEF a, b, out
<1>12. {a.total, b.total, a.trackerQueries, b.trackerQueries} \subseteq Nat
  BY <1>4, <1>5 DEF ScoreInputs
<1>13. CASE a.total = 0
  <2>1. ScoreOf(a) = 0 /\ ScoreOf(out) \in 0 .. 100  BY <1>4, <1>6, <1>13, ScoreType
  <2> QED  BY <1>11, <2>1
<1>14. CASE b.total = 0
  <2>1. ScoreOf(b) = 0 /\ ScoreOf(out) \in 0 .. 100  BY <1>5, <1>6, <1>14, ScoreType
  <2> QED  BY <1>11, <2>1
<1>15. CASE a.total > 0 /\ b.total > 0
  <2>1. a.total \in Nat \ {0} /\ b.total \in Nat \ {0}  BY <1>12, <1>15
  <2>2. \/ Capped(out.trackerQueries, out.total) >= Capped(a.trackerQueries, a.total)
        \/ Capped(out.trackerQueries, out.total) >= Capped(b.trackerQueries, b.total)
    BY <1>9, <1>12, <2>1, ShareOfTwo
  <2>3. a.total <= out.total /\ b.total <= out.total  BY <1>9, <1>12
  <2>4. out.total > 0 /\ out.total \in Nat \ {0}  BY <1>9, <2>1
  <2>5. /\ Capped(a.trackerQueries, a.total) \in Nat
        /\ Capped(b.trackerQueries, b.total) \in Nat
        /\ Capped(out.trackerQueries, out.total) \in Nat
    <3>1. out.trackerQueries \in Nat  BY <1>9, <1>12
    <3> QED  BY <1>12, <2>1, <2>4, <3>1, CappedMeaning, UnitType
  <2>6. CASE Capped(out.trackerQueries, out.total) >= Capped(a.trackerQueries, a.total)
    BY <1>4, <1>6, <1>10, <1>11, <1>15, <2>3, <2>5, <2>6, ScoreGrows
  <2>7. CASE Capped(out.trackerQueries, out.total) >= Capped(b.trackerQueries, b.total)
    BY <1>5, <1>6, <1>10, <1>11, <1>15, <2>3, <2>5, <2>7, ScoreGrows
  <2> QED  BY <2>2, <2>6, <2>7
<1> QED  BY <1>12, <1>13, <1>14, <1>15

\* Merging hides no risk (merge_devices, aggregate, score).
THEOREM MergeHidesNoRiskHolds == ProjectionsSpec => MergeHidesNoRisk
<1> DEFINE Kept ==
      \A source, into \in Listed : mergedInto'[source] = into =>
         Scorecard(into)' >= Scorecard(into) \/ Scorecard(into)' >= Scorecard(source)
<1>1. ProjectionsIInv /\ ProjectionsIInv' /\ [Next]_vars => [Kept]_vars
  <2> SUFFICES ASSUME ProjectionsIInv, ProjectionsIInv', Next,
                      NEW source \in Listed, NEW into \in Listed, mergedInto'[source] = into
               PROVE  Scorecard(into)' >= Scorecard(into) \/ Scorecard(into)' >= Scorecard(source)
    OBVIOUS
  <2>1. TypeOK /\ TypeOK'  BY DEF ProjectionsIInv, IInv
  <2>2. mergedInto' # mergedInto
    <3>1. into \in Clients /\ mergedInto[source] = NoDevice  BY <2>1 DEF TypeOK, Listed
    <3> QED  BY <3>1
  <2>3. \E s, i \in Clients : Merge(s, i) /\ destinations' = destinations
    BY <2>2 DEF Next, Start, Open, CountBatch, ApplyBatch, EditOverlay, Close, Rename
  <2> QED  BY <2>1, <2>3, MergeScores
<1> QED  BY <1>1, ProjectionsInductive, PTL DEF ProjectionsSpec, MergeHidesNoRisk

\* A device's score is a percentage (score, device_scorecard).
ScoresArePercentages == \A k \in Listed : Scorecard(k) \in 0 .. 100

\* It is one in every reachable state, at any caps and any logarithm table.
THEOREM ScoresArePercentagesHolds == ProjectionsSpec => []ScoresArePercentages
<1>1. ProjectionsIInv => ScoresArePercentages
  <2> SUFFICES ASSUME ProjectionsIInv, NEW k \in Listed
               PROVE  Scorecard(k) \in 0 .. 100
    BY DEF ScoresArePercentages
  <2>1. TypeOK /\ k \in Clients  BY DEF ProjectionsIInv, IInv, TypeOK, Listed
  <2>2. Aggregate(k, AllTime) \in ScoreInputs  BY <2>1, InputsMeaning DEF AllInputs, InputsOf
  <2> QED  BY <2>2, ScoreType DEF Scorecard
<1> QED  BY <1>1, ProjectionsInductive, PTL
=============================================================================
