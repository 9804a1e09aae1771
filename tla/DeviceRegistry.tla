--------------------------- MODULE DeviceRegistry ----------------------------
(***************************************************************************)
(* The device overlay of the store (daemon/src/store.rs): apply_batch's    *)
(* upsert_device, backfill_devices, rename_device, merge_devices with      *)
(* resolve_canonical, and the read side that folds the rollups of merged   *)
(* devices into their canonical one (list_devices, aggregate).             *)
(*                                                                         *)
(* A device row is named by its identity_key: the key is UNIQUE, rows are  *)
(* never deleted and ids never change, so id and key are one-to-one.       *)
(* Rollups are summed over sources; a batch of several domains or hours    *)
(* leaves what one batch for each of them leaves.                          *)
(* Every operation holds the connection mutex, so it is one step; a        *)
(* request that is answered 400 or 404 changes nothing and is no step.     *)
(***************************************************************************)
EXTENDS Integers, FiniteSets

CONSTANTS Clients,    \* client keys: a MAC or an IP
          Domains,    \* queried domains, spelled as the sources report them
          Hours,      \* hour buckets that occur in the rollups
          HoursPerWeek,
          Names,      \* names a user may give
          MaxHops,    \* the cap of resolve_canonical's walk
          MaxCount    \* bound: queries of one client in one cell

NoDevice == "none"   \* merged_into IS NULL
NoName == "unnamed"  \* name_user IS NULL

ASSUME HopsAssumption == MaxHops \in Nat /\ MaxHops >= 1
ASSUME CountAssumption == MaxCount \in Nat
ASSUME FiniteAssumption ==
    IsFiniteSet(Clients) /\ IsFiniteSet(Domains) /\ IsFiniteSet(Hours)
ASSUME WeekAssumption == HoursPerWeek \in Nat \ {0} /\ Hours \subseteq Nat
ASSUME NullAssumption == NoDevice \notin Clients /\ NoName \notin Names

\* The rollup cells of a client: <<domain, bucket_hour>>.
Cells == Domains \X Hours

\* Weeks are numbered; a week is its hours.
Weeks == {h \div HoursPerWeek : h \in Hours}

VARIABLES opened,      \* the daemon has the store open
          rollups,     \* rollups[c][x]: queries counted for client c in cell x
          devices,     \* the clients that have a device row
          mergedInto,  \* mergedInto[d]: the device d is an alias of
          nameUser     \* nameUser[d]: the name the user gave d

deviceVars == <<opened, rollups, devices, mergedInto, nameUser>>

TypeOK ==
    /\ opened \in BOOLEAN
    /\ rollups \in [Clients -> [Cells -> Nat]]
    /\ devices \subseteq Clients
    /\ mergedInto \in [Clients -> Clients \cup {NoDevice}]
    /\ nameUser \in [Clients -> Names \cup {NoName}]
-----------------------------------------------------------------------------
Active == {c \in Clients : \E x \in Cells : rollups[c][x] > 0}

\* A new database, or one of schema version 1: rollups and no devices.
Init ==
    /\ opened = FALSE
    /\ rollups \in [Clients -> [Cells -> 0 .. MaxCount]]
    /\ devices = {}
    /\ mergedInto = [c \in Clients |-> NoDevice]
    /\ nameUser = [c \in Clients |-> NoName]

\* Mutant of Open: no backfill, a version 1 database keeps having no devices.
OpenWithoutBackfill ==
    /\ ~opened
    /\ opened' = TRUE
    /\ UNCHANGED <<rollups, devices, mergedInto, nameUser>>

\* Store::init: every client with rollups and no device gets one.
Open ==
    /\ ~opened
    /\ opened' = TRUE
    /\ devices' = devices \cup Active
    /\ UNCHANGED <<rollups, mergedInto, nameUser>>

\* The process ends; everything committed stays.
Close ==
    /\ opened
    /\ opened' = FALSE
    /\ UNCHANGED <<rollups, devices, mergedInto, nameUser>>

\* Mutant of ApplyBatch: INSERT OR REPLACE resets the overlay columns.
ApplyBatchReplacesRows(batch, x) ==
    /\ opened
    /\ \A c \in batch : rollups[c][x] < MaxCount
    /\ rollups' = [c \in Clients |->
                     IF c \in batch THEN [rollups[c] EXCEPT ![x] = @ + 1] ELSE rollups[c]]
    /\ devices' = devices \cup batch
    /\ mergedInto' = [c \in Clients |-> IF c \in batch THEN NoDevice ELSE mergedInto[c]]
    /\ nameUser' = [c \in Clients |-> IF c \in batch THEN NoName ELSE nameUser[c]]
    /\ UNCHANGED opened

\* apply_batch with queries of the clients in batch, all of cell x: rollups
\* and identities in one transaction; upsert_device touches no overlay field.
ApplyBatch(batch, x) ==
    /\ opened
    /\ \A c \in batch : rollups[c][x] < MaxCount
    /\ rollups' = [c \in Clients |->
                     IF c \in batch THEN [rollups[c] EXCEPT ![x] = @ + 1] ELSE rollups[c]]
    /\ devices' = devices \cup batch
    /\ UNCHANGED <<opened, mergedInto, nameUser>>

\* Mutant of Rename: a blank name is stored as an empty string, not as NULL.
RenameStoresBlank(d, name) ==
    /\ opened
    /\ d \in devices
    /\ nameUser' = [nameUser EXCEPT ![d] = IF name = NoName THEN "" ELSE name]
    /\ UNCHANGED <<opened, rollups, devices, mergedInto>>

\* rename_device: any existing row, canonical or not; a blank name clears.
Rename(d, name) ==
    /\ opened
    /\ d \in devices
    /\ nameUser' = [nameUser EXCEPT ![d] = name]
    /\ UNCHANGED <<opened, rollups, devices, mergedInto>>

\* resolve_canonical: follow merged_into until it is NULL, or give up after
\* MaxHops hops with the row reached.
IsWalk(p, n) == \A i \in 1 .. n : mergedInto[p[i - 1]] = p[i]

WalkEnd(d, end) ==
    \E n \in 0 .. MaxHops : \E p \in [0 .. n -> Clients] :
        /\ p[0] = d
        /\ p[n] = end
        /\ IsWalk(p, n)
        /\ mergedInto[end] = NoDevice \/ n = MaxHops

Canonical(d) == CHOOSE end \in Clients : WalkEnd(d, end)

\* Mutant of Merge: the target is not resolved to its canonical device.
MergeIntoAlias(source, into) ==
    /\ opened
    /\ source # into
    /\ source \in devices /\ into \in devices
    /\ mergedInto' = [d \in Clients |->
          IF d = source \/ mergedInto[d] = source THEN into ELSE mergedInto[d]]
    /\ UNCHANGED <<opened, rollups, devices, nameUser>>

\* Mutant of Merge: the aliases of the source are not redirected.
MergeSourceOnly(source, into) ==
    /\ opened
    /\ source # into
    /\ source \in devices /\ into \in devices
    /\ LET canon == Canonical(into)
       IN canon # source /\ mergedInto' = [mergedInto EXCEPT ![source] = canon]
    /\ UNCHANGED <<opened, rollups, devices, nameUser>>

\* merge_devices: the target is resolved first, then the aliases of the
\* source and the source itself are pointed at it.
Merge(source, into) ==
    /\ opened
    /\ source # into
    /\ source \in devices /\ into \in devices
    /\ LET canon == Canonical(into)
       IN /\ canon # source
          /\ mergedInto' = [d \in Clients |->
                IF d = source \/ mergedInto[d] = source THEN canon ELSE mergedInto[d]]
    /\ UNCHANGED <<opened, rollups, devices, nameUser>>

DeviceStep ==
    \/ Open
    \/ Close
    \/ \E batch \in (SUBSET Clients) \ {{}}, x \in Cells : ApplyBatch(batch, x)
    \/ \E d \in Clients, name \in Names \cup {NoName} : Rename(d, name)
    \/ \E source, into \in Clients : Merge(source, into)

Spec == Init /\ [][DeviceStep]_deviceVars
-----------------------------------------------------------------------------
\* COALESCE(merged_into, id): the one hop every read query folds by.
FoldOwner(d) == IF mergedInto[d] = NoDevice THEN d ELSE mergedInto[d]

\* The rows list_devices returns: devices that are no alias.
Listed == {d \in devices : mergedInto[d] = NoDevice}

\* Mutant of Folded: a device stands for itself only.
FoldedSelf(d) == {c \in devices : c = d}

\* The raw devices a listed device stands for.
Folded(d) == {c \in devices : FoldOwner(c) = d}

\* Merges never form a chain: an alias points at an existing device that is
\* no alias itself, so the one hop of the read queries and the walk of
\* resolve_canonical agree and no cycle ever exists (merge_devices redirects
\* the aliases of the source and resolves the target).
AliasesPointAtCanonical ==
    \A d \in Clients : mergedInto[d] # NoDevice =>
        /\ d \in devices
        /\ mergedInto[d] \in Listed
        /\ Canonical(d) = FoldOwner(d)

\* No query disappears from the device list and none is shown twice: once the
\* store is open, every client with rollups is folded into exactly one row.
EveryQueryListedOnce ==
    opened => \A c \in Active : {d \in Listed : c \in Folded(d)} = {FoldOwner(c)}

\* A merge moves a listed device with everything folded into it, or one alias
\* alone, and no step makes an alias canonical again: "re-discovery never
\* resurrects a merged device" (merge_devices, upsert_device, backfill_devices).
GroupsMoveWhole ==
    [][\A c \in devices :
         /\ mergedInto[c] # NoDevice => mergedInto'[c] # NoDevice
         /\ FoldOwner(c)' # FoldOwner(c) =>
              \/ \A x \in Folded(FoldOwner(c)) : FoldOwner(x)' = FoldOwner(c)'
              \/ /\ mergedInto[c] # NoDevice
                 /\ \A x \in devices \ {c} : FoldOwner(x)' = FoldOwner(x)]_deviceVars

=============================================================================
