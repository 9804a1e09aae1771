------------------------- MODULE SourceRegistryProofs --------------------------
(***************************************************************************)
(* Theorems about SourceRegistry, for every finite set of requests, every   *)
(* list of env sources and every bound: types, unique ids, one loop per    *)
(* id, every persisted source served, and exactly-once counting of every   *)
(* source whose id no env source has.                                      *)
(***************************************************************************)
EXTENDS SourceRegistry, FiniteSetFacts

\* Handlers that have saved, by what the row of their id is.
Saved(q) == request[q].pc \in {"spawn", "done", "gone", "killed"}

Row(i, id, server) == config[i].id = id /\ config[i].server = server

\* Every id was given to one request, and a handler that is to spawn names a
\* row that no other one names.
ConfigInv ==
    /\ ConfigIdsUnique
    /\ \A i \in DOMAIN config : \E q \in Requests : Saved(q) /\ request[q].id = config[i].id
    /\ \A q \in Requests : request[q].pc = "spawn" =>
          \E i \in DOMAIN config : Row(i, request[q].id, ServerOf[q])
    /\ \A q, r \in Requests :
          request[q].pc = "spawn" /\ request[r].pc = "spawn" /\ request[q].id = request[r].id
            => q = r

\* Handles and loops match, and a job belongs to the loop that waits for it,
\* unless that was aborted.
TaskInv ==
    /\ OneLoopPerId
    /\ \A id \in Ids : registry[id] # 0 =>
          loop[registry[id]] # Free /\ loop[registry[id]].id = id
    /\ \A j \in jobs : loop[j.slot] # Free =>
          loop[j.slot].pc = "apply" /\ loop[j.slot].id = j.id /\ loop[j.slot].server = j.server
    /\ \A j, k \in jobs : j.slot = k.slot => j = k

\* A row is still to be listed at boot, or listed and to be spawned, after any
\* env source of its id; or boot is past it, and it runs, was dropped or, as
\* older than a process whose listing failed, was not listed.
Pending(i) == \E k \in DOMAIN boot :
                 /\ boot[k].id = config[i].id /\ boot[k].server = config[i].server
                 /\ \A m \in DOMAIN boot : m > k => boot[m].id # config[i].id
Runs(i) == /\ Running(config[i].id)
           /\ loop[registry[config[i].id]].server = config[i].server
HandlerDropped(i) == \E r \in Requests : /\ request[r].id = config[i].id
                                         /\ request[r].pc \in {"spawn", "gone"}
Past(i) == \A k \in DOMAIN boot : boot[k].id # config[i].id
Due(i) == listing = "due" \/ Pending(i)
Settled(i) == Runs(i) \/ HandlerDropped(i) \/ Unlisted(config[i])

BootInv ==
    /\ ~Serving => \A r \in Requests : request[r].pc \in {"idle", "killed"}
    /\ \A k \in DOMAIN boot : boot[k].id \notin EnvIds =>
          \E i \in DOMAIN config : Row(i, boot[k].id, boot[k].server)
    /\ \A i \in DOMAIN config : Due(i) \/ (Past(i) /\ Settled(i))

\* An id of no env source is spawned once in the life of a process, and not
\* before the rows are listed.
SpawnedOnceInv ==
    /\ listing = "due" => /\ \A k \in DOMAIN boot : boot[k].id \in EnvIds
                          /\ \A id \in Ids \ EnvIds : registry[id] = 0
    /\ \A k, m \in DOMAIN boot : boot[k].id \notin EnvIds =>
          registry[boot[k].id] = 0 /\ (boot[m].id = boot[k].id => m = k)
    /\ \A q \in Requests : request[q].pc = "spawn" /\ request[q].id \notin EnvIds =>
          registry[request[q].id] = 0

\* What the rollups of an id of no env source hold, and what its loop and its
\* job, which therefore nobody aborts, know of it.
CountInv ==
    /\ \A j \in jobs : j.id \notin EnvIds =>
          loop[j.slot] # Free /\ j.from = cursor[j.id] /\ j.from <= j.to
    /\ \A n \in Slots : loop[n] # Free /\ loop[n].id \notin EnvIds =>
          /\ \E i \in DOMAIN config : Row(i, loop[n].id, loop[n].server)
          /\ loop[n].pc \in {"poll", "apply"} => loop[n].seen = cursor[loop[n].id]
    /\ \A i \in DOMAIN config : config[i].id \notin EnvIds =>
          \A n \in 1 .. MaxLog :
             counted[config[i].id][config[i].server][n] = IF n <= cursor[config[i].id] THEN 1 ELSE 0
    /\ \A id \in (Ids \ EnvIds) \ ConfigIds :
          cursor[id] = 0 /\ \A v \in Servers, n \in 1 .. MaxLog : counted[id][v][n] = 0

IInv == TypeOK /\ ConfigInv /\ TaskInv /\ BootInv /\ SpawnedOnceInv /\ CountInv
-----------------------------------------------------------------------------
\* A loop is free, or a record of an id, a server and what it has read.
LEMMA LoopType ==
    ASSUME TypeOK, NEW n \in Slots, loop[n] # Free
    PROVE  /\ loop[n].pc \in {"top", "poll", "apply"}
           /\ loop[n].id \in Ids /\ loop[n].server \in Servers
           /\ loop[n].pc \in {"poll", "apply"} => loop[n].seen \in 0 .. MaxLog
<1>1. loop[n] \in Loops  BY DEF TypeOK
<1> QED  BY <1>1 DEF Loops, Free

\* The loops a step can make.
LEMMA LoopsMade ==
    ASSUME NEW id \in Ids, NEW server \in Servers, NEW seen \in 0 .. MaxLog,
           NEW pc \in {"poll", "apply"}
    PROVE  /\ [pc |-> "top", id |-> id, server |-> server] \in Loops
           /\ [pc |-> "top", id |-> id, server |-> server] # Free
           /\ [pc |-> pc, id |-> id, server |-> server, seen |-> seen] \in Loops
           /\ [pc |-> pc, id |-> id, server |-> server, seen |-> seen] # Free
           /\ Free \in Loops
<1>1. [pc |-> "top", id |-> id, server |-> server].pc # Free.pc  BY DEF Free
<1>2. [pc |-> pc, id |-> id, server |-> server, seen |-> seen].pc # Free.pc  BY DEF Free
<1> QED  BY <1>1, <1>2 DEF Loops

\* The rows of source_config.
LEMMA ConfigType ==
    ASSUME TypeOK
    PROVE  /\ config \in Seq(Source)
           /\ DOMAIN config = 1 .. Len(config) /\ Len(config) \in Nat
           /\ \A i \in DOMAIN config : config[i].id \in Ids /\ config[i].server \in Servers
           /\ IsFiniteSet(ConfigIds)
<1>1. config \in Seq(Source)  BY DEF TypeOK
<1>2. DOMAIN config = 1 .. Len(config) /\ Len(config) \in Nat  BY <1>1
<1>3. \A i \in DOMAIN config : config[i] \in Source  BY <1>1
<1>4. IsFiniteSet(1 .. Len(config))  BY <1>2, FS_Interval
<1> DEFINE f == [i \in 1 .. Len(config) |-> config[i].id]
<1>5. f \in Surjection(1 .. Len(config), ConfigIds)
  BY <1>2 DEF Surjection, ConfigIds
<1> HIDE DEF f
<1>6. IsFiniteSet(ConfigIds)  BY <1>4, <1>5, FS_Surjection
<1> QED  BY <1>1, <1>2, <1>3, <1>6 DEF Source

\* alloc_source_id finds an id that no row has, and within the numbers that
\* the requests can use up, because each of them is given one id at most.
LEMMA AllocFresh ==
    ASSUME IInv, NEW r \in Requests, ~Saved(r)
    PROVE  /\ AllocId(KindOf[r], ConfigIds) \notin ConfigIds
           /\ AllocId(KindOf[r], ConfigIds) \in Ids
<1> DEFINE N == Cardinality(Requests)
           kind == KindOf[r]
           C == Cardinality(ConfigIds)
<1>1. IsFiniteSet(Requests) /\ N \in Nat  BY RequestAssumption, FS_CardinalityType
<1>2. IsFiniteSet(ConfigIds) /\ C \in Nat  BY ConfigType, FS_CardinalityType DEF IInv
<1>3. IsFiniteSet(Requests \ {r}) /\ Cardinality(Requests \ {r}) = N - 1
  BY <1>1, FS_RemoveElement
<1> HIDE DEF N, kind, C
<1>4. \E n \in 1 .. N : <<kind, n>> \notin ConfigIds
  <2>1. SUFFICES ASSUME \A n \in 1 .. N : <<kind, n>> \in ConfigIds PROVE FALSE
    OBVIOUS
  <2>2. \A id \in ConfigIds : \E q \in Requests \ {r} : request[q].id = id
    BY DEF IInv, ConfigInv, ConfigIds
  <2> DEFINE f == [n \in 1 .. N |-> CHOOSE q \in Requests \ {r} : request[q].id = <<kind, n>>]
  <2>3. \A n \in 1 .. N : f[n] \in Requests \ {r} /\ request[f[n]].id = <<kind, n>>
    BY <2>1, <2>2
  <2>4. f \in [1 .. N -> Requests \ {r}]  BY <2>3
  <2> HIDE DEF f
  <2>5. IsFiniteSet(1 .. N) /\ Cardinality(1 .. N) = N  BY <1>1, FS_Interval
  <2>6. Cardinality(Requests \ {r}) < Cardinality(1 .. N)  BY <1>1, <1>3, <2>5
  <2>7. PICK m, n \in 1 .. N : m # n /\ f[m] = f[n]
    BY <1>3, <2>4, <2>5, <2>6, FS_PigeonHole
  <2> QED  BY <2>3, <2>7
<1> DEFINE T == {n \in Nat : n >= 1 /\ <<kind, n>> \notin ConfigIds}
<1>5. T \in SUBSET Nat /\ T # {}  BY <1>1, <1>4
<1>6. PICK n \in T : \A m \in T : n <= m  BY <1>5, LeastExists
<1>7. n \in Nat /\ n >= 1 /\ <<kind, n>> \notin ConfigIds /\ n <= N
  BY <1>1, <1>4, <1>6
<1>8. \A m \in 1 .. (n - 1) : <<kind, m>> \in ConfigIds
  <2>1. SUFFICES ASSUME NEW m \in 1 .. (n - 1), <<kind, m>> \notin ConfigIds PROVE FALSE
    OBVIOUS
  <2>2. m \in T /\ m < n  BY <1>7, <2>1
  <2> QED  BY <1>6, <1>7, <2>2
<1> HIDE DEF T
<1>9. n <= C + 1
  <2>1. SUFFICES ASSUME C < n - 1 PROVE FALSE  BY <1>2, <1>7
  <2> DEFINE f == [m \in 1 .. (n - 1) |-> <<kind, m>>]
  <2>2. f \in [1 .. (n - 1) -> ConfigIds]  BY <1>8
  <2>3. \A m \in 1 .. (n - 1) : f[m] = <<kind, m>>  OBVIOUS
  <2> HIDE DEF f
  <2>4. IsFiniteSet(1 .. (n - 1)) /\ Cardinality(1 .. (n - 1)) = n - 1
    BY <1>7, FS_Interval
  <2>5. Cardinality(ConfigIds) < Cardinality(1 .. (n - 1))  BY <2>1, <2>4 DEF C
  <2>6. PICK m, k \in 1 .. (n - 1) : m # k /\ f[m] = f[k]
    BY <1>2, <2>2, <2>4, <2>5, FS_PigeonHole
  <2> QED  BY <2>3, <2>6
<1> DEFINE Fit(k) == /\ <<kind, k>> \notin ConfigIds
                     /\ \A m \in 1 .. (k - 1) : <<kind, m>> \in ConfigIds
           c == CHOOSE k \in 1 .. (C + 1) : Fit(k)
<1>10. n \in 1 .. (C + 1) /\ Fit(n)  BY <1>2, <1>7, <1>8, <1>9
<1>11. c \in 1 .. (C + 1) /\ Fit(c)  BY <1>10
<1>12. AllocId(kind, ConfigIds) = <<kind, c>>  BY DEF AllocId, C
<1> HIDE DEF c
<1>13. c <= n
  <2>1. SUFFICES ASSUME n < c PROVE FALSE  BY <1>2, <1>7, <1>11
  <2>2. n \in 1 .. (c - 1)  BY <1>2, <1>7, <1>11, <2>1
  <2> QED  BY <1>7, <1>11, <2>2
<1>14. c \in 1 .. N  BY <1>1, <1>2, <1>7, <1>11, <1>13
<1>15. kind \in Kinds  BY DEF kind, Kinds
<1> QED  BY <1>11, <1>12, <1>14, <1>15 DEF Ids, kind, N
-----------------------------------------------------------------------------
\* The env sources are sources.
LEMMA EnvType ==
    /\ EnvSources \in Seq(Source)
    /\ \A k \in DOMAIN EnvSources : EnvSources[k].id \in EnvIds
<1> DEFINE S == [id : EnvIds, server : Servers]
<1>1. EnvSources \in Seq(S)  BY EnvAssumption
<1>2. \A e \in S : e \in Source  BY DEF Source, Ids
<1> HIDE DEF S
<1>3. \A k \in DOMAIN EnvSources : EnvSources[k] \in S  BY <1>1
<1>4. EnvSources \in Seq(Source)  BY <1>1, <1>2, <1>3
<1>5. \A k \in DOMAIN EnvSources : EnvSources[k].id \in EnvIds  BY DEF EnvIds
<1> QED  BY <1>4, <1>5

\* The initial state satisfies the inductive invariant.
LEMMA InitIInv == Init => IInv
<1> SUFFICES ASSUME Init PROVE IInv  OBVIOUS
<1> USE DEF Init
<1>1. /\ MaxLoops \in Nat /\ MaxLog \in Nat /\ MaxRestarts \in Nat
      /\ EnvSources \in Seq([id : EnvIds, server : Servers])
  BY BoundsAssumption, EnvAssumption
<1>2. boot \in Seq(Source)  BY EnvType
<1>3. DOMAIN config = {}  OBVIOUS
<1>4. TypeOK
  <2>1. logged \in [Servers -> 0 .. MaxLog] /\ cursor \in [Ids -> 0 .. MaxLog]  BY <1>1
  <2>2. counted \in [Ids -> [Servers -> [1 .. MaxLog -> Nat]]]  OBVIOUS
  <2>3. loop \in [Slots -> Loops]  BY DEF Loops
  <2>4. request \in [Requests -> [pc : RequestPCs, id : Ids \cup {NoId}]]  BY DEF RequestPCs
  <2>5. registry \in [Ids -> Slots \cup {0}] /\ restarts \in 0 .. MaxRestarts  BY <1>1
  <2> QED  BY <1>2, <2>1, <2>2, <2>3, <2>4, <2>5 DEF TypeOK
<1>5. ConfigInv  BY <1>3 DEF ConfigInv, ConfigIdsUnique
<1>6. TaskInv  BY DEF TaskInv, OneLoopPerId
<1>7. \A k \in DOMAIN boot : boot[k].id \in EnvIds  BY EnvType
<1>8. BootInv /\ SpawnedOnceInv  BY <1>3, <1>7 DEF BootInv, SpawnedOnceInv
<1>9. CountInv  BY <1>1, <1>3 DEF CountInv
<1> QED  BY <1>4, <1>5, <1>6, <1>8, <1>9 DEF IInv

\* A query of a server is nobody's concern yet.
LEMMA QueryIInv ==
    ASSUME IInv, NEW v \in Servers, Query(v)
    PROVE  IInv'
<1>1. /\ config' = config /\ cursor' = cursor /\ counted' = counted /\ boot' = boot /\ listing' = listing
      /\ loop' = loop /\ registry' = registry /\ jobs' = jobs /\ request' = request
      /\ restarts' = restarts
      /\ logged[v] < MaxLog /\ logged' = [logged EXCEPT ![v] = @ + 1]
  BY DEF Query
<1>2. logged' \in [Servers -> 0 .. MaxLog]
  BY <1>1, BoundsAssumption DEF IInv, TypeOK
<1>3. TypeOK'  BY <1>1, <1>2 DEF IInv, TypeOK
<1>4. ConfigInv'  BY <1>1 DEF IInv, ConfigInv, ConfigIdsUnique, Saved, Row
<1>5. TaskInv'  BY <1>1 DEF IInv, TaskInv, OneLoopPerId
<1>6. BootInv'
  BY <1>1 DEF IInv, BootInv, Row, Serving, Due, Pending, Past, Settled, Runs, Running,
              HandlerDropped, Unlisted
<1>7. SpawnedOnceInv'  BY <1>1 DEF IInv, SpawnedOnceInv
<1>8. CountInv'  BY <1>1 DEF IInv, CountInv, Row, ConfigIds
<1> QED  BY <1>3, <1>4, <1>5, <1>6, <1>7, <1>8 DEF IInv

\* A handler that moves from one place to another, without a row or to where
\* its row is its only trace.
LEMMA HandleIInv ==
    ASSUME IInv, NEW r \in Requests,
           NEW label \in {"probe", "save", "orphanSave", "failed", "gone"},
           Handle(r, label), UNCHANGED <<config, loop, registry>>, Untouched,
           UNCHANGED logged,
           Serving,
           request[r].pc = "spawn" <=> label = "gone",
           request[r].pc \in {"idle", "probe", "save", "orphanSave", "spawn"}
    PROVE  IInv'
<1>1. /\ config' = config /\ cursor' = cursor /\ counted' = counted /\ boot' = boot /\ listing' = listing
      /\ loop' = loop /\ registry' = registry /\ jobs' = jobs /\ logged' = logged
      /\ restarts' = restarts
      /\ request' = [request EXCEPT ![r].pc = label]
  BY DEF Handle, Untouched
<1>2. request \in [Requests -> [pc : RequestPCs, id : Ids \cup {NoId}]]
  BY DEF IInv, TypeOK
<1>3. /\ request' \in [Requests -> [pc : RequestPCs, id : Ids \cup {NoId}]]
      /\ request'[r].pc = label
      /\ \A q \in Requests : request'[q].id = request[q].id
      /\ \A q \in Requests \ {r} : request'[q] = request[q]
  BY <1>1, <1>2 DEF RequestPCs
<1>4. TypeOK'  BY <1>1, <1>3 DEF IInv, TypeOK
<1>5. \A q \in Requests : /\ Saved(q) => Saved(q)'
                          /\ request'[q].pc = "spawn" => request[q].pc = "spawn"
                          /\ request[q].pc \in {"spawn", "gone"}
                               => request'[q].pc \in {"spawn", "gone"}
  BY <1>3 DEF Saved
<1>6. ConfigInv'
  <2>1. ConfigIdsUnique'  BY <1>1 DEF IInv, ConfigInv, ConfigIdsUnique
  <2>2. \A i \in DOMAIN config : \E q \in Requests : Saved(q)' /\ request'[q].id = config[i].id
    BY <1>3, <1>5 DEF IInv, ConfigInv
  <2> QED  BY <1>1, <1>3, <1>5, <2>1, <2>2 DEF IInv, ConfigInv, Row
<1>7. TaskInv'  BY <1>1 DEF IInv, TaskInv, OneLoopPerId
<1>8. BootInv'
  <2>1. \A i \in DOMAIN config : HandlerDropped(i) => HandlerDropped(i)'
    BY <1>1, <1>3, <1>5 DEF HandlerDropped
  <2>2. \A q \in Requests : request[q].pc = "killed" => request'[q] = request[q]
    BY <1>3
  <2>3. \A i \in DOMAIN config : Unlisted(config[i]) => Unlisted(config[i])'
    BY <1>1, <2>2 DEF Unlisted
  <2>4. \A i \in DOMAIN config : Settled(i) => Settled(i)'
    BY <1>1, <2>1, <2>3 DEF Settled, Runs, Running
  <2>5. \A i \in DOMAIN config : Due(i)' \/ (Past(i)' /\ Settled(i)')
    BY <1>1, <2>4 DEF IInv, BootInv, Due, Pending, Past
  <2> QED  BY <1>1, <2>5 DEF IInv, BootInv, Row, Serving
<1>9. SpawnedOnceInv'  BY <1>1, <1>3, <1>5 DEF IInv, SpawnedOnceInv
<1>10. CountInv'  BY <1>1 DEF IInv, CountInv, Row, ConfigIds
<1> QED  BY <1>4, <1>6, <1>7, <1>8, <1>9, <1>10 DEF IInv
-----------------------------------------------------------------------------
\* A row is added under a fresh id, for the handler that saved it to spawn or,
\* if that was dropped, for the next boot.
LEMMA SaveIInv ==
    ASSUME IInv, NEW r \in Requests, Save(r)
    PROVE  IInv'
<1> DEFINE id == AllocId(KindOf[r], ConfigIds)
           pc == IF request[r].pc = "save" THEN "spawn" ELSE "gone"
           new == Len(config) + 1
<1>1. /\ cursor' = cursor /\ counted' = counted /\ boot' = boot /\ listing' = listing
      /\ loop' = loop /\ registry' = registry /\ jobs' = jobs /\ logged' = logged
      /\ restarts' = restarts
      /\ config' = Append(config, [id |-> id, server |-> ServerOf[r]])
      /\ request' = [request EXCEPT ![r] = [pc |-> pc, id |-> id]]
      /\ request[r].pc \in {"save", "orphanSave"}
  BY DEF Save, Untouched
<1>2. boot = <<>> /\ listing # "due"  BY <1>1 DEF IInv, BootInv, Serving
<1>3. ~Saved(r)  BY <1>1 DEF Saved
<1>4. id \notin ConfigIds /\ id \in Ids  BY <1>3, AllocFresh
<1>5. request \in [Requests -> [pc : RequestPCs, id : Ids \cup {NoId}]]
  BY DEF IInv, TypeOK
<1>6. /\ config \in Seq(Source) /\ DOMAIN config = 1 .. Len(config) /\ Len(config) \in Nat
      /\ \A i \in DOMAIN config : config[i].id \in Ids /\ config[i].server \in Servers
  BY ConfigType DEF IInv
<1>7. ServerOf[r] \in Servers  BY RequestAssumption
<1> HIDE DEF id
<1>8. /\ pc \in {"spawn", "gone"}
      /\ request' \in [Requests -> [pc : RequestPCs, id : Ids \cup {NoId}]]
      /\ request'[r].pc = pc /\ request'[r].id = id
      /\ \A q \in Requests \ {r} : request'[q] = request[q]
  BY <1>1, <1>4, <1>5 DEF RequestPCs
<1>9. /\ config' \in Seq(Source)
      /\ DOMAIN config' = 1 .. new
      /\ \A i \in DOMAIN config : config'[i] = config[i]
      /\ config'[new].id = id /\ config'[new].server = ServerOf[r]
  BY <1>1, <1>4, <1>6, <1>7 DEF Source
<1>10. DOMAIN config \subseteq DOMAIN config' /\ DOMAIN config' = DOMAIN config \cup {new}
  BY <1>6, <1>9
<1>11. \A i \in DOMAIN config : config[i].id # id  BY <1>4 DEF ConfigIds
<1> HIDE DEF pc, new
<1>12. TypeOK'  BY <1>1, <1>8, <1>9 DEF IInv, TypeOK
<1>13. \A q \in Requests : Saved(q) => Saved(q)' /\ request'[q] = request[q]
  BY <1>3, <1>8 DEF Saved
<1>14. ConfigInv'
  <2>1. ConfigIdsUnique'
    <3>1. ASSUME NEW i \in DOMAIN config', NEW j \in DOMAIN config',
                 config'[i].id = config'[j].id
          PROVE  i = j
      <4>1. CASE i \in DOMAIN config /\ j \in DOMAIN config
        <5>1. config[i].id = config[j].id  BY <1>9, <3>1, <4>1
        <5> QED  BY <4>1, <5>1 DEF IInv, ConfigInv, ConfigIdsUnique
      <4>2. CASE i = new \/ j = new  BY <1>9, <1>10, <1>11, <3>1, <4>2
      <4> QED  BY <1>10, <4>1, <4>2
    <3> QED  BY <3>1 DEF ConfigIdsUnique
  <2>2. ASSUME NEW i \in DOMAIN config'
        PROVE  \E q \in Requests : Saved(q)' /\ request'[q].id = config'[i].id
    <3>1. CASE i = new
      <4>1. Saved(r)'  BY <1>8 DEF Saved
      <4> QED  BY <1>8, <1>9, <3>1, <4>1
    <3>2. CASE i \in DOMAIN config
      BY <1>9, <1>13, <3>2 DEF IInv, ConfigInv
    <3> QED  BY <1>10, <3>1, <3>2
  <2>4. ASSUME NEW q \in Requests, request'[q].pc = "spawn"
        PROVE  \E i \in DOMAIN config' : config'[i].id = request'[q].id /\ config'[i].server = ServerOf[q]
    <3>1. CASE q = r  BY <1>8, <1>9, <1>10, <3>1
    <3>2. CASE q # r
      <4>1. request'[q] = request[q]  BY <1>8, <3>2
      <4>2. PICK i \in DOMAIN config : Row(i, request[q].id, ServerOf[q])
        BY <2>4, <4>1 DEF IInv, ConfigInv
      <4>3. config'[i] = config[i] /\ i \in DOMAIN config'  BY <1>9, <1>10
      <4> QED  BY <4>1, <4>2, <4>3 DEF Row
    <3> QED  BY <3>1, <3>2
  <2>5. ASSUME NEW q \in Requests \ {r}, request[q].pc = "spawn" PROVE request[q].id # id
    BY <1>11, <2>5 DEF IInv, ConfigInv, Row
  <2>6. ASSUME NEW q \in Requests, NEW s \in Requests,
               request'[q].pc = "spawn", request'[s].pc = "spawn", request'[q].id = request'[s].id
        PROVE  q = s
    <3>1. CASE q # r /\ s # r
      <4>1. request'[q] = request[q] /\ request'[s] = request[s]  BY <1>8, <3>1
      <4> QED  BY <2>6, <4>1 DEF IInv, ConfigInv
    <3>2. CASE q = r \/ s = r  BY <1>8, <2>5, <2>6, <3>2
    <3> QED  BY <3>1, <3>2
  <2> QED  BY <2>1, <2>2, <2>4, <2>6 DEF ConfigInv, Row
<1>15. TaskInv'  BY <1>1 DEF IInv, TaskInv, OneLoopPerId
<1>16. BootInv'
  <2>1. ASSUME NEW i \in DOMAIN config' PROVE Past(i)' /\ Settled(i)'
    <3>1. Past(i)'  BY <1>1, <1>2 DEF Past
    <3>2. CASE i = new
      <4>1. HandlerDropped(i)'  BY <1>8, <1>9, <3>2 DEF HandlerDropped
      <4> QED  BY <3>1, <4>1 DEF Settled
    <3>3. CASE i \in DOMAIN config
      <4>1. ~Due(i)  BY <1>2 DEF Due, Pending
      <4>2. Settled(i)  BY <3>3, <4>1 DEF IInv, BootInv
      <4>3. config'[i] = config[i]  BY <1>9, <3>3
      <4>4. Runs(i) => Runs(i)'  BY <1>1, <4>3 DEF Runs, Running
      <4>5. HandlerDropped(i) => HandlerDropped(i)'
        <5>1. \A q \in Requests : request[q].pc \in {"spawn", "gone"} => request'[q] = request[q]
          BY <1>13 DEF Saved
        <5> QED  BY <4>3, <5>1 DEF HandlerDropped
      <4>6. Unlisted(config[i]) => Unlisted(config[i])'
        <5>1. \A q \in Requests : request[q].pc = "killed" => request'[q] = request[q]
          BY <1>13 DEF Saved
        <5> QED  BY <1>1, <4>3, <5>1 DEF Unlisted
      <4> QED  BY <3>1, <4>2, <4>4, <4>5, <4>6 DEF Settled
    <3> QED  BY <1>10, <3>2, <3>3
  <2> QED  BY <1>1, <1>2, <2>1 DEF BootInv, Serving
<1>17. id \notin EnvIds => /\ registry[id] = 0 /\ cursor[id] = 0
                           /\ \A v \in Servers, n \in 1 .. MaxLog : counted[id][v][n] = 0
  <2>1. SUFFICES ASSUME id \notin EnvIds PROVE registry[id] = 0
    BY <1>4 DEF IInv, CountInv
  <2>2. SUFFICES ASSUME registry[id] # 0 PROVE FALSE  OBVIOUS
  <2>3. registry[id] \in Slots  BY <1>4, <2>2 DEF IInv, TypeOK
  <2>4. loop[registry[id]] # Free /\ loop[registry[id]].id = id
    BY <1>4, <2>2 DEF IInv, TaskInv
  <2> QED  BY <1>11, <2>1, <2>3, <2>4 DEF IInv, CountInv, Row
<1>18. SpawnedOnceInv'
  <2>1. ASSUME NEW q \in Requests, request'[q].pc = "spawn", request'[q].id \notin EnvIds
        PROVE  registry[request'[q].id] = 0
    <3>1. CASE q = r  BY <1>8, <1>17, <2>1, <3>1
    <3>2. CASE q # r
      <4>1. request'[q] = request[q]  BY <1>8, <3>2
      <4> QED  BY <2>1, <4>1 DEF IInv, SpawnedOnceInv
    <3> QED  BY <3>1, <3>2
  <2> QED  BY <1>1, <1>2, <2>1 DEF SpawnedOnceInv
<1>19. CountInv'
  <2>1. \A n \in Slots : loop[n] # Free /\ loop[n].id \notin EnvIds =>
          \E i \in DOMAIN config' : config'[i].id = loop[n].id /\ config'[i].server = loop[n].server
    BY <1>9, <1>10 DEF IInv, CountInv, Row
  <2>2. ASSUME NEW i \in DOMAIN config', config'[i].id \notin EnvIds, NEW n \in 1 .. MaxLog
        PROVE  counted[config'[i].id][config'[i].server][n]
                 = IF n <= cursor[config'[i].id] THEN 1 ELSE 0
    <3>1. CASE i = new
      <4>1. cursor[id] = 0 /\ counted[id][ServerOf[r]][n] = 0
        BY <1>7, <1>9, <1>17, <2>2, <3>1
      <4> QED  BY <1>9, <3>1, <4>1
    <3>2. CASE i \in DOMAIN config  BY <1>9, <2>2, <3>2 DEF IInv, CountInv
    <3> QED  BY <1>10, <3>1, <3>2
  <2>3. ConfigIds \subseteq ConfigIds'  BY <1>9, <1>10 DEF ConfigIds
  <2> QED  BY <1>1, <2>1, <2>2, <2>3 DEF IInv, CountInv, Row
<1> QED  BY <1>12, <1>14, <1>15, <1>16, <1>18, <1>19 DEF IInv
-----------------------------------------------------------------------------
\* spawn_source: one slot gets the new loop, the one of the old handle is
\* free, and the rest is left alone.
LEMMA SpawnFacts ==
    ASSUME TypeOK, NEW id \in Ids, NEW server \in Servers, Spawn(id, server)
    PROVE  \E n \in Slots :
              /\ loop' \in [Slots -> Loops] /\ registry' \in [Ids -> Slots \cup {0}]
              /\ loop'[n] = [pc |-> "top", id |-> id, server |-> server]
              /\ loop[n] = Free \/ n = registry[id]
              /\ \A j \in jobs : j.slot # n
              /\ \A m \in Slots \ {n} :
                    loop'[m] = IF m = registry[id] THEN Free ELSE loop[m]
              /\ registry'[id] = n
              /\ \A k \in Ids \ {id} : registry'[k] = registry[k]
<1> DEFINE new == [pc |-> "top", id |-> id, server |-> server]
<1>1. PICK n \in Usable(id) : /\ loop' = [AbortOld(id) EXCEPT ![n] = new]
                              /\ registry' = [registry EXCEPT ![id] = n]
  BY DEF Spawn
<1>2. loop \in [Slots -> Loops] /\ registry \in [Ids -> Slots \cup {0}]  BY DEF TypeOK
<1>3. Free \in Loops /\ new \in Loops
  <2>1. MaxLog \in Nat  BY BoundsAssumption
  <2>2. 0 \in 0 .. MaxLog  BY <2>1
  <2> QED  BY <2>2, LoopsMade
<1> HIDE DEF new
<1>4. /\ AbortOld(id) \in [Slots -> Loops]
      /\ \A m \in Slots : AbortOld(id)[m] = IF m = registry[id] THEN Free ELSE loop[m]
  <2>1. 0 \notin Slots  BY DEF Slots
  <2> QED  BY <1>2, <1>3, <2>1 DEF AbortOld
<1>5. n \in Slots /\ AbortOld(id)[n] = Free /\ \A j \in jobs : j.slot # n
  BY DEF Usable
<1>6. loop' \in [Slots -> Loops] /\ loop'[n] = new  BY <1>1, <1>3, <1>4, <1>5
<1>7. \A m \in Slots \ {n} : loop'[m] = IF m = registry[id] THEN Free ELSE loop[m]
  BY <1>1, <1>4, <1>5
<1>8. /\ registry' \in [Ids -> Slots \cup {0}] /\ registry'[id] = n
      /\ \A k \in Ids \ {id} : registry'[k] = registry[k]
  BY <1>1, <1>2, <1>5
<1>9. loop[n] = Free \/ n = registry[id]  BY <1>4, <1>5
<1> QED  BY <1>5, <1>6, <1>7, <1>8, <1>9 DEF new

\* Spawning keeps loops, handles and jobs in order, disturbs no other id, and
\* no count, if an id of no env source is spawned for its row, and once.
LEMMA SpawnSafely ==
    ASSUME IInv, NEW id \in Ids, NEW server \in Servers, Spawn(id, server),
           UNCHANGED <<config, jobs, cursor, counted>>,
           id \notin EnvIds => /\ registry[id] = 0
                               /\ \E i \in DOMAIN config : Row(i, id, server)
    PROVE  /\ loop' \in [Slots -> Loops] /\ registry' \in [Ids -> Slots \cup {0}]
           /\ TaskInv' /\ CountInv'
           /\ \A i \in DOMAIN config :
                 /\ config[i].id # id /\ Runs(i) => Runs(i)'
                 /\ Row(i, id, server) => Runs(i)'
           /\ \A k \in Ids \ {id} : registry'[k] = registry[k]
<1> DEFINE new == [pc |-> "top", id |-> id, server |-> server]
<1>1. PICK n \in Slots :
         /\ loop' \in [Slots -> Loops] /\ registry' \in [Ids -> Slots \cup {0}]
         /\ loop'[n] = new
         /\ loop[n] = Free \/ n = registry[id]
         /\ \A j \in jobs : j.slot # n
         /\ \A m \in Slots \ {n} : loop'[m] = IF m = registry[id] THEN Free ELSE loop[m]
         /\ registry'[id] = n
         /\ \A k \in Ids \ {id} : registry'[k] = registry[k]
  BY SpawnFacts DEF IInv
<1>2. new # Free /\ new.id = id /\ new.server = server /\ new.pc = "top"
  <2>1. new.pc # Free.pc  BY DEF Free
  <2> QED  BY <2>1
<1>3. config' = config /\ jobs' = jobs /\ cursor' = cursor /\ counted' = counted
  OBVIOUS
<1> HIDE DEF new
<1>4. 0 \notin Slots  BY DEF Slots
<1>5. /\ \A j \in jobs : j.slot \in Slots /\ j.id \in Ids
      /\ registry \in [Ids -> Slots \cup {0}]
  BY DEF IInv, TypeOK
\* A handle of another id names a loop that neither was nor is that of id.
<1>6. ASSUME NEW k \in Ids \ {id}, registry[k] # 0
      PROVE  /\ registry'[k] = registry[k] /\ registry[k] \in Slots
             /\ loop'[registry[k]] = loop[registry[k]]
  <2>1. registry[k] \in Slots  BY <1>5, <1>6
  <2>2. loop[registry[k]] # Free /\ loop[registry[k]].id = k  BY <1>6 DEF IInv, TaskInv
  <2>3. registry[k] # registry[id]
    BY <1>4, <2>1, <2>2 DEF IInv, TaskInv
  <2>4. registry[k] # n  BY <1>1, <2>2, <2>3
  <2> QED  BY <1>1, <2>1, <2>3, <2>4
<1>7. TaskInv'
  <2>1. ASSUME NEW m \in Slots, loop'[m] # Free PROVE registry'[loop'[m].id] = m
    <3>1. CASE m = n  BY <1>1, <1>2, <3>1
    <3>2. CASE m # n
      <4>1. loop'[m] = loop[m] /\ m # registry[id]  BY <1>1, <2>1, <3>2
      <4>2. registry[loop[m].id] = m /\ loop[m].id \in Ids
        BY <2>1, <4>1, LoopType DEF IInv, TaskInv, OneLoopPerId
      <4>3. loop[m].id # id  BY <4>1, <4>2
      <4> QED  BY <1>1, <4>1, <4>2, <4>3
    <3> QED  BY <3>1, <3>2
  <2>2. ASSUME NEW k \in Ids, registry'[k] # 0
        PROVE  loop'[registry'[k]] # Free /\ loop'[registry'[k]].id = k
    <3>1. CASE k = id  BY <1>1, <1>2, <3>1
    <3>2. CASE k # id
      <4>1. registry[k] # 0  BY <1>1, <2>2, <3>2
      <4>2. loop[registry[k]] # Free /\ loop[registry[k]].id = k  BY <4>1 DEF IInv, TaskInv
      <4> QED  BY <1>6, <3>2, <4>1, <4>2
    <3> QED  BY <3>1, <3>2
  <2>3. ASSUME NEW j \in jobs, loop'[j.slot] # Free
        PROVE  /\ loop'[j.slot].pc = "apply" /\ loop'[j.slot].id = j.id
               /\ loop'[j.slot].server = j.server
    <3>1. j.slot \in Slots \ {n}  BY <1>1, <1>5
    <3>2. loop'[j.slot] = loop[j.slot]  BY <1>1, <2>3, <3>1
    <3> QED  BY <2>3, <3>2 DEF IInv, TaskInv
  <2> QED  BY <1>3, <2>1, <2>2, <2>3 DEF IInv, TaskInv, OneLoopPerId
<1>8. CountInv'
  <2>1. ASSUME NEW j \in jobs, j.id \notin EnvIds
        PROVE  loop'[j.slot] # Free
    <3>1. loop[j.slot] # Free /\ loop[j.slot].id = j.id
      BY <2>1 DEF IInv, CountInv, TaskInv
    <3>2. j.slot \in Slots \ {n}  BY <1>1, <1>5
    <3>3. j.slot # registry[id]
      <4>1. CASE id \notin EnvIds  BY <1>4, <3>2, <4>1
      <4>2. CASE id \in EnvIds
        BY <1>4, <2>1, <3>1, <3>2, <4>2 DEF IInv, TaskInv
      <4> QED  BY <4>1, <4>2
    <3> QED  BY <1>1, <3>1, <3>2, <3>3
  <2>2. ASSUME NEW m \in Slots, loop'[m] # Free, loop'[m].id \notin EnvIds
        PROVE  /\ \E i \in DOMAIN config : Row(i, loop'[m].id, loop'[m].server)
               /\ loop'[m].pc \in {"poll", "apply"} => loop'[m].seen = cursor[loop'[m].id]
    <3>1. CASE m = n  BY <1>1, <1>2, <2>2, <3>1
    <3>2. CASE m # n
      <4>1. loop'[m] = loop[m]  BY <1>1, <2>2, <3>2
      <4> QED  BY <2>2, <4>1 DEF IInv, CountInv
    <3> QED  BY <3>1, <3>2
  <2> QED  BY <1>3, <2>1, <2>2 DEF IInv, CountInv, Row, ConfigIds
<1>9. ASSUME NEW i \in DOMAIN config
      PROVE  /\ config[i].id # id /\ Runs(i) => Runs(i)'
             /\ Row(i, id, server) => Runs(i)'
  <2>1. config[i].id \in Ids  BY ConfigType DEF IInv
  <2>2. config[i].id # id /\ Runs(i) => Runs(i)'
    BY <1>3, <1>4, <1>6, <2>1 DEF Runs, Running
  <2>3. Row(i, id, server) => Runs(i)'
    BY <1>1, <1>2, <1>3, <1>4 DEF Runs, Running, Row
  <2> QED  BY <2>2, <2>3
<1> QED  BY <1>1, <1>7, <1>8, <1>9

\* Boot spawns the next source of its list.
LEMMA BootStepIInv ==
    ASSUME IInv, BootStep
    PROVE  IInv'
<1> DEFINE id == boot[1].id
           server == boot[1].server
<1>1. /\ boot # <<>> /\ Spawn(id, server) /\ boot' = Tail(boot)
      /\ logged' = logged /\ config' = config /\ cursor' = cursor /\ counted' = counted
      /\ jobs' = jobs /\ request' = request /\ restarts' = restarts /\ listing' = listing
  BY DEF BootStep
<1>2. /\ boot \in Seq(Source) /\ Len(boot) \in Nat /\ Len(boot) >= 1
      /\ DOMAIN boot = 1 .. Len(boot) /\ 1 \in DOMAIN boot
      /\ id \in Ids /\ server \in Servers
  <2>1. boot \in Seq(Source) /\ Len(boot) \in Nat /\ Len(boot) >= 1 /\ DOMAIN boot = 1 .. Len(boot)
    BY <1>1 DEF IInv, TypeOK
  <2>2. boot[1] \in Source  BY <2>1
  <2> QED  BY <2>1, <2>2 DEF Source
<1>3. /\ boot' \in Seq(Source) /\ DOMAIN boot' = 1 .. (Len(boot) - 1)
      /\ \A k \in DOMAIN boot' : k + 1 \in DOMAIN boot /\ boot'[k] = boot[k + 1]
  BY <1>1, <1>2
<1>4. id \notin EnvIds => /\ registry[id] = 0
                          /\ \E i \in DOMAIN config : Row(i, id, server)
  BY <1>2 DEF IInv, BootInv, SpawnedOnceInv
<1> HIDE DEF id, server
<1>5. /\ loop' \in [Slots -> Loops] /\ registry' \in [Ids -> Slots \cup {0}]
      /\ TaskInv' /\ CountInv'
      /\ \A i \in DOMAIN config :
            /\ config[i].id # id /\ Runs(i) => Runs(i)'
            /\ Row(i, id, server) => Runs(i)'
      /\ \A k \in Ids \ {id} : registry'[k] = registry[k]
  BY <1>1, <1>2, <1>4, SpawnSafely
<1>6. TypeOK'  BY <1>1, <1>3, <1>5 DEF IInv, TypeOK
<1>7. ConfigInv'  BY <1>1 DEF IInv, ConfigInv, ConfigIdsUnique, Saved, Row
<1>8. \A r \in Requests : request[r].pc \in {"idle", "killed"}
  BY <1>1 DEF IInv, BootInv, Serving
<1>9. ASSUME NEW i \in DOMAIN config
      PROVE  Due(i)' \/ (Past(i)' /\ Settled(i)')
  <2>1. CASE Past(i) /\ Settled(i)
    <3>1. Past(i)'  BY <1>1, <1>3, <2>1 DEF Past
    <3>2. config[i].id # id  BY <1>2, <2>1 DEF Past, id
    <3>3. ~HandlerDropped(i)  BY <1>8 DEF HandlerDropped
    <3>4. Unlisted(config[i]) => Unlisted(config[i])'  BY <1>1 DEF Unlisted
    <3>5. Runs(i) => Runs(i)'  BY <1>5, <3>2
    <3> QED  BY <1>1, <2>1, <3>1, <3>3, <3>4, <3>5 DEF Settled
  <2>2. CASE Pending(i)
    <3>1. PICK k \in DOMAIN boot :
             /\ boot[k].id = config[i].id /\ boot[k].server = config[i].server
             /\ \A m \in DOMAIN boot : m > k => boot[m].id # config[i].id
      BY <2>2 DEF Pending
    <3>2. CASE k = 1
      <4>1. Row(i, id, server)  BY <3>1, <3>2 DEF Row, id, server
      <4>2. ASSUME NEW m \in DOMAIN boot' PROVE boot'[m].id # config[i].id
        <5>1. m + 1 \in DOMAIN boot /\ m + 1 > k /\ boot'[m] = boot[m + 1]
          BY <1>2, <1>3, <3>2
        <5> QED  BY <3>1, <5>1
      <4>3. Past(i)'  BY <1>1, <4>2 DEF Past
      <4> QED  BY <1>5, <4>1, <4>3 DEF Settled
    <3>3. CASE k # 1
      <4>1. k - 1 \in DOMAIN boot' /\ (k - 1) + 1 = k  BY <1>2, <1>3, <3>3
      <4>2. boot'[k - 1] = boot[k]  BY <1>3, <4>1
      <4>3. ASSUME NEW m \in DOMAIN boot', m > k - 1 PROVE boot'[m].id # config[i].id
        <5>1. m + 1 \in DOMAIN boot /\ m + 1 > k /\ boot'[m] = boot[m + 1]
          BY <1>2, <1>3, <4>3
        <5> QED  BY <3>1, <5>1
      <4> QED  BY <1>1, <3>1, <4>1, <4>2, <4>3 DEF Due, Pending
    <3> QED  BY <3>2, <3>3
  <2>3. CASE listing = "due"  BY <1>1, <2>3 DEF Due
  <2> QED  BY <2>1, <2>2, <2>3 DEF IInv, BootInv, Due
<1>10. ASSUME NEW k \in DOMAIN boot', boot'[k].id \notin EnvIds
       PROVE  \E i \in DOMAIN config : Row(i, boot'[k].id, boot'[k].server)
  BY <1>3, <1>10 DEF IInv, BootInv
<1>11. BootInv'  BY <1>1, <1>8, <1>9, <1>10 DEF BootInv, Row
<1>12. ASSUME NEW k \in DOMAIN boot', boot'[k].id \notin EnvIds
       PROVE  /\ registry'[boot'[k].id] = 0
              /\ \A m \in DOMAIN boot' : boot'[m].id = boot'[k].id => m = k
  <2>1. k + 1 \in DOMAIN boot /\ boot'[k] = boot[k + 1] /\ k + 1 # 1
    BY <1>2, <1>3
  <2>2. registry[boot[k + 1].id] = 0
    BY <1>12, <2>1 DEF IInv, SpawnedOnceInv
  <2>3. boot[k + 1].id # id
    BY <1>2, <1>12, <2>1 DEF IInv, SpawnedOnceInv, id
  <2>4. boot[k + 1].id \in Ids
    <3>1. boot[k + 1] \in Source  BY <1>2, <2>1
    <3> QED  BY <3>1 DEF Source
  <2>5. registry'[boot'[k].id] = 0  BY <1>5, <2>1, <2>2, <2>3, <2>4
  <2>6. ASSUME NEW m \in DOMAIN boot', boot'[m].id = boot'[k].id PROVE m = k
    <3>1. m + 1 \in DOMAIN boot /\ boot'[m] = boot[m + 1]  BY <1>3
    <3>2. m + 1 = k + 1  BY <1>12, <2>1, <2>6, <3>1 DEF IInv, SpawnedOnceInv
    <3> QED  BY <1>2, <1>3, <3>2
  <2> QED  BY <2>5, <2>6
<1>13. SpawnedOnceInv'
  <2>1. \A q \in Requests : request'[q].pc # "spawn"  BY <1>1, <1>8
  <2>2. ASSUME listing = "due"
        PROVE  /\ \A k \in DOMAIN boot' : boot'[k].id \in EnvIds
               /\ \A i \in Ids \ EnvIds : registry'[i] = 0
    <3>1. \A k \in DOMAIN boot : boot[k].id \in EnvIds  BY <2>2 DEF IInv, SpawnedOnceInv
    <3>2. id \in EnvIds  BY <1>2, <3>1 DEF id
    <3>3. \A i \in Ids \ EnvIds : registry'[i] = registry[i]  BY <1>5, <3>2
    <3> QED  BY <1>3, <2>2, <3>1, <3>3 DEF IInv, SpawnedOnceInv
  <2> QED  BY <1>1, <1>12, <2>1, <2>2 DEF SpawnedOnceInv
<1> QED  BY <1>5, <1>6, <1>7, <1>11, <1>13 DEF IInv

\* A handler spawns the loop of its row and answers 201.
LEMMA SpawnCreatedIInv ==
    ASSUME IInv, NEW r \in Requests, SpawnCreated(r)
    PROVE  IInv'
<1> DEFINE id == request[r].id
           server == ServerOf[r]
<1>1. /\ logged' = logged /\ config' = config /\ cursor' = cursor /\ counted' = counted
      /\ jobs' = jobs /\ boot' = boot /\ listing' = listing /\ restarts' = restarts
      /\ request[r].pc = "spawn" /\ Spawn(id, server)
      /\ request' = [request EXCEPT ![r].pc = "done"]
  BY DEF SpawnCreated, Untouched, Handle
<1>2. boot = <<>> /\ listing # "due"  BY <1>1 DEF IInv, BootInv, Serving
<1>3. PICK row \in DOMAIN config : Row(row, id, server)  BY <1>1 DEF IInv, ConfigInv
<1>4. id \in Ids /\ server \in Servers  BY <1>3, ConfigType DEF IInv, Row
<1>5. id \notin EnvIds => registry[id] = 0  BY <1>1 DEF IInv, SpawnedOnceInv
<1> HIDE DEF server
<1>6. /\ loop' \in [Slots -> Loops] /\ registry' \in [Ids -> Slots \cup {0}]
      /\ TaskInv' /\ CountInv'
      /\ \A i \in DOMAIN config :
            /\ config[i].id # id /\ Runs(i) => Runs(i)'
            /\ Row(i, id, server) => Runs(i)'
      /\ \A k \in Ids \ {id} : registry'[k] = registry[k]
  BY <1>1, <1>3, <1>4, <1>5, SpawnSafely
<1>7. request \in [Requests -> [pc : RequestPCs, id : Ids \cup {NoId}]]
  BY DEF IInv, TypeOK
<1>8. /\ request' \in [Requests -> [pc : RequestPCs, id : Ids \cup {NoId}]]
      /\ request'[r].pc = "done"
      /\ \A q \in Requests : request'[q].id = request[q].id
      /\ \A q \in Requests \ {r} : request'[q] = request[q]
  BY <1>1, <1>7 DEF RequestPCs
<1>9. TypeOK'  BY <1>1, <1>6, <1>8 DEF IInv, TypeOK
<1>10. \A q \in Requests : /\ Saved(q) => Saved(q)'
                           /\ request'[q].pc = "spawn" => q # r /\ request[q].pc = "spawn"
  BY <1>8 DEF Saved
<1>11. ConfigInv'
  <2>1. ConfigIdsUnique'  BY <1>1 DEF IInv, ConfigInv, ConfigIdsUnique
  <2>2. \A i \in DOMAIN config : \E q \in Requests : Saved(q)' /\ request'[q].id = config[i].id
    BY <1>8, <1>10 DEF IInv, ConfigInv
  <2> QED  BY <1>1, <1>8, <1>10, <2>1, <2>2 DEF IInv, ConfigInv, Row
<1>12. BootInv'
  <2>1. ASSUME NEW i \in DOMAIN config PROVE Past(i)' /\ Settled(i)'
    <3>1. Past(i)'  BY <1>1, <1>2 DEF Past
    <3>2. Settled(i)  BY <1>2 DEF IInv, BootInv, Due, Pending
    <3>3. CASE config[i].id = id
      <4>1. i = row  BY <1>3, <3>3 DEF IInv, ConfigInv, ConfigIdsUnique, Row
      <4> QED  BY <1>3, <1>6, <3>1, <4>1 DEF Settled
    <3>4. CASE config[i].id # id
      <4>1. HandlerDropped(i) => HandlerDropped(i)'
        BY <1>1, <1>8, <3>4 DEF HandlerDropped
      <4>2. \A q \in Requests : request[q].pc = "killed" => request'[q] = request[q]
        BY <1>1, <1>8
      <4>3. Unlisted(config[i]) => Unlisted(config[i])'  BY <1>1, <4>2 DEF Unlisted
      <4> QED  BY <1>1, <1>6, <3>1, <3>2, <3>4, <4>1, <4>3 DEF Settled
    <3> QED  BY <3>3, <3>4
  <2> QED  BY <1>1, <1>2, <2>1 DEF BootInv, Serving
<1>13. SpawnedOnceInv'
  <2>1. ASSUME NEW q \in Requests, request'[q].pc = "spawn", request'[q].id \notin EnvIds
        PROVE  registry'[request'[q].id] = 0
    <3>1. request[q].pc = "spawn" /\ q # r /\ request'[q].id = request[q].id
      BY <1>8, <1>10, <2>1
    <3>2. registry[request[q].id] = 0  BY <2>1, <3>1 DEF IInv, SpawnedOnceInv
    <3>3. request[q].id # id  BY <1>1, <3>1 DEF IInv, ConfigInv
    <3>4. request[q].id \in Ids  BY <3>1, ConfigType DEF IInv, ConfigInv, Row
    <3> QED  BY <1>6, <3>1, <3>2, <3>3, <3>4
  <2> QED  BY <1>1, <1>2, <2>1 DEF SpawnedOnceInv
<1> QED  BY <1>6, <1>9, <1>11, <1>12, <1>13 DEF IInv
-----------------------------------------------------------------------------
\* A step that keeps every loop's id and server disturbs neither the handles
\* nor what the rows are promised.
LEMMA LoopsKept ==
    ASSUME IInv, UNCHANGED <<config, boot, listing, registry, request>>,
           \A m \in Slots : /\ loop'[m] = Free <=> loop[m] = Free
                            /\ loop[m] # Free => /\ loop'[m].id = loop[m].id
                                                 /\ loop'[m].server = loop[m].server
    PROVE  /\ ConfigInv' /\ BootInv' /\ SpawnedOnceInv' /\ OneLoopPerId'
           /\ \A id \in Ids : registry'[id] # 0 =>
                 loop'[registry'[id]] # Free /\ loop'[registry'[id]].id = id
<1>1. config' = config /\ boot' = boot /\ listing' = listing /\ registry' = registry /\ request' = request
  OBVIOUS
<1>2. registry \in [Ids -> Slots \cup {0}]  BY DEF IInv, TypeOK
<1>3. \A id \in Ids : registry[id] # 0 =>
         /\ registry[id] \in Slots /\ loop[registry[id]] # Free /\ loop[registry[id]].id = id
  BY <1>2 DEF IInv, TaskInv
<1>4. ConfigInv'  BY <1>1 DEF IInv, ConfigInv, ConfigIdsUnique, Saved, Row
<1>5. SpawnedOnceInv'  BY <1>1 DEF IInv, SpawnedOnceInv
<1>6. OneLoopPerId'  BY <1>1 DEF IInv, TaskInv, OneLoopPerId
<1>7. \A i \in DOMAIN config : Runs(i) => Runs(i)'
  <2>1. \A i \in DOMAIN config : config[i].id \in Ids  BY ConfigType DEF IInv
  <2> QED  BY <1>1, <1>3, <2>1 DEF Runs, Running
<1>8. BootInv'
  <2>1. \A i \in DOMAIN config : Settled(i) => Settled(i)'
    BY <1>1, <1>7 DEF Settled, HandlerDropped, Unlisted
  <2>2. \A i \in DOMAIN config : Due(i)' \/ (Past(i)' /\ Settled(i)')
    BY <1>1, <2>1 DEF IInv, BootInv, Due, Pending, Past
  <2> QED  BY <1>1, <2>2 DEF IInv, BootInv, Row, Serving
<1> QED  BY <1>1, <1>3, <1>4, <1>5, <1>6, <1>8

\* A tick starts with the stored cursor of the loop's id.
LEMMA ReadCursorIInv ==
    ASSUME IInv, NEW n \in Slots, ReadCursor(n)
    PROVE  IInv'
<1> DEFINE new == [pc |-> "poll", id |-> loop[n].id, server |-> loop[n].server,
                   seen |-> cursor[loop[n].id]]
<1>1. /\ logged' = logged /\ config' = config /\ cursor' = cursor /\ counted' = counted
      /\ boot' = boot /\ listing' = listing /\ registry' = registry /\ jobs' = jobs /\ request' = request
      /\ restarts' = restarts
      /\ loop[n].pc = "top" /\ loop' = [loop EXCEPT ![n] = new]
  BY DEF ReadCursor
<1>2. loop[n] # Free  BY <1>1 DEF Free
<1>3. loop[n].id \in Ids /\ loop[n].server \in Servers  BY <1>2, LoopType DEF IInv
<1>4. cursor[loop[n].id] \in 0 .. MaxLog  BY <1>3 DEF IInv, TypeOK
<1>5. new \in Loops /\ new # Free  BY <1>3, <1>4, LoopsMade
<1>6. /\ new.id = loop[n].id /\ new.server = loop[n].server /\ new.pc = "poll"
      /\ new.seen = cursor[new.id]
  OBVIOUS
<1> HIDE DEF new
<1>7. loop \in [Slots -> Loops]  BY DEF IInv, TypeOK
<1>8. /\ loop' \in [Slots -> Loops] /\ loop'[n] = new
      /\ \A m \in Slots \ {n} : loop'[m] = loop[m]
  BY <1>1, <1>5, <1>7
<1>9. TypeOK'  BY <1>1, <1>8 DEF IInv, TypeOK
<1>10. /\ ConfigInv' /\ BootInv' /\ SpawnedOnceInv' /\ OneLoopPerId'
       /\ \A id \in Ids : registry'[id] # 0 =>
             loop'[registry'[id]] # Free /\ loop'[registry'[id]].id = id
  BY <1>1, <1>2, <1>5, <1>6, <1>8, LoopsKept
<1>11. \A j \in jobs : j.slot \in Slots \ {n}
  <2>1. \A j \in jobs : j.slot \in Slots  BY DEF IInv, TypeOK
  <2> QED  BY <1>1, <1>2, <2>1 DEF IInv, TaskInv
<1>12. TaskInv'  BY <1>1, <1>8, <1>10, <1>11 DEF IInv, TaskInv
<1>13. CountInv'
  <2>1. ASSUME NEW m \in Slots, loop'[m] # Free, loop'[m].id \notin EnvIds
        PROVE  /\ \E i \in DOMAIN config : Row(i, loop'[m].id, loop'[m].server)
               /\ loop'[m].pc \in {"poll", "apply"} => loop'[m].seen = cursor[loop'[m].id]
    <3>1. CASE m = n  BY <1>2, <1>6, <1>8, <2>1, <3>1 DEF IInv, CountInv
    <3>2. CASE m # n
      <4>1. loop'[m] = loop[m]  BY <1>8, <3>2
      <4> QED  BY <2>1, <4>1 DEF IInv, CountInv
    <3> QED  BY <3>1, <3>2
  <2>2. \A j \in jobs : loop'[j.slot] = loop[j.slot]  BY <1>8, <1>11
  <2> QED  BY <1>1, <2>1, <2>2 DEF IInv, CountInv, Row, ConfigIds
<1> QED  BY <1>9, <1>10, <1>12, <1>13 DEF IInv

\* A poll submits what it found, from the cursor the tick has read.
LEMMA PollIInv ==
    ASSUME IInv, NEW n \in Slots, Poll(n)
    PROVE  IInv'
<1> DEFINE id == loop[n].id
           server == loop[n].server
           seen == loop[n].seen
           top == [pc |-> "top", id |-> id, server |-> server]
           apply == [pc |-> "apply", id |-> id, server |-> server, seen |-> seen]
           job == [slot |-> n, id |-> id, server |-> server, from |-> seen,
                   to |-> logged[server]]
<1>1. /\ logged' = logged /\ config' = config /\ cursor' = cursor /\ counted' = counted
      /\ boot' = boot /\ listing' = listing /\ registry' = registry /\ request' = request
      /\ restarts' = restarts /\ loop[n].pc = "poll"
  BY DEF Poll
<1>2. loop[n] # Free  BY <1>1 DEF Free
<1>3. id \in Ids /\ server \in Servers /\ seen \in 0 .. MaxLog
  BY <1>1, <1>2, LoopType DEF IInv
<1>4. loop \in [Slots -> Loops] /\ logged[server] \in 0 .. MaxLog
  BY <1>3 DEF IInv, TypeOK
<1>5. /\ top \in Loops /\ top # Free
      /\ apply \in Loops /\ apply # Free
  BY <1>3, LoopsMade
<1>6. \A j \in jobs : j.slot \in Slots \ {n}
  <2>1. \A j \in jobs : j.slot \in Slots  BY DEF IInv, TypeOK
  <2> QED  BY <1>1, <1>2, <2>1 DEF IInv, TaskInv
<1>7. \/ /\ loop' = [loop EXCEPT ![n] = top] /\ jobs' = jobs
      \/ /\ logged[server] > seen
         /\ loop' = [loop EXCEPT ![n].pc = "apply"] /\ jobs' = jobs \cup {job}
  BY DEF Poll
<1>8. loop[n] \in [pc : {"poll", "apply"}, id : Ids, server : Servers, seen : 0 .. MaxLog]
  BY <1>1, <1>2, <1>4 DEF Loops
<1>9. [loop[n] EXCEPT !.pc = "apply"] = apply  BY <1>8
<1>10. \/ loop'[n] = top /\ jobs' = jobs
       \/ loop'[n] = apply /\ jobs' = jobs \cup {job} /\ logged[server] > seen
  BY <1>4, <1>7, <1>9
<1>11. \A m \in Slots \ {n} : loop'[m] = loop[m]  BY <1>4, <1>7
<1>12. loop' \in [Slots -> Loops]
  <2>1. CASE loop' = [loop EXCEPT ![n] = top]  BY <1>4, <1>5, <2>1
  <2>2. CASE loop' = [loop EXCEPT ![n].pc = "apply"]
    <3>1. loop' = [loop EXCEPT ![n] = apply]  BY <1>4, <1>9, <2>2
    <3> QED  BY <1>4, <1>5, <3>1
  <2> QED  BY <1>7, <2>1, <2>2
<1>13. /\ loop'[n] # Free /\ loop'[n].id = id /\ loop'[n].server = server
       /\ loop'[n].pc = "apply" => loop'[n].seen = seen
       /\ loop'[n].pc # "poll"
       /\ job \in jobs' => loop'[n].pc = "apply"
  <2>1. job \notin jobs  BY <1>6
  <2> QED  BY <1>5, <1>10, <2>1
<1>14. /\ job.slot = n /\ job.id = id /\ job.server = server /\ job.from = seen
       /\ job.to = logged[server]
       /\ job \in [slot : Slots, id : Ids, server : Servers, from : 0 .. MaxLog, to : 0 .. MaxLog]
  BY <1>3, <1>4
<1> HIDE DEF top, apply, job
<1>15. jobs' \subseteq jobs \cup {job}  BY <1>10
<1>16. TypeOK'
  BY <1>1, <1>12, <1>14, <1>15 DEF IInv, TypeOK
<1>17. /\ ConfigInv' /\ BootInv' /\ SpawnedOnceInv' /\ OneLoopPerId'
       /\ \A k \in Ids : registry'[k] # 0 =>
             loop'[registry'[k]] # Free /\ loop'[registry'[k]].id = k
  BY <1>1, <1>2, <1>11, <1>13, LoopsKept
<1>18. TaskInv'
  <2>1. ASSUME NEW j \in jobs', loop'[j.slot] # Free
        PROVE  /\ loop'[j.slot].pc = "apply" /\ loop'[j.slot].id = j.id
               /\ loop'[j.slot].server = j.server
    <3>1. CASE j = job  BY <1>13, <1>14, <2>1, <3>1
    <3>2. CASE j \in jobs
      <4>1. loop'[j.slot] = loop[j.slot]  BY <1>6, <1>11, <3>2
      <4> QED  BY <2>1, <3>2, <4>1 DEF IInv, TaskInv
    <3> QED  BY <1>15, <3>1, <3>2
  <2>2. ASSUME NEW j \in jobs', NEW k \in jobs', j.slot = k.slot PROVE j = k
    BY <1>6, <1>14, <1>15, <2>2 DEF IInv, TaskInv
  <2> QED  BY <1>17, <2>1, <2>2 DEF TaskInv
<1>19. CountInv'
  <2>1. ASSUME id \notin EnvIds
        PROVE  /\ seen = cursor[id] /\ \E i \in DOMAIN config : Row(i, id, server)
    BY <1>1, <1>2, <2>1 DEF IInv, CountInv
  <2>2. ASSUME NEW j \in jobs', j.id \notin EnvIds
        PROVE  loop'[j.slot] # Free /\ j.from = cursor[j.id] /\ j.from <= j.to
    <3>1. CASE j = job
      <4>1. logged[server] > seen  BY <1>6, <1>10, <1>14, <2>2, <3>1
      <4> QED  BY <1>3, <1>4, <1>13, <1>14, <2>1, <2>2, <3>1, <4>1
    <3>2. CASE j \in jobs
      <4>1. loop'[j.slot] = loop[j.slot]  BY <1>6, <1>11, <3>2
      <4> QED  BY <2>2, <3>2, <4>1 DEF IInv, CountInv
    <3> QED  BY <1>15, <3>1, <3>2
  <2>3. ASSUME NEW m \in Slots, loop'[m] # Free, loop'[m].id \notin EnvIds
        PROVE  /\ \E i \in DOMAIN config : Row(i, loop'[m].id, loop'[m].server)
               /\ loop'[m].pc \in {"poll", "apply"} => loop'[m].seen = cursor[loop'[m].id]
    <3>1. CASE m = n  BY <1>13, <2>1, <2>3, <3>1
    <3>2. CASE m # n
      <4>1. loop'[m] = loop[m]  BY <1>11, <3>2
      <4> QED  BY <2>3, <4>1 DEF IInv, CountInv
    <3> QED  BY <3>1, <3>2
  <2> HIDE DEF id, server, seen
  <2> QED  BY <1>1, <2>2, <2>3 DEF IInv, CountInv, Row, ConfigIds
<1> QED  BY <1>16, <1>17, <1>18, <1>19 DEF IInv
-----------------------------------------------------------------------------
\* A job commits: it moves the cursor of its id from where the loop read it,
\* and counts what lies between.
LEMMA ApplyIInv ==
    ASSUME IInv, NEW j \in jobs, Apply(j)
    PROVE  IInv'
<1> DEFINE top == [pc |-> "top", id |-> j.id, server |-> j.server]
<1>1. /\ logged' = logged /\ config' = config /\ boot' = boot /\ listing' = listing /\ registry' = registry
      /\ request' = request /\ restarts' = restarts
      /\ cursor' = [cursor EXCEPT ![j.id] = j.to]
      /\ counted' = [counted EXCEPT ![j.id][j.server] =
                       [n \in 1 .. MaxLog |->
                          IF n \in (j.from + 1) .. j.to THEN @[n] + 1 ELSE @[n]]]
      /\ jobs' = jobs \ {j}
      /\ loop' = [loop EXCEPT ![j.slot] = IF @ = Free THEN Free ELSE top]
  BY DEF Apply
<1>2. /\ j.slot \in Slots /\ j.id \in Ids /\ j.server \in Servers
      /\ j.from \in 0 .. MaxLog /\ j.to \in 0 .. MaxLog
  BY DEF IInv, TypeOK
<1>3. top \in Loops /\ top # Free /\ Free \in Loops  BY <1>2, LoopsMade
<1>4. top.id = j.id /\ top.server = j.server /\ top.pc = "top"  OBVIOUS
<1> HIDE DEF top
<1>5. /\ loop \in [Slots -> Loops] /\ cursor \in [Ids -> 0 .. MaxLog]
      /\ counted \in [Ids -> [Servers -> [1 .. MaxLog -> Nat]]]
  BY DEF IInv, TypeOK
<1>6. loop[j.slot] # Free => loop[j.slot].id = j.id /\ loop[j.slot].server = j.server
  BY DEF IInv, TaskInv
<1>7. /\ loop' \in [Slots -> Loops]
      /\ loop'[j.slot] = IF loop[j.slot] = Free THEN Free ELSE top
      /\ \A m \in Slots \ {j.slot} : loop'[m] = loop[m]
  BY <1>1, <1>2, <1>3, <1>5
<1>8. cursor' \in [Ids -> 0 .. MaxLog] /\ cursor'[j.id] = j.to
      /\ \A id \in Ids \ {j.id} : cursor'[id] = cursor[id]
  BY <1>1, <1>2, <1>5
<1>9. /\ counted' \in [Ids -> [Servers -> [1 .. MaxLog -> Nat]]]
      /\ \A n \in 1 .. MaxLog :
           counted'[j.id][j.server][n] = IF n \in (j.from + 1) .. j.to
                                         THEN counted[j.id][j.server][n] + 1
                                         ELSE counted[j.id][j.server][n]
      /\ \A id \in Ids \ {j.id} : counted'[id] = counted[id]
  <2> DEFINE c == [n \in 1 .. MaxLog |->
                     IF n \in (j.from + 1) .. j.to THEN counted[j.id][j.server][n] + 1
                     ELSE counted[j.id][j.server][n]]
  <2>1. counted[j.id] \in [Servers -> [1 .. MaxLog -> Nat]]  BY <1>2, <1>5
  <2>2. c \in [1 .. MaxLog -> Nat]
    <3>1. counted[j.id][j.server] \in [1 .. MaxLog -> Nat]  BY <1>2, <2>1
    <3>2. \A n \in 1 .. MaxLog : counted[j.id][j.server][n] \in Nat  BY <3>1
    <3> QED  BY <3>2
  <2>3. counted' = [counted EXCEPT ![j.id] = [counted[j.id] EXCEPT ![j.server] = c]]
    BY <1>1
  <2> DEFINE d == [counted[j.id] EXCEPT ![j.server] = c]
  <2>4. \A n \in 1 .. MaxLog : c[n] = IF n \in (j.from + 1) .. j.to
                                      THEN counted[j.id][j.server][n] + 1
                                      ELSE counted[j.id][j.server][n]
    OBVIOUS
  <2> HIDE DEF c
  <2>5. d \in [Servers -> [1 .. MaxLog -> Nat]] /\ d[j.server] = c  BY <1>2, <2>1, <2>2
  <2> HIDE DEF d
  <2>6. counted' = [counted EXCEPT ![j.id] = d]  BY <2>3 DEF d
  <2>7. /\ counted' \in [Ids -> [Servers -> [1 .. MaxLog -> Nat]]] /\ counted'[j.id] = d
        /\ \A id \in Ids \ {j.id} : counted'[id] = counted[id]
    BY <1>2, <1>5, <2>5, <2>6
  <2> QED  BY <2>4, <2>5, <2>7
<1>10. jobs' \subseteq jobs /\ \A k \in jobs' : k # j  BY <1>1
<1>11. TypeOK'  BY <1>1, <1>7, <1>8, <1>9, <1>10 DEF IInv, TypeOK
<1>12. /\ ConfigInv' /\ BootInv' /\ SpawnedOnceInv' /\ OneLoopPerId'
       /\ \A id \in Ids : registry'[id] # 0 =>
             loop'[registry'[id]] # Free /\ loop'[registry'[id]].id = id
  BY <1>1, <1>3, <1>4, <1>6, <1>7, LoopsKept
<1>13. \A k \in jobs' : k.slot \in Slots \ {j.slot}
  <2>1. \A k \in jobs : k.slot \in Slots  BY DEF IInv, TypeOK
  <2> QED  BY <1>10, <2>1 DEF IInv, TaskInv
<1>14. TaskInv'
  BY <1>7, <1>10, <1>12, <1>13 DEF IInv, TaskInv
\* The loop of an id of no env source is the only one that has anything to do
\* with the id.
<1>15. ASSUME NEW m \in Slots, loop[m] # Free, loop[m].id = j.id, j.id \notin EnvIds
       PROVE  m = j.slot
  <2>1. loop[j.slot] # Free  BY <1>15 DEF IInv, CountInv
  <2> QED  BY <1>2, <1>6, <1>15, <2>1 DEF IInv, TaskInv, OneLoopPerId
<1>16. ASSUME j.id \notin EnvIds
       PROVE  /\ j.from = cursor[j.id] /\ j.from <= j.to
              /\ \E i \in DOMAIN config : Row(i, j.id, j.server)
  <2>1. loop[j.slot] # Free /\ j.from = cursor[j.id] /\ j.from <= j.to
    BY <1>16 DEF IInv, CountInv
  <2>2. loop[j.slot].id = j.id /\ loop[j.slot].server = j.server  BY <1>6, <2>1
  <2>3. \E i \in DOMAIN config : Row(i, loop[j.slot].id, loop[j.slot].server)
    BY <1>2, <1>16, <2>1, <2>2 DEF IInv, CountInv
  <2> QED  BY <2>1, <2>2, <2>3
<1>17. CountInv'
  <2>1. ASSUME NEW k \in jobs', k.id \notin EnvIds
        PROVE  loop'[k.slot] # Free /\ k.from = cursor'[k.id] /\ k.from <= k.to
    <3>1. k \in jobs /\ k.slot \in Slots \ {j.slot}  BY <1>10, <1>13
    <3>2. loop[k.slot] # Free /\ k.from = cursor[k.id] /\ k.from <= k.to
      BY <2>1, <3>1 DEF IInv, CountInv
    <3>3. loop[k.slot].id = k.id /\ k.id \in Ids
      BY <3>1, <3>2 DEF IInv, TaskInv, TypeOK
    <3>4. k.id # j.id  BY <1>15, <2>1, <3>1, <3>2, <3>3
    <3> QED  BY <1>7, <1>8, <3>1, <3>2, <3>3, <3>4
  <2>2. ASSUME NEW m \in Slots, loop'[m] # Free, loop'[m].id \notin EnvIds
        PROVE  /\ \E i \in DOMAIN config : Row(i, loop'[m].id, loop'[m].server)
               /\ loop'[m].pc \in {"poll", "apply"} => loop'[m].seen = cursor'[loop'[m].id]
    <3>1. CASE m = j.slot  BY <1>4, <1>7, <1>16, <2>2, <3>1
    <3>2. CASE m # j.slot
      <4>1. loop'[m] = loop[m]  BY <1>7, <3>2
      <4>2. loop[m].id \in Ids  BY <2>2, <4>1, LoopType DEF IInv
      <4>3. loop[m].id # j.id  BY <1>15, <2>2, <3>2, <4>1
      <4>4. cursor'[loop[m].id] = cursor[loop[m].id]  BY <1>8, <4>2, <4>3
      <4> QED  BY <2>2, <4>1, <4>4 DEF IInv, CountInv
    <3> QED  BY <3>1, <3>2
  <2>3. ASSUME NEW i \in DOMAIN config, config[i].id \notin EnvIds, NEW n \in 1 .. MaxLog
        PROVE  counted'[config[i].id][config[i].server][n] =
                 IF n <= cursor'[config[i].id] THEN 1 ELSE 0
    <3>1. counted[config[i].id][config[i].server][n] = IF n <= cursor[config[i].id] THEN 1 ELSE 0
      BY <2>3 DEF IInv, CountInv
    <3>2. config[i].id \in Ids  BY ConfigType DEF IInv
    <3>3. CASE config[i].id = j.id
      <4>1. PICK k \in DOMAIN config : Row(k, j.id, j.server)  BY <1>16, <2>3, <3>3
      <4>2. k = i  BY <3>3, <4>1 DEF IInv, ConfigInv, ConfigIdsUnique, Row
      <4>3. config[i].server = j.server  BY <4>1, <4>2 DEF Row
      <4>4. j.from = cursor[j.id] /\ j.from <= j.to  BY <1>16, <2>3, <3>3
      <4>5. counted[j.id][j.server][n] = IF n <= j.from THEN 1 ELSE 0  BY <3>1, <3>3, <4>3, <4>4
      <4>6. MaxLog \in Nat  BY BoundsAssumption
      <4>7. counted'[j.id][j.server][n] = IF n <= j.to THEN 1 ELSE 0
        BY <1>2, <1>9, <4>4, <4>5, <4>6
      <4> QED  BY <1>8, <3>3, <4>3, <4>7
    <3>4. CASE config[i].id # j.id  BY <1>8, <1>9, <3>1, <3>2, <3>4
    <3> QED  BY <3>3, <3>4
  <2>4. ASSUME NEW id \in (Ids \ EnvIds) \ ConfigIds
        PROVE  /\ cursor'[id] = 0
               /\ \A v \in Servers, n \in 1 .. MaxLog : counted'[id][v][n] = 0
    <3>1. id # j.id  BY <1>16, <2>4 DEF ConfigIds, Row
    <3>2. cursor'[id] = cursor[id] /\ counted'[id] = counted[id]  BY <1>8, <1>9, <3>1
    <3> QED  BY <3>2 DEF IInv, CountInv
  <2> QED  BY <1>1, <2>1, <2>2, <2>3, <2>4 DEF CountInv, Row, ConfigIds
<1> QED  BY <1>11, <1>12, <1>14, <1>17 DEF IInv

\* The rows are listed: each is to be spawned once, and none of them runs yet
\* under an id that no env source has.
LEMMA ListSourcesIInv ==
    ASSUME IInv, ListSources
    PROVE  IInv'
<1>1. /\ logged' = logged /\ config' = config /\ cursor' = cursor /\ counted' = counted
      /\ loop' = loop /\ registry' = registry /\ jobs' = jobs /\ request' = request
      /\ restarts' = restarts
      /\ listing = "due" /\ listing' = "done" /\ boot' = config
  BY DEF ListSources
<1>2. /\ config \in Seq(Source)
      /\ \A i \in DOMAIN config : config[i].id \in Ids /\ config[i].server \in Servers
  BY ConfigType DEF IInv
<1>3. \A q \in Requests : request[q].pc \in {"idle", "killed"}
  BY <1>1 DEF IInv, BootInv, Serving
<1>4. \A i, k \in DOMAIN config : config[i].id = config[k].id => i = k
  BY DEF IInv, ConfigInv, ConfigIdsUnique
<1>5. TypeOK'  BY <1>1, <1>2 DEF IInv, TypeOK
<1>6. ConfigInv'  BY <1>1 DEF IInv, ConfigInv, ConfigIdsUnique, Saved, Row
<1>7. TaskInv'  BY <1>1 DEF IInv, TaskInv, OneLoopPerId
<1>8. BootInv'
  <2>1. ASSUME NEW i \in DOMAIN config PROVE Pending(i)'
    <3>1. \A m \in DOMAIN config : m > i => config[m].id # config[i].id
      <4>1. \A m \in DOMAIN config : m > i => m # i  BY <1>2
      <4> QED  BY <1>4, <4>1
    <3> QED  BY <1>1, <3>1 DEF Pending
  <2> QED  BY <1>1, <1>3, <2>1 DEF BootInv, Due, Row
<1>9. SpawnedOnceInv'
  <2>1. ASSUME NEW k \in DOMAIN config, config[k].id \notin EnvIds PROVE registry[config[k].id] = 0
    BY <1>1, <1>2, <2>1 DEF IInv, SpawnedOnceInv
  <2> QED  BY <1>1, <1>3, <1>4, <2>1 DEF SpawnedOnceInv
<1>10. CountInv'  BY <1>1 DEF IInv, CountInv, Row, ConfigIds
<1> QED  BY <1>5, <1>6, <1>7, <1>8, <1>9, <1>10 DEF IInv

\* The listing fails: every row is older than the process, and not listed.
LEMMA ListFailsIInv ==
    ASSUME IInv, ListFails
    PROVE  IInv'
<1>1. /\ logged' = logged /\ config' = config /\ cursor' = cursor /\ counted' = counted
      /\ loop' = loop /\ registry' = registry /\ jobs' = jobs /\ request' = request
      /\ restarts' = restarts /\ boot' = boot
      /\ listing = "due" /\ boot = <<>> /\ listing' = "failed"
  BY DEF ListFails
<1>2. \A q \in Requests : request[q].pc \in {"idle", "killed"}
  BY <1>1 DEF IInv, BootInv, Serving
<1>3. TypeOK'  BY <1>1 DEF IInv, TypeOK
<1>4. ConfigInv'  BY <1>1 DEF IInv, ConfigInv, ConfigIdsUnique, Saved, Row
<1>5. TaskInv'  BY <1>1 DEF IInv, TaskInv, OneLoopPerId
<1>6. BootInv'
  <2>1. ASSUME NEW i \in DOMAIN config PROVE Past(i)' /\ Settled(i)'
    <3>1. PICK q \in Requests : Saved(q) /\ request[q].id = config[i].id
      BY DEF IInv, ConfigInv
    <3>2. request[q].pc = "killed"  BY <1>2, <3>1 DEF Saved
    <3>3. Unlisted(config[i])'  BY <1>1, <3>1, <3>2 DEF Unlisted
    <3>4. Past(i)'  BY <1>1 DEF Past
    <3> QED  BY <1>1, <3>3, <3>4 DEF Settled
  <2> QED  BY <1>1, <1>2, <2>1 DEF BootInv
<1>7. SpawnedOnceInv'  BY <1>1 DEF IInv, SpawnedOnceInv
<1>8. CountInv'  BY <1>1 DEF IInv, CountInv, Row, ConfigIds
<1> QED  BY <1>3, <1>4, <1>5, <1>6, <1>7, <1>8 DEF IInv

\* A kill leaves the rows and the counts; the boot that follows has them all
\* still to list.
LEMMA RestartIInv ==
    ASSUME IInv, Restart
    PROVE  IInv'
<1>1. /\ restarts < MaxRestarts /\ restarts' = restarts + 1
      /\ loop' = [n \in Slots |-> Free] /\ registry' = [i \in Ids |-> 0] /\ jobs' = {}
      /\ request' = [r \in Requests |->
                       IF request[r].pc = "idle" THEN request[r]
                       ELSE [pc |-> "killed", id |-> request[r].id]]
      /\ boot' = EnvSources /\ listing' = "due"
      /\ logged' = logged /\ config' = config /\ cursor' = cursor /\ counted' = counted
  BY DEF Restart
<1>2. boot' \in Seq(Source) /\ \A k \in DOMAIN boot' : boot'[k].id \in EnvIds
  BY <1>1, EnvType
<1>3. request \in [Requests -> [pc : RequestPCs, id : Ids \cup {NoId}]]
  BY DEF IInv, TypeOK
<1>4. /\ request' \in [Requests -> [pc : RequestPCs, id : Ids \cup {NoId}]]
      /\ \A q \in Requests : /\ request'[q].id = request[q].id
                             /\ request'[q].pc \in {"idle", "killed"}
                             /\ Saved(q) => request'[q].pc = "killed"
  BY <1>1, <1>3 DEF RequestPCs, Saved
<1>5. TypeOK'
  <2>1. Free \in Loops  BY DEF Loops
  <2>2. loop' \in [Slots -> Loops] /\ registry' \in [Ids -> Slots \cup {0}]  BY <1>1, <2>1
  <2>3. restarts' \in 0 .. MaxRestarts  BY <1>1, BoundsAssumption DEF IInv, TypeOK
  <2> QED  BY <1>1, <1>2, <1>4, <2>2, <2>3 DEF IInv, TypeOK
<1>6. ConfigInv'
  <2>1. ConfigIdsUnique'  BY <1>1 DEF IInv, ConfigInv, ConfigIdsUnique
  <2>2. \A q \in Requests : Saved(q) => Saved(q)'  BY <1>4 DEF Saved
  <2>3. \A i \in DOMAIN config : \E q \in Requests : Saved(q)' /\ request'[q].id = config[i].id
    BY <1>4, <2>2 DEF IInv, ConfigInv
  <2>4. \A q \in Requests : request'[q].pc # "spawn"  BY <1>4
  <2> QED  BY <1>1, <2>1, <2>3, <2>4 DEF ConfigInv
<1>7. TaskInv'
  <2>1. \A n \in Slots : loop'[n] = Free  BY <1>1
  <2>2. \A id \in Ids : registry'[id] = 0  BY <1>1
  <2> QED  BY <1>1, <2>1, <2>2 DEF TaskInv, OneLoopPerId
<1>8. BootInv'
  <2>1. \A i \in DOMAIN config : Due(i)'  BY <1>1 DEF Due
  <2> QED  BY <1>1, <1>2, <1>4, <2>1 DEF BootInv
<1>9. SpawnedOnceInv'
  <2>1. \A q \in Requests : request'[q].pc # "spawn"  BY <1>4
  <2>2. \A id \in Ids : registry'[id] = 0  BY <1>1
  <2> QED  BY <1>2, <2>1, <2>2 DEF SpawnedOnceInv
<1>10. CountInv'
  <2>1. \A n \in Slots : loop'[n] = Free  BY <1>1
  <2> QED  BY <1>1, <2>1 DEF IInv, CountInv, ConfigIds
<1> QED  BY <1>5, <1>6, <1>7, <1>8, <1>9, <1>10 DEF IInv
-----------------------------------------------------------------------------
\* A step of a handler.
LEMMA HandlerIInv ==
    ASSUME IInv, NEW r \in Requests, HandlerStep(r)
    PROVE  IInv'
<1> USE DEF Untouched
<1>1. request[r].pc \notin {"idle", "killed"} => Serving  BY DEF IInv, BootInv
<1>2. CASE Submit(r)
  <2>1. /\ Handle(r, "probe") /\ request[r].pc = "idle" /\ Serving
        /\ UNCHANGED <<config, loop, registry>> /\ Untouched
    BY <1>2 DEF Submit
  <2> QED  BY <2>1, HandleIInv
<1>3. CASE ProbeOk(r)
  <2>1. /\ Handle(r, "save") /\ request[r].pc = "probe" /\ Serving
        /\ UNCHANGED <<config, loop, registry>> /\ Untouched
    BY <1>1, <1>3 DEF ProbeOk
  <2> QED  BY <2>1, HandleIInv
<1>4. CASE ProbeFails(r)
  <2>1. /\ Handle(r, "failed") /\ request[r].pc = "probe" /\ Serving
        /\ UNCHANGED <<config, loop, registry>> /\ Untouched
    BY <1>1, <1>4 DEF ProbeFails
  <2> QED  BY <2>1, HandleIInv
<1>5. CASE Save(r)  BY <1>5, SaveIInv
<1>6. CASE SaveFails(r)
  <2>1. /\ Handle(r, "failed") /\ request[r].pc \in {"save", "orphanSave"} /\ Serving
        /\ UNCHANGED <<config, loop, registry>> /\ Untouched
    BY <1>1, <1>6 DEF SaveFails
  <2> QED  BY <2>1, HandleIInv
<1>7. CASE SpawnCreated(r)  BY <1>7, SpawnCreatedIInv
<1>8. CASE Disconnect(r)
  <2>1. /\ Serving /\ UNCHANGED <<config, loop, registry>> /\ Untouched
        /\ \/ request[r].pc = "probe" /\ Handle(r, "failed")
           \/ request[r].pc = "save" /\ Handle(r, "orphanSave")
           \/ request[r].pc = "spawn" /\ Handle(r, "gone")
    BY <1>1, <1>8 DEF Disconnect
  <2> QED  BY <2>1, HandleIInv
<1> QED  BY <1>2, <1>3, <1>4, <1>5, <1>6, <1>7, <1>8 DEF HandlerStep

\* Every step preserves the inductive invariant.
LEMMA NextIInv == IInv /\ [Next]_vars => IInv'
<1> SUFFICES ASSUME IInv, [Next]_vars PROVE IInv'  OBVIOUS
<1>1. CASE \E v \in Servers : Query(v)  BY <1>1, QueryIInv
<1>2. CASE BootStep \/ ListSources \/ ListFails
  BY <1>2, BootStepIInv, ListSourcesIInv, ListFailsIInv
<1>3. CASE \E r \in Requests : HandlerStep(r)  BY <1>3, HandlerIInv
<1>4. CASE \E n \in Slots : ReadCursor(n) \/ Poll(n)
  BY <1>4, ReadCursorIInv, PollIInv
<1>5. CASE \E j \in jobs : Apply(j)  BY <1>5, ApplyIInv
<1>6. CASE Restart  BY <1>6, RestartIInv
<1>7. CASE UNCHANGED vars
  <2> USE <1>7 DEF vars
  <2>1. TypeOK'  BY DEF IInv, TypeOK
  <2>2. ConfigInv'  BY DEF IInv, ConfigInv, ConfigIdsUnique, Saved, Row
  <2>3. TaskInv'  BY DEF IInv, TaskInv, OneLoopPerId
  <2>4. BootInv'
    BY DEF IInv, BootInv, Row, Serving, Due, Pending, Past, Settled, Runs, Running,
           HandlerDropped, Unlisted
  <2>5. SpawnedOnceInv'  BY DEF IInv, SpawnedOnceInv
  <2>6. CountInv'  BY DEF IInv, CountInv, Row, ConfigIds
  <2> QED  BY <2>1, <2>2, <2>3, <2>4, <2>5, <2>6 DEF IInv
<1> QED  BY <1>1, <1>2, <1>3, <1>4, <1>5, <1>6, <1>7 DEF Next
-----------------------------------------------------------------------------
\* Boot, the setup endpoint and the loops it replaces keep the inductive
\* invariant, whatever the requests, the env sources and the kills.
THEOREM InvariantHolds == Spec => []IInv
<1> QED  BY InitIInv, NextIInv, PTL DEF Spec

\* The registry, the rows, the loops and the jobs stay what main, spawn_source
\* and save_source_config take them for.
THEOREM TypeCorrect == Spec => []TypeOK
<1>1. IInv => TypeOK  BY DEF IInv
<1> QED  BY <1>1, InvariantHolds, PTL

\* save_source_config never gives two rows one id, however submissions, drops
\* of handlers and restarts interleave.
THEOREM IdsUnique == Spec => []ConfigIdsUnique
<1>1. IInv => ConfigIdsUnique  BY DEF IInv, ConfigInv
<1> QED  BY <1>1, InvariantHolds, PTL

\* spawn_source never leaves two loops of one id running.
THEOREM OneLoop == Spec => []OneLoopPerId
<1>1. IInv => OneLoopPerId  BY DEF IInv, TaskInv
<1> QED  BY <1>1, InvariantHolds, PTL

\* Once the daemon serves, every persisted source is polled on its server,
\* unless its handler is still to spawn it or was dropped before it could, or it
\* is older than this process and could not be listed at its boot.
THEOREM ConfiguredRuns == Spec => []ConfiguredRunsUnlessDropped
<1>1. IInv => ConfiguredRunsUnlessDropped
  <2> SUFFICES ASSUME IInv, Serving, NEW i \in DOMAIN config
               PROVE  Settled(i)
    BY DEF ConfiguredRunsUnlessDropped, Settled, Runs, HandlerDropped
  <2>1. ~Due(i)  BY DEF Serving, Due, Pending
  <2> QED  BY <2>1 DEF IInv, BootInv
<1> QED  BY <1>1, InvariantHolds, PTL

\* A source whose id no env source has has counted exactly the queries of its
\* server up to its cursor, across kills and restarts and whatever becomes of
\* the loops of other ids.
THEOREM EachSourceExactlyOnce == Spec => []ExactlyOncePerSource
<1>1. IInv => ExactlyOncePerSource
  <2> SUFFICES ASSUME IInv, NEW m \in Slots, loop[m] # Free, loop[m].id \notin EnvIds,
                      NEW n \in 1 .. MaxLog
               PROVE  counted[loop[m].id][loop[m].server][n] =
                        IF n <= cursor[loop[m].id] THEN 1 ELSE 0
    BY DEF ExactlyOncePerSource
  <2>1. PICK i \in DOMAIN config : Row(i, loop[m].id, loop[m].server)
    BY DEF IInv, CountInv
  <2> QED  BY <2>1 DEF IInv, CountInv, Row
<1> QED  BY <1>1, InvariantHolds, PTL
=============================================================================
