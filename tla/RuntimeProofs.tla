--------------------------- MODULE RuntimeProofs ---------------------------
(***************************************************************************)
(* Theorems about Runtime, for every set of packages, ids, schemes and     *)
(* overlapping requests.  The inductive invariant adds to the properties   *)
(* what makes them inductive: which fields of a pending request are set,   *)
(* and that no two holders have the same client factory or server.         *)
(***************************************************************************)
EXTENDS Runtime, TLAPS

(* What the phase of a request says about its fields.                      *)
Holding == {"starting", "undoing", "stopping"}

RequestOK ==
    \A r \in Requests :
      /\ req[r].phase # "idle" => req[r].id \in BindingIds
      /\ req[r].phase \in {"staging", "renaming"} => req[r].pkg \in Packages
      /\ req[r].held # None <=> req[r].phase \in Holding

(* One load's factory and server belong to one loaded binding or to one    *)
(* pending request.                                                        *)
InstancesDistinct ==
    /\ \A id, other \in BindingIds :
         id # other /\ loaded[id] # None /\ loaded[other] # None
           => loaded[id].inst # loaded[other].inst
    /\ \A id \in BindingIds, r \in Requests :
         loaded[id] # None /\ req[r].held # None
           => loaded[id].inst # req[r].held.inst
    /\ \A r, q \in Requests :
         r # q /\ req[r].held # None /\ req[q].held # None
           => req[r].held.inst # req[q].held.inst

Typed == TypeOK /\ RequestOK
IInv == Typed /\ InstancesDistinct /\ FactoryOwnership /\ ServerOwnership

-----------------------------------------------------------------------------
(* Lemmas about the operators                                              *)

(* None is apart from everything it stands in for.                         *)
LEMMA NoneApart ==
    /\ None \notin BindingIds /\ None \notin Schemes
    /\ None \notin Packages /\ None \notin Instances
    /\ Native # None /\ Native \notin Instances
    /\ Absent \notin Packages /\ Broken \notin Packages /\ Absent # Broken
    /\ None \notin LoadedType
  BY MarkersAssumption, RecordsAssumption

LEMMA FreshIsFresh ==
    ASSUME FreshInstances # {}
    PROVE  NewInstance \in FreshInstances
  BY DEF NewInstance

(* A package's fields have the types that PackageType says.                *)
LEMMA PackageFields ==
    ASSUME NEW p \in Packages
    PROVE  /\ p.id \in BindingIds
           /\ p.clientScheme \in Schemes
           /\ p.serverScheme \in Schemes
           /\ p.schemes \subseteq Schemes
  BY PackagesAssumption DEF PackageType

LEMMA ArrivalsType ==
    ASSUME NEW via \in Arrivals
    PROVE  via \in Instances \cup {None}
  BY DEF Arrivals

LEMMA InvocationType ==
    ASSUME NEW op \in {"deploy", "add", "remove", "delete"},
           NEW id \in BindingIds, NEW p \in Packages \cup {None},
           NEW via \in Arrivals
    PROVE  /\ Invocation(op, id, p, via) \in RequestType
           /\ Invocation(op, id, p, via).id = id
           /\ Invocation(op, id, p, via).pkg = p
           /\ Invocation(op, id, p, via).held = None
  BY ArrivalsType DEF Invocation, RequestType, Phases

-----------------------------------------------------------------------------
(* Type correctness                                                        *)

(* Giving one request a new record keeps what is known of all of them.     *)
LEMMA RequestUpdate ==
    ASSUME Typed, NEW r \in Requests, NEW rec \in RequestType,
           rec.phase # "idle" => rec.id \in BindingIds,
           rec.phase \in {"staging", "renaming"} => rec.pkg \in Packages,
           rec.held # None <=> rec.phase \in Holding,
           req' = [req EXCEPT ![r] = rec]
    PROVE  /\ req' \in [Requests -> RequestType]
           /\ RequestOK'
           /\ req'[r] = rec
           /\ \A q \in Requests \ {r} : req'[q] = req[q]
<1>1. req \in [Requests -> RequestType]
  BY DEF Typed, TypeOK
<1>2. /\ req' \in [Requests -> RequestType]
      /\ req'[r] = rec
      /\ \A q \in Requests \ {r} : req'[q] = req[q]
  BY <1>1
<1>3. RequestOK'
  BY <1>2 DEF Typed, RequestOK, Holding
<1> QED BY <1>2, <1>3

LEMMA IdleType ==
    /\ Idle \in RequestType
    /\ Idle.phase = "idle" /\ Idle.held = None /\ Idle.via = None
  BY DEF Idle, RequestType, Phases

LEMMA AnswerTyped ==
    ASSUME Typed, NEW r \in Requests, Answer(r)
    PROVE  /\ req' \in [Requests -> RequestType]
           /\ RequestOK'
           /\ req'[r] = Idle
           /\ \A q \in Requests \ {r} : req'[q] = req[q]
  BY IdleType, RequestUpdate DEF Answer, Holding

LEMMA AwaitTyped ==
    ASSUME Typed, NEW r \in Requests, req[r].phase # "idle",
           NEW phase \in {"renaming", "installed", "undoing"},
           NEW held \in LoadedType \cup {None},
           held # None <=> phase \in Holding,
           phase = "renaming" => req[r].phase = "staging",
           Await(r, phase, held)
    PROVE  /\ req' \in [Requests -> RequestType]
           /\ RequestOK'
           /\ req'[r].phase = phase /\ req'[r].held = held
           /\ req'[r].id = req[r].id /\ req'[r].pkg = req[r].pkg
           /\ \A q \in Requests \ {r} : req'[q] = req[q]
<1> DEFINE rec == [req[r] EXCEPT !.phase = phase, !.held = held]
<1>1. req[r] \in RequestType
  BY DEF Typed, TypeOK
<1>2. /\ rec \in RequestType
      /\ rec.phase = phase /\ rec.held = held
      /\ rec.id = req[r].id /\ rec.pkg = req[r].pkg
  BY <1>1 DEF RequestType, Phases
<1>3. req' = [req EXCEPT ![r] = rec]
  BY DEF Await, Typed, TypeOK
<1>4. rec.id \in BindingIds /\ (phase = "renaming" => rec.pkg \in Packages)
  BY <1>2 DEF Typed, RequestOK
<1> HIDE DEF rec
<1> QED BY <1>2, <1>3, <1>4, RequestUpdate

LEMMA AbortTyped ==
    ASSUME Typed, NEW r \in Requests, NEW record \in RequestType,
           record.id \in BindingIds, NEW left \in Packages \cup {None},
           Abort(r, record, left)
    PROVE  /\ cache' \in [BindingIds -> Packages \cup {None}]
           /\ req' \in [Requests -> RequestType]
           /\ RequestOK'
           /\ req'[r].held = None
           /\ req'[r].phase \in {"idle", "rollback"}
           /\ req'[r].phase = "rollback" => req'[r].id = record.id /\ cache'[record.id] = None
           /\ cache'[record.id] \in {None, left}
           /\ \A id \in BindingIds \ {record.id} : cache'[id] = cache[id]
           /\ \A q \in Requests \ {r} : req'[q] = req[q]
<1> DEFINE rec == [record EXCEPT !.phase = "rollback", !.held = None]
<1>1. /\ rec \in RequestType
      /\ rec.phase = "rollback" /\ rec.held = None /\ rec.id = record.id
  BY DEF RequestType, Phases
<1>2. /\ cache' \in [BindingIds -> Packages \cup {None}]
      /\ cache'[record.id] \in {None, left}
      /\ \A id \in BindingIds \ {record.id} : cache'[id] = cache[id]
      /\ record.op = "deploy" /\ disk[record.id] # Absent => cache'[record.id] = None
  BY DEF Abort, Typed, TypeOK
<1>3. CASE record.op = "deploy" /\ disk[record.id] # Absent
  <2>1. req' = [req EXCEPT ![r] = rec]
    BY <1>3 DEF Abort
  <2> HIDE DEF rec
  <2> QED BY <1>1, <1>2, <1>3, <2>1, RequestUpdate DEF Holding
<1>4. CASE ~(record.op = "deploy" /\ disk[record.id] # Absent)
  BY <1>2, <1>4, AnswerTyped, IdleType DEF Abort
<1> QED BY <1>3, <1>4

LEMMA LoadedFields ==
    ASSUME NEW held \in LoadedType
    PROVE  /\ held # None => held.inst \in Instances
           /\ held # None => held.client \in Schemes \cup {None}
  BY DEF LoadedType

(* What the synchronous part of a registration does: nothing, or it takes  *)
(* a scheme without a factory for a load nobody else has.                  *)
LEMMA RegisterEffect ==
    ASSUME Typed, NEW r \in Requests, NEW record \in RequestType,
           record.id \in BindingIds, Register(r, record)
    PROVE  /\ cache' \in [BindingIds -> Packages \cup {None}]
           /\ registered' \in [BindingIds -> Nat]
           /\ req' \in [Requests -> RequestType]
           /\ RequestOK'
           /\ UNCHANGED <<servers, listening>>
           /\ \A q \in Requests \ {r} : req'[q] = req[q]
           /\ cache'[record.id] \in {None, cache[record.id], disk[record.id]}
           /\ \A id \in BindingIds \ {record.id} : cache'[id] = cache[id]
           /\ \/ /\ UNCHANGED <<loaded, factories, registered>>
                 /\ req'[r].held = None
                 /\ req'[r].phase \in {"idle", "rollback"}
                 /\ req'[r].phase = "rollback"
                      => req'[r].id = record.id /\ cache'[record.id] = None
              \/ \E held \in LoadedType :
                   /\ disk[record.id] \in Packages
                   /\ held.manifest = disk[record.id] /\ held.code = Code(record.id)
                   /\ held.inst \in FreshInstances
                   /\ held.client # None => factories[held.client] = None
                   /\ factories' = [s \in Schemes |->
                                      IF s = held.client THEN held.inst ELSE factories[s]]
                   /\ \/ /\ req'[r].held = held
                         /\ req'[r].phase = "starting" /\ req'[r].id = record.id
                         /\ held.server
                         /\ UNCHANGED <<loaded, registered>>
                      \/ /\ ~held.server
                         /\ registered' = [registered EXCEPT ![record.id] = @ + 1]
                         /\ loaded' = [loaded EXCEPT ![record.id] = held]
                         /\ req'[r] = Idle
<1> DEFINE id == record.id
           m == disk[id]
           c == Code(id)
           client == IF WantsClient(m, c) THEN c.clientScheme ELSE None
           held == [manifest |-> m, code |-> c, inst |-> NewInstance,
                    client |-> client, server |-> WantsServer(m, c)]
           rec == [record EXCEPT !.phase = "starting", !.held = held]
<1>1. /\ cache \in [BindingIds -> Packages \cup {None}]
      /\ disk \in [BindingIds -> Packages \cup {Absent, Broken}]
      /\ registered \in [BindingIds -> Nat]
      /\ factories \in [Schemes -> Instances \cup {Native, None}]
  BY DEF Typed, TypeOK
<1>2. m \in Packages => c \in Packages /\ c \in {cache[id], disk[id]}
  BY <1>1 DEF Code
<1>3. CASE m \notin Packages
  <2>1. Abort(r, record, cache[id]) /\ UNCHANGED <<loaded, registered, servient>>
    BY <1>3 DEF Register
  <2>2. cache[id] \in Packages \cup {None}
    BY <1>1
  <2> QED BY <1>1, <2>1, <2>2, AbortTyped DEF servient
<1>4. CASE m \in Packages /\ (~c.loads \/ Refused(m, c))
  <2>1. /\ Abort(r, record, IF c.loads THEN None ELSE c)
        /\ UNCHANGED <<loaded, registered, servient>>
    BY <1>4 DEF Register
  <2>2. /\ (IF c.loads THEN None ELSE c) \in Packages \cup {None}
        /\ (IF c.loads THEN None ELSE c) \in {None, cache[id], disk[id]}
    BY <1>2, <1>4
  <2> QED BY <1>1, <2>1, <2>2, AbortTyped DEF servient
<1>5. CASE m \in Packages /\ c.loads /\ ~Refused(m, c)
  <2>1. /\ FreshInstances # {}
        /\ cache' = [cache EXCEPT ![id] = c]
        /\ factories' = [s \in Schemes |-> IF s = client THEN NewInstance ELSE factories[s]]
        /\ UNCHANGED <<servers, listening>>
        /\ IF held.server
           THEN /\ req' = [req EXCEPT ![r] = rec]
                /\ UNCHANGED <<loaded, registered>>
           ELSE Enter(id, held) /\ Answer(r)
    BY <1>5, Zenon DEF Register
  <2>2. NewInstance \in FreshInstances /\ NewInstance \in Instances
    BY <2>1, FreshIsFresh DEF FreshInstances
  <2>3. client \in Schemes \cup {None}
    BY <1>2, <1>5, PackageFields
  <2>4. held \in LoadedType
    BY <1>2, <1>5, <2>2, <2>3 DEF LoadedType, WantsServer
  <2>5. client # None => factories[client] = None
    BY <1>5 DEF Refused
  <2>6. /\ cache' \in [BindingIds -> Packages \cup {None}]
        /\ cache'[record.id] \in {None, cache[record.id], disk[record.id]}
        /\ \A other \in BindingIds \ {record.id} : cache'[other] = cache[other]
    BY <1>1, <1>2, <1>5, <2>1
  <2>7. registered' \in [BindingIds -> Nat]
    BY <1>1, <2>1 DEF Enter
  <2>8. /\ held.inst = NewInstance /\ held.client = client
        /\ held.manifest = disk[record.id] /\ held.code = Code(record.id)
        /\ disk[record.id] \in Packages
    BY <1>5
  <2>9. held # None
    BY <2>4, NoneApart
  <2> HIDE DEF held
  <2>10. CASE held.server
    <3>1. /\ rec \in RequestType
          /\ rec.phase = "starting" /\ rec.held = held /\ rec.id = record.id
      BY <2>4 DEF RequestType, Phases
    <3>2. req' = [req EXCEPT ![r] = rec] /\ UNCHANGED <<loaded, registered>>
      BY <2>1, <2>10
    <3> HIDE DEF rec, client, id, m, c
    <3>3. /\ req' \in [Requests -> RequestType]
          /\ RequestOK'
          /\ req'[r] = rec
          /\ \A q \in Requests \ {r} : req'[q] = req[q]
      BY <3>1, <3>2, <2>9, RequestUpdate DEF Holding
    <3> QED BY <2>1, <2>2, <2>4, <2>5, <2>6, <2>7, <2>8, <2>10, <3>1, <3>2, <3>3
  <2>11. CASE ~held.server
    <3>1. Enter(id, held) /\ Answer(r)
      BY <2>1, <2>11
    <3>2. /\ loaded' = [loaded EXCEPT ![record.id] = held]
          /\ registered' = [registered EXCEPT ![record.id] = @ + 1]
      BY <3>1 DEF Enter
    <3> HIDE DEF rec, client, id, m, c
    <3> QED BY <2>1, <2>2, <2>4, <2>5, <2>6, <2>7, <2>8, <2>11, <3>1, <3>2,
               AnswerTyped
  <2> QED BY <2>10, <2>11
<1> QED BY <1>3, <1>4, <1>5

LEMMA BeginRemovalTyped ==
    ASSUME Typed, NEW r \in Requests, NEW record \in RequestType,
           record.id \in BindingIds, BeginRemoval(r, record)
    PROVE  /\ cache' \in [BindingIds -> Packages \cup {None}]
           /\ req' \in [Requests -> RequestType]
           /\ RequestOK'
           /\ req'[r].held = None
           /\ req'[r].phase \in {"idle", "removing"}
           /\ req'[r].phase = "removing" => req'[r].id = record.id
           /\ cache' = [cache EXCEPT ![record.id] = None]
           /\ \A q \in Requests \ {r} : req'[q] = req[q]
<1> DEFINE rec == [record EXCEPT !.phase = "removing", !.held = None]
<1>1. /\ rec \in RequestType
      /\ rec.phase = "removing" /\ rec.held = None /\ rec.id = record.id
  BY DEF RequestType, Phases
<1>2. /\ cache' \in [BindingIds -> Packages \cup {None}]
      /\ cache' = [cache EXCEPT ![record.id] = None]
  BY DEF BeginRemoval, Typed, TypeOK
<1>3. CASE req' = [req EXCEPT ![r] = rec]
  <2> HIDE DEF rec
  <2> QED BY <1>1, <1>2, <1>3, RequestUpdate DEF Holding
<1>4. CASE Answer(r)
  BY <1>2, <1>4, AnswerTyped, IdleType
<1> QED BY <1>3, <1>4 DEF BeginRemoval

(* The synchronous part of a removal: the factory goes, and the server, if *)
(* the Servient has it, passes from the loaded binding to the request.     *)
LEMMA UnregisterEffect ==
    ASSUME Typed, NEW r \in Requests, NEW record \in RequestType,
           record.id \in BindingIds, loaded[record.id] # None,
           Unregister(r, record)
    PROVE  /\ cache' \in [BindingIds -> Packages \cup {None}]
           /\ registered' \in [BindingIds -> Nat]
           /\ req' \in [Requests -> RequestType]
           /\ RequestOK'
           /\ loaded' = [loaded EXCEPT ![record.id] = None]
           /\ factories' = WithoutFactory(loaded[record.id].client)
           /\ UNCHANGED listening /\ occupied' \subseteq Instances
           /\ \A q \in Requests \ {r} : req'[q] = req[q]
           /\ \/ /\ servers' = [servers EXCEPT ![loaded[record.id].inst] = None]
                 /\ req'[r].held = loaded[record.id]
                 /\ req'[r].phase = "stopping" /\ req'[r].id = record.id
                 /\ servers[loaded[record.id].inst] # None
                 /\ UNCHANGED <<cache, registered>>
              \/ /\ servers' = servers
                 /\ loaded[record.id].server => servers[loaded[record.id].inst] = None
                 /\ req'[r].held = None
                 /\ req'[r].phase \in {"idle", "removing"}
                 /\ req'[r].phase = "removing" => req'[r].id = record.id
                 /\ cache' = [cache EXCEPT ![record.id] = None]
                 /\ registered' = [registered EXCEPT ![record.id] = 0]
<1> DEFINE held == loaded[record.id]
           rec == [record EXCEPT !.phase = "stopping", !.held = held]
<1>1. /\ cache \in [BindingIds -> Packages \cup {None}]
      /\ registered \in [BindingIds -> Nat]
      /\ held \in LoadedType /\ held # None
  BY DEF Typed, TypeOK
<1>2. /\ rec \in RequestType
      /\ rec.phase = "stopping" /\ rec.held = held /\ rec.id = record.id
  BY <1>1 DEF RequestType, Phases
<1>3. /\ loaded' = [loaded EXCEPT ![record.id] = None]
      /\ factories' = WithoutFactory(held.client)
      /\ UNCHANGED listening /\ occupied' \subseteq Instances
  <2>1. Close(held) \/ UNCHANGED occupied
    BY DEF Unregister
  <2>2. occupied \subseteq Instances /\ held.inst \in Instances
    BY <1>1 DEF Typed, TypeOK, LoadedType
  <2>3. occupied' \subseteq Instances
    BY <2>1, <2>2 DEF Close
  <2> QED BY <2>3 DEF Unregister
<1>4. CASE held.server /\ servers[held.inst] # None
  <2>1. /\ servers' = [servers EXCEPT ![held.inst] = None]
        /\ req' = [req EXCEPT ![r] = rec]
        /\ UNCHANGED <<cache, registered>>
    BY <1>4 DEF Unregister
  <2> HIDE DEF rec, held
  <2>2. /\ req' \in [Requests -> RequestType]
        /\ RequestOK'
        /\ req'[r] = rec
        /\ \A q \in Requests \ {r} : req'[q] = req[q]
    BY <1>1, <1>2, <2>1, RequestUpdate DEF Holding
  <2> QED BY <1>1, <1>2, <1>3, <1>4, <2>1, <2>2 DEF held
<1>5. CASE ~(held.server /\ servers[held.inst] # None)
  <2>1. Unregistered(r, record) /\ UNCHANGED servers
    BY <1>5 DEF Unregister
  <2>2. /\ registered' \in [BindingIds -> Nat] /\ BeginRemoval(r, record)
        /\ registered' = [registered EXCEPT ![record.id] = 0]
    BY <1>1, <2>1 DEF Unregistered
  <2> QED BY <1>3, <1>5, <2>1, <2>2, BeginRemovalTyped
<1> QED BY <1>4, <1>5

LEMMA WithoutFactoryType ==
    ASSUME Typed, NEW scheme
    PROVE  WithoutFactory(scheme) \in [Schemes -> Instances \cup {Native, None}]
  BY DEF WithoutFactory, Typed, TypeOK

-----------------------------------------------------------------------------
(* Type correctness                                                        *)

LEMMA TypedInit == Init => Typed
<1> SUFFICES ASSUME Init PROVE Typed
  OBVIOUS
<1>1. TypeOK
  BY NativesAssumption, IdleType DEF Init, TypeOK
<1>2. RequestOK
  BY IdleType DEF Init, RequestOK, Holding
<1> QED BY <1>1, <1>2 DEF Typed

LEMMA TypedNext ==
    ASSUME Typed, [Next]_vars
    PROVE  Typed'
<1> USE NoneApart
<1>0. /\ disk \in [BindingIds -> Packages \cup {Absent, Broken}]
      /\ cache \in [BindingIds -> Packages \cup {None}]
      /\ loaded \in [BindingIds -> LoadedType \cup {None}]
      /\ registered \in [BindingIds -> Nat]
      /\ factories \in [Schemes -> Instances \cup {Native, None}]
      /\ servers \in [Instances -> Schemes \cup {None}]
      /\ listening \subseteq Instances
      /\ req \in [Requests -> RequestType]
      /\ stopFaults \in Nat /\ occupied \subseteq Instances
  BY DEF Typed, TypeOK
<1>held. ASSUME NEW r \in Requests, req[r].phase \in Holding
         PROVE  /\ req[r].held \in LoadedType
                /\ req[r].held.inst \in Instances
                /\ req[r].held.client \in Schemes \cup {None}
  BY <1>0, <1>held DEF Typed, RequestOK, RequestType, LoadedType
<1>id. ASSUME NEW r \in Requests, req[r].phase # "idle"
       PROVE  req[r] \in RequestType /\ req[r].id \in BindingIds
  BY <1>0, <1>id DEF Typed, RequestOK
<1>reg. ASSUME NEW r \in Requests, NEW record \in RequestType,
               record.id \in BindingIds, Register(r, record),
               UNCHANGED <<disk, stopFaults, occupied>>
        PROVE  Typed'
  <2>1. \E X \in {loaded} \cup {[loaded EXCEPT ![record.id] = h] : h \in LoadedType} :
          loaded' = X
    BY <1>reg, RegisterEffect
  <2>2. loaded' \in [BindingIds -> LoadedType \cup {None}]
    BY <1>0, <1>reg, <2>1
  <2>3. factories' \in [Schemes -> Instances \cup {Native, None}]
    BY <1>0, <1>reg, RegisterEffect DEF FreshInstances
  <2>4. /\ cache' \in [BindingIds -> Packages \cup {None}]
        /\ registered' \in [BindingIds -> Nat]
        /\ req' \in [Requests -> RequestType]
        /\ RequestOK'
        /\ UNCHANGED <<servers, listening>>
    BY <1>0, <1>reg, RegisterEffect
  <2> QED BY <1>0, <1>reg, <2>2, <2>3, <2>4, SMTT(30) DEF Typed, TypeOK
<1>unreg. ASSUME NEW r \in Requests, NEW record \in RequestType,
                 record.id \in BindingIds, loaded[record.id] # None,
                 Unregister(r, record), UNCHANGED <<disk, stopFaults>>
          PROVE  Typed'
  <2>1. /\ cache' \in [BindingIds -> Packages \cup {None}]
        /\ registered' \in [BindingIds -> Nat]
        /\ req' \in [Requests -> RequestType]
        /\ RequestOK'
        /\ UNCHANGED listening /\ occupied' \subseteq Instances
    BY <1>0, <1>unreg, UnregisterEffect
  <2>2. loaded' \in [BindingIds -> LoadedType \cup {None}]
    BY <1>0, <1>unreg, UnregisterEffect
  <2>3. factories' \in [Schemes -> Instances \cup {Native, None}]
    BY <1>0, <1>unreg, UnregisterEffect, WithoutFactoryType
  <2>4. servers' \in [Instances -> Schemes \cup {None}]
    BY <1>0, <1>unreg, UnregisterEffect
  <2> QED BY <1>0, <1>unreg, <2>1, <2>2, <2>3, <2>4, SMTT(30) DEF Typed, TypeOK
<1>1. CASE UNCHANGED vars
  BY <1>1 DEF vars, Typed, TypeOK, RequestOK
<1>2. ASSUME NEW r \in Requests, NEW p \in Packages, Deploy(r, p)
      PROVE  Typed'
  <2>1. PICK via \in Arrivals :
          req' = [req EXCEPT ![r] =
                    [Invocation("deploy", p.id, p, via) EXCEPT !.phase = "staging"]]
    BY <1>2 DEF Deploy
  <2> DEFINE rec == [Invocation("deploy", p.id, p, via) EXCEPT !.phase = "staging"]
  <2>2. /\ rec \in RequestType
        /\ rec.id = p.id /\ rec.pkg = p /\ rec.held = None /\ rec.phase = "staging"
    BY InvocationType, PackageFields DEF RequestType, Phases
  <2>3. req' \in [Requests -> RequestType] /\ RequestOK'
    <3> HIDE DEF rec
    <3> QED BY <2>1, <2>2, PackageFields, RequestUpdate DEF Holding, rec
  <2> QED BY <1>0, <1>2, <2>3 DEF Deploy, Typed, TypeOK, servient
<1>3. ASSUME NEW r \in Requests, NEW id \in BindingIds, Add(r, id)
      PROVE  Typed'
  <2>1. PICK via \in Arrivals : Register(r, Invocation("add", id, None, via))
    BY <1>3 DEF Add
  <2> QED BY <1>3, <2>1, <1>reg, InvocationType DEF Add
<1>4. ASSUME NEW r \in Requests, NEW id \in BindingIds, Remove(r, id)
      PROVE  Typed'
  <2>1. PICK via \in Arrivals : Unregister(r, Invocation("remove", id, None, via))
    BY <1>4 DEF Remove
  <2> QED BY <1>4, <2>1, <1>unreg, InvocationType DEF Remove
<1>5. ASSUME NEW r \in Requests, NEW id \in BindingIds, Delete(r, id)
      PROVE  Typed'
  <2>1. PICK via \in Arrivals :
          LET record == Invocation("delete", id, None, via) IN
          IF loaded[id] # None
          THEN Unregister(r, record)
          ELSE /\ BeginRemoval(r, record)
               /\ UNCHANGED <<loaded, registered, servient, occupied>>
    BY <1>5 DEF Delete
  <2> DEFINE record == Invocation("delete", id, None, via)
  <2>2. record \in RequestType /\ record.id = id
    BY InvocationType
  <2> HIDE DEF record
  <2>3. CASE loaded[id] # None
    BY <1>5, <2>1, <2>2, <2>3, <1>unreg DEF Delete, record
  <2>4. CASE loaded[id] = None
    <3>1. BeginRemoval(r, record) /\ UNCHANGED <<loaded, registered, servient, occupied>>
      BY <2>1, <2>4 DEF record
    <3> QED BY <1>0, <1>5, <2>2, <3>1, BeginRemovalTyped
            DEF Delete, Typed, TypeOK, servient
  <2> QED BY <2>3, <2>4
<1>6. ASSUME NEW r \in Requests, Staged(r)
      PROVE  Typed'
  <2>1. CASE Await(r, "renaming", None)
    BY <1>0, <1>6, <2>1, AwaitTyped DEF Staged, Pending, Holding, Typed, TypeOK, servient
  <2>2. CASE Answer(r)
    BY <1>0, <1>6, <2>2, AnswerTyped DEF Staged, Typed, TypeOK, servient
  <2> QED BY <1>6, <2>1, <2>2 DEF Staged
<1>7. ASSUME NEW r \in Requests, Rename(r)
      PROVE  Typed'
  <2>1. req[r].pkg \in Packages
    BY <1>7 DEF Rename, Pending, Typed, RequestOK
  <2>2. disk' \in [BindingIds -> Packages \cup {Absent, Broken}]
    BY <1>0, <1>7, <2>1 DEF Rename
  <2>3. req' \in [Requests -> RequestType] /\ RequestOK'
    BY <1>7, AwaitTyped DEF Rename, Pending, Holding
  <2> QED BY <1>0, <1>7, <2>2, <2>3 DEF Rename, Typed, TypeOK, servient
<1>8. ASSUME NEW r \in Requests, InstallFails(r)
      PROVE  Typed'
  BY <1>0, <1>8, AnswerTyped DEF InstallFails, Typed, TypeOK, servient
<1>9. ASSUME NEW r \in Requests, Installed(r)
      PROVE  Typed'
  BY <1>9, <1>id, <1>reg DEF Installed, Pending
<1>10. ASSUME NEW r \in Requests, Started(r)
       PROVE  Typed'
  <2> DEFINE held == req[r].held
  <2>1. /\ held \in LoadedType /\ held.inst \in Instances
        /\ held.code.serverScheme \in Schemes /\ req[r].id \in BindingIds
        /\ held # None
    BY <1>10, <1>held, <1>id, PackageFields DEF Started, Pending, Holding, LoadedType
  <2>2. listening' \subseteq Instances
    BY <1>0, <1>10, <2>1 DEF Started
  <2>3. CASE held.code.server = "exposeThrows"
    <3>1. /\ factories' = WithoutFactory(held.client)
          /\ Await(r, "undoing", held)
          /\ UNCHANGED <<loaded, registered, servers>>
      BY <1>10, <2>3 DEF Started
    <3>2. req' \in [Requests -> RequestType] /\ RequestOK'
      BY <1>10, <2>1, <3>1, AwaitTyped DEF Started, Pending, Holding
    <3> QED BY <1>0, <1>10, <2>2, <3>1, <3>2, WithoutFactoryType
            DEF Started, Typed, TypeOK
  <2>4. CASE held.code.server # "exposeThrows"
    <3>1. /\ servers' = [servers EXCEPT ![held.inst] = held.code.serverScheme]
          /\ Enter(req[r].id, held)
          /\ Answer(r)
          /\ UNCHANGED factories
      BY <1>10, <2>4 DEF Started
    <3>2. /\ loaded' \in [BindingIds -> LoadedType \cup {None}]
          /\ registered' \in [BindingIds -> Nat]
      BY <1>0, <2>1, <3>1 DEF Enter
    <3> QED BY <1>0, <1>10, <2>1, <2>2, <3>1, <3>2, AnswerTyped
            DEF Started, Typed, TypeOK
  <2> QED BY <2>3, <2>4
<1>11. ASSUME NEW r \in Requests, StartFails(r)
       PROVE  Typed'
  BY <1>0, <1>11, <1>id, AbortTyped, WithoutFactoryType
  DEF StartFails, Pending, Typed, TypeOK
<1>12. ASSUME NEW r \in Requests, Undone(r)
       PROVE  Typed'
  BY <1>0, <1>12, <1>id, AbortTyped DEF Undone, Pending, Typed, TypeOK
<1>13. ASSUME NEW r \in Requests, UndoFails(r)
       PROVE  Typed'
  <2>1. req[r] \in RequestType /\ req[r].id \in BindingIds
    BY <1>13, <1>id DEF UndoFails, Pending
  <2>2. cache[req[r].id] \in Packages \cup {None}
    BY <1>0, <2>1
  <2> QED BY <1>0, <1>13, <2>1, <2>2, AbortTyped DEF UndoFails, Typed, TypeOK
<1>14. ASSUME NEW r \in Requests, Stopped(r)
       PROVE  Typed'
  <2>1. req[r] \in RequestType /\ req[r].id \in BindingIds
    BY <1>14, <1>id DEF Stopped, Pending
  <2>2. BeginRemoval(r, req[r]) /\ registered' \in [BindingIds -> Nat]
    BY <1>0, <1>14, <2>1 DEF Stopped, Unregistered
  <2> QED BY <1>0, <1>14, <2>1, <2>2, BeginRemovalTyped DEF Stopped, Typed, TypeOK
<1>15. ASSUME NEW r \in Requests, StopFails(r)
       PROVE  Typed'
  BY <1>0, <1>15, AnswerTyped DEF StopFails, Typed, TypeOK
<1>16. ASSUME NEW r \in Requests, RmPart(r)
       PROVE  Typed'
  BY <1>0, <1>16 DEF RmPart, Typed, TypeOK, RequestOK, servient
<1>17. ASSUME NEW r \in Requests, RmEnd(r)
       PROVE  Typed'
  BY <1>0, <1>17, AnswerTyped DEF RmEnd, Typed, TypeOK, servient
<1>18. ASSUME NEW r \in Requests, RmFails(r)
       PROVE  Typed'
  BY <1>0, <1>18, AnswerTyped DEF RmFails, Typed, TypeOK, servient
<1>19. ASSUME NEW r \in Requests, Disconnect(r)
       PROVE  Typed'
  <2> DEFINE rec == [req[r] EXCEPT !.via = None]
  <2>1. /\ rec \in RequestType /\ rec.phase = req[r].phase
        /\ rec.id = req[r].id /\ rec.pkg = req[r].pkg /\ rec.held = req[r].held
    BY <1>0 DEF RequestType
  <2>2. req' = [req EXCEPT ![r] = rec]
    BY <1>0, <1>19 DEF Disconnect
  <2> HIDE DEF rec
  <2>3. req' \in [Requests -> RequestType] /\ RequestOK'
    BY <2>1, <2>2, RequestUpdate DEF Typed, RequestOK
  <2> QED BY <1>0, <1>19, <2>3 DEF Disconnect, Typed, TypeOK, servient
<1>20. ASSUME Restart
       PROVE  Typed'
  BY <1>0, <1>20, NativesAssumption, IdleType
  DEF Restart, Typed, TypeOK, RequestOK, Holding
<1>21. ASSUME NEW i \in Instances, Vacate(i)
       PROVE  Typed'
  BY <1>0, <1>21 DEF Vacate, Typed, TypeOK, RequestOK, servient
<1> QED
  BY <1>1, <1>2, <1>3, <1>4, <1>5, <1>6, <1>7, <1>8, <1>9, <1>10, <1>11, <1>12, <1>13,
     <1>14, <1>15, <1>16, <1>17, <1>18, <1>19, <1>20, <1>21 DEF Next, Complete

(* Every variable keeps its type, whatever packages are deployed and       *)
(* however many invocations overlap.                                       *)
THEOREM TypeCorrect == Spec => []TypeOK
<1>1. Typed => TypeOK
  BY DEF Typed
<1> QED BY TypedInit, TypedNext, <1>1, PTL DEF Spec

-----------------------------------------------------------------------------
(* Who owns which factory and server                                       *)

Ownership == InstancesDistinct /\ FactoryOwnership /\ ServerOwnership

LEMMA IInvInit == Init => IInv
<1> SUFFICES ASSUME Init PROVE IInv
  OBVIOUS
<1>1. /\ \A id \in BindingIds : loaded[id] = None
      /\ \A r \in Requests : req[r].held = None /\ req[r].phase = "idle"
  BY IdleType DEF Init
<1>2. \A s \in NativeClients : factories[s] = Native
  BY NativesAssumption DEF Init
<1> QED BY <1>1, <1>2, TypedInit
        DEF IInv, InstancesDistinct, FactoryOwnership, ServerOwnership, LoadedIds, Pending

(* Steps that give nothing to anybody: requests at most let go of a load,  *)
(* and of the port of the load they let go of.                             *)
LEMMA LetGo ==
    ASSUME IInv,
           UNCHANGED <<loaded, factories, servers>>,
           \A q \in Requests : req'[q].held \in {req[q].held, None},
           \A q \in Requests : req'[q].held # None => req'[q].phase = req[q].phase,
           RequestOK',
           \/ listening' = listening
           \/ \E r \in Requests : /\ req[r].held # None
                                 /\ listening' = listening \ {req[r].held.inst}
    PROVE  Ownership'
<1>1. InstancesDistinct'
  BY DEF IInv, InstancesDistinct
<1>2. \A q \in Requests :
        req'[q].phase \in Holding => req'[q].held # None /\ req'[q].held = req[q].held
                                     /\ req'[q].phase = req[q].phase
  BY DEF RequestOK
<1>3. FactoryOwnership'
  BY <1>2 DEF IInv, FactoryOwnership, LoadedIds, Pending, Holding
<1>4. ServerOwnership'
  <2>1. \A id \in LoadedIds : loaded[id].server => loaded[id].inst \in listening'
    BY DEF IInv, ServerOwnership, InstancesDistinct, LoadedIds
  <2> QED BY <1>1, <1>2, <2>1
      DEF IInv, ServerOwnership, InstancesDistinct, LoadedIds, Holding, RequestOK
<1> QED BY <1>1, <1>3, <1>4 DEF Ownership

(* A registration's synchronous part.                                      *)
LEMMA RegisterOwned ==
    ASSUME IInv, NEW r \in Requests, NEW record \in RequestType,
           record.id \in BindingIds, Register(r, record), req[r].held = None
    PROVE  Ownership'
<1> USE NoneApart
<1>0. Typed /\ loaded \in [BindingIds -> LoadedType \cup {None}]
  BY DEF IInv, Typed, TypeOK
<1>1. CASE /\ UNCHANGED <<loaded, factories>>
           /\ req'[r].held = None
           /\ req'[r].phase \in {"idle", "rollback"}
  BY <1>0, <1>1, RegisterEffect, LetGo
<1>2. ASSUME NEW held \in LoadedType,
             held.inst \in FreshInstances,
             held.client # None => factories[held.client] = None,
             factories' = [s \in Schemes |->
                             IF s = held.client THEN held.inst ELSE factories[s]]
      PROVE  /\ \A s \in NativeClients : factories'[s] = Native
             /\ \A id \in LoadedIds : loaded[id].client # None
                  => factories'[loaded[id].client] = loaded[id].inst
             /\ \A q \in Requests \ {r} :
                  req[q].phase = "starting" /\ req[q].held.client # None
                    => factories'[req[q].held.client] = req[q].held.inst
             /\ held.client # None => factories'[held.client] = held.inst
             /\ \A id \in LoadedIds : loaded[id].inst # held.inst
             /\ \A q \in Requests : req[q].held # None => req[q].held.inst # held.inst
  <2>1. \A s \in Schemes :
          factories[s] # None => factories'[s] = factories[s]
    BY <1>2
  <2>2. \A s \in NativeClients : factories[s] = Native /\ s \in Schemes
    BY NativesAssumption DEF IInv, FactoryOwnership
  <2>3. \A id \in LoadedIds : loaded[id].client # None
          => /\ loaded[id].client \in Schemes
             /\ factories[loaded[id].client] = loaded[id].inst
             /\ loaded[id].inst \in Instances
    BY <1>0, LoadedFields DEF IInv, FactoryOwnership, LoadedIds
  <2>4. \A q \in Requests : req[q].phase = "starting" /\ req[q].held.client # None
          => /\ req[q].held.client \in Schemes
             /\ factories[req[q].held.client] = req[q].held.inst
             /\ req[q].held.inst \in Instances
    <3> SUFFICES ASSUME NEW q \in Requests, req[q].phase = "starting",
                        req[q].held.client # None
                 PROVE  /\ req[q].held.client \in Schemes
                        /\ factories[req[q].held.client] = req[q].held.inst
                        /\ req[q].held.inst \in Instances
      OBVIOUS
    <3>1. req[q].held \in LoadedType
      BY DEF IInv, Typed, TypeOK, RequestOK, RequestType, Holding
    <3> QED BY <3>1, LoadedFields DEF IInv, FactoryOwnership, Pending
  <2>5. held.client # None => held.client \in Schemes
    BY LoadedFields
  <2>6. \A id \in LoadedIds : loaded[id].inst # held.inst
    BY <1>2 DEF FreshInstances
  <2>7. \A q \in Requests : req[q].held # None => req[q].held.inst # held.inst
    BY <1>2 DEF FreshInstances
  <2> QED BY <1>2, <2>1, <2>2, <2>3, <2>4, <2>5, <2>6, <2>7
<1>3. ASSUME NEW held \in LoadedType,
             held.inst \in FreshInstances,
             held.client # None => factories[held.client] = None,
             factories' = [s \in Schemes |->
                             IF s = held.client THEN held.inst ELSE factories[s]],
             req'[r].held = held, req'[r].phase = "starting", UNCHANGED loaded
      PROVE  Ownership'
  <2>1. /\ UNCHANGED <<servers, listening>>
        /\ \A q \in Requests \ {r} : req'[q] = req[q]
    BY <1>0, RegisterEffect
  <2>2. InstancesDistinct'
    BY <1>2, <1>3, <2>1 DEF IInv, InstancesDistinct, LoadedIds
  <2>3. FactoryOwnership'
    <3>1. \A s \in NativeClients : factories'[s] = Native
      BY <1>2, <1>3 DEF FactoryOwnership
    <3>2. \A id \in LoadedIds : loaded[id].client # None
            => factories'[loaded[id].client] = loaded[id].inst
      BY <1>2, <1>3 DEF FactoryOwnership
    <3>3. \A q \in Requests \ {r} : req[q].phase = "starting" /\ req[q].held.client # None
            => factories'[req[q].held.client] = req[q].held.inst
      BY <1>2, <1>3 DEF FactoryOwnership, Pending
    <3>4. held.client # None => factories'[held.client] = held.inst
      BY <1>2, <1>3
    <3> QED BY <1>3, <2>1, <3>1, <3>2, <3>3, <3>4 DEF FactoryOwnership, LoadedIds, Pending
  <2>4. ServerOwnership'
    <3>1. \A id \in LoadedIds : loaded[id].server
            => servers[loaded[id].inst] # None /\ loaded[id].inst \in listening
      BY DEF IInv, ServerOwnership
    <3>2. \A q \in Requests : req'[q].phase \in {"stopping", "undoing"}
            => q # r /\ req[q].held # None
      BY <1>3, <2>1 DEF IInv, Typed, RequestOK, Holding
    <3> QED BY <1>3, <2>1, <2>2, <3>1, <3>2
        DEF ServerOwnership, InstancesDistinct, LoadedIds
  <2> QED BY <2>2, <2>3, <2>4 DEF Ownership
<1>4. ASSUME NEW held \in LoadedType,
             held.inst \in FreshInstances,
             held.client # None => factories[held.client] = None,
             factories' = [s \in Schemes |->
                             IF s = held.client THEN held.inst ELSE factories[s]],
             ~held.server, loaded' = [loaded EXCEPT ![record.id] = held],
             req'[r] = Idle
      PROVE  Ownership'
  <2>1. /\ UNCHANGED <<servers, listening>>
        /\ \A q \in Requests \ {r} : req'[q] = req[q]
    BY <1>0, RegisterEffect
  <2>2. /\ loaded'[record.id] = held
        /\ \A id \in BindingIds \ {record.id} : loaded'[id] = loaded[id]
    BY <1>0, <1>4
  <2>3. InstancesDistinct'
    BY <1>2, <1>4, <2>1, <2>2, IdleType DEF IInv, InstancesDistinct, LoadedIds
  <2>4. FactoryOwnership'
    <3>0. /\ \A s \in NativeClients : factories'[s] = Native
          /\ \A id \in LoadedIds : loaded[id].client # None
               => factories'[loaded[id].client] = loaded[id].inst
          /\ \A q \in Requests \ {r} :
               req[q].phase = "starting" /\ req[q].held.client # None
                 => factories'[req[q].held.client] = req[q].held.inst
          /\ held.client # None => factories'[held.client] = held.inst
      BY <1>2, <1>4
    <3>1. \A s \in NativeClients : factories'[s] = Native
      BY <3>0
    <3>2. ASSUME NEW id \in BindingIds, loaded'[id] # None,
                 loaded'[id].client # None
          PROVE  factories'[loaded'[id].client] = loaded'[id].inst
      <4>1. CASE id = record.id
        BY <2>2, <3>0, <3>2, <4>1
      <4>2. CASE id # record.id
        <5>1. id \in LoadedIds /\ loaded'[id] = loaded[id]
          BY <2>2, <3>2, <4>2 DEF LoadedIds
        <5> QED BY <3>0, <3>2, <5>1
      <4> QED BY <4>1, <4>2
    <3>3. ASSUME NEW q \in Requests, req'[q].phase = "starting",
                 req'[q].held.client # None
          PROVE  factories'[req'[q].held.client] = req'[q].held.inst
      <4>1. q # r /\ req'[q] = req[q]
        BY <1>4, <2>1, <3>3, IdleType
      <4> QED BY <3>0, <3>3, <4>1
    <3> QED BY <3>1, <3>2, <3>3, SMTT(30) DEF FactoryOwnership, LoadedIds, Pending
  <2>5. ServerOwnership'
    <3>1. \A id \in BindingIds : loaded'[id] # None /\ loaded'[id].server
            => id \in LoadedIds /\ loaded'[id] = loaded[id]
      BY <1>4, <2>2 DEF LoadedIds
    <3>2. \A q \in Requests : req'[q].phase \in {"stopping", "undoing"}
            => q # r /\ req[q].held # None
      BY <1>4, <2>1, IdleType DEF IInv, Typed, RequestOK, Holding
    <3>3. \A q \in Requests : req'[q].phase \in {"stopping", "undoing"}
            => req'[q].held # None
      BY <2>1, <3>2
    <3> QED BY <2>1, <2>3, <3>1, <3>2, <3>3
        DEF IInv, ServerOwnership, InstancesDistinct, LoadedIds
  <2> QED BY <2>3, <2>4, <2>5 DEF Ownership
<1> QED BY <1>0, <1>1, <1>3, <1>4, RegisterEffect

(* A removal's synchronous part.                                           *)
LEMMA UnregisterOwned ==
    ASSUME IInv, NEW r \in Requests, NEW record \in RequestType,
           record.id \in BindingIds, loaded[record.id] # None,
           Unregister(r, record), req[r].held = None
    PROVE  Ownership'
<1> USE NoneApart
<1> DEFINE held == loaded[record.id]
<1>0. /\ Typed
      /\ loaded \in [BindingIds -> LoadedType \cup {None}]
      /\ servers \in [Instances -> Schemes \cup {None}]
      /\ held \in LoadedType /\ held.inst \in Instances
  BY LoadedFields DEF IInv, Typed, TypeOK
<1>1. /\ loaded'[record.id] = None
      /\ \A id \in BindingIds \ {record.id} : loaded'[id] = loaded[id]
      /\ factories' = WithoutFactory(held.client)
      /\ UNCHANGED listening
      /\ \A q \in Requests \ {r} : req'[q] = req[q]
      /\ req'[r].held \in {held, None}
      /\ req'[r].phase \in {"stopping", "idle", "removing"}
      /\ req'[r].phase = "stopping" => req'[r].held # None
      /\ RequestOK'
      /\ servers' \in {servers, [servers EXCEPT ![held.inst] = None]}
  BY <1>0, UnregisterEffect
<1>2. InstancesDistinct'
  BY <1>0, <1>1 DEF IInv, InstancesDistinct
<1>3. FactoryOwnership'
  <2>1. \A s \in Schemes : factories[s] # held.inst \/ held.client = None
          => factories'[s] = factories[s]
    BY <1>0, <1>1 DEF WithoutFactory, IInv, FactoryOwnership, LoadedIds
  <2>2. \A s \in NativeClients : s \in Schemes /\ factories[s] = Native
    BY NativesAssumption DEF IInv, FactoryOwnership
  <2>3. \A id \in LoadedIds \ {record.id} : loaded[id].client # None
          => /\ loaded[id].client \in Schemes
             /\ factories[loaded[id].client] = loaded[id].inst
             /\ loaded[id].inst # held.inst
    BY <1>0, LoadedFields DEF IInv, FactoryOwnership, LoadedIds, InstancesDistinct
  <2>4. \A q \in Requests : req[q].phase = "starting" /\ req[q].held.client # None
          => /\ req[q].held.client \in Schemes
             /\ factories[req[q].held.client] = req[q].held.inst
             /\ req[q].held.inst # held.inst
    <3> SUFFICES ASSUME NEW q \in Requests, req[q].phase = "starting",
                        req[q].held.client # None
                 PROVE  /\ req[q].held.client \in Schemes
                        /\ factories[req[q].held.client] = req[q].held.inst
                        /\ req[q].held.inst # held.inst
      OBVIOUS
    <3>1. req[q].held \in LoadedType /\ req[q].held # None
      BY DEF IInv, Typed, TypeOK, RequestOK, RequestType, Holding
    <3> QED BY <1>0, <3>1, LoadedFields
        DEF IInv, FactoryOwnership, Pending, InstancesDistinct
  <2> HIDE DEF held
  <2> QED BY <1>0, <1>1, <2>1, <2>2, <2>3, <2>4
      DEF FactoryOwnership, LoadedIds, Pending
<1>4. ServerOwnership'
  <2>1. \A id \in LoadedIds \ {record.id} :
          /\ loaded[id].inst # held.inst /\ loaded[id].inst \in Instances
          /\ loaded[id].server => /\ servers[loaded[id].inst] # None
                                  /\ loaded[id].inst \in listening
    BY <1>0, LoadedFields DEF IInv, ServerOwnership, InstancesDistinct, LoadedIds
  <2>2. \A q \in Requests : req'[q].phase \in {"stopping", "undoing"}
          => req'[q].held # None
    BY <1>1 DEF RequestOK, Holding
  <2> HIDE DEF held
  <2> QED BY <1>0, <1>1, <1>2, <2>1, <2>2
      DEF ServerOwnership, InstancesDistinct, LoadedIds
<1> QED BY <1>2, <1>3, <1>4 DEF Ownership

(* Taking the factory of a binding that is starting takes nobody else's.   *)
LEMMA StartingFactory ==
    ASSUME IInv, NEW r \in Requests, req[r].phase = "starting"
    PROVE  LET gone == WithoutFactory(req[r].held.client) IN
           /\ \A s \in NativeClients : gone[s] = Native
           /\ \A id \in LoadedIds : loaded[id].client # None
                => gone[loaded[id].client] = loaded[id].inst
           /\ \A q \in Requests \ {r} :
                req[q].phase = "starting" /\ req[q].held.client # None
                  => gone[req[q].held.client] = req[q].held.inst
<1> USE NoneApart
<1> DEFINE held == req[r].held
           gone == WithoutFactory(held.client)
<1>1. \A q \in Requests : req[q].phase = "starting"
        => /\ req[q].held \in LoadedType /\ req[q].held # None
           /\ req[q].held.inst \in Instances
           /\ req[q].held.client \in Schemes \cup {None}
           /\ req[q].held.client # None => factories[req[q].held.client] = req[q].held.inst
  <2> SUFFICES ASSUME NEW q \in Requests, req[q].phase = "starting"
               PROVE  /\ req[q].held \in LoadedType /\ req[q].held # None
                      /\ req[q].held.inst \in Instances
                      /\ req[q].held.client \in Schemes \cup {None}
                      /\ req[q].held.client # None
                           => factories[req[q].held.client] = req[q].held.inst
    OBVIOUS
  <2>1. req[q].held \in LoadedType /\ req[q].held # None
    BY DEF IInv, Typed, TypeOK, RequestOK, RequestType, Holding
  <2> QED BY <2>1, LoadedFields DEF IInv, FactoryOwnership, Pending
<1>2. \A s \in Schemes : factories[s] # held.inst => gone[s] = factories[s]
  BY <1>1 DEF WithoutFactory
<1>3. \A s \in NativeClients : gone[s] = Native
  BY <1>1, <1>2, NativesAssumption DEF IInv, FactoryOwnership
<1>4. \A id \in LoadedIds : loaded[id].client # None
        => gone[loaded[id].client] = loaded[id].inst
  <2>1. \A id \in LoadedIds : loaded[id].client # None
          => /\ loaded[id].client \in Schemes
             /\ factories[loaded[id].client] = loaded[id].inst
             /\ loaded[id].inst # held.inst
    BY <1>1, LoadedFields
    DEF IInv, Typed, TypeOK, FactoryOwnership, LoadedIds, InstancesDistinct
  <2> QED BY <1>2, <2>1
<1>5. \A q \in Requests \ {r} : req[q].phase = "starting" /\ req[q].held.client # None
        => gone[req[q].held.client] = req[q].held.inst
  <2>1. \A q \in Requests \ {r} : req[q].phase = "starting"
          => req[q].held.inst # held.inst
    BY <1>1 DEF IInv, InstancesDistinct
  <2> QED BY <1>1, <1>2, <2>1
<1> QED BY <1>3, <1>4, <1>5

LEMMA StartFailsOwned ==
    ASSUME IInv, NEW r \in Requests, StartFails(r)
    PROVE  Ownership'
<1>1. /\ req[r].phase = "starting"
      /\ factories' = WithoutFactory(req[r].held.client)
      /\ Abort(r, req[r], None)
      /\ UNCHANGED <<loaded, servers, listening>>
  BY DEF StartFails, Pending
<1>2. /\ req[r] \in RequestType /\ req[r].id \in BindingIds
      /\ Typed
  BY <1>1 DEF IInv, Typed, TypeOK, RequestOK
<1>3. /\ RequestOK'
      /\ req'[r].held = None /\ req'[r].phase \in {"idle", "rollback"}
      /\ \A q \in Requests \ {r} : req'[q] = req[q]
  BY <1>1, <1>2, AbortTyped
<1>4. InstancesDistinct'
  BY <1>1, <1>3 DEF IInv, InstancesDistinct
<1>5. FactoryOwnership'
  BY <1>1, <1>3, StartingFactory DEF FactoryOwnership, LoadedIds, Pending
<1>6. ServerOwnership'
  BY <1>1, <1>3, <1>4 DEF IInv, ServerOwnership, InstancesDistinct, LoadedIds,
     RequestOK, Holding
<1> QED BY <1>4, <1>5, <1>6 DEF Ownership

LEMMA StartedOwned ==
    ASSUME IInv, NEW r \in Requests, Started(r)
    PROVE  Ownership'
<1> USE NoneApart
<1> DEFINE held == req[r].held
<1>0. Typed
  BY DEF IInv
<1>1. /\ req[r].phase = "starting" /\ req[r].id \in BindingIds
      /\ held \in LoadedType /\ held # None /\ held.inst \in Instances
      /\ held.code.serverScheme \in Schemes
      /\ listening' = listening \cup {held.inst}
      /\ loaded \in [BindingIds -> LoadedType \cup {None}]
      /\ servers \in [Instances -> Schemes \cup {None}]
  BY PackageFields DEF Started, Pending, IInv, Typed, TypeOK, RequestOK, RequestType,
     Holding, LoadedType
<1>2. \A q \in Requests : req[q].phase \in {"stopping", "undoing"}
        => q # r /\ req[q].held # None
  BY <1>1 DEF IInv, Typed, RequestOK, Holding
<1>3. \A id \in LoadedIds :
        /\ loaded[id].inst # held.inst /\ loaded[id].inst \in Instances
        /\ loaded[id].server => /\ servers[loaded[id].inst] # None
                                /\ loaded[id].inst \in listening
  BY <1>1, LoadedFields DEF IInv, ServerOwnership, InstancesDistinct, LoadedIds
<1>4. CASE held.code.server = "exposeThrows"
  <2>1. /\ factories' = WithoutFactory(held.client)
        /\ Await(r, "undoing", held)
        /\ UNCHANGED <<loaded, servers>>
    BY <1>4 DEF Started
  <2>2. /\ req'[r].phase = "undoing" /\ req'[r].held = held
        /\ \A q \in Requests \ {r} : req'[q] = req[q]
    BY <1>0, <1>1, <2>1, AwaitTyped DEF Holding
  <2>3. InstancesDistinct'
    BY <1>1, <2>1, <2>2 DEF IInv, InstancesDistinct
  <2>4. FactoryOwnership'
    BY <1>1, <2>1, <2>2, StartingFactory DEF FactoryOwnership, LoadedIds, Pending
  <2>5. ServerOwnership'
    <3>1. \A q \in Requests : req'[q].phase \in {"stopping", "undoing"}
            => req'[q].held # None
      BY <1>1, <1>2, <2>2
    <3> HIDE DEF held
    <3> QED BY <1>1, <1>3, <2>1, <2>3, <3>1
        DEF ServerOwnership, InstancesDistinct, LoadedIds
  <2> QED BY <2>3, <2>4, <2>5 DEF Ownership
<1>5. CASE held.code.server # "exposeThrows"
  <2>1. /\ servers' = [servers EXCEPT ![held.inst] = held.code.serverScheme]
        /\ Enter(req[r].id, held) /\ Answer(r)
        /\ UNCHANGED factories
    BY <1>5 DEF Started
  <2>2. /\ req'[r] = Idle
        /\ \A q \in Requests \ {r} : req'[q] = req[q]
    BY <1>0, <2>1, AnswerTyped
  <2>3. /\ loaded'[req[r].id] = held
        /\ \A id \in BindingIds \ {req[r].id} : loaded'[id] = loaded[id]
    BY <1>1, <2>1 DEF Enter
  <2>4. InstancesDistinct'
    BY <1>1, <2>2, <2>3, IdleType DEF IInv, InstancesDistinct
  <2>5. FactoryOwnership'
    BY <1>1, <2>1, <2>2, <2>3, IdleType DEF IInv, FactoryOwnership, LoadedIds, Pending
  <2>6. ServerOwnership'
    <3>1. \A q \in Requests : req'[q].phase \in {"stopping", "undoing"}
            => req'[q].held # None
      BY <1>2, <2>2, IdleType
    <3> HIDE DEF held
    <3>2. \A id \in BindingIds : loaded'[id] # None /\ loaded'[id].server
            => servers'[loaded'[id].inst] # None /\ loaded'[id].inst \in listening'
      BY <1>1, <1>3, <2>1, <2>3 DEF LoadedIds
    <3> QED BY <2>4, <3>1, <3>2 DEF ServerOwnership, InstancesDistinct, LoadedIds
  <2> QED BY <2>4, <2>5, <2>6 DEF Ownership
<1> QED BY <1>4, <1>5

LEMMA IInvNext ==
    ASSUME IInv, [Next]_vars
    PROVE  IInv'
<1> USE NoneApart
<1>0. Typed /\ Typed' /\ RequestOK /\ RequestOK' /\ req \in [Requests -> RequestType]
  BY TypedNext DEF IInv, Typed, TypeOK
<1>idle. \A r \in Requests : req[r].phase \notin Holding => req[r].held = None
  BY <1>0 DEF RequestOK
<1>id. ASSUME NEW r \in Requests, req[r].phase # "idle"
       PROVE  req[r] \in RequestType /\ req[r].id \in BindingIds
  BY <1>0, <1>id DEF RequestOK
<1>1. ASSUME UNCHANGED vars
      PROVE  Ownership'
  <2>1. /\ UNCHANGED <<loaded, factories, servers, listening>>
        /\ \A q \in Requests : req'[q] = req[q]
    BY <1>1 DEF vars
  <2> QED BY <1>0, <2>1, LetGo
<1>2. ASSUME NEW r \in Requests, NEW p \in Packages, Deploy(r, p)
      PROVE  Ownership'
  <2>1. \E via \in Arrivals :
          req' = [req EXCEPT ![r] =
                    [Invocation("deploy", p.id, p, via) EXCEPT !.phase = "staging"]]
    BY <1>2 DEF Deploy
  <2>2. req'[r].held = None /\ \A q \in Requests \ {r} : req'[q] = req[q]
    BY <1>0, <2>1 DEF Invocation
  <2> QED BY <1>0, <1>2, <2>2, LetGo DEF Deploy, servient
<1>3. ASSUME NEW r \in Requests, NEW id \in BindingIds, Add(r, id)
      PROVE  Ownership'
  <2>1. PICK via \in Arrivals : Register(r, Invocation("add", id, None, via))
    BY <1>3 DEF Add
  <2> QED BY <1>3, <1>idle, <2>1, RegisterOwned, InvocationType DEF Add, Pending, Holding
<1>4. ASSUME NEW r \in Requests, NEW id \in BindingIds, Remove(r, id)
      PROVE  Ownership'
  <2>1. PICK via \in Arrivals : Unregister(r, Invocation("remove", id, None, via))
    BY <1>4 DEF Remove
  <2> QED BY <1>4, <1>idle, <2>1, UnregisterOwned, InvocationType
      DEF Remove, Pending, Holding
<1>5. ASSUME NEW r \in Requests, NEW id \in BindingIds, Delete(r, id)
      PROVE  Ownership'
  <2>1. PICK via \in Arrivals :
          LET record == Invocation("delete", id, None, via) IN
          IF loaded[id] # None
          THEN Unregister(r, record)
          ELSE /\ BeginRemoval(r, record)
               /\ UNCHANGED <<loaded, registered, servient, occupied>>
    BY <1>5 DEF Delete
  <2> DEFINE record == Invocation("delete", id, None, via)
  <2>2. record \in RequestType /\ record.id = id /\ req[r].held = None
    BY <1>5, <1>idle, InvocationType DEF Delete, Pending, Holding
  <2> HIDE DEF record
  <2>3. CASE loaded[id] # None
    BY <2>1, <2>2, <2>3, UnregisterOwned DEF record
  <2>4. CASE loaded[id] = None
    <3>1. BeginRemoval(r, record) /\ UNCHANGED <<loaded, registered, servient, occupied>>
      BY <2>1, <2>4 DEF record
    <3> QED BY <1>0, <2>2, <3>1, BeginRemovalTyped, LetGo DEF servient
  <2> QED BY <2>3, <2>4
<1>6. ASSUME NEW r \in Requests,
             Staged(r) \/ Rename(r) \/ InstallFails(r) \/ RmPart(r) \/ RmEnd(r) \/ RmFails(r)
      PROVE  Ownership'
  <2>1. /\ UNCHANGED <<loaded, servient>>
        /\ \/ Await(r, "renaming", None) /\ req[r].phase = "staging"
           \/ Await(r, "installed", None) /\ req[r].phase = "renaming"
           \/ Answer(r)
           \/ UNCHANGED req
    BY <1>6 DEF Staged, Rename, InstallFails, RmPart, RmEnd, RmFails, Pending
  <2>2. \A q \in Requests :
          /\ req'[q].held \in {req[q].held, None}
          /\ req'[q].held # None => req'[q].phase = req[q].phase
    BY <1>0, <2>1, AwaitTyped, AnswerTyped, IdleType DEF Holding
  <2> QED BY <1>0, <2>1, <2>2, LetGo DEF servient
<1>7. ASSUME NEW r \in Requests, Installed(r)
      PROVE  Ownership'
  BY <1>7, <1>id, <1>idle, RegisterOwned DEF Installed, Pending, Holding
<1>8. ASSUME NEW r \in Requests, Undone(r) \/ UndoFails(r)
      PROVE  Ownership'
  <2>1. /\ req[r] \in RequestType /\ req[r].id \in BindingIds /\ req[r].held # None
        /\ cache[req[r].id] \in Packages \cup {None}
    BY <1>0, <1>8, <1>id DEF Undone, UndoFails, Pending, RequestOK, Holding, Typed, TypeOK
  <2>2. \/ Abort(r, req[r], None)
        \/ Abort(r, req[r], cache[req[r].id])
    BY <1>8 DEF Undone, UndoFails
  <2>3. /\ UNCHANGED <<loaded, factories, servers>>
        /\ listening' \in {listening, listening \ {req[r].held.inst}}
    BY <1>8 DEF Undone, UndoFails
  <2>4. req'[r].held = None /\ \A q \in Requests \ {r} : req'[q] = req[q]
    BY <1>0, <2>1, <2>2, AbortTyped
  <2> QED BY <1>0, <2>1, <2>3, <2>4, LetGo
<1>9. ASSUME NEW r \in Requests, Stopped(r) \/ StopFails(r)
      PROVE  Ownership'
  <2>1. req[r] \in RequestType /\ req[r].id \in BindingIds /\ req[r].held # None
    BY <1>0, <1>9, <1>id DEF Stopped, StopFails, Pending, RequestOK, Holding
  <2>2. BeginRemoval(r, req[r]) \/ Answer(r)
    BY <1>9 DEF Stopped, StopFails, Unregistered
  <2>3. /\ UNCHANGED <<loaded, factories, servers>>
        /\ listening' \in {listening, listening \ {req[r].held.inst}}
    BY <1>9 DEF Stopped, StopFails
  <2>4. req'[r].held = None /\ \A q \in Requests \ {r} : req'[q] = req[q]
    BY <1>0, <2>1, <2>2, BeginRemovalTyped, AnswerTyped, IdleType
  <2> QED BY <1>0, <2>1, <2>3, <2>4, LetGo
<1>10. ASSUME NEW r \in Requests, Disconnect(r)
       PROVE  Ownership'
  <2>1. /\ UNCHANGED <<loaded, servient>>
        /\ \A q \in Requests :
             req'[q].held = req[q].held /\ req'[q].phase = req[q].phase
    BY <1>0, <1>10 DEF Disconnect, RequestType
  <2> QED BY <1>0, <2>1, LetGo DEF servient
<1>11. ASSUME Restart
       PROVE  Ownership'
  <2>1. /\ \A id \in BindingIds : loaded'[id] = None
        /\ \A r \in Requests : req'[r].held = None /\ req'[r].phase = "idle"
        /\ \A s \in NativeClients : factories'[s] = Native
    BY <1>11, IdleType, NativesAssumption DEF Restart
  <2> QED BY <2>1 DEF Ownership, InstancesDistinct, FactoryOwnership, ServerOwnership,
                     LoadedIds, Pending
<1>12. ASSUME NEW i \in Instances, Vacate(i)
       PROVE  Ownership'
  <2>1. /\ UNCHANGED <<loaded, factories, servers, listening>>
        /\ \A q \in Requests : req'[q] = req[q]
    BY <1>12 DEF Vacate, servient
  <2> QED BY <1>0, <2>1, LetGo
<1>13. Ownership'
  BY <1>1, <1>2, <1>3, <1>4, <1>5, <1>6, <1>7, <1>8, <1>9, <1>10, <1>11, <1>12,
     StartedOwned, StartFailsOwned DEF Next, Complete
<1> QED BY <1>0, <1>13 DEF IInv, Ownership

(* A client factory stays with the binding that put it into the Servient,  *)
(* however invocations overlap: the check hasClientFor and the removal by  *)
(* scheme never hit a native factory or one of another binding.            *)
THEOREM FactoriesOwned == Spec => []FactoryOwnership
<1>1. IInv => FactoryOwnership
  BY DEF IInv
<1> QED BY IInvInit, IInvNext, <1>1, PTL DEF Spec

(* A loaded binding's server stays in the Servient and listens, and no     *)
(* invocation stops the server of a loaded binding or of another request.  *)
THEOREM ServersOwned == Spec => []ServerOwnership
<1>1. IInv => ServerOwnership
  BY DEF IInv
<1> QED BY IInvInit, IInvNext, <1>1, PTL DEF Spec

-----------------------------------------------------------------------------
(* Ports                                                                   *)

(* Who is taking down the server of which instance.                        *)
Closing == {"stopping", "undoing"}

LEMMA PortsKept ==
    ASSUME PortsAccounted, UNCHANGED <<servers, listening, stopFaults>>,
           \A q \in Requests :
             req[q].phase \in Closing =>
               req'[q].phase = req[q].phase /\ req'[q].held = req[q].held
    PROVE  PortsAccounted'
BY DEF PortsAccounted, Closing

(* The server an invocation was taking down is down.                       *)
LEMMA PortsClosed ==
    ASSUME PortsAccounted, NEW r \in Requests, UNCHANGED <<servers, stopFaults>>,
           listening' = listening \ {req[r].held.inst},
           \A q \in Requests \ {r} : req'[q] = req[q]
    PROVE  PortsAccounted'
<1> SUFFICES ASSUME stopFaults = 0, NEW i \in listening, i # req[r].held.inst
             PROVE  \/ servers[i] # None
                    \/ \E q \in Requests : req'[q].phase \in Closing /\ req'[q].held.inst = i
  BY DEF PortsAccounted, Closing
<1>1. CASE servers[i] # None BY <1>1
<1>2. CASE servers[i] = None
  <2>1. PICK q \in Requests : req[q].phase \in Closing /\ req[q].held.inst = i
    BY <1>2 DEF PortsAccounted, Closing
  <2> QED BY <2>1
<1> QED BY <1>1, <1>2

LEMMA PortsUnregister ==
    ASSUME Typed, PortsAccounted, NEW r \in Requests, req[r].phase \notin Closing,
           NEW record \in RequestType, record.id \in BindingIds,
           loaded[record.id] # None, Unregister(r, record), UNCHANGED stopFaults
    PROVE  PortsAccounted'
<1> DEFINE inst == loaded[record.id].inst
<1>0. servers \in [Instances -> Schemes \cup {None}] /\ listening \subseteq Instances
  BY DEF Typed, TypeOK
<1>1. UNCHANGED listening /\ \A q \in Requests \ {r} : req'[q] = req[q]
  BY UnregisterEffect
<1>2. CASE /\ servers' = [servers EXCEPT ![inst] = None]
           /\ req'[r].held = loaded[record.id] /\ req'[r].phase = "stopping"
  <2> HIDE DEF inst
  <2>1. req'[r].held.inst = inst BY <1>2 DEF inst
  <2>2. \A i \in Instances \ {inst} : servers'[i] = servers[i] BY <1>0, <1>2
  <2> SUFFICES ASSUME stopFaults = 0, NEW i \in listening
               PROVE  \/ servers'[i] # None
                      \/ \E q \in Requests :
                           req'[q].phase \in Closing /\ req'[q].held.inst = i
    BY <1>1 DEF PortsAccounted, Closing
  <2>3. CASE i = inst BY <1>2, <2>1, <2>3 DEF Closing
  <2>4. CASE i # inst /\ servers[i] # None BY <1>0, <2>2, <2>4
  <2>5. CASE servers[i] = None
    <3>1. PICK q \in Requests : req[q].phase \in Closing /\ req[q].held.inst = i
      BY <2>5 DEF PortsAccounted, Closing
    <3> QED BY <1>1, <3>1
  <2> QED BY <2>3, <2>4, <2>5
<1>3. CASE servers' = servers
  BY <1>1, <1>3, PortsKept
<1> QED BY <1>2, <1>3, UnregisterEffect

LEMMA PortsNext ==
    ASSUME IInv, PortsAccounted, [Next]_vars
    PROVE  PortsAccounted'
<1> USE NoneApart
<1>0. /\ Typed /\ RequestOK /\ req \in [Requests -> RequestType]
      /\ servers \in [Instances -> Schemes \cup {None}]
      /\ listening \subseteq Instances /\ stopFaults \in Nat
  BY DEF IInv, Typed, TypeOK
<1>id. ASSUME NEW r \in Requests, req[r].phase # "idle"
       PROVE  req[r] \in RequestType /\ req[r].id \in BindingIds
  BY <1>0, <1>id DEF RequestOK
<1>1. CASE UNCHANGED vars
  BY <1>1, PortsKept DEF vars
<1>reg. ASSUME NEW r \in Requests, req[r].phase \notin Closing, NEW record \in RequestType,
               record.id \in BindingIds, Register(r, record), UNCHANGED stopFaults
        PROVE  PortsAccounted'
  <2>1. UNCHANGED <<servers, listening>> /\ \A q \in Requests \ {r} : req'[q] = req[q]
    BY <1>0, <1>reg, RegisterEffect
  <2> QED BY <1>reg, <2>1, PortsKept
<1>2. ASSUME NEW r \in Requests, NEW p \in Packages, Deploy(r, p)
      PROVE  PortsAccounted'
  <2>1. PICK via \in Arrivals :
          req' = [req EXCEPT ![r] =
                    [Invocation("deploy", p.id, p, via) EXCEPT !.phase = "staging"]]
    BY <1>2 DEF Deploy
  <2>2. \A q \in Requests \ {r} : req'[q] = req[q]
    BY <1>0, <2>1
  <2> QED BY <1>2, <2>2, PortsKept DEF Deploy, Pending, servient, Closing
<1>3. ASSUME NEW r \in Requests, NEW id \in BindingIds, Add(r, id)
      PROVE  PortsAccounted'
  <2>1. PICK via \in Arrivals : Register(r, Invocation("add", id, None, via))
    BY <1>3 DEF Add
  <2> QED BY <1>3, <2>1, <1>reg, InvocationType DEF Add, Pending, Closing
<1>4. ASSUME NEW r \in Requests, NEW id \in BindingIds, Remove(r, id)
      PROVE  PortsAccounted'
  <2>1. PICK via \in Arrivals : Unregister(r, Invocation("remove", id, None, via))
    BY <1>4 DEF Remove
  <2> QED BY <1>0, <1>4, <2>1, PortsUnregister, InvocationType DEF Remove, Pending, Closing
<1>5. ASSUME NEW r \in Requests, NEW id \in BindingIds, Delete(r, id)
      PROVE  PortsAccounted'
  <2>1. PICK via \in Arrivals :
          LET record == Invocation("delete", id, None, via) IN
          IF loaded[id] # None
          THEN Unregister(r, record)
          ELSE /\ BeginRemoval(r, record)
               /\ UNCHANGED <<loaded, registered, servient, occupied>>
    BY <1>5 DEF Delete
  <2> DEFINE record == Invocation("delete", id, None, via)
  <2>2. /\ record \in RequestType /\ record.id = id /\ UNCHANGED stopFaults
        /\ req[r].phase = "idle"
    BY <1>5, InvocationType DEF Delete, Pending
  <2> HIDE DEF record
  <2>3. CASE loaded[id] # None
    BY <1>0, <2>1, <2>2, <2>3, PortsUnregister DEF record, Closing
  <2>4. CASE loaded[id] = None
    <3>1. BeginRemoval(r, record) /\ UNCHANGED servient
      BY <2>1, <2>4 DEF record
    <3>2. \A q \in Requests \ {r} : req'[q] = req[q]
      BY <1>0, <2>2, <3>1, BeginRemovalTyped
    <3> QED BY <2>2, <3>1, <3>2, PortsKept DEF servient, Closing
  <2> QED BY <2>3, <2>4
<1>6. ASSUME NEW r \in Requests,
             Staged(r) \/ Rename(r) \/ InstallFails(r) \/ RmPart(r) \/ RmEnd(r) \/ RmFails(r)
      PROVE  PortsAccounted'
  <2>1. /\ UNCHANGED servient /\ UNCHANGED stopFaults
        /\ req[r].phase \in {"staging", "renaming", "removing", "rollback"}
        /\ \/ Await(r, "renaming", None) /\ req[r].phase = "staging"
           \/ Await(r, "installed", None) /\ req[r].phase = "renaming"
           \/ Answer(r)
           \/ UNCHANGED req
    BY <1>6 DEF Staged, Rename, InstallFails, RmPart, RmEnd, RmFails, Pending
  <2>2. \A q \in Requests \ {r} : req'[q] = req[q]
    BY <1>0, <2>1 DEF Await, Answer
  <2> QED BY <2>1, <2>2, PortsKept DEF servient, Closing
<1>7. ASSUME NEW r \in Requests, Installed(r)
      PROVE  PortsAccounted'
  BY <1>7, <1>id, <1>reg DEF Installed, Pending, Closing
<1>8. ASSUME NEW r \in Requests, Started(r)
      PROVE  PortsAccounted'
  <2> DEFINE held == req[r].held
  <2>1. /\ held \in LoadedType /\ held.inst \in Instances
        /\ held.code.serverScheme \in Schemes
        /\ req[r].phase = "starting" /\ req[r] \in RequestType
    BY <1>0, <1>8, PackageFields
       DEF Started, Pending, RequestOK, RequestType, Holding, LoadedType
  <2> SUFFICES ASSUME stopFaults = 0, NEW i \in listening \cup {held.inst}
               PROVE  \/ servers'[i] # None
                      \/ \E q \in Requests :
                           req'[q].phase \in Closing /\ req'[q].held.inst = i
    BY <1>8 DEF Started, PortsAccounted, Closing
  <2>2. \A q \in Requests \ {r} : req'[q] = req[q]
    BY <1>0, <1>8 DEF Started, Await, Answer
  <2>3. CASE i # held.inst
    <3>1. servers'[i] = servers[i] BY <1>0, <1>8, <2>1, <2>3 DEF Started
    <3>2. CASE servers[i] # None BY <3>1, <3>2
    <3>3. CASE servers[i] = None
      <4>1. PICK q \in Requests : req[q].phase \in Closing /\ req[q].held.inst = i
        BY <2>3, <3>3 DEF PortsAccounted, Closing
      <4>2. q # r BY <2>1, <4>1 DEF Closing
      <4> QED BY <2>2, <4>1, <4>2
    <3> QED BY <3>2, <3>3
  <2>4. CASE i = held.inst
    <3>1. CASE Await(r, "undoing", held)
      <4>1. req'[r].phase = "undoing" /\ req'[r].held = held
        BY <1>0, <3>1 DEF Await, RequestType
      <4> QED BY <2>4, <4>1 DEF Closing
    <3>2. CASE servers' = [servers EXCEPT ![held.inst] = held.code.serverScheme]
      BY <1>0, <2>1, <2>4, <3>2
    <3> QED BY <1>8, <3>1, <3>2 DEF Started
  <2> QED BY <2>3, <2>4
<1>9. ASSUME NEW r \in Requests, StartFails(r)
      PROVE  PortsAccounted'
  <2>1. /\ req[r] \in RequestType /\ req[r].id \in BindingIds
        /\ req[r].phase = "starting" /\ Abort(r, req[r], None)
        /\ UNCHANGED <<servers, listening, stopFaults>>
    BY <1>9, <1>id DEF StartFails, Pending
  <2>2. \A q \in Requests \ {r} : req'[q] = req[q]
    BY <1>0, <2>1, AbortTyped
  <2> QED BY <2>1, <2>2, PortsKept DEF Closing
<1>10. ASSUME NEW r \in Requests, Undone(r) \/ Stopped(r)
       PROVE  PortsAccounted'
  <2>1. /\ req[r] \in RequestType /\ req[r].id \in BindingIds
        /\ Abort(r, req[r], None) \/ BeginRemoval(r, req[r])
        /\ listening' = listening \ {req[r].held.inst}
        /\ UNCHANGED <<servers, stopFaults>>
    BY <1>10, <1>id DEF Undone, Stopped, Pending, Unregistered
  <2>2. \A q \in Requests \ {r} : req'[q] = req[q]
    BY <1>0, <2>1, AbortTyped, BeginRemovalTyped
  <2> QED BY <2>1, <2>2, PortsClosed
<1>11. ASSUME NEW r \in Requests, UndoFails(r) \/ StopFails(r)
       PROVE  PortsAccounted'
  <2>1. stopFaults' = stopFaults + 1 BY <1>11 DEF UndoFails, StopFails
  <2>2. stopFaults' # 0 BY <1>0, <2>1
  <2> QED BY <2>2 DEF PortsAccounted
<1>12. ASSUME NEW r \in Requests, Disconnect(r)
       PROVE  PortsAccounted'
  <2>1. /\ UNCHANGED servient /\ UNCHANGED stopFaults
        /\ \A q \in Requests :
             req'[q].held = req[q].held /\ req'[q].phase = req[q].phase
    BY <1>0, <1>12 DEF Disconnect, RequestType
  <2> QED BY <2>1, PortsKept DEF servient
<1>13. ASSUME Restart
       PROVE  PortsAccounted'
  BY <1>13 DEF Restart, PortsAccounted
<1>14. ASSUME NEW i \in Instances, Vacate(i)
       PROVE  PortsAccounted'
  BY <1>14, PortsKept DEF Vacate, servient
<1> QED
  BY <1>1, <1>2, <1>3, <1>4, <1>5, <1>6, <1>7, <1>8, <1>9, <1>10, <1>11, <1>12, <1>13,
     <1>14 DEF Next, Complete

(* However many invocations overlap, and whatever fails on the way but a   *)
(* stop() itself, a port that is held is that of a server in the Servient  *)
(* or of one that a pending invocation is stopping: none is left behind.   *)
THEOREM NoPortLeftBehind == Spec => []PortsAccounted
<1>1. Init => PortsAccounted BY DEF Init, PortsAccounted
<1>2. IInv /\ PortsAccounted /\ [Next]_vars => PortsAccounted' BY PortsNext
<1> QED BY IInvInit, IInvNext, <1>1, <1>2, PTL DEF Spec

-----------------------------------------------------------------------------
(* What Runtime does when its invocations do not overlap: it is the store  *)
(* of BindingStore, and whatever fails gives back what it took.  Both are  *)
(* false of invocations that overlap (two additions of one id both pass    *)
(* the check that it is not loaded), so the theorems assume that there is  *)
(* one slot of invocations, and nothing else: any packages, ids, schemes,  *)
(* any faults and restarts.                                                *)

Serial == \A r, q \in Requests : r = q

(* Nothing that is loaded provides a scheme of the package.                *)
Unserved(p) == \A id \in LoadedIds : loaded[id].code.schemes \cap p.schemes = {}

(* What an invocation has found out holds until it has finished.           *)
Standing(r) ==
    LET id == req[r].id  held == req[r].held IN
    /\ req[r].phase # "idle" => loaded[id] = None
    /\ req[r].phase \in {"removing", "rollback"} => cache[id] = None
    /\ req[r].phase \in {"staging", "renaming"} => Unserved(req[r].pkg)
    /\ req[r].phase = "installed" => disk[id] \in Packages /\ Unserved(disk[id])
    /\ req[r].phase = "starting" =>
         /\ held.server /\ held.code = disk[id] /\ held.manifest = disk[id]
         /\ disk[id] \in Packages /\ Unserved(disk[id])

(* The code in the module cache is that of the files, and of the manifest. *)
CodeOK ==
    /\ \A id \in BindingIds : cache[id] \in {None, disk[id]}
    /\ \A id \in LoadedIds : loaded[id].code = loaded[id].manifest

(* Each server, factory, port and list entry belongs to a loaded binding   *)
(* or to the invocation that is setting it up or taking it down.           *)
ServersBooked ==
    \A i \in Instances :
      servers[i] # None => \E id \in LoadedIds : loaded[id].server /\ loaded[id].inst = i

FactoriesBooked ==
    \A s \in Schemes : factories[s] \in Instances =>
      \/ \E id \in LoadedIds : loaded[id].client = s
      \/ \E r \in Requests : req[r].phase = "starting" /\ req[r].held.client = s

PortsBooked ==
    \A i \in Instances : i \in listening <=>
      \/ servers[i] # None
      \/ \E r \in Requests :
           req[r].phase \in {"stopping", "undoing"} /\ req[r].held.inst = i

EntriesBooked ==
    \A id \in BindingIds : registered[id] =
      IF id \in LoadedIds \/ \E r \in Requests : req[r].phase = "stopping" /\ req[r].id = id
      THEN 1 ELSE 0

Books ==
    /\ ServersBooked /\ FactoriesBooked
    /\ stopFaults = 0 => PortsBooked /\ EntriesBooked

SInv == IInv /\ (\A r \in Requests : Standing(r)) /\ CodeOK /\ Books

-----------------------------------------------------------------------------
(* The books                                                               *)

LEMMA BooksInit == Init => Books
<1> SUFFICES ASSUME Init PROVE Books OBVIOUS
<1> USE NoneApart
<1>1. /\ \A i \in Instances : servers[i] = None
      /\ \A s \in Schemes : factories[s] \in {Native, None}
      /\ \A id \in BindingIds : loaded[id] = None /\ registered[id] = 0
      /\ \A r \in Requests : req[r].phase = "idle"
      /\ listening = {}
  BY IdleType DEF Init
<1> QED BY <1>1
        DEF Books, ServersBooked, FactoriesBooked, PortsBooked, EntriesBooked, LoadedIds

(* Nothing is entered, and nobody takes or gives anything.                 *)
LEMMA BooksKept ==
    ASSUME Books, UNCHANGED <<loaded, registered, factories, servers, listening, stopFaults>>,
           \A q \in Requests :
             req[q].phase \in Holding \/ req'[q].phase \in Holding =>
               /\ req'[q].phase = req[q].phase /\ req'[q].held = req[q].held
               /\ req'[q].id = req[q].id
    PROVE  Books'
<1>1. ServersBooked' BY DEF Books, ServersBooked, LoadedIds
<1>2. FactoriesBooked' BY DEF Books, FactoriesBooked, LoadedIds, Holding
<1>3. PortsBooked => PortsBooked' BY DEF PortsBooked, Holding
<1>4. EntriesBooked => EntriesBooked' BY DEF EntriesBooked, LoadedIds, Holding
<1> QED BY <1>1, <1>2, <1>3, <1>4 DEF Books

LEMMA BooksRegister ==
    ASSUME Serial, SInv, NEW r \in Requests, req[r].phase \notin Holding,
           NEW record \in RequestType, record.id \in BindingIds,
           loaded[record.id] = None, Register(r, record), UNCHANGED stopFaults
    PROVE  Books'
<1> USE NoneApart
<1>0. /\ Typed /\ \A q \in Requests : q = r
      /\ loaded \in [BindingIds -> LoadedType \cup {None}]
      /\ registered \in [BindingIds -> Nat]
      /\ UNCHANGED <<servers, listening>>
  BY RegisterEffect DEF Serial, SInv, IInv, Typed, TypeOK
<1>1. CASE /\ UNCHANGED <<loaded, factories, registered>>
           /\ req'[r].phase \in {"idle", "rollback"}
  BY <1>0, <1>1, BooksKept DEF SInv, Holding
<1>2. ASSUME NEW held \in LoadedType, held.inst \in FreshInstances,
             factories' = [s \in Schemes |->
                             IF s = held.client THEN held.inst ELSE factories[s]],
             req'[r].held = held, req'[r].phase = "starting",
             UNCHANGED <<loaded, registered>>
      PROVE  Books'
  <2>1. ServersBooked' BY <1>0, <1>2 DEF SInv, Books, ServersBooked, LoadedIds
  <2>2. FactoriesBooked'
    BY <1>0, <1>2 DEF SInv, Books, FactoriesBooked, LoadedIds, Holding
  <2>3. PortsBooked => PortsBooked' BY <1>0, <1>2 DEF PortsBooked, Holding
  <2>4. EntriesBooked => EntriesBooked'
    BY <1>0, <1>2 DEF EntriesBooked, LoadedIds, Holding
  <2> QED BY <2>1, <2>2, <2>3, <2>4 DEF SInv, Books
<1>3. ASSUME NEW held \in LoadedType, held.inst \in FreshInstances,
             factories' = [s \in Schemes |->
                             IF s = held.client THEN held.inst ELSE factories[s]],
             loaded' = [loaded EXCEPT ![record.id] = held],
             registered' = [registered EXCEPT ![record.id] = @ + 1],
             req'[r] = Idle
      PROVE  Books'
  <2>1. /\ loaded'[record.id] = held /\ held # None
        /\ \A id \in BindingIds \ {record.id} : loaded'[id] = loaded[id]
        /\ req'[r].phase = "idle"
    BY <1>0, <1>3, IdleType
  <2>2. ServersBooked'
    BY <1>0, <1>3, <2>1 DEF SInv, Books, ServersBooked, LoadedIds
  <2>3. FactoriesBooked'
    BY <1>0, <1>3, <2>1 DEF SInv, Books, FactoriesBooked, LoadedIds, Holding
  <2>4. PortsBooked => PortsBooked' BY <1>0, <2>1 DEF PortsBooked, Holding
  <2>5. EntriesBooked => EntriesBooked'
    BY <1>0, <1>3, <2>1 DEF EntriesBooked, LoadedIds, Holding
  <2> QED BY <2>2, <2>3, <2>4, <2>5 DEF SInv, Books
<1> QED BY <1>0, <1>1, <1>2, <1>3, RegisterEffect

(* The factory that goes is that of the binding, and no other's.           *)
LEMMA FactoriesLeft ==
    ASSUME SInv, NEW scheme, factories' = WithoutFactory(scheme)
    PROVE  /\ \A s \in Schemes : s # scheme => factories'[s] = factories[s]
           /\ \A s \in Schemes : s = scheme => factories'[s] \notin Instances
  BY NoneApart DEF WithoutFactory

LEMMA BooksUnregister ==
    ASSUME Serial, SInv, NEW r \in Requests, req[r].phase \notin Holding,
           NEW record \in RequestType, record.id \in BindingIds,
           loaded[record.id] # None, Unregister(r, record), UNCHANGED stopFaults
    PROVE  Books'
<1> USE NoneApart
<1> DEFINE held == loaded[record.id]
<1>0. /\ Typed /\ \A q \in Requests : q = r
      /\ loaded \in [BindingIds -> LoadedType \cup {None}]
      /\ registered \in [BindingIds -> Nat]
      /\ servers \in [Instances -> Schemes \cup {None}]
      /\ held \in LoadedType /\ held.inst \in Instances
  BY LoadedFields DEF Serial, SInv, IInv, Typed, TypeOK
<1>1. /\ loaded'[record.id] = None
      /\ \A id \in BindingIds \ {record.id} : loaded'[id] = loaded[id]
      /\ factories' = WithoutFactory(held.client)
      /\ UNCHANGED listening
  BY <1>0, UnregisterEffect
<1>2. \A id \in BindingIds \ {record.id} : loaded[id] # None => loaded[id].inst # held.inst
  BY DEF SInv, IInv, InstancesDistinct
<1>3. FactoriesBooked'
  <2>1. ASSUME NEW s \in Schemes, factories'[s] \in Instances
        PROVE  \E id \in BindingIds : loaded'[id] # None /\ loaded'[id].client = s
    <3>1. s # held.client /\ factories[s] \in Instances
      BY <1>1, <2>1, FactoriesLeft
    <3>2. PICK id \in LoadedIds : loaded[id].client = s
      BY <1>0, <3>1 DEF SInv, Books, FactoriesBooked, Holding
    <3> QED BY <1>1, <3>1, <3>2 DEF LoadedIds
  <2> QED BY <2>1 DEF FactoriesBooked, LoadedIds
<1>4. CASE /\ servers' = [servers EXCEPT ![held.inst] = None]
           /\ req'[r].held = held
           /\ req'[r].phase = "stopping" /\ req'[r].id = record.id
           /\ servers[held.inst] # None
           /\ UNCHANGED <<cache, registered>>
  <2>1. servers'[held.inst] = None
        /\ \A i \in Instances : i # held.inst => servers'[i] = servers[i]
    BY <1>0, <1>4
  <2>2. ServersBooked'
    BY <1>0, <1>1, <2>1 DEF SInv, Books, ServersBooked, LoadedIds
  <2>3. PortsBooked => PortsBooked'
    BY <1>0, <1>1, <1>4, <2>1 DEF PortsBooked, Holding
  <2>4. EntriesBooked => EntriesBooked'
    BY <1>0, <1>1, <1>4 DEF EntriesBooked, LoadedIds, Holding
  <2> QED BY <1>3, <1>4, <2>2, <2>3, <2>4 DEF SInv, Books
<1>5. CASE /\ servers' = servers
           /\ held.server => servers[held.inst] = None
           /\ req'[r].phase \in {"idle", "removing"}
           /\ registered' = [registered EXCEPT ![record.id] = 0]
  <2>1. ServersBooked'
    BY <1>0, <1>1, <1>5 DEF SInv, Books, ServersBooked, LoadedIds
  <2>2. PortsBooked => PortsBooked'
    BY <1>0, <1>1, <1>5 DEF PortsBooked, Holding
  <2>3. EntriesBooked => EntriesBooked'
    BY <1>0, <1>1, <1>5 DEF EntriesBooked, LoadedIds, Holding
  <2> QED BY <1>3, <1>5, <2>1, <2>2, <2>3 DEF SInv, Books
<1> QED BY <1>0, <1>4, <1>5, UnregisterEffect

(* start() has resolved or rejected.                                       *)
LEMMA BooksStarted ==
    ASSUME Serial, SInv, NEW r \in Requests, Started(r)
    PROVE  Books'
<1> USE NoneApart
<1> DEFINE held == req[r].held
           id == req[r].id
<1>0. /\ Typed /\ (\A q \in Requests : q = r)
      /\ req[r].phase = "starting" /\ id \in BindingIds
      /\ held \in LoadedType /\ held # None /\ held.inst \in Instances /\ held.server
      /\ held.code.serverScheme \in Schemes
      /\ loaded \in [BindingIds -> LoadedType \cup {None}] /\ loaded[id] = None
      /\ registered \in [BindingIds -> Nat]
      /\ servers \in [Instances -> Schemes \cup {None}]
      /\ listening' = listening \cup {held.inst} /\ UNCHANGED stopFaults
  BY PackageFields DEF Started, Pending, Serial, SInv, IInv, Typed, TypeOK, RequestOK,
     RequestType, Holding, LoadedType, Standing
<1>1. CASE held.code.server = "exposeThrows"
  <2>1. /\ factories' = WithoutFactory(held.client)
        /\ Await(r, "undoing", held)
        /\ UNCHANGED <<loaded, registered, servers>>
    BY <1>1 DEF Started
  <2>2. req'[r].phase = "undoing" /\ req'[r].held = held
    BY <1>0, <2>1, AwaitTyped DEF Holding
  <2>3. ServersBooked' BY <2>1 DEF SInv, Books, ServersBooked, LoadedIds
  <2>4. FactoriesBooked'
    BY <1>0, <2>1, FactoriesLeft DEF SInv, Books, FactoriesBooked, LoadedIds
  <2>5. PortsBooked => PortsBooked' BY <1>0, <2>1, <2>2 DEF PortsBooked
  <2>6. EntriesBooked => EntriesBooked'
    BY <1>0, <2>1, <2>2 DEF EntriesBooked, LoadedIds
  <2> QED BY <1>0, <2>3, <2>4, <2>5, <2>6 DEF SInv, Books
<1>2. CASE held.code.server # "exposeThrows"
  <2>1. /\ servers' = [servers EXCEPT ![held.inst] = held.code.serverScheme]
        /\ Enter(id, held) /\ Answer(r)
        /\ UNCHANGED factories
    BY <1>2 DEF Started
  <2>2. req'[r].phase = "idle" BY <1>0, <2>1, AnswerTyped, IdleType
  <2> HIDE DEF held, id
  <2>3. /\ loaded'[id] = held /\ registered'[id] = registered[id] + 1
        /\ \A other \in BindingIds \ {id} :
             loaded'[other] = loaded[other] /\ registered'[other] = registered[other]
        /\ servers'[held.inst] # None
        /\ \A i \in Instances : i # held.inst => servers'[i] = servers[i]
    BY <1>0, <2>1 DEF Enter
  <2>4. ServersBooked'
    BY <1>0, <2>3 DEF SInv, Books, ServersBooked, LoadedIds
  <2>5. FactoriesBooked'
    <3>1. \A s \in Schemes : factories[s] \in Instances =>
            (\E other \in LoadedIds : loaded[other].client = s) \/ held.client = s
      BY <1>0 DEF SInv, Books, FactoriesBooked, held
    <3> QED BY <1>0, <2>1, <2>3, <3>1 DEF FactoriesBooked, LoadedIds
  <2>6. PortsBooked => PortsBooked' BY <1>0, <2>2, <2>3 DEF PortsBooked
  <2>7. EntriesBooked => EntriesBooked'
    <3>1. EntriesBooked => registered[id] = 0
      BY <1>0 DEF EntriesBooked, LoadedIds
    <3> QED BY <1>0, <2>2, <2>3, <3>1 DEF EntriesBooked, LoadedIds
  <2> QED BY <1>0, <2>4, <2>5, <2>6, <2>7 DEF SInv, Books
<1> QED BY <1>1, <1>2

LEMMA BooksStartFails ==
    ASSUME Serial, SInv, NEW r \in Requests, StartFails(r)
    PROVE  Books'
<1> DEFINE held == req[r].held
<1>1. /\ Typed /\ \A q \in Requests : q = r
      /\ req[r].phase = "starting" /\ req[r] \in RequestType /\ req[r].id \in BindingIds
      /\ factories' = WithoutFactory(held.client) /\ Abort(r, req[r], None)
      /\ UNCHANGED <<loaded, registered, servers, listening, stopFaults>>
  BY DEF StartFails, Pending, Serial, SInv, IInv, Typed, TypeOK, RequestOK
<1>2. req'[r].phase \in {"idle", "rollback"} BY <1>1, AbortTyped
<1>3. ServersBooked' BY <1>1 DEF SInv, Books, ServersBooked, LoadedIds
<1>4. FactoriesBooked'
  BY <1>1, FactoriesLeft DEF SInv, Books, FactoriesBooked, LoadedIds
<1>5. PortsBooked => PortsBooked' BY <1>1, <1>2 DEF PortsBooked
<1>6. EntriesBooked => EntriesBooked'
  BY <1>1, <1>2 DEF EntriesBooked, LoadedIds
<1> QED BY <1>1, <1>3, <1>4, <1>5, <1>6 DEF SInv, Books

(* stop() has resolved or rejected, of a server that is not the Servient's.*)
LEMMA BooksStopped ==
    ASSUME Serial, SInv, NEW r \in Requests,
           Undone(r) \/ UndoFails(r) \/ Stopped(r) \/ StopFails(r)
    PROVE  Books'
<1> USE NoneApart
<1> DEFINE inst == req[r].held.inst
<1>1. /\ Typed /\ \A q \in Requests : q = r
      /\ req[r].phase \in {"stopping", "undoing"}
      /\ req[r] \in RequestType /\ req[r].id \in BindingIds /\ req[r].held # None
      /\ cache[req[r].id] \in Packages \cup {None}
      /\ registered \in [BindingIds -> Nat] /\ stopFaults \in Nat
      /\ loaded[req[r].id] = None
      /\ UNCHANGED <<loaded, factories, servers>>
  BY DEF Undone, UndoFails, Stopped, StopFails, Pending, Serial, SInv, IInv, Typed, TypeOK,
     RequestOK, Holding, Standing
<1>2. req'[r].phase \notin Holding
  <2>1. \/ Abort(r, req[r], None) \/ Abort(r, req[r], cache[req[r].id])
        \/ BeginRemoval(r, req[r]) \/ Answer(r)
    BY DEF Undone, UndoFails, Stopped, StopFails, Unregistered
  <2> QED BY <1>1, <2>1, AbortTyped, BeginRemovalTyped, AnswerTyped, IdleType DEF Holding
<1>3. servers[inst] = None \/ inst \notin Instances
  <2>1. \A id \in LoadedIds : loaded[id].inst # inst
    BY <1>1 DEF SInv, IInv, InstancesDistinct, LoadedIds
  <2> QED BY <2>1 DEF SInv, Books, ServersBooked
<1>4. ServersBooked' BY <1>1 DEF SInv, Books, ServersBooked, LoadedIds
<1>5. FactoriesBooked'
  BY <1>1 DEF SInv, Books, FactoriesBooked, LoadedIds
<1>6. ASSUME stopFaults' = 0
      PROVE  PortsBooked' /\ EntriesBooked'
  <2>1. /\ stopFaults = 0 /\ listening' = listening \ {inst}
        /\ \/ req[r].phase = "undoing" /\ UNCHANGED registered
           \/ req[r].phase = "stopping"
                /\ registered' = [registered EXCEPT ![req[r].id] = 0]
    BY <1>1, <1>6 DEF Undone, UndoFails, Stopped, StopFails, Pending, Unregistered
  <2>2. PortsBooked /\ EntriesBooked BY <2>1 DEF SInv, Books
  <2>3. PortsBooked'
    BY <1>1, <1>2, <1>3, <2>1, <2>2 DEF PortsBooked, Holding
  <2>4. EntriesBooked'
    BY <1>1, <1>2, <2>1, <2>2 DEF EntriesBooked, LoadedIds, Holding
  <2> QED BY <2>3, <2>4
<1> QED BY <1>4, <1>5, <1>6 DEF Books

LEMMA BooksNext ==
    ASSUME Serial, SInv, [Next]_vars
    PROVE  Books'
<1> USE NoneApart
<1>0. Typed /\ RequestOK /\ req \in [Requests -> RequestType]
  BY DEF SInv, IInv, Typed, TypeOK
<1>id. ASSUME NEW r \in Requests, req[r].phase # "idle"
       PROVE  req[r] \in RequestType /\ req[r].id \in BindingIds
  BY <1>0, <1>id DEF RequestOK
<1>1. CASE UNCHANGED vars
  BY <1>1, BooksKept DEF vars, SInv
<1>2. ASSUME NEW r \in Requests, NEW p \in Packages, Deploy(r, p)
      PROVE  Books'
  <2>1. PICK via \in Arrivals :
          req' = [req EXCEPT ![r] =
                    [Invocation("deploy", p.id, p, via) EXCEPT !.phase = "staging"]]
    BY <1>2 DEF Deploy
  <2>2. req'[r].phase = "staging" /\ \A q \in Requests \ {r} : req'[q] = req[q]
    BY <1>0, <2>1 DEF Invocation
  <2> QED BY <1>2, <2>2, BooksKept DEF Deploy, Pending, servient, SInv, Holding
<1>3. ASSUME NEW r \in Requests, NEW id \in BindingIds, Add(r, id)
      PROVE  Books'
  <2>1. PICK via \in Arrivals : Register(r, Invocation("add", id, None, via))
    BY <1>3 DEF Add
  <2> QED BY <1>3, <2>1, BooksRegister, InvocationType DEF Add, Pending, Holding
<1>4. ASSUME NEW r \in Requests, NEW id \in BindingIds, Remove(r, id)
      PROVE  Books'
  <2>1. PICK via \in Arrivals : Unregister(r, Invocation("remove", id, None, via))
    BY <1>4 DEF Remove
  <2> QED BY <1>4, <2>1, BooksUnregister, InvocationType DEF Remove, Pending, Holding
<1>5. ASSUME NEW r \in Requests, NEW id \in BindingIds, Delete(r, id)
      PROVE  Books'
  <2>1. PICK via \in Arrivals :
          LET record == Invocation("delete", id, None, via) IN
          IF loaded[id] # None
          THEN Unregister(r, record)
          ELSE /\ BeginRemoval(r, record)
               /\ UNCHANGED <<loaded, registered, servient, occupied>>
    BY <1>5 DEF Delete
  <2> DEFINE record == Invocation("delete", id, None, via)
  <2>2. /\ record \in RequestType /\ record.id = id
        /\ req[r].phase \notin Holding /\ UNCHANGED stopFaults
    BY <1>5, InvocationType DEF Delete, Pending, Holding
  <2> HIDE DEF record
  <2>3. CASE loaded[id] # None
    BY <2>1, <2>2, <2>3, BooksUnregister DEF record
  <2>4. CASE loaded[id] = None
    <3>1. BeginRemoval(r, record) /\ UNCHANGED <<loaded, registered, servient, occupied>>
      BY <2>1, <2>4 DEF record
    <3>2. /\ req'[r].phase \notin Holding
          /\ \A q \in Requests \ {r} : req'[q] = req[q]
      BY <1>0, <2>2, <3>1, BeginRemovalTyped DEF Holding
    <3> QED BY <2>2, <3>1, <3>2, BooksKept DEF servient, SInv
  <2> QED BY <2>3, <2>4
<1>6. ASSUME NEW r \in Requests,
             Staged(r) \/ Rename(r) \/ InstallFails(r) \/ RmPart(r) \/ RmEnd(r) \/ RmFails(r)
      PROVE  Books'
  <2>1. /\ UNCHANGED <<loaded, registered, servient, stopFaults>>
        /\ req[r].phase \in {"staging", "renaming", "removing", "rollback"}
        /\ \/ Await(r, "renaming", None) /\ req[r].phase = "staging"
           \/ Await(r, "installed", None) /\ req[r].phase = "renaming"
           \/ Answer(r)
           \/ UNCHANGED req
    BY <1>6 DEF Staged, Rename, InstallFails, RmPart, RmEnd, RmFails, Pending
  <2>2. /\ req'[r].phase \notin Holding
        /\ \A q \in Requests \ {r} : req'[q] = req[q]
    BY <1>0, <2>1, AwaitTyped, AnswerTyped, IdleType DEF Holding
  <2> QED BY <2>1, <2>2, BooksKept DEF servient, SInv, Holding
<1>7. ASSUME NEW r \in Requests, Installed(r)
      PROVE  Books'
  BY <1>7, <1>id, BooksRegister DEF Installed, Pending, Holding, SInv, Standing
<1>8. ASSUME NEW r \in Requests, Disconnect(r)
      PROVE  Books'
  <2>1. /\ UNCHANGED <<loaded, registered, servient, stopFaults>>
        /\ \A q \in Requests :
             /\ req'[q].held = req[q].held /\ req'[q].phase = req[q].phase
             /\ req'[q].id = req[q].id
    BY <1>0, <1>8 DEF Disconnect, RequestType
  <2> QED BY <2>1, BooksKept DEF servient, SInv
<1>9. ASSUME Restart
      PROVE  Books'
  <2>1. /\ \A i \in Instances : servers'[i] = None
        /\ \A s \in Schemes : factories'[s] \in {Native, None}
        /\ \A id \in BindingIds : loaded'[id] = None /\ registered'[id] = 0
        /\ \A r \in Requests : req'[r].phase = "idle"
        /\ listening' = {}
    BY <1>9, IdleType DEF Restart
  <2> QED BY <2>1
          DEF Books, ServersBooked, FactoriesBooked, PortsBooked, EntriesBooked, LoadedIds
<1>10. ASSUME NEW i \in Instances, Vacate(i)
       PROVE  Books'
  BY <1>10, BooksKept DEF Vacate, servient, SInv
<1> QED
  BY <1>1, <1>2, <1>3, <1>4, <1>5, <1>6, <1>7, <1>8, <1>9, <1>10, BooksStarted,
     BooksStartFails, BooksStopped DEF Next, Complete

-----------------------------------------------------------------------------
(* What an invocation has found out                                        *)

Stands == CodeOK /\ \A r \in Requests : Standing(r)

LEMMA StandsInit == Init => Stands
BY IdleType DEF Init, Stands, CodeOK, Standing, LoadedIds

LEMMA CompatibleUnserved ==
    ASSUME CodeOK, NEW p, Compatible(p)
    PROVE  Unserved(p)
<1>1. \A id \in LoadedIds : loaded[id].manifest.schemes \subseteq RegisteredSchemes
  BY DEF RegisteredSchemes
<1> QED BY <1>1 DEF Compatible, Unserved, CodeOK

(* Nothing is entered, and the files stay as they are.                     *)
LEMMA StandsKept ==
    ASSUME Serial, SInv, NEW r \in Requests, UNCHANGED <<disk, loaded>>, Standing(r)',
           \A id \in BindingIds : cache'[id] \in {None, cache[id], disk[id]}
    PROVE  Stands'
  BY DEF Serial, SInv, Stands, CodeOK, LoadedIds

LEMMA StandsAbort ==
    ASSUME Serial, SInv, NEW r \in Requests, UNCHANGED <<disk, loaded>>,
           req[r].phase # "idle",
           NEW left \in {None, cache[req[r].id]}, Abort(r, req[r], left)
    PROVE  Stands'
<1>1. /\ Typed /\ req[r] \in RequestType /\ req[r].id \in BindingIds
      /\ cache[req[r].id] \in Packages \cup {None}
      /\ loaded[req[r].id] = None
  BY DEF SInv, IInv, Typed, TypeOK, RequestOK, Standing
<1>2. /\ req'[r].phase \in {"idle", "rollback"}
      /\ req'[r].phase = "rollback"
           => req'[r].id = req[r].id /\ cache'[req[r].id] = None
      /\ cache'[req[r].id] \in {None, left}
      /\ \A id \in BindingIds \ {req[r].id} : cache'[id] = cache[id]
  BY <1>1, AbortTyped
<1>3. Standing(r)' BY <1>1, <1>2 DEF Standing
<1> QED BY <1>2, <1>3, StandsKept

LEMMA StandsRegister ==
    ASSUME Serial, SInv, NEW r \in Requests,
           NEW record \in RequestType, record.id \in BindingIds,
           loaded[record.id] = None, Register(r, record), UNCHANGED disk,
           disk[record.id] \in Packages => Unserved(disk[record.id])
    PROVE  /\ Stands'
           /\ \/ UNCHANGED loaded
              \/ /\ disk[record.id] \in Packages
                 /\ \E held \in LoadedType :
                      /\ held.code = disk[record.id]
                      /\ loaded' = [loaded EXCEPT ![record.id] = held]
<1> USE NoneApart
<1>0. /\ Typed /\ \A q \in Requests : q = r
      /\ loaded \in [BindingIds -> LoadedType \cup {None}]
      /\ Code(record.id) \in {None, disk[record.id]} \/ disk[record.id] \notin Packages
      /\ \A id \in BindingIds : cache'[id] \in {None, cache[id], disk[id]}
  BY RegisterEffect DEF Serial, SInv, IInv, Typed, TypeOK, Code, CodeOK
<1>1. CASE /\ UNCHANGED loaded
           /\ req'[r].phase \in {"idle", "rollback"}
           /\ req'[r].phase = "rollback"
                => req'[r].id = record.id /\ cache'[record.id] = None
  <2>1. Standing(r)' BY <1>1 DEF Standing
  <2> QED BY <1>0, <1>1, <2>1, StandsKept
<1>2. ASSUME NEW held \in LoadedType,
             disk[record.id] \in Packages,
             held.manifest = disk[record.id], held.code = Code(record.id)
      PROVE  held.code = disk[record.id]
  BY <1>0, <1>2 DEF LoadedType
<1>3. ASSUME NEW held \in LoadedType,
             disk[record.id] \in Packages,
             held.manifest = disk[record.id], held.code = Code(record.id),
             req'[r].held = held, req'[r].phase = "starting", req'[r].id = record.id,
             held.server, UNCHANGED loaded
      PROVE  Stands'
  <2>1. Unserved(disk[record.id])'
    BY <1>3 DEF Unserved, LoadedIds
  <2>2. Standing(r)'
    BY <1>2, <1>3, <2>1 DEF Standing, Unserved, LoadedIds
  <2> QED BY <1>0, <1>3, <2>2, StandsKept
<1>4. ASSUME NEW held \in LoadedType,
             disk[record.id] \in Packages,
             held.manifest = disk[record.id], held.code = Code(record.id),
             loaded' = [loaded EXCEPT ![record.id] = held], req'[r] = Idle
      PROVE  Stands'
  <2>1. /\ loaded'[record.id] = held
        /\ \A id \in BindingIds \ {record.id} : loaded'[id] = loaded[id]
        /\ req'[r].phase = "idle"
    BY <1>0, <1>4, IdleType
  <2>2. CodeOK' BY <1>0, <1>2, <1>4, <2>1 DEF SInv, CodeOK, LoadedIds
  <2>3. Standing(r)' BY <2>1 DEF Standing
  <2> QED BY <1>0, <2>2, <2>3 DEF Stands
<1> QED BY <1>0, <1>1, <1>2, <1>3, <1>4, RegisterEffect

LEMMA StandsUnregister ==
    ASSUME Serial, SInv, NEW r \in Requests,
           NEW record \in RequestType, record.id \in BindingIds,
           loaded[record.id] # None, Unregister(r, record), UNCHANGED disk
    PROVE  Stands'
<1> USE NoneApart
<1>0. /\ Typed /\ \A q \in Requests : q = r
      /\ loaded \in [BindingIds -> LoadedType \cup {None}]
      /\ cache \in [BindingIds -> Packages \cup {None}]
  BY DEF Serial, SInv, IInv, Typed, TypeOK
<1>1. /\ loaded'[record.id] = None
      /\ \A id \in BindingIds \ {record.id} : loaded'[id] = loaded[id]
      /\ \/ /\ req'[r].phase = "stopping" /\ req'[r].id = record.id
            /\ UNCHANGED cache
         \/ /\ req'[r].phase \in {"idle", "removing"}
            /\ req'[r].phase = "removing" => req'[r].id = record.id
            /\ cache' = [cache EXCEPT ![record.id] = None]
  BY <1>0, UnregisterEffect
<1>2. CodeOK' BY <1>0, <1>1 DEF SInv, CodeOK, LoadedIds
<1>3. Standing(r)' BY <1>0, <1>1 DEF Standing
<1> QED BY <1>0, <1>2, <1>3 DEF Stands

LEMMA StandsNext ==
    ASSUME Serial, SInv, [Next]_vars
    PROVE  Stands'
<1> USE NoneApart
<1>0. /\ Typed /\ RequestOK /\ req \in [Requests -> RequestType]
      /\ loaded \in [BindingIds -> LoadedType \cup {None}]
      /\ cache \in [BindingIds -> Packages \cup {None}]
      /\ disk \in [BindingIds -> Packages \cup {Absent, Broken}]
      /\ \A r, q \in Requests : r = q
      /\ CodeOK /\ \A r \in Requests : Standing(r)
  BY DEF SInv, IInv, Typed, TypeOK, Serial
<1>id. ASSUME NEW r \in Requests, req[r].phase # "idle"
       PROVE  req[r] \in RequestType /\ req[r].id \in BindingIds
  BY <1>0, <1>id DEF RequestOK
<1>1. CASE UNCHANGED vars
  BY <1>0, <1>1 DEF vars, Stands, CodeOK, Standing, Unserved, LoadedIds
<1>2. ASSUME NEW r \in Requests, NEW p \in Packages, Deploy(r, p)
      PROVE  Stands'
  <2>1. PICK via \in Arrivals :
          req' = [req EXCEPT ![r] =
                    [Invocation("deploy", p.id, p, via) EXCEPT !.phase = "staging"]]
    BY <1>2 DEF Deploy
  <2>2. req'[r].phase = "staging" /\ req'[r].id = p.id /\ req'[r].pkg = p
    BY <1>0, <2>1 DEF Invocation
  <2>3. UNCHANGED <<disk, cache, loaded>> /\ loaded[p.id] = None BY <1>2 DEF Deploy
  <2>4. Unserved(p) BY <1>0, <1>2, CompatibleUnserved DEF Deploy
  <2>5. Standing(r)' BY <2>2, <2>3, <2>4 DEF Standing, Unserved, LoadedIds
  <2> QED BY <2>3, <2>5, StandsKept
<1>3. ASSUME NEW r \in Requests, NEW id \in BindingIds, Add(r, id)
      PROVE  Stands'
  <2>1. PICK via \in Arrivals : Register(r, Invocation("add", id, None, via))
    BY <1>3 DEF Add
  <2>2. Unserved(disk[id]) BY <1>0, <1>3, CompatibleUnserved DEF Add
  <2> QED BY <1>3, <2>1, <2>2, StandsRegister, InvocationType DEF Add
<1>4. ASSUME NEW r \in Requests, NEW id \in BindingIds, Remove(r, id)
      PROVE  Stands'
  <2>1. PICK via \in Arrivals : Unregister(r, Invocation("remove", id, None, via))
    BY <1>4 DEF Remove
  <2> QED BY <1>4, <2>1, StandsUnregister, InvocationType DEF Remove
<1>5. ASSUME NEW r \in Requests, NEW id \in BindingIds, Delete(r, id)
      PROVE  Stands'
  <2>1. PICK via \in Arrivals :
          LET record == Invocation("delete", id, None, via) IN
          IF loaded[id] # None
          THEN Unregister(r, record)
          ELSE /\ BeginRemoval(r, record)
               /\ UNCHANGED <<loaded, registered, servient, occupied>>
    BY <1>5 DEF Delete
  <2> DEFINE record == Invocation("delete", id, None, via)
  <2>2. record \in RequestType /\ record.id = id /\ UNCHANGED disk
    BY <1>5, InvocationType DEF Delete
  <2> HIDE DEF record
  <2>3. CASE loaded[id] # None
    BY <2>1, <2>2, <2>3, StandsUnregister DEF record
  <2>4. CASE loaded[id] = None
    <3>1. BeginRemoval(r, record) /\ UNCHANGED <<loaded, registered, servient, occupied>>
      BY <2>1, <2>4 DEF record
    <3>2. /\ req'[r].phase \in {"idle", "removing"}
          /\ req'[r].phase = "removing" => req'[r].id = id
          /\ cache' = [cache EXCEPT ![id] = None]
      BY <1>0, <2>2, <3>1, BeginRemovalTyped
    <3>3. Standing(r)' BY <1>0, <2>4, <3>1, <3>2 DEF Standing
    <3> QED BY <1>0, <2>2, <3>1, <3>2, <3>3, StandsKept
  <2> QED BY <2>3, <2>4
<1>6. ASSUME NEW r \in Requests, Staged(r)
      PROVE  Stands'
  <2>1. /\ UNCHANGED <<disk, cache, loaded>>
        /\ Await(r, "renaming", None) \/ Answer(r)
        /\ req[r].phase = "staging"
    BY <1>6 DEF Staged, Pending
  <2>2. \/ /\ req'[r].phase = "renaming" /\ req'[r].id = req[r].id
           /\ req'[r].pkg = req[r].pkg
        \/ req'[r].phase = "idle"
    BY <1>0, <2>1, AwaitTyped, AnswerTyped, IdleType DEF Holding
  <2>3. Standing(r)' BY <1>0, <2>1, <2>2 DEF Standing, Unserved, LoadedIds
  <2> QED BY <2>1, <2>3, StandsKept
<1>7. ASSUME NEW r \in Requests, Rename(r)
      PROVE  Stands'
  <2>1. /\ req[r].phase = "renaming" /\ disk[req[r].id] = Absent
        /\ req[r].id \in BindingIds /\ req[r].pkg \in Packages
        /\ disk' = [disk EXCEPT ![req[r].id] = req[r].pkg]
        /\ Await(r, "installed", None)
        /\ UNCHANGED <<cache, loaded>>
    BY <1>0, <1>7 DEF Rename, Pending, RequestOK
  <2>2. req'[r].phase = "installed" /\ req'[r].id = req[r].id
    BY <1>0, <2>1, AwaitTyped DEF Holding
  <2>3. /\ disk'[req[r].id] = req[r].pkg
        /\ \A id \in BindingIds \ {req[r].id} : disk'[id] = disk[id]
    BY <1>0, <2>1
  <2>4. PICK p : p = req[r].pkg OBVIOUS
  <2>5. Unserved(p)'
    BY <1>0, <2>1, <2>4 DEF Standing, Unserved, LoadedIds
  <2>6. Standing(r)' BY <1>0, <2>1, <2>2, <2>3, <2>4, <2>5 DEF Standing, Unserved, LoadedIds
  <2>7. CodeOK' BY <1>0, <2>1, <2>3 DEF CodeOK, LoadedIds
  <2> QED BY <1>0, <2>6, <2>7 DEF Stands
<1>8. ASSUME NEW r \in Requests, InstallFails(r) \/ RmFails(r) \/ StopFails(r)
      PROVE  Stands'
  <2>1. UNCHANGED <<disk, cache, loaded>> /\ Answer(r)
    BY <1>8 DEF InstallFails, RmFails, StopFails, servient
  <2>2. Standing(r)' BY <1>0, <2>1, AnswerTyped, IdleType DEF Standing
  <2> QED BY <2>1, <2>2, StandsKept
<1>9. ASSUME NEW r \in Requests, Installed(r)
      PROVE  Stands'
  BY <1>0, <1>9, <1>id, StandsRegister DEF Installed, Pending, Standing
<1>10. ASSUME NEW r \in Requests, Started(r)
       PROVE  Stands'
  <2> DEFINE held == req[r].held
             id == req[r].id
  <2>1. /\ req[r].phase = "starting" /\ id \in BindingIds /\ loaded[id] = None
        /\ held \in LoadedType /\ held # None /\ held.code = held.manifest
        /\ UNCHANGED <<disk, cache>>
    BY <1>0, <1>10 DEF Started, Pending, RequestOK, RequestType, Holding, Standing
  <2>2. CASE Await(r, "undoing", held) /\ UNCHANGED loaded
    <3>1. req'[r].phase = "undoing" /\ req'[r].id = id
      BY <1>0, <2>1, <2>2, AwaitTyped DEF Holding
    <3>2. Standing(r)' BY <2>1, <2>2, <3>1 DEF Standing
    <3> QED BY <2>1, <2>2, <3>2, StandsKept
  <2>3. CASE Enter(id, held) /\ Answer(r)
    <3>1. req'[r].phase = "idle" BY <1>0, <2>3, AnswerTyped, IdleType
    <3> HIDE DEF held, id
    <3>2. /\ loaded'[id] = held
          /\ \A other \in BindingIds \ {id} : loaded'[other] = loaded[other]
      BY <1>0, <2>1, <2>3 DEF Enter
    <3>3. CodeOK' BY <1>0, <2>1, <3>2 DEF CodeOK, LoadedIds
    <3>4. Standing(r)' BY <3>1 DEF Standing
    <3> QED BY <1>0, <3>3, <3>4 DEF Stands
  <2> QED BY <1>10, <2>2, <2>3 DEF Started
<1>11. ASSUME NEW r \in Requests, StartFails(r) \/ Undone(r) \/ UndoFails(r)
       PROVE  Stands'
  BY <1>0, <1>11, StandsAbort DEF StartFails, Undone, UndoFails, Pending
<1>12. ASSUME NEW r \in Requests, Stopped(r)
       PROVE  Stands'
  <2>1. /\ req[r] \in RequestType /\ req[r].id \in BindingIds
        /\ BeginRemoval(r, req[r]) /\ UNCHANGED <<disk, loaded>>
        /\ loaded[req[r].id] = None
    BY <1>0, <1>12, <1>id DEF Stopped, Pending, Unregistered, Standing
  <2>2. /\ req'[r].phase \in {"idle", "removing"}
        /\ req'[r].phase = "removing" => req'[r].id = req[r].id
        /\ cache' = [cache EXCEPT ![req[r].id] = None]
    BY <1>0, <2>1, BeginRemovalTyped
  <2>3. Standing(r)' BY <1>0, <2>1, <2>2 DEF Standing
  <2> QED BY <1>0, <2>1, <2>2, <2>3, StandsKept
<1>13. ASSUME NEW r \in Requests, RmPart(r) \/ RmEnd(r)
       PROVE  Stands'
  <2>1. /\ req[r].phase \in {"removing", "rollback"} /\ req[r].id \in BindingIds
        /\ UNCHANGED <<cache, loaded>>
        /\ Answer(r) \/ UNCHANGED req
        /\ \A id \in BindingIds \ {req[r].id} : disk'[id] = disk[id]
    BY <1>0, <1>13, <1>id DEF RmPart, RmEnd
  <2>2. req'[r].phase = "idle" \/ req'[r] = req[r]
    BY <1>0, <2>1, AnswerTyped, IdleType
  <2>3. cache[req[r].id] = None /\ loaded[req[r].id] = None
    BY <1>0, <2>1 DEF Standing
  <2>4. CodeOK' BY <1>0, <2>1, <2>3 DEF CodeOK, LoadedIds
  <2>5. Standing(r)' BY <1>0, <2>1, <2>2, <2>3 DEF Standing
  <2> QED BY <1>0, <2>4, <2>5 DEF Stands
<1>14. ASSUME NEW r \in Requests, Disconnect(r)
       PROVE  Stands'
  <2>1. /\ UNCHANGED <<disk, cache, loaded>>
        /\ req'[r].held = req[r].held /\ req'[r].phase = req[r].phase
        /\ req'[r].id = req[r].id /\ req'[r].pkg = req[r].pkg
    BY <1>0, <1>14 DEF Disconnect, RequestType
  <2>2. Standing(r)' BY <1>0, <2>1 DEF Standing, Unserved, LoadedIds
  <2> QED BY <2>1, <2>2, StandsKept
<1>15. ASSUME Restart
       PROVE  Stands'
  <2>1. /\ \A id \in BindingIds : loaded'[id] = None /\ cache'[id] = None
        /\ \A r \in Requests : req'[r].phase = "idle"
    BY <1>15, IdleType DEF Restart
  <2> QED BY <2>1 DEF Stands, CodeOK, Standing, LoadedIds
<1>16. ASSUME NEW i \in Instances, Vacate(i)
       PROVE  Stands'
  BY <1>0, <1>16 DEF Vacate, Stands, CodeOK, Standing, Unserved, LoadedIds
<1> QED
  BY <1>1, <1>2, <1>3, <1>4, <1>5, <1>6, <1>7, <1>8, <1>9, <1>10, <1>11, <1>12, <1>13,
     <1>14, <1>15, <1>16 DEF Next, Complete

-----------------------------------------------------------------------------
(* Theorems                                                                *)

LEMMA SInvInit == Init => SInv
BY IInvInit, BooksInit, StandsInit DEF SInv, Stands

LEMMA SInvNext ==
    ASSUME Serial, SInv, [Next]_vars
    PROVE  SInv'
<1>1. IInv' BY IInvNext DEF SInv
<1>2. Books' /\ Stands' BY BooksNext, StandsNext
<1> QED BY <1>1, <1>2 DEF SInv, Stands

(* When invocations do not overlap and none is pending, the Servient holds *)
(* the factories and servers of the loaded bindings and no others, and     *)
(* unless a stop() has rejected their ports and no others: every path by   *)
(* which an invocation ends has given back what it took.                   *)
THEOREM GivenBack ==
    ASSUME Serial
    PROVE  Spec => []NothingLeaks
<1>1. SInv => NothingLeaks
  <2> SUFFICES ASSUME SInv, AllIdle PROVE NothingLeaks BY DEF NothingLeaks
  <2>1. \A r \in Requests : req[r].phase = "idle" BY DEF AllIdle, Pending
  <2>2. stopFaults = 0 => listening = {i \in Instances : servers[i] # None}
    <3>1. listening \subseteq Instances BY DEF SInv, IInv, Typed, TypeOK
    <3> QED BY <2>1, <3>1 DEF SInv, Books, PortsBooked
  <2> QED BY <2>1, <2>2 DEF NothingLeaks, SInv, Books, ServersBooked, FactoriesBooked
<1>2. SInv /\ [Next]_vars => SInv' BY SInvNext
<1> QED BY SInvInit, <1>1, <1>2, PTL DEF Spec

(* When invocations do not overlap, none is pending and no stop() has      *)
(* rejected, registeredBindings lists each loaded binding once.            *)
THEOREM ListedOnce ==
    ASSUME Serial
    PROVE  Spec => []RegisteredUnlessStopFailed
<1>1. SInv => RegisteredUnlessStopFailed
  BY DEF SInv, Books, EntriesBooked, RegisteredUnlessStopFailed, RegisteredListsLoaded,
     AllIdle, Pending
<1>2. SInv /\ [Next]_vars => SInv' BY SInvNext
<1> QED BY SInvInit, <1>1, <1>2, PTL DEF Spec

(* What BindingStore knows of: which package each loaded binding runs.     *)
Active == [id \in BindingIds |-> IF loaded[id] = None THEN Absent ELSE loaded[id].code]

(* Two functions that differ at one point.                                 *)
LEMMA OneChanged ==
    ASSUME NEW S, NEW f, NEW g, NEW x \in S, NEW v,
           f = [s \in S |-> f[s]], g = [s \in S |-> g[s]],
           g[x] = v, \A s \in S : s # x => g[s] = f[s]
    PROVE  g = [f EXCEPT ![x] = v]
OBVIOUS

LEMMA ActiveUnchanged ==
    ASSUME UNCHANGED <<disk, loaded>>
    PROVE  UNCHANGED Store!vars
  BY DEF Store!vars

(* A binding is entered: it runs what is stored, next to bindings that     *)
(* provide none of its schemes.                                            *)
LEMMA EnteredActivates ==
    ASSUME SInv, NEW id \in BindingIds, NEW held \in LoadedType,
           loaded[id] = None, disk[id] \in Packages, held.code = disk[id],
           Unserved(disk[id]), loaded' = [loaded EXCEPT ![id] = held], UNCHANGED disk
    PROVE  Store!Activate(id)
<1> USE NoneApart
<1>1. loaded \in [BindingIds -> LoadedType \cup {None}] BY DEF SInv, IInv, Typed, TypeOK
<1>2. Active[id] = Absent BY DEF Active
<1>3. \A other \in BindingIds : Active[other] # Absent
        => Active[other].schemes \cap disk[id].schemes = {}
  BY DEF Active, Unserved, LoadedIds
<1>4. Active' = [Active EXCEPT ![id] = disk[id]]
  <2>1. /\ loaded'[id] = held /\ held # None
        /\ \A other \in BindingIds : other # id => loaded'[other] = loaded[other]
    BY <1>1
  <2>2. /\ Active = [other \in BindingIds |-> Active[other]]
        /\ Active' = [other \in BindingIds |-> Active'[other]]
    BY DEF Active
  <2>3. /\ Active'[id] = disk[id]
        /\ \A other \in BindingIds : other # id => Active'[other] = Active[other]
    BY <2>1 DEF Active
  <2> QED BY <2>2, <2>3, OneChanged
<1> QED BY <1>2, <1>3, <1>4 DEF Store!Activate, Active

LEMMA LeftDeactivates ==
    ASSUME SInv, NEW id \in BindingIds, loaded[id] # None,
           loaded' = [loaded EXCEPT ![id] = None], UNCHANGED disk
    PROVE  Store!Deactivate(id)
<1> USE NoneApart
<1>1. /\ loaded \in [BindingIds -> LoadedType \cup {None}]
      /\ loaded[id].code \in Packages
  BY DEF SInv, IInv, Typed, TypeOK, LoadedType
<1>2. Active[id] # Absent BY <1>1 DEF Active
<1>3. Active' = [Active EXCEPT ![id] = Absent]
  <2>1. /\ loaded'[id] = None
        /\ \A other \in BindingIds : other # id => loaded'[other] = loaded[other]
    BY <1>1
  <2>2. /\ Active = [other \in BindingIds |-> Active[other]]
        /\ Active' = [other \in BindingIds |-> Active'[other]]
    BY DEF Active
  <2>3. /\ Active'[id] = Absent
        /\ \A other \in BindingIds : other # id => Active'[other] = Active[other]
    BY <2>1 DEF Active
  <2> QED BY <2>2, <2>3, OneChanged
<1> QED BY <1>2, <1>3 DEF Store!Deactivate, Active

LEMMA StoreStep ==
    ASSUME Serial, SInv, [Next]_vars
    PROVE  [Store!Next]_(Store!vars)
<1> USE NoneApart
<1>0. /\ Typed /\ RequestOK /\ req \in [Requests -> RequestType]
      /\ loaded \in [BindingIds -> LoadedType \cup {None}]
      /\ disk \in [BindingIds -> Packages \cup {Absent, Broken}]
      /\ CodeOK /\ \A r \in Requests : Standing(r)
  BY DEF SInv, IInv, Typed, TypeOK
<1>id. ASSUME NEW r \in Requests, req[r].phase # "idle"
       PROVE  req[r] \in RequestType /\ req[r].id \in BindingIds
  BY <1>0, <1>id DEF RequestOK
<1>reg. ASSUME NEW r \in Requests, NEW record \in RequestType, record.id \in BindingIds,
               loaded[record.id] = None, Register(r, record), UNCHANGED disk,
               disk[record.id] \in Packages => Unserved(disk[record.id])
        PROVE  [Store!Next]_(Store!vars)
  <2>1. CASE UNCHANGED loaded BY <1>reg, <2>1, ActiveUnchanged
  <2>2. CASE /\ disk[record.id] \in Packages
             /\ \E held \in LoadedType :
                  /\ held.code = disk[record.id]
                  /\ loaded' = [loaded EXCEPT ![record.id] = held]
    <3>1. Store!Activate(record.id) BY <1>reg, <2>2, EnteredActivates
    <3> QED BY <1>reg, <3>1 DEF Store!Next
  <2> QED BY <1>reg, <2>1, <2>2, StandsRegister
<1>unreg. ASSUME NEW r \in Requests, NEW record \in RequestType, record.id \in BindingIds,
                 loaded[record.id] # None, Unregister(r, record), UNCHANGED disk
          PROVE  [Store!Next]_(Store!vars)
  <2>1. loaded' = [loaded EXCEPT ![record.id] = None] BY <1>unreg DEF Unregister
  <2>2. Store!Deactivate(record.id) BY <1>unreg, <2>1, LeftDeactivates
  <2> QED BY <1>unreg, <2>2 DEF Store!Next
<1>1. CASE UNCHANGED vars
  BY <1>1, ActiveUnchanged DEF vars
<1>2. ASSUME NEW r \in Requests, NEW id \in BindingIds, Add(r, id)
      PROVE  [Store!Next]_(Store!vars)
  <2>1. PICK via \in Arrivals : Register(r, Invocation("add", id, None, via))
    BY <1>2 DEF Add
  <2>2. Unserved(disk[id]) BY <1>0, <1>2, CompatibleUnserved DEF Add
  <2> QED BY <1>2, <2>1, <2>2, <1>reg, InvocationType DEF Add
<1>3. ASSUME NEW r \in Requests, NEW id \in BindingIds, Remove(r, id)
      PROVE  [Store!Next]_(Store!vars)
  <2>1. PICK via \in Arrivals : Unregister(r, Invocation("remove", id, None, via))
    BY <1>3 DEF Remove
  <2> QED BY <1>3, <2>1, <1>unreg, InvocationType DEF Remove
<1>4. ASSUME NEW r \in Requests, NEW id \in BindingIds, Delete(r, id)
      PROVE  [Store!Next]_(Store!vars)
  <2>1. PICK via \in Arrivals :
          LET record == Invocation("delete", id, None, via) IN
          IF loaded[id] # None
          THEN Unregister(r, record)
          ELSE /\ BeginRemoval(r, record)
               /\ UNCHANGED <<loaded, registered, servient, occupied>>
    BY <1>4 DEF Delete
  <2> DEFINE record == Invocation("delete", id, None, via)
  <2>2. record \in RequestType /\ record.id = id /\ UNCHANGED disk
    BY <1>4, InvocationType DEF Delete
  <2> HIDE DEF record
  <2>3. CASE loaded[id] # None
    BY <2>1, <2>2, <2>3, <1>unreg DEF record
  <2>4. CASE loaded[id] = None
    BY <2>1, <2>2, <2>4, ActiveUnchanged
  <2> QED BY <2>3, <2>4
<1>5. ASSUME NEW r \in Requests,
             \/ \E p \in Packages : Deploy(r, p)
             \/ Staged(r) \/ InstallFails(r) \/ StartFails(r) \/ Undone(r) \/ UndoFails(r)
             \/ Stopped(r) \/ StopFails(r) \/ RmFails(r) \/ Disconnect(r)
      PROVE  [Store!Next]_(Store!vars)
  <2>1. UNCHANGED <<disk, loaded>>
    BY <1>5 DEF Deploy, Staged, InstallFails, StartFails, Undone, UndoFails, Stopped,
       StopFails, RmFails, Disconnect
  <2> QED BY <2>1, ActiveUnchanged
<1>6. ASSUME NEW r \in Requests, Rename(r)
      PROVE  [Store!Next]_(Store!vars)
  <2>1. /\ req[r].id \in BindingIds /\ req[r].pkg \in Packages
        /\ disk[req[r].id] = Absent /\ loaded[req[r].id] = None
        /\ disk' = [disk EXCEPT ![req[r].id] = req[r].pkg]
        /\ UNCHANGED loaded
    BY <1>0, <1>6 DEF Rename, Pending, RequestOK, Standing
  <2>2. Store!Transfer(req[r].id, req[r].pkg)
    BY <2>1 DEF Store!Transfer
  <2> QED BY <2>1, <2>2 DEF Store!Next
<1>7. ASSUME NEW r \in Requests, Installed(r)
      PROVE  [Store!Next]_(Store!vars)
  BY <1>0, <1>7, <1>id, <1>reg DEF Installed, Pending, Standing
<1>8. ASSUME NEW r \in Requests, Started(r)
      PROVE  [Store!Next]_(Store!vars)
  <2> DEFINE held == req[r].held
             id == req[r].id
  <2>1. /\ req[r].phase = "starting" /\ id \in BindingIds /\ loaded[id] = None
        /\ held \in LoadedType /\ held # None /\ held.code = disk[id]
        /\ disk[id] \in Packages /\ Unserved(disk[id]) /\ UNCHANGED disk
    BY <1>0, <1>8 DEF Started, Pending, RequestOK, RequestType, Holding, Standing
  <2>2. UNCHANGED loaded \/ loaded' = [loaded EXCEPT ![id] = held]
    BY <1>8 DEF Started, Enter
  <2> HIDE DEF id, held
  <2>3. CASE UNCHANGED loaded BY <2>1, <2>3, ActiveUnchanged
  <2>4. CASE loaded' = [loaded EXCEPT ![id] = held]
    <3>1. PICK binding \in BindingIds : binding = id BY <2>1
    <3>2. PICK mine \in LoadedType : mine = held BY <2>1
    <3>3. Store!Activate(binding) BY <2>1, <2>4, <3>1, <3>2, EnteredActivates
    <3> QED BY <3>3 DEF Store!Next
  <2> QED BY <2>2, <2>3, <2>4
<1>9. ASSUME NEW r \in Requests, RmPart(r) \/ RmEnd(r)
      PROVE  [Store!Next]_(Store!vars)
  <2> DEFINE id == req[r].id
  <2>1. /\ id \in BindingIds /\ loaded[id] = None /\ UNCHANGED loaded
        /\ \E part \in {Broken, Absent} : disk' = [disk EXCEPT ![id] = part]
        /\ disk[id] = Absent => disk' = [disk EXCEPT ![id] = Absent]
    BY <1>0, <1>9, <1>id DEF RmPart, RmEnd, Standing
  <2> HIDE DEF id
  <2>2. CASE disk[id] = Absent
    <3>1. disk' = disk BY <1>0, <2>1, <2>2
    <3> QED BY <2>1, <3>1, ActiveUnchanged
  <2>3. CASE disk[id] # Absent
    <3>1. Store!Erase(id) BY <2>1, <2>3 DEF Store!Erase
    <3> QED BY <2>1, <3>1 DEF Store!Next
  <2> QED BY <2>2, <2>3
<1>10. ASSUME Restart
       PROVE  [Store!Next]_(Store!vars)
  <2>1. Store!Restart BY <1>10 DEF Restart, Store!Restart
  <2> QED BY <2>1 DEF Store!Next
<1>11. ASSUME NEW i \in Instances, Vacate(i)
       PROVE  [Store!Next]_(Store!vars)
  BY <1>11, ActiveUnchanged DEF Vacate
<1> QED
  BY <1>1, <1>2, <1>3, <1>4, <1>5, <1>6, <1>7, <1>8, <1>9, <1>10, <1>11
  DEF Next, Complete

LEMMA StoreInit == Init => Store!Init
BY DEF Init, Store!Init

(* When invocations do not overlap, the runtime is the store that its      *)
(* Thing Description promises, whatever fails and whenever it restarts:    *)
(* only a package that is completely stored is activated, next to bindings *)
(* that provide none of its schemes, and what runs is what is stored.      *)
THEOREM IsStore ==
    ASSUME Serial
    PROVE  Spec => ImplementsStore
<1>1. SInv /\ [Next]_vars => SInv' BY SInvNext
<1>2. SInv /\ [Next]_vars => [Store!Next]_(Store!vars) BY StoreStep
<1> QED BY SInvInit, StoreInit, <1>1, <1>2, PTL DEF Spec, ImplementsStore, Store!Spec

=============================================================================
