------------------------------ MODULE Runtime ------------------------------
(***************************************************************************)
(* The management runtime of my_runtime/runtime.ts: the Runtime Thing that *)
(* deploys, adds, removes and deletes protocol bindings in a running       *)
(* Servient, with the parts of core/src/servient.ts it uses.               *)
(*                                                                         *)
(* Node.js runs one callback at a time, so a step of the model is the code *)
(* between two awaits that wait for input or output: file operations,      *)
(* server.start() and server.stop().  A handler that has such an await     *)
(* pending is a request with a phase; any other request may run meanwhile. *)
(* A request that is turned down at once, with nothing changed, is a       *)
(* stuttering step.                                                        *)
(***************************************************************************)
EXTENDS Naturals, FiniteSets

CONSTANTS
    BindingIds,     (* ids that match bindingIdPattern                         *)
    Schemes,        (* URI schemes                                             *)
    Packages,       (* binding packages: manifest and entrypoint, see PackageType *)
    Instances,      (* identities of the factory and server one load creates;
                       bounds how many can exist at a time                     *)
    Requests,       (* slots of action invocations: how many overlap           *)
    NativeClients,  (* schemes the CLI servient has client factories for       *)
    NativeServers,  (* schemes the CLI servient has servers for                *)
    Ingress,        (* where invocations come from: "native" for a server of
                       the CLI servient, "dynamic" for a server that a binding
                       brought in                                              *)
    MaxStopFaults,  (* bound: how often server.stop() rejects                  *)
    None, Absent, Broken, Native

Roles == {"client", "server"}

(* A package is its manifest (id, schemes, roles, requires) with what its  *)
(* entrypoint does.  "requires" holds the protocol stacks it asks for, as  *)
(* <<scheme, role>>; the socket interfaces are always there.               *)
(* drains: server.stop() waits for open connections (TCP servers).  *)
PackageType ==
    [id : BindingIds, valid : BOOLEAN, schemes : SUBSET Schemes,
     roles : SUBSET Roles, requires : SUBSET (Schemes \X Roles),
     loads : BOOLEAN,
     factory : {"none", "invalid", "initFails", "ok"}, clientScheme : Schemes,
     server : {"none", "invalid", "exposeThrows", "ok"}, serverScheme : Schemes,
     drains : BOOLEAN]

ASSUME PackagesAssumption == Packages \subseteq PackageType

ASSUME NativesAssumption ==
    /\ NativeClients \subseteq Schemes
    /\ NativeServers \subseteq Schemes
    /\ Ingress \subseteq {"native", "dynamic"}
    /\ MaxStopFaults \in Nat

ASSUME MarkersAssumption ==
    /\ \A set \in {BindingIds, Schemes, Packages, Instances} : None \notin set
    /\ Native \notin Instances \cup {None}
    /\ Absent \notin Packages /\ Broken \notin Packages
    /\ Absent # Broken

VARIABLES
    disk,           (* deployed-bindings/<id>                             *)
    cache,          (* require.cache of each entrypoint                   *)
    loaded,         (* loadedBindings                                     *)
    registered,     (* how many entries of registeredBindings have the id *)
    factories,      (* Servient.clientFactories                           *)
    servers,        (* Servient.servers: the scheme of each dynamic one   *)
    listening,      (* instances whose server holds its port              *)
    req,            (* the pending invocations                            *)
    stopFaults,     (* how often server.stop() has rejected               *)
    occupied        (* instances whose server, told to stop, has a        *)
                    (* connection open that carries no invocation of a    *)
                    (* management action: an idle client, or a request to *)
                    (* another Thing                                      *)

vars == <<disk, cache, loaded, registered, factories, servers, listening, req,
          stopFaults, occupied>>
servient == <<factories, servers, listening>>

(* A LoadedBinding, or one that is being set up or taken down.             *)
LoadedType ==
    [manifest : Packages, code : Packages, inst : Instances,
     client : Schemes \cup {None}, server : BOOLEAN]

ASSUME RecordsAssumption == None \notin LoadedType

Phases == {"idle", "staging", "renaming", "installed", "starting", "undoing",
           "stopping", "removing", "rollback"}

RequestType ==
    [phase : Phases, op : {"none", "deploy", "add", "remove", "delete"},
     id : BindingIds \cup {None}, pkg : Packages \cup {None},
     held : LoadedType \cup {None}, via : Instances \cup {None}]

Idle == [phase |-> "idle", op |-> "none", id |-> None, pkg |-> None,
         held |-> None, via |-> None]

Init ==
    /\ disk = [id \in BindingIds |-> Absent]
    /\ cache = [id \in BindingIds |-> None]
    /\ loaded = [id \in BindingIds |-> None]
    /\ registered = [id \in BindingIds |-> 0]
    /\ factories = [s \in Schemes |-> IF s \in NativeClients THEN Native ELSE None]
    /\ servers = [i \in Instances |-> None]
    /\ listening = {}
    /\ req = [r \in Requests |-> Idle]
    /\ stopFaults = 0
    /\ occupied = {}

-----------------------------------------------------------------------------
(* Bookkeeping of invocations                                              *)

Pending(r, phase) == req[r].phase = phase

Answer(r) == req' = [req EXCEPT ![r] = Idle]

Await(r, phase, held) ==
    req' = [req EXCEPT ![r].phase = phase, ![r].held = held]

(* An invocation comes in over a native server or one a binding provides.  *)
Arrivals ==
    (IF "native" \in Ingress THEN {None} ELSE {})
      \cup (IF "dynamic" \in Ingress THEN {i \in Instances : servers[i] # None} ELSE {})

Invocation(op, id, p, via) ==
    [phase |-> "idle", op |-> op, id |-> id, pkg |-> p, held |-> None, via |-> via]

-----------------------------------------------------------------------------
(* The capability check                                                    *)

LoadedIds == {id \in BindingIds : loaded[id] # None}

(* getSupportedBindings, activeNative: what the Servient has and no loaded *)
(* binding accounts for.                                                   *)
NativeStacks ==
    {<<s, "client">> : s \in {t \in Schemes :
        factories[t] # None /\ \A id \in LoadedIds : loaded[id].client # t}}
    \cup
    {<<s, "server">> : s \in NativeServers
        \cup {servers[i] : i \in {j \in Instances :
                servers[j] # None
                  /\ \A id \in LoadedIds : ~(loaded[id].server /\ loaded[id].inst = j)}}}

(* getCurrentRuntimeState                                                  *)
RegisteredSchemes ==
    UNION {loaded[id].manifest.schemes \cup ({loaded[id].client} \ {None}) :
             id \in LoadedIds}

(* checkBindingCompatibility                                               *)
Compatible(p) ==
    /\ p.requires \subseteq NativeStacks
    /\ p.schemes \cap RegisteredSchemes = {}

-----------------------------------------------------------------------------
(* Registering a binding: loadBinding and registerBinding                  *)

FreshInstances ==
    {i \in Instances :
        /\ servers[i] = None
        /\ i \notin listening \cup occupied
        /\ \A s \in Schemes : factories[s] # i
        /\ \A id \in LoadedIds : loaded[id].inst # i
        /\ \A r \in Requests : req[r].held # None => req[r].held.inst # i}

(* Which identity a load gets does not matter, as long as it is unused.    *)
NewInstance == CHOOSE i \in FreshInstances : TRUE

(* require() answers from its cache when it can.                           *)
Code(id) == IF cache[id] # None THEN cache[id] ELSE disk[id]

WantsClient(manifest, code) == code.factory # "none" /\ "client" \in manifest.roles
WantsServer(manifest, code) == code.server # "none" /\ "server" \in manifest.roles

(* Mutant: registerBinding without the hasClientFor check.                 *)
RefusedUnchecked(manifest, code) ==
    \/ WantsClient(manifest, code) /\ code.factory # "ok"
    \/ WantsServer(manifest, code) /\ code.server = "invalid"
    \/ ~WantsClient(manifest, code) /\ ~WantsServer(manifest, code)

(* isRuntimeClientFactory, hasClientFor, init(), isRuntimeServer, and the  *)
(* check that there is something to register                               *)
Refused(manifest, code) ==
    \/ WantsClient(manifest, code)
         /\ (code.factory # "ok" \/ factories[code.clientScheme] # None)
    \/ WantsServer(manifest, code) /\ code.server = "invalid"
    \/ ~WantsClient(manifest, code) /\ ~WantsServer(manifest, code)

(* removeClientFactory, for the at most one scheme of a binding            *)
WithoutFactory(scheme) ==
    [s \in Schemes |-> IF s = scheme THEN None ELSE factories[s]]

(* The error path: a deployment deletes its files again (first clearing    *)
(* the caches), any other invocation is answered.  "left" is what the      *)
(* error leaves in the module cache.                                       *)
Abort(r, record, left) ==
    IF record.op = "deploy" /\ disk[record.id] # Absent
    THEN /\ cache' = [cache EXCEPT ![record.id] = None]
         /\ req' = [req EXCEPT ![r] =
                      [record EXCEPT !.phase = "rollback", !.held = None]]
    ELSE /\ cache' = [cache EXCEPT ![record.id] = left]
         /\ Answer(r)

(* loadedBindings.set, registeredBindings, bindingAdded                    *)
Enter(id, held) ==
    /\ loaded' = [loaded EXCEPT ![id] = held]
    /\ registered' = [registered EXCEPT ![id] = @ + 1]

(* Everything from the manifest's reading up to await server.start().      *)
Register(r, record) ==
    LET id == record.id  m == disk[record.id]  c == Code(record.id) IN
    \/ /\ m \notin Packages
       /\ Abort(r, record, cache[id])
       /\ UNCHANGED <<loaded, registered, servient>>
    \/ /\ m \in Packages
       /\ ~c.loads \/ Refused(m, c)
       /\ Abort(r, record, IF c.loads THEN None ELSE c)
       /\ UNCHANGED <<loaded, registered, servient>>
    \/ /\ m \in Packages
       /\ c.loads /\ ~Refused(m, c)
       /\ FreshInstances # {}
       /\ LET i == NewInstance
              client == IF WantsClient(m, c) THEN c.clientScheme ELSE None
              held == [manifest |-> m, code |-> c, inst |-> i, client |-> client,
                         server |-> WantsServer(m, c)]
            IN /\ cache' = [cache EXCEPT ![id] = c]
               /\ factories' = [s \in Schemes |-> IF s = client THEN i ELSE factories[s]]
               /\ UNCHANGED <<servers, listening>>
               /\ IF held.server
                  THEN /\ req' = [req EXCEPT ![r] =
                                    [record EXCEPT !.phase = "starting", !.held = held]]
                       /\ UNCHANGED <<loaded, registered>>
                  ELSE /\ Enter(id, held)
                       /\ Answer(r)

(* Mutant: a server whose expose() throws is not stopped.                  *)
StartedUnstopped(r) ==
    LET held == req[r].held IN
    /\ Pending(r, "starting")
    /\ listening' = listening \cup {held.inst}
    /\ IF held.code.server = "exposeThrows"
       THEN /\ factories' = WithoutFactory(held.client)
            /\ Abort(r, req[r], None)
            /\ UNCHANGED <<loaded, registered, servers>>
       ELSE /\ servers' = [servers EXCEPT ![held.inst] = held.code.serverScheme]
            /\ Enter(req[r].id, held)
            /\ Answer(r)
            /\ UNCHANGED <<cache, factories>>
    /\ UNCHANGED <<disk, stopFaults, occupied>>

(* server.start() resolves; addServer exposes the Things and the binding   *)
(* is entered.  A server whose expose() throws is stopped again.           *)
Started(r) ==
    LET held == req[r].held IN
    /\ Pending(r, "starting")
    /\ listening' = listening \cup {held.inst}
    /\ IF held.code.server = "exposeThrows"
       THEN /\ factories' = WithoutFactory(held.client)
            /\ Await(r, "undoing", held)
            /\ UNCHANGED <<loaded, registered, servers>>
       ELSE /\ servers' = [servers EXCEPT ![held.inst] = held.code.serverScheme]
            /\ Enter(req[r].id, held)
            /\ Answer(r)
            /\ UNCHANGED factories
    /\ UNCHANGED <<disk, cache, stopFaults, occupied>>

(* Mutant: the error path forgets the client factory.                      *)
StartFailsKeepingFactory(r) ==
    /\ Pending(r, "starting")
    /\ Abort(r, req[r], None)
    /\ UNCHANGED <<disk, loaded, registered, factories, servers, listening,
                   stopFaults, occupied>>

(* server.start() rejects, for instance because the port is taken.         *)
StartFails(r) ==
    /\ Pending(r, "starting")
    /\ factories' = WithoutFactory(req[r].held.client)
    /\ Abort(r, req[r], None)
    /\ UNCHANGED <<disk, loaded, registered, servers, listening,
                   stopFaults, occupied>>

(* The server.stop() of registerBinding's error path.                      *)
Undone(r) ==
    /\ Pending(r, "undoing")
    /\ listening' = listening \ {req[r].held.inst}
    /\ Abort(r, req[r], None)
    /\ UNCHANGED <<disk, loaded, registered, factories, servers,
                   stopFaults, occupied>>

UndoFails(r) ==
    /\ Pending(r, "undoing")
    /\ stopFaults < MaxStopFaults
    /\ stopFaults' = stopFaults + 1
    /\ listening' \in {listening, listening \ {req[r].held.inst}}
    /\ Abort(r, req[r], cache[req[r].id])
    /\ UNCHANGED <<disk, loaded, registered, factories, servers, occupied>>

-----------------------------------------------------------------------------
(* deployBinding                                                           *)

(* Validation, the two "already" checks and the compatibility check; then  *)
(* the package is written to a temporary directory, which nothing else     *)
(* reads (its name starts with a dot).                                     *)
Deploy(r, p) ==
    /\ Pending(r, "idle")
    /\ p.valid
    /\ loaded[p.id] = None
    /\ disk[p.id] = Absent
    /\ Compatible(p)
    /\ \E via \in Arrivals :
         req' = [req EXCEPT ![r] =
                   [Invocation("deploy", p.id, p, via) EXCEPT !.phase = "staging"]]
    /\ UNCHANGED <<disk, cache, loaded, registered, servient, stopFaults, occupied>>

(* The files are written: existsSync decides whether to rename.            *)
Staged(r) ==
    /\ Pending(r, "staging")
    /\ IF disk[req[r].id] = Absent
       THEN Await(r, "renaming", None)
       ELSE Answer(r)
    /\ UNCHANGED <<disk, cache, loaded, registered, servient, stopFaults, occupied>>

(* rename() does not replace a directory that has files.                   *)
Rename(r) ==
    /\ Pending(r, "renaming")
    /\ disk[req[r].id] = Absent
    /\ disk' = [disk EXCEPT ![req[r].id] = req[r].pkg]
    /\ Await(r, "installed", None)
    /\ UNCHANGED <<cache, loaded, registered, servient, stopFaults, occupied>>

(* mkdir, writeFile or rename rejects; the temporary directory goes.       *)
InstallFails(r) ==
    /\ req[r].phase \in {"staging", "renaming"}
    /\ Answer(r)
    /\ UNCHANGED <<disk, cache, loaded, registered, servient, stopFaults, occupied>>

(* installDeployedBinding has returned: registerBinding runs.              *)
Installed(r) ==
    /\ Pending(r, "installed")
    /\ Register(r, req[r])
    /\ UNCHANGED <<disk, stopFaults, occupied>>

-----------------------------------------------------------------------------
(* addBinding                                                              *)

Add(r, id) ==
    /\ Pending(r, "idle")
    /\ loaded[id] = None
    /\ disk[id] \in Packages
    /\ Compatible(disk[id])
    /\ \E via \in Arrivals : Register(r, Invocation("add", id, None, via))
    /\ UNCHANGED <<disk, stopFaults, occupied>>

-----------------------------------------------------------------------------
(* removeBinding and deleteBinding                                         *)

(* Mutant: the module cache is not cleared.                                *)
BeginRemovalCached(r, record) ==
    /\ IF record.op = "delete" /\ disk[record.id] # Absent
       THEN req' = [req EXCEPT ![r] =
                      [record EXCEPT !.phase = "removing", !.held = None]]
       ELSE Answer(r)
    /\ UNCHANGED cache

(* deleteDeployedBindingFiles: forget the module, then rm().               *)
BeginRemoval(r, record) ==
    /\ cache' = [cache EXCEPT ![record.id] = None]
    /\ IF record.op = "delete" /\ disk[record.id] # Absent
       THEN req' = [req EXCEPT ![r] =
                      [record EXCEPT !.phase = "removing", !.held = None]]
       ELSE Answer(r)

(* Mutant: registeredBindings keeps the entry.                             *)
UnregisteredUnlisted(r, record) ==
    /\ BeginRemoval(r, record)
    /\ UNCHANGED registered

(* unregisterBinding returned true.                                        *)
Unregistered(r, record) ==
    /\ registered' = [registered EXCEPT ![record.id] = 0]
    /\ BeginRemoval(r, record)

(* server.stop(): a TCP server takes no new connections from now on, and   *)
(* the clients it has may be connected without an invocation.              *)
Close(held) ==
    \/ UNCHANGED occupied
    \/ held.code.drains /\ occupied' = occupied \cup {held.inst}

(* Mutant: the binding stays in loadedBindings, and its server in the      *)
(* Servient, while stop() is awaited.                                      *)
UnregisterAfterStop(r, record) ==
    LET held == loaded[record.id] IN
    /\ factories' = WithoutFactory(held.client)
    /\ IF held.server /\ servers[held.inst] # None
       THEN /\ req' = [req EXCEPT ![r] =
                         [record EXCEPT !.phase = "stopping", !.held = held]]
            /\ Close(held)
            /\ UNCHANGED <<cache, loaded, registered>>
       ELSE /\ loaded' = [loaded EXCEPT ![record.id] = None]
            /\ Unregistered(r, record)
            /\ UNCHANGED occupied
    /\ UNCHANGED <<servers, listening>>

(* unregisterBinding up to await removeServer().                           *)
Unregister(r, record) ==
    LET held == loaded[record.id] IN
    /\ loaded' = [loaded EXCEPT ![record.id] = None]
    /\ factories' = WithoutFactory(held.client)
    /\ IF held.server /\ servers[held.inst] # None
       THEN /\ servers' = [servers EXCEPT ![held.inst] = None]
            /\ req' = [req EXCEPT ![r] =
                         [record EXCEPT !.phase = "stopping", !.held = held]]
            /\ Close(held)
            /\ UNCHANGED <<cache, registered>>
       ELSE /\ Unregistered(r, record)
            /\ UNCHANGED <<servers, occupied>>
    /\ UNCHANGED listening

Remove(r, id) ==
    /\ Pending(r, "idle")
    /\ loaded[id] # None
    /\ \E via \in Arrivals : Unregister(r, Invocation("remove", id, None, via))
    /\ UNCHANGED <<disk, stopFaults>>

Delete(r, id) ==
    /\ Pending(r, "idle")
    /\ disk[id] # Absent
    /\ \E via \in Arrivals :
         LET record == Invocation("delete", id, None, via) IN
         IF loaded[id] # None
         THEN Unregister(r, record)
         ELSE /\ BeginRemoval(r, record)
              /\ UNCHANGED <<loaded, registered, servient, occupied>>
    /\ UNCHANGED <<disk, stopFaults>>

(* A TCP server closes when its last connection has gone: a connection     *)
(* stays while an invocation that came in over it is not answered, and for *)
(* as long as a client that says nothing likes.                            *)
Drained(held) ==
    held.code.drains =>
      /\ \A q \in Requests : req[q].via # held.inst
      /\ held.inst \notin occupied

Stopped(r) ==
    /\ Pending(r, "stopping")
    /\ Drained(req[r].held)
    /\ listening' = listening \ {req[r].held.inst}
    /\ Unregistered(r, req[r])
    /\ UNCHANGED <<disk, loaded, factories, servers,
                   stopFaults, occupied>>

(* server.stop() rejects: the handler's catch answers, nothing else.       *)
StopFails(r) ==
    /\ Pending(r, "stopping")
    /\ stopFaults < MaxStopFaults
    /\ stopFaults' = stopFaults + 1
    /\ listening' \in {listening, listening \ {req[r].held.inst}}
    /\ Answer(r)
    /\ UNCHANGED <<disk, cache, loaded, registered, factories, servers, occupied>>

-----------------------------------------------------------------------------
(* rm(bindingPath, { recursive: true }), of deleteBinding and of a         *)
(* deployment's rollback: works on what is at the path by now              *)

RmPart(r) ==
    /\ req[r].phase \in {"removing", "rollback"}
    /\ disk[req[r].id] \in Packages
    /\ disk' = [disk EXCEPT ![req[r].id] = Broken]
    /\ UNCHANGED <<cache, loaded, registered, servient, req, stopFaults, occupied>>

RmEnd(r) ==
    /\ req[r].phase \in {"removing", "rollback"}
    /\ disk' = [disk EXCEPT ![req[r].id] = Absent]
    /\ Answer(r)
    /\ UNCHANGED <<cache, loaded, registered, servient, stopFaults, occupied>>

RmFails(r) ==
    /\ req[r].phase \in {"removing", "rollback"}
    /\ Answer(r)
    /\ UNCHANGED <<disk, cache, loaded, registered, servient, stopFaults, occupied>>

-----------------------------------------------------------------------------
(* The connection a pending invocation came in over is lost; the handler   *)
(* goes on.                                                                *)
Disconnect(r) ==
    /\ ~Pending(r, "idle")
    /\ req[r].via # None
    /\ req' = [req EXCEPT ![r].via = None]
    /\ UNCHANGED <<disk, cache, loaded, registered, servient, stopFaults, occupied>>

(* A client that says nothing leaves when it wants to.                     *)
Vacate(i) ==
    /\ occupied' = occupied \ {i}
    /\ UNCHANGED <<disk, cache, loaded, registered, servient, req, stopFaults>>

(* The process ends and is started again: only the files are left.         *)
Restart ==
    /\ cache' = [id \in BindingIds |-> None]
    /\ loaded' = [id \in BindingIds |-> None]
    /\ registered' = [id \in BindingIds |-> 0]
    /\ factories' = [s \in Schemes |-> IF s \in NativeClients THEN Native ELSE None]
    /\ servers' = [i \in Instances |-> None]
    /\ listening' = {}
    /\ req' = [r \in Requests |-> Idle]
    /\ occupied' = {}
    /\ UNCHANGED <<disk, stopFaults>>

(* What a request waits for settles.                                       *)
Complete(r) ==
    \/ Staged(r) \/ Rename(r) \/ InstallFails(r) \/ Installed(r)
    \/ Started(r) \/ StartFails(r) \/ Undone(r) \/ UndoFails(r)
    \/ Stopped(r) \/ StopFails(r)
    \/ RmEnd(r) \/ RmFails(r)

Next ==
    \/ \E r \in Requests :
         \/ \E p \in Packages : Deploy(r, p)
         \/ \E id \in BindingIds : Add(r, id) \/ Remove(r, id) \/ Delete(r, id)
         \/ Complete(r)
         \/ RmPart(r)
         \/ Disconnect(r)
    \/ \E i \in Instances : Vacate(i)
    \/ Restart

Spec == Init /\ [][Next]_vars

(* Every file operation, start() and stop() settles, a TCP server's stop() *)
(* once its connections are gone; nothing makes a client leave.            *)
Fairness == \A r \in Requests : WF_vars(Complete(r))
FairSpec == Spec /\ Fairness

-----------------------------------------------------------------------------
(* Properties                                                              *)

TypeOK ==
    /\ disk \in [BindingIds -> Packages \cup {Absent, Broken}]
    /\ cache \in [BindingIds -> Packages \cup {None}]
    /\ loaded \in [BindingIds -> LoadedType \cup {None}]
    /\ registered \in [BindingIds -> Nat]
    /\ factories \in [Schemes -> Instances \cup {Native, None}]
    /\ servers \in [Instances -> Schemes \cup {None}]
    /\ listening \subseteq Instances
    /\ req \in [Requests -> RequestType]
    /\ stopFaults \in Nat
    /\ occupied \subseteq Instances

(* However invocations overlap, a factory in the Servient stays with the   *)
(* binding that put it there: nobody's error path or removal takes away    *)
(* the factory of a native binding, of a loaded one, or of one that is     *)
(* still starting (removeClientFactory goes by scheme, not by identity).   *)
FactoryOwnership ==
    /\ \A s \in NativeClients : factories[s] = Native
    /\ \A id \in LoadedIds :
         loaded[id].client # None => factories[loaded[id].client] = loaded[id].inst
    /\ \A r \in Requests :
         Pending(r, "starting") /\ req[r].held.client # None
            => factories[req[r].held.client] = req[r].held.inst

(* However invocations overlap, the server of a loaded binding is in the   *)
(* Servient and listens, and no two invocations stop one server, nor does  *)
(* one stop the server of a loaded binding.                                *)
ServerOwnership ==
    /\ \A id \in LoadedIds :
         loaded[id].server
            => /\ servers[loaded[id].inst] # None
               /\ loaded[id].inst \in listening
    /\ \A r \in Requests : req[r].phase \in {"stopping", "undoing"}
         => /\ \A id \in LoadedIds : loaded[id].inst # req[r].held.inst
            /\ \A q \in Requests \ {r} :
                 req[q].held # None => req[q].held.inst # req[r].held.inst

(* However invocations overlap, no port is left behind: as long as no      *)
(* stop() rejects, a port that is held belongs to a server of the Servient *)
(* or to one that a pending invocation is stopping, although expose() may  *)
(* throw between start() and the server's entry.                           *)
PortsAccounted ==
    stopFaults = 0 =>
      \A i \in listening :
        \/ servers[i] # None
        \/ \E r \in Requests :
             req[r].phase \in {"stopping", "undoing"} /\ req[r].held.inst = i

AllIdle == \A r \in Requests : Pending(r, "idle")

(* Every error path gives back what it took: when no invocation is pending *)
(* the Servient holds the factories and servers of the loaded bindings and *)
(* no others, and unless a stop() rejected no other port is held.          *)
NothingLeaks ==
    AllIdle =>
      /\ \A i \in Instances :
           servers[i] # None
              => \E id \in LoadedIds : loaded[id].server /\ loaded[id].inst = i
      /\ \A s \in Schemes :
           factories[s] \in Instances => \E id \in LoadedIds : loaded[id].client = s
      /\ stopFaults = 0 => listening = {i \in Instances : servers[i] # None}

(* The property registeredBindings lists each loaded binding once, and no  *)
(* other, when no invocation is pending.                                   *)
RegisteredListsLoaded ==
    AllIdle => \A id \in BindingIds :
                 registered[id] = IF id \in LoadedIds THEN 1 ELSE 0

(* The same as long as no server.stop() has rejected.                      *)
RegisteredUnlessStopFailed == stopFaults = 0 => RegisteredListsLoaded

(* The life cycle table: an active binding has its runtime-side files.     *)
ActiveHasFiles == \A id \in LoadedIds : disk[id] \in Packages

(* An invocation that came in over a native server is answered, even when  *)
(* it waits for a server over which invocations of other actions hang,     *)
(* some of them for ever, provided that the clients that say nothing leave *)
(* in the end: stop() has no timeout, and readJsonLine has none for them.  *)
AnsweredNatively ==
    (\A i \in Instances : []<>(i \notin occupied)) =>
      \A r \in Requests :
        ~Pending(r, "idle") /\ req[r].via = None ~> Pending(r, "idle")

(* The life cycle the runtime implements when invocations do not overlap.  *)
Store == INSTANCE BindingStore WITH
    store <- disk,
    active <- [id \in BindingIds |->
                 IF loaded[id] = None THEN Absent ELSE loaded[id].code]
ImplementsStore == Store!Spec
=============================================================================
