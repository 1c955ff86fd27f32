---------------------------- MODULE BindingStore ----------------------------
(***************************************************************************)
(* What the Runtime Thing promises about a protocol binding, without any   *)
(* of the machinery of runtime.ts: the life cycle                          *)
(*                                                                         *)
(*      not deployed  <-->  stored  <-->  active                           *)
(*                                                                         *)
(* A binding is stored when its package is in the deployment store, active *)
(* when it is also registered in the Servient.  Only a package that is     *)
(* completely in the store is activated, only next to active bindings that *)
(* provide none of its schemes, and it runs the code that was transferred. *)
(***************************************************************************)
EXTENDS FiniteSets

CONSTANTS
    BindingIds,     (* the ids under which packages are stored            *)
    Packages,       (* the packages: records with a set of "schemes"      *)
    Absent,         (* the store holds no package of that id              *)
    Broken          (* the store holds only a part of the package's files *)

VARIABLES
    store,          (* the package stored under each id                   *)
    active          (* the package each active binding runs, else Absent  *)

vars == <<store, active>>

Init ==
    /\ store = [id \in BindingIds |-> Absent]
    /\ active = [id \in BindingIds |-> Absent]

(* A complete package appears in the store at once.                        *)
Transfer(id, p) ==
    /\ store[id] = Absent
    /\ active[id] = Absent
    /\ store' = [store EXCEPT ![id] = p]
    /\ UNCHANGED active

(* The stored package starts to run if none of its schemes is served.      *)
Activate(id) ==
    /\ store[id] \in Packages
    /\ active[id] = Absent
    /\ \A other \in BindingIds :
         active[other] # Absent
            => active[other].schemes \cap store[id].schemes = {}
    /\ active' = [active EXCEPT ![id] = store[id]]
    /\ UNCHANGED store

Deactivate(id) ==
    /\ active[id] # Absent
    /\ active' = [active EXCEPT ![id] = Absent]
    /\ UNCHANGED store

(* Deletion is not atomic, but it never touches an active binding.         *)
Erase(id) ==
    /\ store[id] # Absent
    /\ active[id] = Absent
    /\ store' \in {[store EXCEPT ![id] = part] : part \in {Broken, Absent}}
    /\ UNCHANGED active

(* The process ends and comes back: what is stored survives.               *)
Restart ==
    /\ active' = [id \in BindingIds |-> Absent]
    /\ UNCHANGED store

Next ==
    \/ \E id \in BindingIds, p \in Packages : Transfer(id, p)
    \/ \E id \in BindingIds : Activate(id) \/ Deactivate(id) \/ Erase(id)
    \/ Restart

Spec == Init /\ [][Next]_vars
=============================================================================
