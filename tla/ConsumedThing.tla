--------------------------- MODULE ConsumedThing ---------------------------
(***************************************************************************)
(* A Consumed Thing over the MQTT client: the observations, subscriptions  *)
(* and readings of core/src/consumed-thing.ts with the operations of       *)
(* binding-mqtt/src/mqtt-client.ts that carry them out.  The application   *)
(* names no form, so that one client serves the Thing.                     *)
(*                                                                         *)
(* A step is the code between two awaits that wait for the broker.  A call *)
(* that is refused at once is a stuttering step, as is a message to the    *)
(* listener of an observation.                                             *)
(***************************************************************************)
EXTENDS MessagePool, Naturals, FiniteSets

CONSTANTS
    Properties,     (* topics of properties; the others are events'        *)
    MaxFaults       (* bound: how often the broker or the connection fails *)

ASSUME ConsumedAssumption ==
    /\ Properties \subseteq Topics
    /\ None \notin Calls \cup Topics
    /\ MaxFaults \in Nat

VARIABLES
    entry,          (* observedProperties and subscribedEvents               *)
    call,           (* the calls, and the subscriptions they have led to     *)
    faults,
    uncaught,       (* a rejection nobody handles has ended the process      *)
    alone           (* history: of each affordance, whether all its calls so
                       far came one after the other and none failed          *)

vars == <<pool, entry, call, faults, uncaught, alone>>

Over == {"new", "failed", "stopped", "done"}
Phases == Over \cup {"connecting", "subscribing", "established", "stopping",
                    "asking", "waiting", "releasing"}
(* via: the connection over which the call awaits an answer of the broker. *)
CallType ==
    [op : {"none", "observe", "read"}, aff : Topics \cup {None},
     phase : Phases, via : Calls \cup {None}]

Init ==
    /\ PoolInit
    /\ entry = [a \in Topics |-> None]
    /\ call = [c \in Calls |-> [op |-> "none", aff |-> None, phase |-> "new",
                            via |-> None]]
    /\ faults = 0
    /\ uncaught = FALSE
    /\ alone = [a \in Topics |-> TRUE]

-----------------------------------------------------------------------------
In(c, phase) == call[c].phase = phase
Awaits(c, phase, k) == call' = [call EXCEPT ![c].phase = phase, ![c].via = k]
Becomes(c, phase) == Awaits(c, phase, None)

(* The broker answers, or it or the connection fails; one that the pool    *)
(* has ended always does.                                                  *)
Answered(c) == call[c].via # None /\ call[c].via \notin ended
Fault == faults < MaxFaults /\ faults' = faults + 1
Rejected(c) ==
    /\ call[c].via # None
    /\ IF call[c].via \in ended THEN UNCHANGED faults ELSE Fault

(* The other calls about an affordance are over.                           *)
Undisturbed(c, a) ==
    alone' = [alone EXCEPT ![a] =
                @ /\ \A d \in Calls \ {c} : call[d].aff = a => call[d].phase \in Over]
Disturbed(as) == alone' = [a \in Topics |-> alone[a] /\ a \notin as]

(* What a call waits for after pool.subscribe() has been called.  Of a     *)
(* reading nobody awaits the promise of that, only the message.            *)
Subscribing(op) == IF op = "observe" THEN "subscribing" ELSE "asking"

(* observeProperty, subscribeEvent or readProperty up to the first await:  *)
(* that of connectAsync, or of subscribeAsync if there is a connection.    *)
Begin(c, op, a) ==
    /\ In(c, "new")
    /\ op = "observe" => entry[a] = None
    /\ op = "read" => a \in Properties
    /\ Undisturbed(c, a)
    /\ IF client = None
       THEN /\ call' = [call EXCEPT ![c] = [op |-> op, aff |-> a, phase |-> "connecting",
                                         via |-> None]]
            /\ UNCHANGED <<subscribers, granted>>
       ELSE /\ call' = [call EXCEPT ![c] = [op |-> op, aff |-> a, phase |-> Subscribing(op),
                                         via |-> client]]
            /\ Subscribe(client, c, a)
    /\ UNCHANGED <<client, ended, entry, faults, uncaught>>

(* connect(): the connection replaces one that another call has opened     *)
(* meanwhile, which stays open and goes on delivering.                     *)
Connected(c) ==
    /\ In(c, "connecting")
    /\ client' = c
    /\ Awaits(c, Subscribing(call[c].op), c)
    /\ Subscribe(c, c, call[c].aff)
    /\ UNCHANGED <<ended, entry, faults, uncaught, alone>>

ConnectFails(c) ==
    /\ In(c, "connecting")
    /\ Fault
    /\ Becomes(c, "failed")
    /\ UNCHANGED <<pool, entry, uncaught, alone>>

(* Mutant: the entry has been set before the call of the client.           *)
SubscribeFailsEntered(c) ==
    /\ call[c].phase \in {"subscribing", "asking"}
    /\ Rejected(c)
    /\ Becomes(c, "failed")
    /\ entry' = [entry EXCEPT ![call[c].aff] = c]
    /\ Disturbed({call[c].aff})
    /\ UNCHANGED <<pool, uncaught>>

(* subscribeAsync rejects: the callback stays.  Of a reading nobody        *)
(* handles that.                                                           *)
SubscribeFails(c) ==
    /\ call[c].phase \in {"subscribing", "asking"}
    /\ Rejected(c)
    /\ Becomes(c, "failed")
    /\ uncaught' = (call[c].op = "read")
    /\ Disturbed({call[c].aff})
    /\ UNCHANGED <<pool, entry>>

Subscribed(c) ==
    /\ Answered(c)
    /\ \/ /\ In(c, "subscribing")
          /\ Becomes(c, "established")
          /\ entry' = [entry EXCEPT ![call[c].aff] = c]
       \/ /\ In(c, "asking")
          /\ Becomes(c, "waiting")
          /\ UNCHANGED entry
    /\ UNCHANGED <<pool, faults, uncaught, alone>>

-----------------------------------------------------------------------------
(* stop() of a subscription, which may be called again.  The stop() of a   *)
(* property awaits the broker before it deletes the entry, that of an      *)
(* event does not.                                                         *)
Stop(c) ==
    LET a == call[c].aff IN
    /\ call[c].phase \in {"established", "stopped"}
    /\ Unsubscribe(a)
    /\ Undisturbed(c, a)
    /\ IF a \in Properties
       THEN /\ Awaits(c, "stopping", client)
            /\ UNCHANGED entry
       ELSE /\ Awaits(c, "stopped", client)
            /\ entry' = [entry EXCEPT ![a] = None]
    /\ UNCHANGED <<client, ended, faults, uncaught>>

Stopped(c) ==
    /\ call[c].phase \in {"stopping", "stopped"}
    /\ Answered(c)
    /\ Becomes(c, "stopped")
    /\ IF In(c, "stopping")
       THEN entry' = [entry EXCEPT ![call[c].aff] = None]
       ELSE UNCHANGED entry
    /\ UNCHANGED <<pool, faults, uncaught, alone>>

(* unsubscribeAsync rejects: of a property stop() does, and the entry      *)
(* stays; of an event nobody handles that.                                 *)
StopFails(c) ==
    LET a == call[c].aff IN
    /\ Rejected(c)
    /\ \/ /\ In(c, "stopping")
          /\ Becomes(c, IF entry[a] = c THEN "established" ELSE "stopped")
          /\ UNCHANGED uncaught
       \/ /\ In(c, "stopped")
          /\ uncaught' = TRUE
          /\ UNCHANGED call
    /\ Disturbed({a})
    /\ UNCHANGED <<pool, entry>>

-----------------------------------------------------------------------------
(* A message arrives: readResource takes it and unsubscribes, unless it    *)
(* has been rejected before.                                               *)
Deliver(k, a) ==
    LET c == subscribers[a] IN
    /\ a \in granted[k]
    /\ c # None
    /\ call[c].phase \in {"asking", "waiting"}
    /\ Awaits(c, "releasing", client)
    /\ Unsubscribe(a)
    /\ UNCHANGED <<client, ended, entry, faults, uncaught, alone>>

Released(c) ==
    /\ In(c, "releasing")
    /\ \/ Answered(c) /\ Becomes(c, "done") /\ UNCHANGED faults
       \/ Rejected(c) /\ Becomes(c, "failed")
    /\ UNCHANGED <<pool, entry, uncaught, alone>>

(* An error of the connection goes to every callback: readings reject and  *)
(* leave theirs in the pool.                                               *)
ClientError ==
    LET hit == {a \in Topics : /\ subscribers[a] # None
                               /\ call[subscribers[a]].phase \in {"asking", "waiting"}} IN
    /\ Fault
    /\ hit # {}
    /\ call' = [c \in Calls |-> IF \E a \in hit : subscribers[a] = c
                                THEN [call[c] EXCEPT !.phase = "failed", !.via = None] ELSE call[c]]
    /\ Disturbed(hit)
    /\ UNCHANGED <<pool, entry, uncaught>>

(* The client factory is destroyed, and with it the clients.               *)
Destroy ==
    /\ End
    /\ Disturbed(Topics)
    /\ UNCHANGED <<entry, call, faults, uncaught>>

-----------------------------------------------------------------------------
Next ==
    /\ ~uncaught
    /\ \/ \E c \in Calls :
            \/ \E op \in {"observe", "read"}, a \in Topics : Begin(c, op, a)
            \/ Connected(c) \/ ConnectFails(c)
            \/ Subscribed(c) \/ SubscribeFails(c)
            \/ Stop(c) \/ Stopped(c) \/ StopFails(c)
            \/ Released(c)
       \/ \E k \in Calls, a \in Topics : Deliver(k, a)
       \/ ClientError
       \/ Destroy

Spec == Init /\ [][Next]_vars

-----------------------------------------------------------------------------
(* Properties                                                              *)

(* The pool is asked for nothing before it is connected.                   *)
TypeOK ==
    /\ PoolTypeOK
    /\ client = None => \A c \in Calls : call[c].phase \in {"new", "connecting", "failed"}
    /\ entry \in [Topics -> Calls \cup {None}]
    /\ call \in [Calls -> CallType]
    /\ faults \in 0 .. MaxFaults
    /\ uncaught \in BOOLEAN
    /\ alone \in [Topics -> BOOLEAN]

(* However calls overlap and fail, an affordance that counts as observed   *)
(* is: its entry is a subscription that is established and not stopped, so *)
(* that the application can stop it and observe again.                     *)
EntryIsLive ==
    \A a \in Topics :
      LET c == entry[a] IN
      c # None => call[c].aff = a /\ call[c].phase \in {"established", "stopping"}

(* After stop() and after a reading no message reaches the listener, in    *)
(* whatever order the broker answers.                                      *)
StoppedIsSilent ==
    \A a \in Topics :
      LET c == subscribers[a] IN
      c # None => call[c].phase \notin {"new", "stopping", "stopped", "releasing", "done"}

(* Calls about other affordances do no harm, also when each opens a        *)
(* connection of its own and the last one replaces the others: as long as  *)
(* those about one affordance come one after the other and do not fail, a  *)
(* subscription or a reading has the callback and the broker sends to it.  *)
AloneIsServed ==
    \A c \in Calls :
      LET a == call[c].aff IN
      call[c].phase \in {"subscribing", "established", "asking", "waiting"} /\ alone[a]
        => /\ subscribers[a] = c
           /\ \E k \in Calls : a \in granted[k]
           /\ In(c, "established") => entry[a] = c

=============================================================================
