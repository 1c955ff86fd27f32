---------------------------- MODULE MessagePool ----------------------------
(***************************************************************************)
(* The connections of the MQTT client to one broker:                       *)
(* binding-mqtt/src/mqtt-message-pool.ts, whose operations the operations  *)
(* of mqtt-client.ts call.  A topic has one callback, whoever asks for it; *)
(* what the broker sends for a topic nobody has a callback for is ignored. *)
(*                                                                         *)
(* The broker takes in a request when it is sent: that it does so later    *)
(* differs only in which messages are sent meanwhile.                      *)
(***************************************************************************)

CONSTANTS
    Topics,
    Calls,          (* callbacks and connections are named after the calls of
                       the application that register and open them          *)
    None

VARIABLES
    client,         (* this.client: the connection, by the call that opened it *)
    subscribers,    (* the call whose callbacks are registered for each topic  *)
    granted,        (* the topics the broker sends over each connection        *)
    ended           (* the connections that end() has closed                   *)

pool == <<client, subscribers, granted, ended>>

PoolInit ==
    /\ client = None
    /\ subscribers = [t \in Topics |-> None]
    /\ granted = [k \in Calls |-> {}]
    /\ ended = {}

(* subscribe, over connection k: a callback is ignored when its topic has  *)
(* one, the broker is asked all the same.                                  *)
Subscribe(k, c, t) ==
    /\ subscribers' = [subscribers EXCEPT ![t] = IF @ = None THEN c ELSE @]
    /\ granted' = IF k \in ended THEN granted
                  ELSE [granted EXCEPT ![k] = @ \cup {t}]

(* Mutant: the callback stays.                                             *)
UnsubscribeKeeping(t) ==
    /\ granted' = [granted EXCEPT ![client] = @ \ {t}]
    /\ UNCHANGED subscribers

(* Mutant: every callback goes.                                            *)
UnsubscribeAll(t) ==
    /\ subscribers' = [u \in Topics |-> None]
    /\ granted' = [granted EXCEPT ![client] = @ \ {t}]

(* unsubscribe: the callback goes, whosever it is, and over the connection *)
(* of now the broker is asked to stop.                                     *)
Unsubscribe(t) ==
    /\ subscribers' = [subscribers EXCEPT ![t] = None]
    /\ granted' = [granted EXCEPT ![client] = @ \ {t}]

(* end: the other connections stay open.                                   *)
End ==
    /\ client # None /\ client \notin ended
    /\ ended' = ended \cup {client}
    /\ subscribers' = [t \in Topics |-> None]
    /\ granted' = [granted EXCEPT ![client] = {}]
    /\ UNCHANGED client

PoolTypeOK ==
    /\ client \in Calls \cup {None}
    /\ subscribers \in [Topics -> Calls \cup {None}]
    /\ granted \in [Calls -> SUBSET Topics]
    /\ ended \subseteq Calls
=============================================================================
