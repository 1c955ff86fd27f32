--------------------------- MODULE ModbusPolling ---------------------------
(***************************************************************************)
(* Subscriptions of the Modbus client (binding-modbus/modbus-client.ts),   *)
(* each of which reads at an interval.  The readings are requests to       *)
(* ModbusConnection, which settles them in the order they come in.         *)
(***************************************************************************)
EXTENDS Naturals, Sequences

CONSTANTS
    Ids,        \* what makes up the key of a subscription
    MaxPolls,   \* bounds on subscriptions, and on readings under way
    MaxReads,
    None

VARIABLES
    polls,          \* all ModbusSubscriptions, in order
    subscriptions   \* _subscriptions: which of them an id has, or None

vars == <<polls, subscriptions>>

\* reading: how many readings are under way; refused: the promise rejected.
NewPoll(id, refused) ==
    [id |-> id, interval |-> TRUE, reading |-> 0, failed |-> FALSE, ended |-> FALSE,
     refused |-> refused, replaced |-> FALSE]

Init == polls = <<>> /\ subscriptions = [id \in Ids |-> None]

\* subscribeResource; the rejection does not keep it from going on.
Subscribe(id) ==
    LET known == subscriptions[id] IN
    /\ Len(polls) < MaxPolls
    /\ polls' = Append([k \in DOMAIN polls |-> [polls[k] EXCEPT !.replaced = (@ \/ known = k)]],
                       NewPoll(id, known # None))
    /\ subscriptions' = [subscriptions EXCEPT ![id] = Len(polls')]

\* The interval does not wait for the reading before.
Tick(k) ==
    /\ polls[k].interval /\ polls[k].reading < MaxReads
    /\ polls' = [polls EXCEPT ![k].reading = @ + 1]
    /\ UNCHANGED subscriptions

\* next() is called, also after the end.
Resolves(k) ==
    /\ polls[k].reading > 0
    /\ polls' = [polls EXCEPT ![k].reading = @ - 1]
    /\ UNCHANGED subscriptions

\* error() is called, and nothing is read any more; the entry stays.
Rejects(k) ==
    /\ polls[k].reading > 0
    /\ polls' = [polls EXCEPT ![k].reading = @ - 1, ![k].interval = FALSE, ![k].failed = TRUE]
    /\ UNCHANGED subscriptions

\* Mutant: the subscriber is told, but readings go on.
EndedPolling(poll) == [poll EXCEPT !.ended = TRUE]

\* unsubscribe()
Ended(poll) == [poll EXCEPT !.interval = FALSE, !.ended = TRUE]

\* The Subscription that a resolved promise gave; the entry stays.
Unsubscribe(k) ==
    /\ ~polls[k].refused
    /\ polls' = [polls EXCEPT ![k] = Ended(@)]
    /\ UNCHANGED subscriptions

\* unlinkResource, which throws for an id that has none.
Unlink(id) ==
    /\ subscriptions[id] # None
    /\ polls' = [polls EXCEPT ![subscriptions[id]] = Ended(@)]
    /\ subscriptions' = [subscriptions EXCEPT ![id] = None]

Next ==
    \/ \E id \in Ids : Subscribe(id) \/ Unlink(id)
    \/ \E k \in DOMAIN polls : Tick(k) \/ Resolves(k) \/ Rejects(k) \/ Unsubscribe(k)

Spec == Init /\ [][Next]_vars

-----------------------------------------------------------------------------
(* Properties                                                              *)

\* Polls of an id go on exactly as long as unlinkResource can end them,
\* unless a reading failed or the subscription was stopped; but a second
\* subscription, which is refused, takes the entry of the first, whose
\* polling only the first subscriber can then end.  This is about
\* _subscriptions, which is set and cleared by three paths.
PollsWhileLinked ==
    \A k \in DOMAIN polls :
        LET linked == subscriptions[polls[k].id] = k
        IN  /\ polls[k].interval => linked \/ polls[k].replaced
            /\ linked => polls[k].interval \/ polls[k].failed \/ polls[k].ended
=============================================================================
