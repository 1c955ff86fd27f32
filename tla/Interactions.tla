---------------------------- MODULE Interactions ----------------------------
(***************************************************************************)
(* What an Exposed Thing does with the requests that servers hand to it    *)
(* (core/src/exposed-thing.ts): it calls the handlers that the application *)
(* has set, which take their time, and notifies the observers of a         *)
(* property with what the read handler says.                               *)
(*                                                                         *)
(* A step is the code between two awaits.  Under which form a listener is  *)
(* registered is the matter of Exposure, what a handler reads out of its   *)
(* input that of InteractionData.                                          *)
(***************************************************************************)
EXTENDS Naturals, SequencesExt

CONSTANTS
    Properties, ReadOnly, WriteOnly, Actions,
    Json,       \* the properties with a form of JSON
    Calls,      \* the calls of one behaviour
    MaxValue,   \* bound on the changes of a property
    None

VARIABLES
    readers, writers, actors,   \* what has a handler
    value,      \* the state of the application: the value of each property
    calls,
    emitted,    \* how many emissions there were
    last,       \* what the observers of a property heard last, or None
    pending,    \* properties changed and not emitted since
    disordered, \* an emission has overtaken an older one of the property
    spoiled,    \* properties with an emission that failed
    destroyed   \* "no", "underway" or "done"

vars == <<readers, writers, actors, value, calls, emitted, last, pending, disordered, spoiled, destroyed>>

\* todo: what is still to be read; since: how many emissions came before.
NewCall == [stage |-> "unused", kind |-> None, todo |-> <<>>, sample |-> None, since |-> 0]

Init ==
    /\ readers = {} /\ writers = {} /\ actors = {}
    /\ value = [p \in Properties |-> 0]
    /\ calls = [c \in Calls |-> NewCall]
    /\ emitted = 0
    /\ last = [p \in Properties |-> None]
    /\ pending = {} /\ disordered = {} /\ spoiled = {}
    /\ destroyed = "no"

Still == <<value, emitted, last, pending, disordered, spoiled>>

-----------------------------------------------------------------------------
(* The application                                                         *)

\* setPropertyReadHandler, setPropertyWriteHandler and setActionHandler
SetHandlers ==
    /\ destroyed = "no"
    /\ \/ \E p \in Properties \ WriteOnly : readers' = readers \cup {p} /\ UNCHANGED <<writers, actors>>
       \/ \E p \in Properties \ ReadOnly : writers' = writers \cup {p} /\ UNCHANGED <<readers, actors>>
       \/ \E a \in Actions : actors' = actors \cup {a} /\ UNCHANGED <<readers, writers>>
    /\ UNCHANGED <<calls, destroyed, Still>>

Changed(p) ==
    /\ value' = [value EXCEPT ![p] = @ + 1]
    /\ pending' = pending \cup {p}

\* The application changes a property by itself.
Change(p) ==
    /\ value[p] < MaxValue
    /\ Changed(p)
    /\ UNCHANGED <<readers, writers, actors, calls, emitted, last, disordered, spoiled, destroyed>>

InFlight(p) == {c \in Calls : calls[c].kind = "emit" /\ calls[c].stage = "handler" /\ calls[c].todo = <<p>>}

\* Mutant: an emission that is under way will do for another one.
EmitsUnlessEmitting(p) == InFlight(p) = {}

Emits(p) == TRUE

Reply(c, stage) == calls' = [calls EXCEPT ![c] = [NewCall EXCEPT !.stage = stage]]
Begin(c, kind, todo) == calls' = [calls EXCEPT ![c] = [@ EXCEPT !.kind = kind, !.todo = todo, !.stage = "handler",
                                                              !.since = emitted]]

\* emitPropertyChange calls the read handler
EmitPropertyChange(c, p) ==
    /\ calls[c].stage = "unused"
    /\ IF p \notin readers THEN Reply(c, "rejected") /\ UNCHANGED <<emitted, pending>>
       ELSE /\ IF Emits(p) THEN Begin(c, "emit", <<p>>) ELSE Reply(c, "done")
            /\ emitted' = emitted + 1
            /\ pending' = pending \ {p}
    /\ UNCHANGED <<readers, writers, actors, value, last, disordered, spoiled, destroyed>>

-----------------------------------------------------------------------------
(* Requests                                                                *)

\* handleReadProperty for one of them, _handleReadProperties for those of
\* JSON: one after the other, and no answer at all when one fails.
HandleRead(c, names) ==
    /\ calls[c].stage = "unused"
    /\ IF names = <<>> THEN Reply(c, "done")
       ELSE IF Head(names) \notin readers THEN Reply(c, "rejected")
       ELSE Begin(c, "read", names)
    /\ UNCHANGED <<readers, writers, actors, destroyed, Still>>

HandleWriteProperty(c, p) ==
    /\ calls[c].stage = "unused"
    /\ IF p \in ReadOnly \/ p \notin writers THEN Reply(c, "rejected") ELSE Begin(c, "write", <<p>>)
    /\ UNCHANGED <<readers, writers, actors, destroyed, Still>>

\* handleWriteMultipleProperties takes the map of contents for an object, in
\* which it finds no entries: it has nothing to wait for.
HandleWriteMultipleProperties(c) ==
    /\ calls[c].stage = "unused"
    /\ Reply(c, "done")
    /\ UNCHANGED <<readers, writers, actors, destroyed, Still>>

HandleInvokeAction(c, a) ==
    /\ calls[c].stage = "unused"
    /\ IF a \notin actors THEN Reply(c, "rejected") ELSE Begin(c, "invoke", <<a>>)
    /\ UNCHANGED <<readers, writers, actors, destroyed, Still>>

-----------------------------------------------------------------------------
(* The handlers                                                            *)

Reads(c) == calls[c].kind \in {"read", "emit"}

\* A read handler looks at the value at some time before it resolves.
Sample(c) ==
    /\ calls[c].stage = "handler" /\ Reads(c) /\ calls[c].sample = None
    /\ calls' = [calls EXCEPT ![c].sample = value[Head(calls[c].todo)]]
    /\ UNCHANGED <<readers, writers, actors, destroyed, Still>>

ReadResolves(c) ==
    LET rest == Tail(calls[c].todo) IN
    /\ calls[c].stage = "handler" /\ calls[c].kind = "read" /\ calls[c].sample # None
    /\ IF rest = <<>> THEN Reply(c, "done")
       ELSE IF Head(rest) \notin readers THEN Reply(c, "rejected")
       ELSE calls' = [calls EXCEPT ![c] = [@ EXCEPT !.todo = rest, !.sample = None]]
    /\ UNCHANGED <<readers, writers, actors, destroyed, Still>>

\* The observers hear what the handler said, if there are any left.
EmitResolves(c) ==
    LET p == Head(calls[c].todo) IN
    /\ calls[c].stage = "handler" /\ calls[c].kind = "emit" /\ calls[c].sample # None
    /\ Reply(c, "done")
    /\ last' = IF destroyed = "done" THEN last ELSE [last EXCEPT ![p] = calls[c].sample]
    /\ disordered' = IF \E d \in InFlight(p) : calls[d].since < calls[c].since
                     THEN disordered \cup {p} ELSE disordered
    /\ UNCHANGED <<readers, writers, actors, value, emitted, pending, spoiled, destroyed>>

OtherResolves(c) ==
    /\ calls[c].stage = "handler" /\ calls[c].kind \in {"write", "invoke"}
    /\ Reply(c, "done")
    /\ IF calls[c].kind = "write" /\ value[Head(calls[c].todo)] < MaxValue
       THEN Changed(Head(calls[c].todo)) ELSE UNCHANGED <<value, pending>>
    /\ UNCHANGED <<readers, writers, actors, emitted, last, disordered, spoiled, destroyed>>

HandlerRejects(c) ==
    /\ calls[c].stage = "handler"
    /\ Reply(c, "rejected")
    /\ spoiled' = IF calls[c].kind = "emit" THEN spoiled \cup {Head(calls[c].todo)} ELSE spoiled
    /\ UNCHANGED <<readers, writers, actors, value, emitted, last, pending, disordered, destroyed>>

-----------------------------------------------------------------------------
(* The end                                                                 *)

\* destroy() first waits for the servers.
Destroy ==
    /\ destroyed = "no" /\ destroyed' = "underway"
    /\ UNCHANGED <<readers, writers, actors, calls, Still>>

\* The listeners go, and the handlers apart from those of actions.
Destroyed ==
    /\ destroyed = "underway" /\ destroyed' = "done"
    /\ readers' = {} /\ writers' = {}
    /\ UNCHANGED <<actors, calls, Still>>

Handled(c) == Sample(c) \/ ReadResolves(c) \/ EmitResolves(c) \/ OtherResolves(c) \/ HandlerRejects(c)

Next ==
    \/ SetHandlers
    \/ \E p \in Properties : Change(p)
    \/ \E c \in Calls :
          \/ \E p \in Properties :
                EmitPropertyChange(c, p) \/ HandleRead(c, <<p>>) \/ HandleWriteProperty(c, p)
          \/ \E names \in SetToAllKPermutations(Json) : HandleRead(c, names)
          \/ HandleWriteMultipleProperties(c)
          \/ \E a \in Actions : HandleInvokeAction(c, a)
          \/ Handled(c)
    \/ Destroy \/ Destroyed

Spec == Init /\ [][Next]_vars

-----------------------------------------------------------------------------
(* Properties                                                              *)

\* Once all emissions of a property are through, its observers have heard its
\* value, if the application has emitted each change; but not if a handler
\* failed, or one resolved before that of an older emission did: then they
\* may be left with the older value.  This is about emitPropertyChange, which
\* awaits the read handler before it notifies.
LastIsCurrent ==
    \A p \in Properties :
        /\ InFlight(p) = {} /\ p \notin pending \cup spoiled \cup disordered
        /\ value[p] > 0 /\ destroyed # "done"
        => last[p] = value[p]
=============================================================================
