----------------------------- MODULE TcpBinding -----------------------------
(***************************************************************************)
(* The binding that the presentation deploys                               *)
(* (my_bindings/new-tcp-binding/index.js): a server and a client that send *)
(* one line of JSON each way over a TCP connection of its own.             *)
(*                                                                         *)
(* Lines come in chunks.  What is in them is left out, but for the path of *)
(* the Thing, and whether a handler of the Thing is called.                *)
(***************************************************************************)
EXTENDS Naturals, FiniteSetsExt, SequencesExt

CONSTANTS
    Things,
    Slug,       \* of the title of each Thing, a sequence of parts
    Addresses,  \* how many addresses the host has
    MaxForms, MaxEntries,   \* bounds
    Calls,      \* the requests of one behaviour
    Chunks      \* in how many parts a line comes

VARIABLES
    server,     \* "none", "opening", "open", "failed" or "draining"
    entries,    \* thingsByPath, in order: [path, thing, index]
    forms,      \* of the property of each Thing: the path, or <<>> in others
    calls,
    died        \* the process of the server has ended

vars == <<server, entries, forms, calls, died>>

\* mute: the peer sends nothing any more, and the connection stays.
NewCall == [stage |-> "unused", path |-> <<>>, op |-> "interact", sent |-> 0, heard |-> 0, mute |-> FALSE]

\* A call of which no more needs to be known than where it is.
At(stage) == [NewCall EXCEPT !.stage = stage]

Init ==
    /\ server = "none"
    /\ entries = <<>>
    /\ forms = [t \in Things |-> <<>>]
    /\ calls = [c \in Calls |-> NewCall]
    /\ died = FALSE

-----------------------------------------------------------------------------
(* The server                                                              *)

\* start(), for a server that has been started does nothing, be it that
\* listening failed or that it is about to stop.
Start ==
    /\ server = "none" /\ ~died /\ server' = "opening"
    /\ UNCHANGED <<entries, forms, calls, died>>

Listens ==
    /\ server = "opening" /\ server' \in {"open", "failed"}
    /\ UNCHANGED <<entries, forms, calls, died>>

\* stop(); it rejects when the server does not listen.
Stop ==
    /\ server = "open" /\ server' = "draining"
    /\ UNCHANGED <<entries, forms, calls, died>>

Connected == {c \in Calls : calls[c].stage \in {"sending", "handling", "answering"}}

\* close() calls back when the last connection is gone.
Drained ==
    /\ server = "draining" /\ Connected = {} /\ server' = "none"
    /\ UNCHANGED <<entries, forms, calls, died>>

ThingPath(t) ==
    LET used == {entries[i].path : i \in DOMAIN entries}
        numbers == 2..(Cardinality(used) + 2)
    IN  IF Slug[t] \notin used THEN Slug[t]
        ELSE Append(Slug[t], Min({n \in numbers : Append(Slug[t], n) \notin used}))

Foreign == <<>>

\* The place of the form for the last address.
IndexAfter(before) == Len(before) + Addresses

\* expose(): the Servient has cleared the forms, and other servers may have
\* added theirs; of a Thing that it has not exposed again they are kept.
Expose(t) ==
    LET path == ThingPath(t)
        again == \E i \in DOMAIN entries : entries[i].thing = t
    IN  /\ Len(entries) < MaxEntries
        /\ \E before \in IF again THEN {<<>>, <<Foreign>>} ELSE {<<>>, <<Foreign>>, forms[t]} :
              /\ Len(before) + Addresses <= MaxForms
              /\ forms' = [forms EXCEPT ![t] = before \o [i \in 1..Addresses |-> path]]
              /\ entries' = Append(entries, [path |-> path, thing |-> t, index |-> IndexAfter(before)])
        /\ UNCHANGED <<server, calls, died>>

\* Another server adds a form.
OtherForm(t) ==
    /\ Len(forms[t]) < MaxForms
    /\ forms' = [forms EXCEPT ![t] = Append(@, Foreign)]
    /\ UNCHANGED <<server, entries, calls, died>>

\* The first entry of the Thing goes, and no other.
DestroyThing(t) ==
    LET places == {i \in DOMAIN entries : entries[i].thing = t} IN
    /\ places # {}
    /\ entries' = RemoveAt(entries, Min(places))
    /\ UNCHANGED <<server, forms, calls, died>>

-----------------------------------------------------------------------------
(* Requests                                                                *)

\* sendTcpMessage, unless the form is not one for the operation.
Request(c, path, op) ==
    /\ calls[c].stage = "unused"
    /\ calls' = [calls EXCEPT ![c] = [NewCall EXCEPT !.path = path, !.op = op,
                                         !.stage = IF server = "open" THEN "sending" ELSE "thrown"]]
    /\ UNCHANGED <<server, entries, forms, died>>

\* readJsonLine; the whole line goes to #handleMessage.
Receive(c) ==
    LET whole == calls[c].sent + 1 = Chunks
        found == \E i \in DOMAIN entries : entries[i].path = calls[c].path
    IN  /\ calls[c].stage = "sending" /\ ~calls[c].mute
        /\ calls' = [calls EXCEPT ![c] =
              IF ~whole THEN [@ EXCEPT !.sent = @ + 1]
              ELSE At(IF found /\ @.op = "interact" THEN "handling" ELSE "answering")]
        /\ UNCHANGED <<server, entries, forms, died>>

\* Mutant: only what a handler resolves with is answered.
AnswersResolved(outcome) == outcome = "resolved"

\* #handleSocket answers with the exception, too.
Answers(outcome) == TRUE

HandlerEnds(c, outcome) ==
    /\ calls[c].stage = "handling"
    /\ calls' = [calls EXCEPT ![c].stage = IF Answers(outcome) THEN "answering" ELSE "silent"]
    /\ UNCHANGED <<server, entries, forms, died>>

\* A part of the answer comes to the client, which closes after the last one.
Hear(c) ==
    /\ calls[c].stage = "answering" /\ ~calls[c].mute
    /\ \E outcome \in {"done", "thrown"} :
          calls' = [calls EXCEPT ![c] = IF @.heard + 1 < Chunks THEN [@ EXCEPT !.heard = @ + 1]
                                        ELSE At(outcome)]
    /\ UNCHANGED <<server, entries, forms, died>>

\* The peer falls silent without closing: neither readJsonLine nor
\* sendTcpMessage has a timeout.
FallsSilent(c) ==
    /\ c \in Connected /\ ~calls[c].mute
    /\ calls' = [calls EXCEPT ![c].mute = TRUE]
    /\ UNCHANGED <<server, entries, forms, died>>

\* Another client connects and sends no line at all.
Idles(c) ==
    /\ calls[c].stage = "unused" /\ server = "open"
    /\ calls' = [calls EXCEPT ![c].stage = "sending", ![c].mute = TRUE]
    /\ UNCHANGED <<server, entries, forms, died>>

ConnectionBreaks(c) ==
    /\ c \in Connected
    /\ calls' = [calls EXCEPT ![c] = At("thrown")]
    /\ UNCHANGED <<server, entries, forms, died>>

\* The process of the server ends.  A client that has heard nothing by the
\* end of its connection waits for ever, what it has heard in part it cannot
\* parse; a connection that is reset makes it throw.
Dies ==
    /\ ~died /\ died' = TRUE
    /\ \E reset \in SUBSET Connected :
          calls' = [c \in Calls |->
              IF c \notin Connected THEN calls[c]
              ELSE At(IF c \in reset \/ calls[c].heard > 0 THEN "thrown" ELSE "hung")]
    /\ server' = "none" /\ entries' = <<>>
    /\ UNCHANGED forms

Paths == {Slug[t] : t \in Things} \cup {Append(Slug[t], 2) : t \in Things}

Next ==
    \/ Start \/ Listens \/ Stop \/ Drained
    \/ \E t \in Things : Expose(t) \/ OtherForm(t) \/ DestroyThing(t)
    \/ \E c \in Calls :
          \/ \E path \in Paths, op \in {"interact", "describe"} : Request(c, path, op)
          \/ Receive(c) \/ Hear(c) \/ ConnectionBreaks(c) \/ FallsSilent(c) \/ Idles(c)
          \/ \E outcome \in {"resolved", "rejected"} : HandlerEnds(c, outcome)
    \/ Dies

\* What a peer that is not silent sends arrives, and the handlers of the
\* application settle.  Nothing is assumed of silent peers.
Fairness ==
    /\ WF_vars(Drained)
    /\ \A c \in Calls :
          WF_vars(Receive(c) \/ Hear(c) \/ \E outcome \in {"resolved", "rejected"} : HandlerEnds(c, outcome))

Spec == Init /\ [][Next]_vars /\ Fairness

-----------------------------------------------------------------------------
(* Properties                                                              *)

\* The form with which a handler is called is the one that leads to the path,
\* for the last entry of each Thing.
IndexIsOwn ==
    \A i \in DOMAIN entries :
        (\A j \in (i + 1)..Len(entries) : entries[j].thing # entries[i].thing) =>
            /\ entries[i].index \in DOMAIN forms[entries[i].thing]
            /\ forms[entries[i].thing][entries[i].index] = entries[i].path

\* Handlers are called with a form of this binding, although servers add
\* forms in any order; each request is settled, whatever the handler does and
\* whenever the connection breaks, unless its peer falls silent or the
\* process of the server ends; and a server that is stopped comes to its end,
\* unless a silent peer holds one of its connections.  This is about
\* #fillThingForms, which counts the forms there are, and about
\* #handleSocket, on which stop() depends.
TcpServes ==
    /\ []IndexIsOwn
    /\ \A c \in Calls :
          calls[c].stage = "sending" ~> calls[c].stage \in {"done", "thrown"} \/ calls[c].mute \/ died
    /\ server = "draining" ~> server # "draining" \/ \E c \in Connected : calls[c].mute
=============================================================================
