-------------------------- MODULE InteractionData ---------------------------
(***************************************************************************)
(* The data of one interaction (core/src/interaction-output.ts,            *)
(* content.ts, the streams of protocol-helpers.ts and the choice of codecs *)
(* in content-serdes.ts): value(), arrayBuffer() and data of one output,   *)
(* over a stream that comes in chunks, in any order and at any time.       *)
(***************************************************************************)
EXTENDS Naturals

CONSTANTS
    Chunks,     \* how many chunks the stream has
    Readers,    \* the calls of one behaviour
    Codecs,     \* the pairs of media type and scheme with a codec
    Outputs,    \* see OutputType
    None

VARIABLES
    output,     \* the constructor's arguments
    arrived,    \* chunks that have been emitted
    state,      \* of the stream: "paused", "flowing", "ended" or "failed"
    dataUsed, cached, buffer,   \* #value and #buffer, or None
    stream,     \* data has been called
    reader, overlapped

vars == <<output, arrived, state, dataUsed, cached, buffer, stream, reader, overlapped>>

\* form: there is one; schema: whether it has what value() needs.
OutputType(types, schemes) ==
    [type : types, scheme : schemes, form : BOOLEAN, schema : {"absent", "untyped", "typed"}]

NewReader == [stage |-> "unused", kind |-> None, from |-> 0, result |-> None]

Init ==
    /\ output \in Outputs
    /\ arrived = 0 /\ state = "paused"
    /\ dataUsed = FALSE /\ cached = None /\ buffer = None /\ stream = FALSE
    /\ reader = [r \in Readers |-> NewReader]
    /\ overlapped = FALSE

\* findCodec: the codec of a scheme before that of any scheme.
Supported == {<<output.type, output.scheme>>, <<output.type, None>>} \cap Codecs # {}

Settled(r, kind, stage, result) ==
    reader' = [reader EXCEPT ![r] = [@ EXCEPT !.kind = kind, !.stage = stage, !.result = result]]

Reading == {r \in Readers : reader[r].stage \in {"reading", "read"}}

\* readStreamFully, and toWoTStream for data: whoever listens hears what
\* comes from now on; after the end that is nothing, not even the end.
Attach(r, kind) ==
    /\ reader' = [reader EXCEPT ![r] = [@ EXCEPT !.kind = kind, !.from = arrived,
          !.stage = IF state \in {"ended", "failed"} THEN "hung" ELSE "reading"]]
    /\ state' = IF state = "paused" THEN "flowing" ELSE state
    /\ overlapped' = (overlapped \/ Reading # {})

\* Mutant: the check of dataUsed is missing in arrayBuffer().
UsedForValue(kind) == kind = "value" /\ dataUsed

Used(kind) == dataUsed

CallValue(r) ==
    /\ reader[r].stage = "unused"
    /\ IF output.schema = "absent" THEN Settled(r, "value", "done", None) /\ UNCHANGED <<state, overlapped>>
       ELSE IF cached # None THEN Settled(r, "value", "done", cached) /\ UNCHANGED <<state, overlapped>>
       ELSE IF Used("value") \/ ~output.form \/ output.schema = "untyped" \/ ~Supported
       THEN Settled(r, "value", "thrown", None) /\ UNCHANGED <<state, overlapped>>
       ELSE Attach(r, "value")
    /\ UNCHANGED <<output, arrived, dataUsed, cached, buffer, stream>>

\* What value() read is no longer there for arrayBuffer().
CallArrayBuffer(r) ==
    /\ reader[r].stage = "unused"
    /\ IF buffer # None THEN Settled(r, "buffer", "done", buffer) /\ UNCHANGED <<state, overlapped>>
       ELSE IF Used("buffer") THEN Settled(r, "buffer", "thrown", None) /\ UNCHANGED <<state, overlapped>>
       ELSE Attach(r, "buffer")
    /\ UNCHANGED <<output, arrived, dataUsed, cached, buffer, stream>>

\* The stream that the first call made is given to all.
GetData(r) ==
    /\ reader[r].stage = "unused"
    /\ IF stream THEN Settled(r, "data", "done", None) /\ UNCHANGED <<state, overlapped, dataUsed, stream>>
       ELSE IF Used("data")
       THEN Settled(r, "data", "thrown", None) /\ UNCHANGED <<state, overlapped, dataUsed, stream>>
       ELSE Attach(r, "data") /\ dataUsed' = TRUE /\ stream' = TRUE
    /\ UNCHANGED <<output, arrived, cached, buffer>>

Chunk ==
    /\ state = "flowing" /\ arrived < Chunks
    /\ arrived' = arrived + 1
    /\ UNCHANGED <<output, state, dataUsed, cached, buffer, stream, reader, overlapped>>

\* The end resolves the promise of each reader, the rest of whose call is a
\* microtask.
End ==
    /\ state = "flowing" /\ arrived = Chunks /\ state' = "ended"
    /\ reader' = [r \in Readers |->
          IF reader[r].stage = "reading" THEN [reader[r] EXCEPT !.stage = "read"] ELSE reader[r]]
    /\ UNCHANGED <<output, arrived, dataUsed, cached, buffer, stream, overlapped>>

StreamError ==
    /\ state = "flowing" /\ state' = "failed"
    /\ reader' = [r \in Readers |->
          IF reader[r].stage = "reading" THEN [reader[r] EXCEPT !.stage = "thrown"] ELSE reader[r]]
    /\ UNCHANGED <<output, arrived, dataUsed, cached, buffer, stream, overlapped>>

Amount(r) == IF reader[r].from = 0 THEN "whole" ELSE "part"

\* After the await.  A part may be decoded and validated, or be refused; the
\* whole may be refused as well, when it does not comply with the schema.
Continue(r) ==
    /\ reader[r].stage = "read"
    /\ dataUsed' = TRUE
    /\ \/ /\ reader[r].kind = "value"
          /\ \/ /\ Settled(r, "value", "done", Amount(r)) /\ cached' = Amount(r)
             \/ /\ Settled(r, "value", "thrown", None) /\ UNCHANGED cached
          /\ UNCHANGED buffer
       \/ /\ reader[r].kind # "value"
          /\ Settled(r, reader[r].kind, "done", Amount(r))
          /\ buffer' = IF reader[r].kind = "buffer" THEN Amount(r) ELSE buffer
          /\ UNCHANGED cached
    /\ UNCHANGED <<output, arrived, state, stream, overlapped>>

Next ==
    \/ Chunk \/ End \/ StreamError
    \/ \E r \in Readers : CallValue(r) \/ CallArrayBuffer(r) \/ GetData(r) \/ Continue(r)

Spec == Init /\ [][Next]_vars

-----------------------------------------------------------------------------
(* Properties                                                              *)

\* Whoever uses one output one call at a time gets the whole of the data or
\* an exception, and waits for ever only after the stream has failed.  Two
\* calls that overlap may get a part, also as the value that is kept for
\* later calls, or no answer.  This is about dataUsed, which is read before
\* the stream is awaited and set afterwards.
WholeUnlessOverlapped ==
    overlapped \/ \A r \in Readers :
        /\ reader[r].result # "part"
        /\ reader[r].stage = "hung" => state = "failed"
=============================================================================
