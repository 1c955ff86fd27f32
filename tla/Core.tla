-------------------------------- MODULE Core --------------------------------
(* Four parts of the core, which are independent of each other here: what  *)
(* a Consumed Thing chooses, what an Exposed Thing does with requests, how *)
(* the data of one interaction are read, and the codec for octet streams.  *)
EXTENDS ClientChoice

CONSTANTS Properties, ReadOnly, WriteOnly, Actions, Json, Calls, MaxValue,
          Chunks, Readers, Codecs, Outputs, Exchanges

VARIABLES readers, writers, actors, value, calls, emitted, last, pending,
          disordered, spoiled, destroyed,
          output, arrived, state, dataUsed, cached, buffer, stream, reader, overlapped,
          exchange, wire, got

exposedVars == <<readers, writers, actors, value, calls, emitted, last, pending,
                 disordered, spoiled, destroyed>>

dataVars == <<output, arrived, state, dataUsed, cached, buffer, stream, reader, overlapped>>

codecVars == <<exchange, wire, got>>

Exposed == INSTANCE Interactions
Data == INSTANCE InteractionData
Codec == INSTANCE OctetCodec

ASSUME CoreAssumption ==
    /\ MaxValue \in Nat /\ Chunks \in Nat
    /\ None \notin Nat \cup {"whole", "part"}

ASSUME ExchangesAssumption == \A x \in Exchanges : Codec!IsExchange(x)

\* The properties of those three modules.
LastIsCurrent == Exposed!LastIsCurrent
WholeUnlessOverlapped == Data!WholeUnlessOverlapped
CodecExact == Codec!CodecExact
=============================================================================
