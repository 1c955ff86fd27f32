----------------------------- MODULE CoreProofs -----------------------------
(***************************************************************************)
(* Proofs about the core: the data of an interaction, the observers of a   *)
(* property, and the clients of a Consumed Thing, for any number of        *)
(* readers, calls, properties, forms and schemes.                          *)
(***************************************************************************)
EXTENDS Core, FiniteSetTheorems, SequenceTheorems, WellFoundedInduction, TLAPS

-----------------------------------------------------------------------------
(* The data of an interaction                                              *)

ReaderType ==
    [stage : {"unused", "reading", "read", "done", "thrown", "hung"},
     kind : {None, "value", "buffer", "data"}, from : Nat, result : {None, "whole", "part"}]

DataTyped ==
    /\ reader \in [Readers -> ReaderType]
    /\ arrived \in Nat
    /\ state \in {"paused", "flowing", "ended", "failed"}
    /\ overlapped \in BOOLEAN /\ dataUsed \in BOOLEAN
    /\ cached \in {None, "whole", "part"} /\ buffer \in {None, "whole", "part"}

(* One call at a time: it began to listen before the first chunk, and once *)
(* the stream has been read to its end the data count as used.             *)
OneReads ==
    /\ \A r, s \in Data!Reading : r = s
    /\ \A r \in Data!Reading : reader[r].from = 0
    /\ cached # "part" /\ buffer # "part"
    /\ state = "paused" => arrived = 0 /\ Data!Reading = {}
    /\ state = "flowing" => Data!Reading # {}
    /\ state = "ended" => dataUsed \/ Data!Reading # {}
    /\ \A r \in Readers :
         /\ reader[r].stage = "reading" => state = "flowing"
         /\ reader[r].stage = "read" => state = "ended"
         /\ reader[r].result # "part"
         /\ reader[r].stage = "hung" => state = "failed"

DataInv == DataTyped /\ (~overlapped => OneReads)

LEMMA DataInit == Data!Init => DataInv
<1> SUFFICES ASSUME Data!Init PROVE DataInv OBVIOUS
<1>1. \A r \in Readers : reader[r] = Data!NewReader BY DEF Data!Init
<1>2. Data!NewReader \in ReaderType BY DEF Data!NewReader, ReaderType
<1>3. Data!NewReader.stage = "unused" /\ Data!NewReader.result = None BY DEF Data!NewReader
<1>4. None \notin {"whole", "part"} BY CoreAssumption
<1>5. Data!Reading = {} BY <1>1, <1>3 DEF Data!Reading
<1>6. DataTyped BY <1>2 DEF Data!Init, DataTyped
<1>7. OneReads BY <1>1, <1>3, <1>4, <1>5 DEF Data!Init, OneReads
<1> QED BY <1>6, <1>7 DEF DataInv

(* A call that ends without listening to the stream.                       *)
LEMMA SettledStep ==
    ASSUME DataInv, NEW r \in Readers, reader[r].stage = "unused",
           NEW kind \in {"value", "buffer", "data"}, NEW stage \in {"done", "thrown"},
           NEW result \in {None, "whole", "part"}, ~overlapped => result # "part",
           Data!Settled(r, kind, stage, result),
           UNCHANGED <<state, overlapped, arrived, dataUsed, cached, buffer>>
    PROVE  DataInv'
<1> DEFINE record == [reader[r] EXCEPT !.kind = kind, !.stage = stage, !.result = result]
<1>1. reader[r] \in ReaderType /\ reader \in [Readers -> ReaderType] BY DEF DataInv, DataTyped
<1>2. record \in ReaderType /\ record.stage = stage /\ record.result = result
  BY <1>1 DEF ReaderType
<1>3. reader' = [reader EXCEPT ![r] = record] BY <1>1 DEF Data!Settled
<1> HIDE DEF record
<1>4. reader'[r] = record /\ \A s \in Readers \ {r} : reader'[s] = reader[s] BY <1>1, <1>3
<1>5. reader' \in [Readers -> ReaderType] BY <1>1, <1>2, <1>3
<1>6. r \notin Data!Reading BY DEF Data!Reading
<1>7. Data!Reading' = Data!Reading BY <1>2, <1>4, <1>6 DEF Data!Reading
<1>8. ASSUME ~overlapped PROVE OneReads'
  <2>1. OneReads BY <1>8 DEF DataInv
  <2>2. \A s \in Data!Reading : s \in Readers /\ s # r BY <1>6 DEF Data!Reading
  <2>3. /\ \A s, x \in Data!Reading : s = x
        /\ \A s \in Data!Reading : reader'[s].from = 0
    BY <1>4, <2>1, <2>2 DEF OneReads
  <2>4. \A s \in Readers :
          /\ reader'[s].stage = "reading" => state = "flowing"
          /\ reader'[s].stage = "read" => state = "ended"
          /\ reader'[s].result # "part"
          /\ reader'[s].stage = "hung" => state = "failed"
    BY <1>2, <1>4, <1>8, <2>1 DEF OneReads
  <2> QED BY <1>7, <2>1, <2>3, <2>4 DEF OneReads
<1> QED BY <1>5, <1>8 DEF DataInv, DataTyped

(* A call that listens to the stream, whose data have not been used.       *)
LEMMA AttachStep ==
    ASSUME DataInv, NEW r \in Readers, reader[r].stage = "unused",
           NEW kind \in {"value", "buffer", "data"}, ~dataUsed,
           Data!Attach(r, kind), UNCHANGED <<arrived, cached, buffer>>,
           dataUsed' \in BOOLEAN
    PROVE  DataInv'
<1>1. reader[r] \in ReaderType /\ reader \in [Readers -> ReaderType] BY DEF DataInv, DataTyped
<1>2. PICK stage \in {"hung", "reading"} :
        stage = IF state \in {"ended", "failed"} THEN "hung" ELSE "reading"
  OBVIOUS
<1>3. PICK from \in Nat : from = arrived BY DEF DataInv, DataTyped
<1> DEFINE record == [reader[r] EXCEPT !.kind = kind, !.from = from, !.stage = stage]
<1>4. /\ record \in ReaderType /\ record.stage = stage /\ record.from = from
      /\ record.result = reader[r].result
  BY <1>1 DEF ReaderType
<1>5. reader' = [reader EXCEPT ![r] = record] BY <1>1, <1>2, <1>3 DEF Data!Attach
<1> HIDE DEF record
<1>6. reader'[r] = record /\ \A s \in Readers \ {r} : reader'[s] = reader[s] BY <1>1, <1>5
<1>7. reader' \in [Readers -> ReaderType] BY <1>1, <1>4, <1>5
<1>8. /\ state' = IF state = "paused" THEN "flowing" ELSE state
      /\ overlapped' = (overlapped \/ Data!Reading # {})
  BY DEF Data!Attach
<1>9. ASSUME ~overlapped' PROVE OneReads'
  <2>1. OneReads /\ Data!Reading = {} BY <1>8, <1>9 DEF DataInv
  <2>2. state \in {"paused", "failed"} BY <2>1 DEF OneReads, DataInv, DataTyped
  <2>3. CASE state = "paused"
    <3>1. state' = "flowing" /\ stage = "reading" /\ from = 0
      BY <1>2, <1>3, <1>8, <2>1, <2>3 DEF OneReads
    <3>2. Data!Reading' = {r} BY <1>4, <1>6, <2>1, <3>1 DEF Data!Reading
    <3> QED BY <1>4, <1>6, <2>1, <2>3, <3>1, <3>2 DEF OneReads
  <2>4. CASE state = "failed"
    <3>1. state' = "failed" /\ stage = "hung" BY <1>2, <1>8, <2>4
    <3>2. Data!Reading' = {} BY <1>4, <1>6, <2>1, <3>1 DEF Data!Reading
    <3> QED BY <1>4, <1>6, <2>1, <3>1, <3>2 DEF OneReads
  <2> QED BY <2>2, <2>3, <2>4
<1>10. state' \in {"paused", "flowing", "ended", "failed"} /\ overlapped' \in BOOLEAN
  BY <1>8 DEF DataInv, DataTyped
<1> QED BY <1>7, <1>9, <1>10 DEF DataInv, DataTyped

(* The stream ends or fails: those who listen go on.                       *)
LEMMA StreamStep ==
    ASSUME DataInv, NEW stage \in {"read", "thrown"},
           state = "flowing", state' = (IF stage = "read" THEN "ended" ELSE "failed"),
           reader' = [r \in Readers |-> IF reader[r].stage = "reading"
                        THEN [reader[r] EXCEPT !.stage = stage] ELSE reader[r]],
           UNCHANGED <<arrived, dataUsed, cached, buffer, overlapped>>
    PROVE  DataInv'
<1>1. ASSUME NEW r \in Readers
      PROVE  /\ reader'[r] \in ReaderType
             /\ reader'[r].result = reader[r].result /\ reader'[r].from = reader[r].from
             /\ reader'[r].stage = IF reader[r].stage = "reading" THEN stage ELSE reader[r].stage
  <2>1. reader[r] \in ReaderType BY DEF DataInv, DataTyped
  <2> DEFINE record == [reader[r] EXCEPT !.stage = stage]
  <2>2. /\ record \in ReaderType /\ record.stage = stage
        /\ record.result = reader[r].result /\ record.from = reader[r].from
    BY <2>1 DEF ReaderType
  <2>3. reader'[r] = IF reader[r].stage = "reading" THEN record ELSE reader[r] OBVIOUS
  <2> HIDE DEF record
  <2> QED BY <2>1, <2>2, <2>3
<1>2. reader' \in [Readers -> ReaderType] BY <1>1
<1>3. Data!Reading' \subseteq Data!Reading BY <1>1 DEF Data!Reading
<1>4. stage = "read" => Data!Reading' = Data!Reading BY <1>1 DEF Data!Reading
<1>5. ASSUME ~overlapped PROVE OneReads'
  <2>1. OneReads BY <1>5 DEF DataInv
  <2>2. /\ \A r, s \in Data!Reading' : r = s
        /\ \A r \in Data!Reading' : reader'[r].from = 0
    BY <1>1, <1>3, <2>1 DEF OneReads, Data!Reading
  <2>3. \A r \in Readers :
          /\ reader'[r].stage # "reading" /\ reader'[r].result # "part"
          /\ reader'[r].stage # "hung"
          /\ reader'[r].stage = "read" => stage = "read"
    BY <1>1, <2>1 DEF OneReads
  <2> QED BY <1>4, <2>1, <2>2, <2>3 DEF OneReads
<1> QED BY <1>2, <1>5 DEF DataInv, DataTyped

LEMMA ContinueStep ==
    ASSUME DataInv, NEW r \in Readers, Data!Continue(r)
    PROVE  DataInv'
<1>0. /\ reader[r].stage = "read" /\ dataUsed' = TRUE
      /\ UNCHANGED <<output, arrived, state, stream, overlapped>>
  BY DEF Data!Continue
<1>1. reader[r] \in ReaderType /\ reader \in [Readers -> ReaderType] BY DEF DataInv, DataTyped
<1>2. PICK amount \in {"whole", "part"} : amount = Data!Amount(r) BY DEF Data!Amount
<1>3. ~overlapped => amount = "whole"
  <2>1. r \in Data!Reading BY <1>0 DEF Data!Reading
  <2> QED BY <1>2, <2>1 DEF DataInv, OneReads, Data!Amount
<1>4. /\ cached' \in {cached, amount} /\ buffer' \in {buffer, amount}
      /\ \/ Data!Settled(r, reader[r].kind, "done", amount)
         \/ Data!Settled(r, reader[r].kind, "thrown", None)
  BY <1>2 DEF Data!Continue
<1>5. PICK kind \in {None, "value", "buffer", "data"} : kind = reader[r].kind
  BY <1>1 DEF ReaderType
<1>6. PICK stage \in {"done", "thrown"}, result \in {None, amount} :
        Data!Settled(r, kind, stage, result)
  BY <1>4, <1>5
<1> DEFINE record == [reader[r] EXCEPT !.kind = kind, !.stage = stage, !.result = result]
<1>7. record \in ReaderType /\ record.stage = stage /\ record.result = result
  BY <1>1 DEF ReaderType
<1>8. reader' = [reader EXCEPT ![r] = record] BY <1>1, <1>6 DEF Data!Settled
<1> HIDE DEF record
<1>9. reader'[r] = record /\ \A s \in Readers \ {r} : reader'[s] = reader[s] BY <1>1, <1>8
<1>10. reader' \in [Readers -> ReaderType] BY <1>1, <1>7, <1>8
<1>11. Data!Reading' = Data!Reading \ {r} BY <1>7, <1>9 DEF Data!Reading
<1>12. ASSUME ~overlapped PROVE OneReads'
  <2>1. OneReads BY <1>12 DEF DataInv
  <2>2. r \in Data!Reading BY <1>0 DEF Data!Reading
  <2>3. state = "ended" BY <1>0, <2>1 DEF OneReads
  <2>5. result # "part" BY <1>3, <1>12, CoreAssumption
  <2>6. cached' # "part" /\ buffer' # "part" BY <1>3, <1>4, <1>12, <2>1 DEF OneReads
  <2>7. \A s \in Data!Reading' : s \in Data!Reading /\ reader'[s].from = 0
    BY <1>9, <1>11, <2>1 DEF OneReads, Data!Reading
  <2>8. \A s \in Readers :
          /\ reader'[s].stage = "reading" => state' = "flowing"
          /\ reader'[s].stage = "read" => state' = "ended"
          /\ reader'[s].result # "part"
          /\ reader'[s].stage = "hung" => state' = "failed"
    BY <1>0, <1>7, <1>9, <2>1, <2>5 DEF OneReads
  <2> QED BY <1>0, <2>1, <2>3, <2>6, <2>7, <2>8 DEF OneReads
<1>13. DataTyped' BY <1>0, <1>4, <1>10 DEF DataInv, DataTyped
<1> QED BY <1>0, <1>12, <1>13 DEF DataInv

LEMMA DataStep == DataInv /\ [Data!Next]_Data!vars => DataInv'
<1> SUFFICES ASSUME DataInv, [Data!Next]_Data!vars PROVE DataInv' OBVIOUS
<1>1. CASE UNCHANGED Data!vars
  BY <1>1 DEF Data!vars, DataInv, DataTyped, OneReads, Data!Reading
<1>2. CASE Data!Chunk
  <2>1. state = "flowing" /\ arrived' = arrived + 1 BY <1>2 DEF Data!Chunk
  <2>2. UNCHANGED <<state, dataUsed, cached, buffer, reader, overlapped>> BY <1>2 DEF Data!Chunk
  <2> QED BY <2>1, <2>2 DEF DataInv, DataTyped, OneReads, Data!Reading
<1>3. CASE Data!End BY <1>3, StreamStep DEF Data!End
<1>4. CASE Data!StreamError BY <1>4, StreamStep DEF Data!StreamError
<1>5. ASSUME NEW r \in Readers, Data!CallValue(r) PROVE DataInv'
  <2>1. reader[r].stage = "unused" /\ UNCHANGED <<output, arrived, dataUsed, cached, buffer, stream>>
    BY <1>5 DEF Data!CallValue
  <2>2. CASE /\ UNCHANGED <<state, overlapped>>
             /\ \/ Data!Settled(r, "value", "done", None)
                \/ Data!Settled(r, "value", "thrown", None)
    BY <2>1, <2>2, SettledStep, CoreAssumption
  <2>3. CASE /\ Data!Settled(r, "value", "done", cached) /\ cached # None
             /\ UNCHANGED <<state, overlapped>>
    BY <2>1, <2>3, SettledStep DEF DataInv, DataTyped, OneReads
  <2>4. CASE ~dataUsed /\ Data!Attach(r, "value")
    BY <2>1, <2>4, AttachStep DEF DataInv, DataTyped
  <2> QED BY <1>5, <2>2, <2>3, <2>4 DEF Data!CallValue, Data!Used
<1>6. ASSUME NEW r \in Readers, Data!CallArrayBuffer(r) PROVE DataInv'
  <2>1. reader[r].stage = "unused" /\ UNCHANGED <<output, arrived, dataUsed, cached, buffer, stream>>
    BY <1>6 DEF Data!CallArrayBuffer
  <2>2. CASE UNCHANGED <<state, overlapped>> /\ Data!Settled(r, "buffer", "thrown", None)
    BY <2>1, <2>2, SettledStep, CoreAssumption
  <2>3. CASE /\ Data!Settled(r, "buffer", "done", buffer) /\ buffer # None
             /\ UNCHANGED <<state, overlapped>>
    BY <2>1, <2>3, SettledStep DEF DataInv, DataTyped, OneReads
  <2>4. CASE ~dataUsed /\ Data!Attach(r, "buffer")
    BY <2>1, <2>4, AttachStep DEF DataInv, DataTyped
  <2> QED BY <1>6, <2>2, <2>3, <2>4 DEF Data!CallArrayBuffer, Data!Used
<1>7. ASSUME NEW r \in Readers, Data!GetData(r) PROVE DataInv'
  <2>1. reader[r].stage = "unused" /\ UNCHANGED <<output, arrived, cached, buffer>>
    BY <1>7 DEF Data!GetData
  <2>2. CASE /\ UNCHANGED <<state, overlapped, dataUsed>>
             /\ \/ Data!Settled(r, "data", "done", None)
                \/ Data!Settled(r, "data", "thrown", None)
    BY <2>1, <2>2, SettledStep, CoreAssumption
  <2>3. CASE ~dataUsed /\ Data!Attach(r, "data") /\ dataUsed' = TRUE
    BY <2>1, <2>3, AttachStep
  <2> QED BY <1>7, <2>2, <2>3 DEF Data!GetData, Data!Used
<1>8. ASSUME NEW r \in Readers, Data!Continue(r) PROVE DataInv'
  BY <1>8, ContinueStep
<1> QED BY <1>1, <1>2, <1>3, <1>4, <1>5, <1>6, <1>7, <1>8 DEF Data!Next

(* Whoever uses an output one call at a time gets the whole data or an     *)
(* exception: dataUsed is read before the stream is awaited and set after, *)
(* which only calls that overlap can observe.                              *)
THEOREM WholeOneAtATime == Data!Spec => []WholeUnlessOverlapped
<1>1. DataInv => WholeUnlessOverlapped
  BY DEF DataInv, OneReads, WholeUnlessOverlapped, Data!WholeUnlessOverlapped
<1> QED BY <1>1, DataInit, DataStep, PTL DEF Data!Spec

-----------------------------------------------------------------------------
(* The observers of a property                                             *)

IsCall(x) ==
    x = [stage |-> x.stage, kind |-> x.kind, todo |-> x.todo, sample |-> x.sample, since |-> x.since]

IsEmission(x) == x.kind = "emit" /\ x.stage = "handler"

Emitting == {c \in Calls : IsEmission(calls[c])}

Newest(c, p) == \A d \in Exposed!InFlight(p) : calls[d].since <= calls[c].since

(* While emissions are under way, the newest will tell the current value;  *)
(* when there are none, the observers have heard it.                       *)
Current(p) ==
    /\ p \notin pending /\ p \notin spoiled /\ p \notin disordered
    /\ value[p] > 0 /\ destroyed # "done"
    => /\ Exposed!InFlight(p) = {} => last[p] = value[p]
       /\ Exposed!InFlight(p) # {} =>
             \E w \in Exposed!InFlight(p) : Newest(w, p) /\ calls[w].sample \in {None, value[p]}

EmissionOK(x, before) ==
    /\ \E p \in Properties : x.todo = <<p>>
    /\ x.sample \in Nat \cup {None}
    /\ x.since \in Nat /\ x.since < before

CallsOK ==
    /\ calls = [c \in Calls |-> calls[c]]
    /\ \A c \in Calls : IsCall(calls[c]) /\ (calls[c].stage = "unused" => calls[c].sample = None)

EmissionsOK ==
    /\ \A c \in Emitting : EmissionOK(calls[c], emitted)
    /\ \A c, d \in Emitting : calls[c].since = calls[d].since => c = d

ExposedTyped ==
    /\ value \in [Properties -> Nat] /\ last \in [Properties -> Nat \cup {None}]
    /\ emitted \in Nat

ExposedInv == ExposedTyped /\ CallsOK /\ EmissionsOK /\ \A p \in Properties : Current(p)

LEMMA InFlightIs ==
    ASSUME NEW p
    PROVE  /\ Exposed!InFlight(p) = {c \in Emitting : calls[c].todo = <<p>>}
           /\ Exposed!InFlight(p)' = {c \in Emitting' : calls'[c].todo = <<p>>}
BY DEF Exposed!InFlight, Emitting, IsEmission

LEMMA ExposedInit == Exposed!Init => ExposedInv
<1> SUFFICES ASSUME Exposed!Init PROVE ExposedInv OBVIOUS
<1>1. /\ calls = [c \in Calls |-> Exposed!NewCall] /\ emitted = 0
      /\ value = [p \in Properties |-> 0] /\ last = [p \in Properties |-> None]
  BY DEF Exposed!Init
<1>2. \A c \in Calls : calls[c] = Exposed!NewCall BY <1>1
<1>3. /\ IsCall(Exposed!NewCall) /\ Exposed!NewCall.sample = None
      /\ ~IsEmission(Exposed!NewCall)
  BY DEF IsCall, IsEmission, Exposed!NewCall
<1>4. CallsOK BY <1>1, <1>2, <1>3 DEF CallsOK
<1>5. Emitting = {} BY <1>2, <1>3 DEF Emitting
<1>6. EmissionsOK BY <1>5 DEF EmissionsOK
<1>7. \A p \in Properties : Current(p) BY <1>1 DEF Current
<1>8. ExposedTyped BY <1>1 DEF ExposedTyped
<1> QED BY <1>4, <1>6, <1>7, <1>8 DEF ExposedInv

(* Nothing happens to an emission, and a property that changes is pending. *)
LEMMA QuietStep ==
    ASSUME ExposedInv, CallsOK', Emitting' = Emitting,
           \A c \in Emitting : calls'[c] = calls[c],
           value' \in [Properties -> Nat],
           \A p \in Properties : \/ value'[p] = value[p] /\ (p \in pending => p \in pending')
                                 \/ p \in pending',
           UNCHANGED <<emitted, last, spoiled, disordered>>,
           destroyed = "done" => destroyed' = "done"
    PROVE  ExposedInv'
<1>1. \A p \in Properties : Exposed!InFlight(p)' = Exposed!InFlight(p)
  BY InFlightIs
<1>2. ASSUME NEW p \in Properties PROVE Current(p)'
  <2> SUFFICES ASSUME p \notin pending', p \notin spoiled', p \notin disordered',
                      value'[p] > 0, destroyed' # "done"
               PROVE  /\ Exposed!InFlight(p)' = {} => last'[p] = value'[p]
                      /\ Exposed!InFlight(p)' # {} =>
                            \E w \in Exposed!InFlight(p)' :
                              Newest(w, p)' /\ calls'[w].sample \in {None, value'[p]}
    BY DEF Current
  <2>1. value'[p] = value[p] /\ p \notin pending OBVIOUS
  <2>2. Current(p) BY DEF ExposedInv
  <2>3. \A c \in Exposed!InFlight(p) : calls'[c] = calls[c] BY InFlightIs
  <2>4. \A c \in Exposed!InFlight(p) : Newest(c, p) => Newest(c, p)'
    BY <1>1, <2>3 DEF Newest
  <2> QED BY <1>1, <2>1, <2>2, <2>3, <2>4 DEF Current
<1>3. EmissionsOK' BY DEF EmissionsOK, EmissionOK, ExposedInv
<1>4. ExposedTyped' BY DEF ExposedTyped, ExposedInv
<1> QED BY <1>2, <1>3, <1>4 DEF ExposedInv

(* A call that is no emission, neither before nor after.                   *)
LEMMA OtherCallStep ==
    ASSUME ExposedInv, NEW c \in Calls, NEW record, ~IsEmission(calls[c]), IsCall(record),
           ~IsEmission(record), record.stage = "unused" => record.sample = None,
           calls' = [calls EXCEPT ![c] = record]
    PROVE  CallsOK' /\ Emitting' = Emitting /\ \A d \in Emitting : calls'[d] = calls[d]
<1>1. calls = [d \in Calls |-> calls[d]] BY DEF ExposedInv, CallsOK
<1>2. /\ calls'[c] = record /\ \A d \in Calls \ {c} : calls'[d] = calls[d]
      /\ calls' = [d \in Calls |-> calls'[d]]
  BY <1>1
<1>3. CallsOK' BY <1>2 DEF ExposedInv, CallsOK
<1>4. Emitting' = Emitting BY <1>2 DEF Emitting
<1>5. \A d \in Emitting : d # c BY DEF Emitting
<1> QED BY <1>2, <1>3, <1>4, <1>5 DEF Emitting

(* What Reply and Begin make of a call.                                    *)
LEMMA ReplyIs ==
    ASSUME NEW c, NEW stage, Exposed!Reply(c, stage)
    PROVE  \E record : /\ calls' = [calls EXCEPT ![c] = record] /\ IsCall(record)
                       /\ record.stage = stage /\ record.kind = None /\ record.sample = None
<1> DEFINE record == [Exposed!NewCall EXCEPT !.stage = stage]
<1>1. /\ IsCall(record) /\ record.stage = stage /\ record.kind = None /\ record.sample = None
  BY DEF IsCall, Exposed!NewCall
<1>2. calls' = [calls EXCEPT ![c] = record] BY DEF Exposed!Reply
<1> HIDE DEF record
<1> QED BY <1>1, <1>2

LEMMA BeginIs ==
    ASSUME ExposedInv, NEW c \in Calls, NEW kind, NEW todo, Exposed!Begin(c, kind, todo)
    PROVE  \E record : /\ calls' = [calls EXCEPT ![c] = record] /\ IsCall(record)
                       /\ record.stage = "handler" /\ record.kind = kind /\ record.todo = todo
                       /\ record.sample = calls[c].sample /\ record.since = emitted
<1> DEFINE record == [calls[c] EXCEPT !.kind = kind, !.todo = todo, !.stage = "handler",
                                      !.since = emitted]
<1>1. IsCall(calls[c]) /\ calls = [d \in Calls |-> calls[d]] BY DEF ExposedInv, CallsOK
<1>2. PICK s, k, t, m, n : calls[c] = [stage |-> s, kind |-> k, todo |-> t, sample |-> m, since |-> n]
  BY <1>1 DEF IsCall
<1>3. /\ IsCall(record) /\ record.stage = "handler" /\ record.kind = kind
      /\ record.todo = todo /\ record.sample = calls[c].sample /\ record.since = emitted
  <2>0. calls[c] \in [stage : {s}, kind : {k}, todo : {t}, sample : {m}, since : {n}] BY <1>2
  <2>1. record \in [stage : {"handler"}, kind : {kind}, todo : {todo}, sample : {m}, since : {emitted}]
    BY <2>0
  <2>2. calls[c].sample = m BY <1>2
  <2> HIDE DEF record
  <2>3. /\ record.stage = "handler" /\ record.kind = kind
        /\ record.todo = todo /\ record.sample = m /\ record.since = emitted
    BY <2>1
  <2> QED BY <2>1, <2>2, <2>3 DEF IsCall
<1>4. calls' = [calls EXCEPT ![c] = record] BY <1>1 DEF Exposed!Begin
<1> HIDE DEF record
<1> QED BY <1>3, <1>4

(* A request that is answered or handed to a handler, which is no emission. *)
LEMMA ReplyStep ==
    ASSUME ExposedInv, NEW c \in Calls, ~IsEmission(calls[c]),
           NEW stage \in {"done", "rejected"}, Exposed!Reply(c, stage)
    PROVE  CallsOK' /\ Emitting' = Emitting /\ \A d \in Emitting : calls'[d] = calls[d]
<1>1. PICK record : /\ calls' = [calls EXCEPT ![c] = record] /\ IsCall(record)
                    /\ record.stage = stage /\ record.kind = None /\ record.sample = None
  BY ReplyIs
<1>2. ~IsEmission(record) BY <1>1 DEF IsEmission
<1> QED BY <1>1, <1>2, OtherCallStep

LEMMA BeginStep ==
    ASSUME ExposedInv, NEW c \in Calls, ~IsEmission(calls[c]), NEW todo,
           NEW kind \in {"read", "write", "invoke"}, Exposed!Begin(c, kind, todo)
    PROVE  CallsOK' /\ Emitting' = Emitting /\ \A d \in Emitting : calls'[d] = calls[d]
<1>1. PICK record : /\ calls' = [calls EXCEPT ![c] = record] /\ IsCall(record)
                    /\ record.stage = "handler" /\ record.kind = kind
  BY BeginIs
<1>2. ~IsEmission(record) BY <1>1 DEF IsEmission
<1> QED BY <1>1, <1>2, OtherCallStep

(* A handler looks at the value.                                           *)
LEMMA SampleIs ==
    ASSUME ExposedInv, NEW c \in Calls, Exposed!Sample(c),
           NEW v, v = value[Head(calls[c].todo)]
    PROVE  \E record :
             /\ calls' = [calls EXCEPT ![c] = record]
             /\ IsCall(record) /\ record.stage = calls[c].stage /\ record.kind = calls[c].kind
             /\ record.todo = calls[c].todo /\ record.sample = v /\ record.since = calls[c].since
<1> DEFINE record == [calls[c] EXCEPT !.sample = v]
<1>1. IsCall(calls[c]) BY DEF ExposedInv, CallsOK
<1>2. PICK s, k, t, m, n : calls[c] = [stage |-> s, kind |-> k, todo |-> t, sample |-> m, since |-> n]
  BY <1>1 DEF IsCall
<1>3. calls[c] \in [stage : {s}, kind : {k}, todo : {t}, sample : {m}, since : {n}] BY <1>2
<1>4. record \in [stage : {s}, kind : {k}, todo : {t}, sample : {v}, since : {n}] BY <1>3
<1>5. calls[c].stage = s /\ calls[c].todo = t /\ calls[c].kind = k /\ calls[c].since = n BY <1>2
<1>7. calls' = [calls EXCEPT ![c] = record] BY DEF ExposedInv, CallsOK, Exposed!Sample
<1> HIDE DEF record
<1>6. /\ IsCall(record) /\ record.stage = s /\ record.kind = k
      /\ record.todo = t /\ record.sample = v /\ record.since = n
  BY <1>4 DEF IsCall
<1> QED BY <1>5, <1>6, <1>7

(* An emission begins: it is the newest, and will hear the value.          *)
LEMMA EmissionBegins ==
    ASSUME ExposedInv, NEW c \in Calls, calls[c].stage = "unused", NEW p \in Properties,
           Exposed!Begin(c, "emit", <<p>>), emitted' = emitted + 1,
           pending' = pending \ {p},
           UNCHANGED <<value, last, spoiled, disordered, destroyed>>
    PROVE  ExposedInv'
<1>1. PICK record : /\ calls' = [calls EXCEPT ![c] = record] /\ IsCall(record)
                    /\ record.stage = "handler" /\ record.kind = "emit" /\ record.todo = <<p>>
                    /\ record.sample = calls[c].sample /\ record.since = emitted
  BY BeginIs
<1>2. calls = [d \in Calls |-> calls[d]] BY DEF ExposedInv, CallsOK
<1>3. record.sample = None BY <1>1 DEF ExposedInv, CallsOK
<1>4. /\ calls'[c] = record /\ \A d \in Calls \ {c} : calls'[d] = calls[d]
      /\ calls' = [d \in Calls |-> calls'[d]]
  BY <1>1, <1>2
<1>5. CallsOK' BY <1>1, <1>4 DEF ExposedInv, CallsOK
<1>6. c \notin Emitting /\ Emitting' = Emitting \cup {c}
  BY <1>1, <1>4 DEF Emitting, IsEmission
<1>7. \A d \in Emitting : calls'[d] = calls[d] /\ EmissionOK(calls[d], emitted)
  BY <1>4, <1>6 DEF ExposedInv, EmissionsOK, Emitting
<1>8. emitted \in Nat BY DEF ExposedInv, ExposedTyped
<1>9. EmissionsOK'
  <2>1. EmissionOK(calls'[c], emitted') BY <1>1, <1>3, <1>4, <1>8 DEF EmissionOK
  <2>2. \A d \in Emitting : EmissionOK(calls'[d], emitted') BY <1>7, <1>8 DEF EmissionOK
  <2>3. \A d \in Emitting : calls'[d].since # calls'[c].since
    BY <1>1, <1>4, <1>7, <1>8 DEF EmissionOK
  <2>4. \A d, e \in Emitting : calls'[d].since = calls'[e].since => d = e
    BY <1>7 DEF ExposedInv, EmissionsOK
  <2> QED BY <1>6, <2>1, <2>2, <2>3, <2>4 DEF EmissionsOK
<1>10. ASSUME NEW q \in Properties PROVE Current(q)'
  <2>1. CASE q = p
    <3>1. c \in Exposed!InFlight(q)' BY <1>1, <1>4, <1>6, <2>1, InFlightIs
    <3>2. \A d \in Exposed!InFlight(q)' : d = c \/ d \in Emitting BY <1>6, InFlightIs
    <3>3. Newest(c, q)' BY <1>1, <1>4, <1>7, <1>8, <3>2 DEF Newest, EmissionOK
    <3> QED BY <1>1, <1>3, <1>4, <3>1, <3>3 DEF Current
  <2>2. CASE q # p
    <3>0. <<q>> # <<p>> BY <2>2
    <3>1. Exposed!InFlight(q)' = Exposed!InFlight(q)
      <4>1. calls'[c].todo # <<q>> BY <1>1, <1>4, <3>0
      <4>2. {d \in Emitting' : calls'[d].todo = <<q>>} = {d \in Emitting : calls[d].todo = <<q>>}
        BY <1>6, <1>7, <4>1
      <4> QED BY <4>2, InFlightIs
    <3>2. \A d \in Exposed!InFlight(q) : calls'[d] = calls[d] BY <1>7, InFlightIs
    <3>3. \A d \in Exposed!InFlight(q) : Newest(d, q) => Newest(d, q)'
      BY <3>1, <3>2 DEF Newest
    <3>4. q \in pending <=> q \in pending' BY <2>2
    <3>5. Current(q) BY DEF ExposedInv
    <3> QED BY <3>1, <3>2, <3>3, <3>4, <3>5 DEF Current
  <2> QED BY <2>1, <2>2
<1>11. ExposedTyped' BY <1>8 DEF ExposedInv, ExposedTyped
<1> QED BY <1>5, <1>9, <1>10, <1>11 DEF ExposedInv

(* The handler of an emission looks at the value.                          *)
LEMMA EmissionSamples ==
    ASSUME ExposedInv, NEW c \in Calls, c \in Emitting, Exposed!Sample(c)
    PROVE  ExposedInv'
<1>1. EmissionOK(calls[c], emitted) BY DEF ExposedInv, EmissionsOK
<1>2. PICK p \in Properties : calls[c].todo = <<p>> BY <1>1 DEF EmissionOK
<1>3. PICK v \in Nat : v = value[p] BY DEF ExposedInv, ExposedTyped
<1>4. Head(calls[c].todo) = p BY <1>2
<1>5. calls = [d \in Calls |-> calls[d]] BY DEF ExposedInv, CallsOK
<1>7. PICK record :
        /\ calls' = [calls EXCEPT ![c] = record]
        /\ IsCall(record) /\ record.stage = calls[c].stage /\ record.kind = calls[c].kind
        /\ record.todo = calls[c].todo /\ record.sample = v /\ record.since = calls[c].since
  BY <1>3, <1>4, SampleIs
<1>9. /\ IsCall(record) /\ record.stage = calls[c].stage /\ record.kind = calls[c].kind
      /\ record.todo = <<p>> /\ record.sample = v /\ record.since = calls[c].since
  BY <1>2, <1>7
<1>10. /\ calls'[c] = record /\ \A d \in Calls \ {c} : calls'[d] = calls[d]
       /\ calls' = [d \in Calls |-> calls'[d]]
  BY <1>5, <1>7
<1>11. record.stage = "handler" BY <1>9 DEF Emitting, IsEmission
<1>12. CallsOK' BY <1>9, <1>10, <1>11 DEF ExposedInv, CallsOK
<1>13. Emitting' = Emitting BY <1>9, <1>10 DEF Emitting, IsEmission
<1>14. \A d \in Emitting : d \in Calls /\ calls'[d].since = calls[d].since
                           /\ calls'[d].todo = calls[d].todo
  BY <1>2, <1>9, <1>10 DEF Emitting
<1>15. UNCHANGED <<value, emitted, last, pending, disordered, spoiled, destroyed>>
  BY DEF Exposed!Sample, Exposed!Still
<1>16. EmissionsOK'
  <2>1. EmissionOK(calls'[c], emitted') BY <1>1, <1>9, <1>10, <1>15 DEF EmissionOK
  <2>2. \A d \in Emitting \ {c} : EmissionOK(calls'[d], emitted')
    BY <1>10, <1>14, <1>15 DEF EmissionOK, ExposedInv, EmissionsOK
  <2>3. \A d, e \in Emitting : calls'[d].since = calls'[e].since => d = e
    BY <1>14 DEF ExposedInv, EmissionsOK
  <2> QED BY <1>13, <2>1, <2>2, <2>3 DEF EmissionsOK
<1>17. ASSUME NEW q \in Properties PROVE Current(q)'
  <2>1. Exposed!InFlight(q)' = Exposed!InFlight(q)
    <3>1. {d \in Emitting' : calls'[d].todo = <<q>>} = {d \in Emitting : calls[d].todo = <<q>>}
      BY <1>13, <1>14
    <3> QED BY <3>1, InFlightIs
  <2>2. \A d \in Exposed!InFlight(q) : d \in Emitting /\ calls'[d].since = calls[d].since
    BY <1>14, InFlightIs
  <2>3. \A d \in Exposed!InFlight(q) : Newest(d, q) => Newest(d, q)'
    BY <2>1, <2>2 DEF Newest
  <2>4. \A d \in Exposed!InFlight(q) :
          calls[d].sample \in {None, value[q]} => calls'[d].sample \in {None, value[q]}
    <3>1. ASSUME c \in Exposed!InFlight(q) PROVE v = value[q]
      <4>1. <<p>> = <<q>> BY <1>2, <3>1, InFlightIs
      <4> QED BY <1>3, <4>1
    <3>2. \A d \in Exposed!InFlight(q) : d \in Calls BY <1>14, <2>2
    <3> QED BY <1>9, <1>10, <3>1, <3>2
  <2>5. Current(q) BY DEF ExposedInv
  <2> QED BY <1>15, <2>1, <2>3, <2>4, <2>5 DEF Current
<1>18. ExposedTyped' BY <1>15 DEF ExposedInv, ExposedTyped
<1> QED BY <1>12, <1>16, <1>17, <1>18 DEF ExposedInv

(* An emission is answered: the others are as they were.                   *)
LEMMA EmissionEnds ==
    ASSUME ExposedInv, NEW c \in Emitting, NEW stage \in {"done", "rejected"},
           Exposed!Reply(c, stage), UNCHANGED emitted
    PROVE  /\ CallsOK' /\ EmissionsOK'
           /\ \A p \in Properties : Exposed!InFlight(p)' = Exposed!InFlight(p) \ {c}
           /\ \A d \in Emitting \ {c} : calls'[d] = calls[d]
<1>0. c \in Calls /\ calls = [d \in Calls |-> calls[d]] BY DEF ExposedInv, CallsOK, Emitting
<1>1. PICK record : /\ calls' = [calls EXCEPT ![c] = record] /\ IsCall(record)
                    /\ record.stage = stage /\ record.kind = None /\ record.sample = None
  BY ReplyIs
<1>2. /\ calls'[c] = record /\ \A d \in Calls \ {c} : calls'[d] = calls[d]
      /\ calls' = [d \in Calls |-> calls'[d]]
  BY <1>0, <1>1
<1>3. CallsOK' BY <1>1, <1>2 DEF ExposedInv, CallsOK
<1>4. Emitting' = Emitting \ {c} BY <1>1, <1>2 DEF Emitting, IsEmission
<1>5. \A d \in Emitting \ {c} : calls'[d] = calls[d] BY <1>2 DEF Emitting
<1>6. EmissionsOK' BY <1>4, <1>5 DEF ExposedInv, EmissionsOK
<1>7. ASSUME NEW p \in Properties
      PROVE  Exposed!InFlight(p)' = Exposed!InFlight(p) \ {c}
  <2>1. {d \in Emitting' : calls'[d].todo = <<p>>} = {d \in Emitting : calls[d].todo = <<p>>} \ {c}
    BY <1>4, <1>5
  <2> QED BY <2>1, InFlightIs
<1> QED BY <1>3, <1>5, <1>6, <1>7

(* Properties other than that of an emission that ends.                    *)
LEMMA OthersStay ==
    ASSUME ExposedInv, NEW c \in Emitting, NEW p \in Properties, calls[c].todo = <<p>>,
           NEW stage \in {"done", "rejected"}, Exposed!Reply(c, stage),
           UNCHANGED <<value, emitted, pending, destroyed>>,
           NEW q \in Properties, q # p, last'[q] = last[q],
           q \in disordered <=> q \in disordered', q \in spoiled <=> q \in spoiled'
    PROVE  Current(q)'
<1>1. <<q>> # <<p>> OBVIOUS
<1>2. c \notin Exposed!InFlight(q) BY <1>1, InFlightIs
<1>3. Exposed!InFlight(q)' = Exposed!InFlight(q)
  <2>1. \A x \in Properties : Exposed!InFlight(x)' = Exposed!InFlight(x) \ {c}
    BY ONLY ExposedInv, c \in Emitting, stage \in {"done", "rejected"}, Exposed!Reply(c, stage),
            UNCHANGED emitted, EmissionEnds
  <2>2. Exposed!InFlight(q)' = Exposed!InFlight(q) \ {c} BY <2>1
  <2> QED BY <1>2, <2>2
<1>4. \A d \in Exposed!InFlight(q) : calls'[d] = calls[d]
  <2>1. \A d \in Exposed!InFlight(q) : d \in Emitting \ {c} BY <1>2, InFlightIs
  <2> QED BY <2>1, EmissionEnds
<1>5. \A d \in Exposed!InFlight(q) : Newest(d, q) => Newest(d, q)'
  BY <1>3, <1>4 DEF Newest
<1>6. Current(q) BY DEF ExposedInv
<1> QED BY <1>3, <1>4, <1>5, <1>6 DEF Current

(* The observers hear what the handler said.                               *)
LEMMA EmissionResolves ==
    ASSUME ExposedInv, NEW c \in Emitting, Exposed!EmitResolves(c)
    PROVE  ExposedInv'
<1>1. EmissionOK(calls[c], emitted) BY DEF ExposedInv, EmissionsOK
<1>2. PICK p \in Properties : calls[c].todo = <<p>> BY <1>1 DEF EmissionOK
<1>3. Head(calls[c].todo) = p BY <1>2
<1>4. PICK v \in Nat : v = calls[c].sample BY <1>1 DEF EmissionOK, Exposed!EmitResolves
<1>5. /\ Exposed!Reply(c, "done")
      /\ UNCHANGED <<value, emitted, pending, spoiled, destroyed>>
      /\ last' = IF destroyed = "done" THEN last ELSE [last EXCEPT ![p] = v]
      /\ disordered' = IF \E d \in Exposed!InFlight(p) : calls[d].since < calls[c].since
                       THEN disordered \cup {p} ELSE disordered
  BY <1>3, <1>4 DEF Exposed!EmitResolves
<1>6. /\ CallsOK' /\ EmissionsOK'
      /\ \A q \in Properties : Exposed!InFlight(q)' = Exposed!InFlight(q) \ {c}
      /\ \A d \in Emitting \ {c} : calls'[d] = calls[d]
  BY <1>5, EmissionEnds
<1>7. last \in [Properties -> Nat \cup {None}] BY DEF ExposedInv, ExposedTyped
<1>8. last' \in [Properties -> Nat \cup {None}] /\ \A q \in Properties \ {p} : last'[q] = last[q]
  BY <1>5, <1>7
<1>9. ASSUME NEW q \in Properties, q # p PROVE Current(q)'
  BY <1>2, <1>5, <1>8, <1>9, OthersStay
<1>10. Current(p)'
  <2> SUFFICES ASSUME p \notin pending, p \notin spoiled, p \notin disordered',
                      value[p] > 0, destroyed # "done"
               PROVE  /\ Exposed!InFlight(p)' = {} => last'[p] = value[p]
                      /\ Exposed!InFlight(p)' # {} =>
                            \E w \in Exposed!InFlight(p)' :
                              Newest(w, p)' /\ calls'[w].sample \in {None, value[p]}
    BY <1>5 DEF Current
  <2>1. c \in Exposed!InFlight(p) BY <1>2, InFlightIs
  <2>2. p \notin disordered /\ ~\E d \in Exposed!InFlight(p) : calls[d].since < calls[c].since
    BY <1>5
  <2>3. PICK w \in Exposed!InFlight(p) : Newest(w, p) /\ calls[w].sample \in {None, value[p]}
    BY <2>1, <2>2 DEF ExposedInv, Current
  <2>4. \A d \in Exposed!InFlight(p) : d \in Emitting /\ calls[d].since \in Nat
    BY InFlightIs DEF ExposedInv, EmissionsOK, EmissionOK
  <2>5. \A d \in Exposed!InFlight(p) : calls[d].since = calls[c].since => d = c
    BY <2>1, <2>4 DEF ExposedInv, EmissionsOK
  <2>6. CASE Exposed!InFlight(p)' = {}
    <3>1. w = c BY <1>6, <2>3, <2>6
    <3>2. v = value[p]
      <4>1. v # None BY <1>4, CoreAssumption
      <4> QED BY <1>4, <2>3, <3>1, <4>1
    <3> QED BY <1>5, <1>7, <2>6, <3>2
  <2>7. CASE Exposed!InFlight(p)' # {}
    <3>1. PICK d \in Exposed!InFlight(p) : d # c BY <1>6, <2>7
    <3>2. calls[c].since < calls[d].since /\ calls[d].since <= calls[w].since
      BY <2>1, <2>2, <2>3, <2>4, <2>5, <3>1 DEF Newest
    <3>3. w # c
      <4>1. calls[c].since < calls[w].since BY <2>1, <2>3, <2>4, <3>1, <3>2
      <4> QED BY <2>1, <2>4, <4>1
    <3>4. \A x \in Exposed!InFlight(p)' : x \in Exposed!InFlight(p) /\ calls'[x] = calls[x]
      BY <1>6, <2>4
    <3>5. w \in Exposed!InFlight(p)' BY <1>6, <3>3
    <3>6. Newest(w, p)' BY <2>3, <3>4, <3>5 DEF Newest
    <3> QED BY <2>3, <2>7, <3>4, <3>5, <3>6
  <2> QED BY <2>6, <2>7
<1>11. \A q \in Properties : Current(q)' BY <1>9, <1>10
<1>12. ExposedTyped' BY <1>5, <1>8 DEF ExposedInv, ExposedTyped
<1> QED BY <1>6, <1>11, <1>12 DEF ExposedInv

LEMMA EmissionRejects ==
    ASSUME ExposedInv, NEW c \in Emitting, Exposed!HandlerRejects(c)
    PROVE  ExposedInv'
<1>1. EmissionOK(calls[c], emitted) BY DEF ExposedInv, EmissionsOK
<1>2. PICK p \in Properties : calls[c].todo = <<p>> BY <1>1 DEF EmissionOK
<1>3. Head(calls[c].todo) = p BY <1>2
<1>4. calls[c].kind = "emit" BY DEF Emitting, IsEmission
<1>5. /\ Exposed!Reply(c, "rejected") /\ spoiled' = spoiled \cup {p}
      /\ UNCHANGED <<value, emitted, last, pending, disordered, destroyed>>
  BY <1>3, <1>4 DEF Exposed!HandlerRejects
<1>6. CallsOK' /\ EmissionsOK' BY <1>5, EmissionEnds
<1>7. ASSUME NEW q \in Properties, q # p PROVE Current(q)'
  BY <1>2, <1>5, <1>7, OthersStay
<1>8. Current(p)' BY <1>5 DEF Current
<1>9. \A q \in Properties : Current(q)' BY <1>7, <1>8
<1>10. ExposedTyped' BY <1>5 DEF ExposedInv, ExposedTyped
<1> QED BY <1>6, <1>9, <1>10 DEF ExposedInv

(* A read of several properties goes on to the next.                       *)
LEMMA RestIs ==
    ASSUME ExposedInv, NEW c \in Calls, calls[c].stage = "handler", calls[c].kind = "read",
           NEW rest, calls' = [calls EXCEPT ![c] = [@ EXCEPT !.todo = rest, !.sample = None]]
    PROVE  CallsOK' /\ Emitting' = Emitting /\ \A d \in Emitting : calls'[d] = calls[d]
<1> DEFINE record == [calls[c] EXCEPT !.todo = rest, !.sample = None]
<1>1. IsCall(calls[c]) /\ calls = [d \in Calls |-> calls[d]] BY DEF ExposedInv, CallsOK
<1>2. PICK t, m, n :
        calls[c] = [stage |-> "handler", kind |-> "read", todo |-> t, sample |-> m, since |-> n]
  BY <1>1 DEF IsCall
<1>3. calls[c] \in [stage : {"handler"}, kind : {"read"}, todo : {t}, sample : {m}, since : {n}]
  BY <1>2
<1>4. record \in [stage : {"handler"}, kind : {"read"}, todo : {rest}, sample : {None}, since : {n}]
  BY <1>3
<1>5. calls' = [calls EXCEPT ![c] = record] BY <1>1
<1> HIDE DEF record
<1>6. IsCall(record) /\ record.stage = "handler" /\ record.kind = "read" BY <1>4 DEF IsCall
<1>7. ~IsEmission(record) /\ ~IsEmission(calls[c]) BY <1>6 DEF IsEmission
<1> QED BY <1>5, <1>6, <1>7, OtherCallStep

LEMMA HandledStep ==
    ASSUME ExposedInv, NEW c \in Calls, Exposed!Handled(c)
    PROVE  ExposedInv'
<1>1. CASE c \in Emitting
  <2>1. calls[c].kind = "emit" BY <1>1 DEF Emitting, IsEmission
  <2> QED BY <1>1, <2>1, EmissionSamples, EmissionResolves, EmissionRejects
       DEF Exposed!Handled, Exposed!ReadResolves, Exposed!OtherResolves
<1>2. CASE c \notin Emitting
  <2>0. ~IsEmission(calls[c]) BY <1>2 DEF Emitting
  <2>1. calls[c].stage = "handler" /\ calls[c].kind # "emit"
    BY <2>0 DEF IsEmission, Exposed!Handled, Exposed!Sample, Exposed!ReadResolves,
                Exposed!EmitResolves, Exposed!OtherResolves, Exposed!HandlerRejects
  <2>2. CASE Exposed!Sample(c)
    <3>1. PICK v : v = value[Head(calls[c].todo)] OBVIOUS
    <3>2. PICK record :
            /\ calls' = [calls EXCEPT ![c] = record]
            /\ IsCall(record) /\ record.stage = calls[c].stage /\ record.kind = calls[c].kind
      BY <2>2, <3>1, SampleIs
    <3>3. ~IsEmission(record) /\ record.stage # "unused" BY <2>1, <3>2 DEF IsEmission
    <3>4. CallsOK' /\ Emitting' = Emitting /\ \A d \in Emitting : calls'[d] = calls[d]
      BY <2>0, <3>2, <3>3, OtherCallStep
    <3>5. UNCHANGED <<value, emitted, last, pending, disordered, spoiled, destroyed>>
      BY <2>2 DEF Exposed!Sample, Exposed!Still
    <3> QED BY <3>4, <3>5, QuietStep DEF ExposedInv, ExposedTyped
  <2>3. CASE Exposed!ReadResolves(c)
    <3>1. CallsOK' /\ Emitting' = Emitting /\ \A d \in Emitting : calls'[d] = calls[d]
      BY <2>0, <2>1, <2>3, ReplyStep, RestIs DEF Exposed!ReadResolves
    <3>2. UNCHANGED <<value, emitted, last, pending, disordered, spoiled, destroyed>>
      BY <2>3 DEF Exposed!ReadResolves, Exposed!Still
    <3> QED BY <3>1, <3>2, QuietStep DEF ExposedInv, ExposedTyped
  <2>4. CASE Exposed!OtherResolves(c)
    <3>1. CallsOK' /\ Emitting' = Emitting /\ \A d \in Emitting : calls'[d] = calls[d]
      BY <2>0, <2>4, ReplyStep DEF Exposed!OtherResolves
    <3>2. UNCHANGED <<emitted, last, disordered, spoiled, destroyed>>
      BY <2>4 DEF Exposed!OtherResolves
    <3>3. \/ UNCHANGED <<value, pending>>
          \/ \E x : value' = [value EXCEPT ![x] = @ + 1] /\ pending' = pending \cup {x}
      BY <2>4 DEF Exposed!OtherResolves, Exposed!Changed
    <3>4. value \in [Properties -> Nat] BY DEF ExposedInv, ExposedTyped
    <3>5. /\ value' \in [Properties -> Nat]
          /\ \A q \in Properties : \/ value'[q] = value[q] /\ (q \in pending => q \in pending')
                                   \/ q \in pending'
      BY <3>3, <3>4
    <3> QED BY <3>1, <3>2, <3>5, QuietStep
  <2>5. CASE Exposed!HandlerRejects(c)
    <3>1. CallsOK' /\ Emitting' = Emitting /\ \A d \in Emitting : calls'[d] = calls[d]
      BY <2>0, <2>5, ReplyStep DEF Exposed!HandlerRejects
    <3>2. UNCHANGED <<value, emitted, last, pending, disordered, spoiled, destroyed>>
      BY <2>1, <2>5 DEF Exposed!HandlerRejects
    <3> QED BY <3>1, <3>2, QuietStep DEF ExposedInv, ExposedTyped
  <2> QED BY <2>1, <2>2, <2>3, <2>4, <2>5 DEF Exposed!Handled, Exposed!EmitResolves
<1> QED BY <1>1, <1>2

(* The requests: they change nothing but their call.                       *)
LEMMA RequestStep ==
    ASSUME ExposedInv, NEW c \in Calls,
           \/ \E names : Exposed!HandleRead(c, names)
           \/ \E p : Exposed!HandleWriteProperty(c, p)
           \/ Exposed!HandleWriteMultipleProperties(c)
           \/ \E a : Exposed!HandleInvokeAction(c, a)
    PROVE  ExposedInv'
<1>1. /\ calls[c].stage = "unused"
      /\ UNCHANGED <<value, emitted, last, pending, disordered, spoiled, destroyed>>
      /\ \/ \E stage \in {"done", "rejected"} : Exposed!Reply(c, stage)
         \/ \E todo : \E kind \in {"read", "write", "invoke"} : Exposed!Begin(c, kind, todo)
  BY DEF Exposed!HandleRead, Exposed!HandleWriteProperty, Exposed!HandleWriteMultipleProperties,
         Exposed!HandleInvokeAction, Exposed!Still
<1>2. ~IsEmission(calls[c]) BY <1>1 DEF IsEmission
<1>3. CallsOK' /\ Emitting' = Emitting /\ \A d \in Emitting : calls'[d] = calls[d]
  BY <1>1, <1>2, ReplyStep, BeginStep
<1> QED BY <1>1, <1>3, QuietStep DEF ExposedInv, ExposedTyped

LEMMA ExposedStep == ExposedInv /\ [Exposed!Next]_Exposed!vars => ExposedInv'
<1> SUFFICES ASSUME ExposedInv, [Exposed!Next]_Exposed!vars PROVE ExposedInv' OBVIOUS
<1>0. ASSUME UNCHANGED calls
      PROVE  CallsOK' /\ Emitting' = Emitting /\ \A d \in Emitting : calls'[d] = calls[d]
  BY <1>0 DEF ExposedInv, CallsOK, Emitting
<1>1. CASE UNCHANGED Exposed!vars
  <2>1. UNCHANGED <<value, emitted, last, pending, disordered, spoiled, destroyed, calls>>
    BY <1>1 DEF Exposed!vars
  <2> QED BY <1>0, <2>1, QuietStep DEF ExposedInv, ExposedTyped
<1>2. CASE Exposed!SetHandlers \/ Exposed!Destroy \/ Exposed!Destroyed
  <2>1. /\ UNCHANGED <<value, emitted, last, pending, disordered, spoiled, calls>>
        /\ destroyed = "done" => destroyed' = "done"
    BY <1>2 DEF Exposed!SetHandlers, Exposed!Destroy, Exposed!Destroyed, Exposed!Still
  <2> QED BY <1>0, <2>1, QuietStep DEF ExposedInv, ExposedTyped
<1>3. ASSUME NEW p \in Properties, Exposed!Change(p) PROVE ExposedInv'
  <2>1. /\ value' = [value EXCEPT ![p] = @ + 1] /\ pending' = pending \cup {p}
        /\ UNCHANGED <<calls, emitted, last, disordered, spoiled, destroyed>>
    BY <1>3 DEF Exposed!Change, Exposed!Changed
  <2>2. value \in [Properties -> Nat] BY DEF ExposedInv, ExposedTyped
  <2>3. /\ value' \in [Properties -> Nat]
        /\ \A q \in Properties : \/ value'[q] = value[q] /\ (q \in pending => q \in pending')
                                 \/ q \in pending'
    BY <2>1, <2>2
  <2> QED BY <1>0, <2>1, <2>3, QuietStep
<1>4. ASSUME NEW c \in Calls, NEW p \in Properties, Exposed!EmitPropertyChange(c, p)
      PROVE  ExposedInv'
  <2>1. /\ calls[c].stage = "unused"
        /\ UNCHANGED <<value, last, disordered, spoiled, destroyed>>
    BY <1>4 DEF Exposed!EmitPropertyChange
  <2>2. ~IsEmission(calls[c]) BY <2>1 DEF IsEmission
  <2>3. CASE Exposed!Reply(c, "rejected") /\ UNCHANGED <<emitted, pending>>
    <3>1. CallsOK' /\ Emitting' = Emitting /\ \A d \in Emitting : calls'[d] = calls[d]
      BY <2>2, <2>3, ReplyStep
    <3> QED BY <2>1, <2>3, <3>1, QuietStep DEF ExposedInv, ExposedTyped
  <2>4. CASE Exposed!Begin(c, "emit", <<p>>) /\ emitted' = emitted + 1 /\ pending' = pending \ {p}
    BY <2>1, <2>4, EmissionBegins
  <2> QED BY <1>4, <2>3, <2>4 DEF Exposed!EmitPropertyChange, Exposed!Emits
<1>5. ASSUME NEW c \in Calls, Exposed!Handled(c) PROVE ExposedInv'
  BY <1>5, HandledStep
<1>6. ASSUME NEW c \in Calls,
             \/ \E names : Exposed!HandleRead(c, names)
             \/ \E p : Exposed!HandleWriteProperty(c, p)
             \/ Exposed!HandleWriteMultipleProperties(c)
             \/ \E a : Exposed!HandleInvokeAction(c, a)
      PROVE  ExposedInv'
  BY <1>6, RequestStep
<1> QED BY <1>1, <1>2, <1>3, <1>4, <1>5, <1>6 DEF Exposed!Next

(* Once all emissions of a property are through, its observers have heard  *)
(* its value: emitPropertyChange awaits the read handler, and the newest   *)
(* emission reads what is current unless it is overtaken.                  *)
THEOREM ObserversAreCurrent == Exposed!Spec => []LastIsCurrent
<1>1. ExposedInv => LastIsCurrent
  BY DEF ExposedInv, Current, LastIsCurrent, Exposed!LastIsCurrent
<1> QED BY <1>1, ExposedInit, ExposedStep, PTL DEF Exposed!Spec

-----------------------------------------------------------------------------
(* The clients of a Consumed Thing                                         *)

(* The forms that mention a scheme, as SecuredOrKnown wants them.          *)
Uniform(s) ==
    \A a \in DOMAIN Affordances : \A i \in DOMAIN Forms(a) :
       s \in Forms(a)[i].mentions =>
          SecurityAfter(Forms(a)[i]) = SecurityAfter(None) /\ ~SecurityFails(Forms(a)[i])

ClientOK(client, s) ==
    client.scheme = s /\ (Uniform(s) => client.security = SecurityAfter(None))

CacheOK(cache) ==
    /\ cache = [s \in Schemes |-> cache[s]]
    /\ \A s \in Schemes : cache[s] # None => ClientOK(cache[s], s)

CallOK(x) ==
    /\ "outcome" \in DOMAIN x
    /\ x.outcome = "chosen" =>
          LET form == Forms(x.a)[x.form] IN
          /\ x.a \in DOMAIN Affordances /\ x.form \in DOMAIN Forms(x.a)
          /\ x.client.scheme # form.scheme =>
                /\ x.index = None /\ x.client.scheme \in form.mentions
                /\ \E f \in Range(Forms(x.a)) : f.scheme = x.client.scheme
          /\ x.index = None => x.op \in form.ops \/ form.ops = {} \/ form.single
          /\ x.stale \/ ClientOK(x.client, x.client.scheme)

ResultOK(result) == CacheOK(result.clients) /\ CallOK(result.call)

ChoiceInv ==
    /\ td \in Things /\ CacheOK(clients) /\ CallOK(call)
    /\ \A x \in subs : x.a \in DOMAIN Affordances

LEMMA SmallestOf ==
    ASSUME NEW S, S \subseteq Nat, S # {}
    PROVE  Min(S) \in S
<1> DEFINE less == {p \in Nat \X Nat : p[1] < p[2]}
<1>1. IsWellFoundedOn(less, Nat) BY NatLessThanWellFounded DEF OpToRel
<1>2. PICK m \in S : \A j \in S : <<j, m>> \notin less BY <1>1, WFMin, Zenon
<1>3. ASSUME NEW j \in S PROVE m <= j
  <2>1. j \in Nat /\ m \in Nat OBVIOUS
  <2>2. ~ (j < m) BY <1>2, <2>1
  <2> QED BY <2>1, <2>2
<1> QED BY <1>3 DEF Min

LEMMA FormsTyped ==
    ASSUME td \in Things, NEW a \in DOMAIN Affordances
    PROVE  /\ Forms(a) \in Seq(FormType) /\ DOMAIN Forms(a) \subseteq Nat
           /\ \A i \in DOMAIN Forms(a) : /\ Forms(a)[i].scheme \in Schemes
                                          /\ Forms(a)[i].scheme \in Forms(a)[i].mentions
<1>1. Forms(a) \in Seq(FormType) /\ \A f \in Range(Forms(a)) : f.scheme \in f.mentions
  BY ClientChoiceAssumption DEF IsThing, Forms, Affordances
<1>2. DOMAIN Forms(a) = 1 .. Len(Forms(a)) /\ Len(Forms(a)) \in Nat BY <1>1
<1>3. \A i \in DOMAIN Forms(a) : Forms(a)[i] \in FormType BY <1>1
<1>4. \A f \in FormType : f.scheme \in Schemes BY DEF FormType
<1>5. \A i \in DOMAIN Forms(a) : Forms(a)[i].scheme \in Forms(a)[i].mentions
  BY <1>1 DEF Range
<1> QED BY <1>1, <1>2, <1>3, <1>4, <1>5

(* The form that is found fits.                                            *)
LEMMA FoundFits ==
    ASSUME td \in Things, NEW a \in DOMAIN Affordances, NEW op, NEW scheme,
           FindForm(a, op, scheme) # 0
    PROVE  LET i == FindForm(a, op, scheme) IN
           /\ i \in DOMAIN Forms(a) /\ scheme \in Forms(a)[i].mentions
           /\ op \in Forms(a)[i].ops \/ Forms(a)[i].ops = {} \/ Forms(a)[i].single
<1> DEFINE fits == {i \in DOMAIN Forms(a) : /\ scheme \in Forms(a)[i].mentions
                                            /\ Offers(Forms(a)[i], Affordances[a].kind, op)}
<1>1. FindForm(a, op, scheme) = IF fits = {} THEN 0 ELSE Min(fits) BY DEF FindForm
<1>2. fits # {} BY <1>1
<1>3. fits \subseteq Nat BY FormsTyped
<1>4. Min(fits) \in fits
  <2> HIDE DEF fits
  <2> QED BY <1>2, <1>3, SmallestOf
<1>5. PICK i \in fits : i = FindForm(a, op, scheme) BY <1>1, <1>2, <1>4
<1>6. /\ i \in DOMAIN Forms(a) /\ scheme \in Forms(a)[i].mentions
      /\ Offers(Forms(a)[i], Affordances[a].kind, op)
  BY <1>5
<1>7. op \in Forms(a)[i].ops \/ Forms(a)[i].ops = {} \/ Forms(a)[i].single
  BY <1>6 DEF Offers
<1> QED BY <1>5, <1>6, <1>7

(* A Thing whose security cannot be set has no form that goes by the       *)
(* security of the Thing and whose security can.                           *)
LEMMA FailsAlike ==
    ASSUME NEW f, SecurityFails(None), SecurityAfter(f) = SecurityAfter(None)
    PROVE  SecurityFails(f)
<1>1. Required(None) = td.security /\ ~OfForm(None) BY DEF Required, OfForm
<1>2. td.security # <<>> BY <1>1 DEF SecurityFails
<1>3. Required(f) # <<>> BY <1>2 DEF Required
<1>4. Required(f) = td.security BY <1>1, <1>2, <1>3 DEF SecurityAfter
<1> QED BY <1>1, <1>2, <1>4 DEF SecurityFails

LEMMA ThrownOK ==
    ASSUME NEW cache, CacheOK(cache)
    PROVE  ResultOK(Thrown(cache))
BY DEF Thrown, NoCall, ResultOK, CallOK

(* What goes into the cache.                                               *)
LEMMA CacheGrows ==
    ASSUME NEW cache, CacheOK(cache), NEW s \in Schemes, NEW client, ClientOK(client, s)
    PROVE  CacheOK([cache EXCEPT ![s] = client])
<1> DEFINE grown == [cache EXCEPT ![s] = client]
<1>1. /\ grown = [x \in Schemes |-> grown[x]] /\ grown[s] = client
      /\ \A x \in Schemes \ {s} : grown[x] = cache[x]
  BY DEF CacheOK
<1> HIDE DEF grown
<1>2. CacheOK(grown) BY <1>1 DEF CacheOK
<1> QED BY <1>2 DEF grown

LEMMA NewClientFields ==
    ASSUME NEW s, NEW security
    PROVE  NewClient(s, security).scheme = s /\ NewClient(s, security).security = security
BY DEF NewClient

LEMMA ByIndexOK ==
    ASSUME td \in Things, NEW cache, CacheOK(cache), NEW a \in DOMAIN Affordances,
           NEW op, NEW index, index # None
    PROVE  ResultOK(ByIndex(cache, a, op, index))
<1>0. ResultOK(Thrown(cache)) BY ThrownOK
<1>1. CASE index \notin DOMAIN Forms(a) BY <1>0, <1>1 DEF ByIndex
<1>2. CASE index \in DOMAIN Forms(a)
  <2>1. PICK f : f = Forms(a)[index] OBVIOUS
  <2>2. f.scheme \in Schemes /\ f.scheme \in f.mentions BY <1>2, <2>1, FormsTyped
  <2>3. PICK s \in Schemes : s = f.scheme BY <2>2
  <2>4. PICK again \in BOOLEAN : again = (cache[s] # None) OBVIOUS
  <2>5. PICK client : client = NewClient(s, IF again THEN None ELSE SecurityAfter(f)) OBVIOUS
  <2>6. CASE s \notin factories \/ (~again /\ SecurityFails(f))
    <3>1. ByIndex(cache, a, op, index) = Thrown(cache)
      BY <1>2, <2>1, <2>3, <2>4, <2>6 DEF ByIndex
    <3> QED BY <1>0, <3>1
  <2>7. CASE ~ (s \notin factories \/ (~again /\ SecurityFails(f)))
    <3>0. PICK kept : kept = IF again THEN cache ELSE [cache EXCEPT ![s] = client] OBVIOUS
    <3> DEFINE chosen == [outcome |-> "chosen", a |-> a, op |-> op, index |-> index,
                          form |-> index, client |-> client, stale |-> again]
    <3>1. ByIndex(cache, a, op, index) = [clients |-> kept, call |-> chosen]
      BY <1>2, <2>1, <2>3, <2>4, <2>5, <2>7, <3>0 DEF ByIndex
    <3>2. client.scheme = s /\ (~again => client.security = SecurityAfter(f))
      BY <2>5, NewClientFields
    <3>3. Uniform(s) => SecurityAfter(f) = SecurityAfter(None)
      BY <1>2, <2>1, <2>2, <2>3 DEF Uniform
    <3>4. ~again => ClientOK(client, s) BY <3>2, <3>3 DEF ClientOK
    <3>5. CacheOK(kept)
      <4>1. CASE again BY <3>0, <4>1
      <4>2. CASE ~again
        <5>1. kept = [cache EXCEPT ![s] = client] BY <3>0, <4>2
        <5>2. CacheOK([cache EXCEPT ![s] = client]) BY <3>4, <4>2, CacheGrows
        <5> QED BY <5>1, <5>2
      <4> QED BY <4>1, <4>2
    <3>6. /\ chosen.outcome = "chosen" /\ "outcome" \in DOMAIN chosen
          /\ chosen.a = a /\ chosen.form = index /\ chosen.index = index
          /\ chosen.client = client /\ chosen.stale = again
      OBVIOUS
    <3> HIDE DEF chosen
    <3>7. CallOK(chosen) BY <1>2, <2>1, <2>3, <3>2, <3>4, <3>6 DEF CallOK
    <3>8. [clients |-> kept, call |-> chosen].clients = kept
          /\ [clients |-> kept, call |-> chosen].call = chosen
      OBVIOUS
    <3> QED BY <3>1, <3>5, <3>7, <3>8 DEF ResultOK
  <2> QED BY <2>6, <2>7
<1> QED BY <1>1, <1>2

LEMMA WithClientOK ==
    ASSUME td \in Things, NEW cache, CacheOK(cache), NEW a \in DOMAIN Affordances,
           NEW op, NEW s \in Schemes, ClientOK(cache[s], s),
           \E f \in Range(Forms(a)) : f.scheme = s
    PROVE  ResultOK(WithClient(cache, a, op, s))
<1>1. PICK i : i = FindForm(a, op, s) OBVIOUS
<1>2. PICK client : client = cache[s] OBVIOUS
<1>3. PICK outcome : outcome = IF i = 0 THEN "noform" ELSE "chosen" OBVIOUS
<1> DEFINE chosen == [outcome |-> outcome, a |-> a, op |-> op, index |-> None, form |-> i,
                      client |-> client, stale |-> FALSE]
<1>4. WithClient(cache, a, op, s) = [clients |-> cache, call |-> chosen]
  BY <1>1, <1>2, <1>3 DEF WithClient
<1>5. /\ chosen.outcome = outcome /\ "outcome" \in DOMAIN chosen
      /\ chosen.a = a /\ chosen.form = i /\ chosen.op = op /\ chosen.client = client
      /\ chosen.index = None
  OBVIOUS
<1> HIDE DEF chosen
<1>6. ASSUME outcome = "chosen"
      PROVE  /\ i \in DOMAIN Forms(a) /\ s \in Forms(a)[i].mentions
             /\ op \in Forms(a)[i].ops \/ Forms(a)[i].ops = {} \/ Forms(a)[i].single
  BY <1>1, <1>3, <1>6, FoundFits
<1>7. CallOK(chosen) BY <1>2, <1>5, <1>6 DEF CallOK, ClientOK
<1>8. [clients |-> cache, call |-> chosen].clients = cache
      /\ [clients |-> cache, call |-> chosen].call = chosen
  OBVIOUS
<1> QED BY <1>4, <1>7, <1>8 DEF ResultOK

LEMMA BySchemeOK ==
    ASSUME td \in Things, NEW cache, CacheOK(cache), NEW a \in DOMAIN Affordances, NEW op
    PROVE  ResultOK(ByScheme(cache, a, op))
<1> DEFINE Places(S) == {i \in DOMAIN Forms(a) : Forms(a)[i].scheme \in S}
<1>0. PICK kept : kept = {s \in Schemes : cache[s] # None} OBVIOUS
<1>1. PICK known : known = Places(kept) OBVIOUS
<1>2. PICK made : made = Places(factories) OBVIOUS
<1>3. PICK first : first = Min(IF known # {} THEN known ELSE made) OBVIOUS
<1>4. PICK scheme : scheme = Forms(a)[first].scheme OBVIOUS
<1>5. PICK f : f = IF FindForm(a, op, scheme) = 0 THEN None ELSE Forms(a)[FindForm(a, op, scheme)]
  OBVIOUS
<1>6. known \subseteq DOMAIN Forms(a) /\ made \subseteq DOMAIN Forms(a) BY <1>1, <1>2
<1>7. ByScheme(cache, a, op) =
        IF known # {} THEN WithClient(cache, a, op, scheme)
        ELSE IF made = {} THEN Thrown(cache)
        ELSE IF SecurityFails(f)
        THEN Thrown([cache EXCEPT ![scheme] = NewClient(scheme, None)])
        ELSE WithClient([cache EXCEPT ![scheme] = NewClient(scheme, FirstSecurity(f))], a, op, scheme)
  BY <1>0, <1>1, <1>2, <1>3, <1>4, <1>5 DEF ByScheme
<1>8. known # {} \/ made # {} =>
        /\ first \in DOMAIN Forms(a) /\ scheme \in Schemes
        /\ known # {} => first \in known
  <2>1. DOMAIN Forms(a) \subseteq Nat BY FormsTyped
  <2>2. known # {} => first \in known BY <1>3, <1>6, <2>1, SmallestOf
  <2>3. known = {} /\ made # {} => first \in made BY <1>3, <1>6, <2>1, SmallestOf
  <2> QED BY <1>4, <1>6, <2>2, <2>3, FormsTyped
<1>12. known # {} \/ made # {} => \E form \in Range(Forms(a)) : form.scheme = scheme
  BY <1>4, <1>8 DEF Range
<1>9. CASE known # {}
  <2>1. scheme \in Schemes /\ cache[scheme] # None
    <3>1. Forms(a)[first].scheme \in kept BY <1>1, <1>8, <1>9
    <3> QED BY <1>0, <1>4, <3>1
  <2>2. ClientOK(cache[scheme], scheme) BY <2>1 DEF CacheOK
  <2>3. ResultOK(WithClient(cache, a, op, scheme)) BY <1>9, <1>12, <2>1, <2>2, WithClientOK
  <2> QED BY <1>7, <1>9, <2>3
<1>10. CASE known = {} /\ made = {}
  BY <1>7, <1>10, ThrownOK
<1>11. CASE known = {} /\ made # {}
  <2>1. scheme \in Schemes /\ first \in DOMAIN Forms(a) BY <1>8, <1>11
  <2>2. Uniform(scheme) =>
          /\ SecurityAfter(Forms(a)[first]) = SecurityAfter(None)
          /\ ~SecurityFails(Forms(a)[first])
    BY <1>4, <2>1, FormsTyped DEF Uniform
  <2>3. Uniform(scheme) => SecurityAfter(f) = SecurityAfter(None) /\ ~SecurityFails(f)
    <3>1. CASE FindForm(a, op, scheme) = 0
      <4>1. f = None BY <1>5, <3>1
      <4>2. Uniform(scheme) => ~SecurityFails(None) BY <2>2, FailsAlike
      <4> QED BY <4>1, <4>2
    <3>2. CASE FindForm(a, op, scheme) # 0
      <4>1. PICK i : i = FindForm(a, op, scheme) OBVIOUS
      <4>2. i \in DOMAIN Forms(a) /\ scheme \in Forms(a)[i].mentions BY <3>2, <4>1, FoundFits
      <4>3. f = Forms(a)[i] BY <1>5, <3>2, <4>1
      <4> QED BY <4>2, <4>3 DEF Uniform
    <3> QED BY <3>1, <3>2
  <2>4. CASE SecurityFails(f)
    <3>1. PICK client : client = NewClient(scheme, None) OBVIOUS
    <3>2. ClientOK(client, scheme) BY <2>3, <2>4, <3>1, NewClientFields DEF ClientOK
    <3>3. CacheOK([cache EXCEPT ![scheme] = client]) BY <2>1, <3>2, CacheGrows
    <3>4. PICK grown : grown = [cache EXCEPT ![scheme] = client] OBVIOUS
    <3>5. ResultOK(Thrown(grown)) BY <3>3, <3>4, ThrownOK
    <3>6. ByScheme(cache, a, op) = Thrown(grown) BY <1>7, <1>11, <2>4, <3>1, <3>4
    <3> QED BY <3>5, <3>6
  <2>5. CASE ~SecurityFails(f)
    <3>1. PICK client : client = NewClient(scheme, FirstSecurity(f)) OBVIOUS
    <3>2. ClientOK(client, scheme)
      BY <2>3, <3>1, NewClientFields DEF ClientOK, FirstSecurity
    <3>3. CacheOK([cache EXCEPT ![scheme] = client]) BY <2>1, <3>2, CacheGrows
    <3>4. PICK grown : grown = [cache EXCEPT ![scheme] = client] OBVIOUS
    <3>5. grown[scheme] = client BY <2>1, <3>4 DEF CacheOK
    <3>6. ResultOK(WithClient(grown, a, op, scheme))
      BY <1>11, <1>12, <2>1, <3>2, <3>3, <3>4, <3>5, WithClientOK
    <3>7. ByScheme(cache, a, op) = WithClient(grown, a, op, scheme)
      BY <1>7, <1>11, <2>5, <3>1, <3>4
    <3> QED BY <3>6, <3>7
  <2> QED BY <2>4, <2>5
<1> QED BY <1>9, <1>10, <1>11

(* Whatever clients are at hand, getClientFor chooses a form and a client  *)
(* that go together, and leaves such clients behind.                       *)
LEMMA ClientForOK ==
    ASSUME td \in Things, NEW cache, CacheOK(cache), NEW a \in DOMAIN Affordances,
           NEW op, NEW index
    PROVE  ResultOK(ClientFor(cache, a, op, index))
BY ThrownOK, ByIndexOK, BySchemeOK DEF ClientFor

(* All of this depends on the Thing Description alone, which stays.        *)
LEMMA SecurityStays ==
    ASSUME UNCHANGED td, NEW f
    PROVE  SecurityAfter(f)' = SecurityAfter(f) /\ (SecurityFails(f)' <=> SecurityFails(f))
<1>1. UNCHANGED <<Definitions, Affordances>> BY DEF Definitions, Affordances
<1>2. Required(f)' = Required(f) BY DEF Required
<1>3. SecurityAfter(f)' = SecurityAfter(f) BY <1>2 DEF SecurityAfter
<1>4. ASSUME NEW names PROVE VisitFails(names)' <=> VisitFails(names)
  <2>1. Visited(names)' = Visited(names) BY <1>1 DEF Visited, Defined
  <2> QED BY <1>1, <2>1 DEF VisitFails
<1>5. ASSUME NEW names PROVE FirstScheme(names)' = FirstScheme(names)
  BY <1>1 DEF FirstScheme
<1>6. PICK names : names = Required(f) OBVIOUS
<1>7. SecurityFails(f)' <=> SecurityFails(f)
  <2>1. VisitFails(names)' <=> VisitFails(names) BY <1>4
  <2>2. FirstScheme(names)' = FirstScheme(names) BY <1>5
  <2>3. names = Required(f)' BY <1>2, <1>6
  <2> QED BY <1>6, <2>1, <2>2, <2>3 DEF SecurityFails, OfForm
<1> QED BY <1>3, <1>7

LEMMA ChoiceStays ==
    ASSUME UNCHANGED td, NEW cache, NEW x
    PROVE  (CacheOK(cache) => CacheOK(cache)') /\ (CallOK(x) => CallOK(x)')
<1>1. UNCHANGED Affordances BY DEF Affordances
<1>2. \A a : Forms(a)' = Forms(a) BY <1>1 DEF Forms
<1>3. \A f : SecurityAfter(f)' = SecurityAfter(f) /\ (SecurityFails(f)' <=> SecurityFails(f))
  BY SecurityStays
<1>4. \A s : Uniform(s)' <=> Uniform(s) BY <1>1, <1>2, <1>3 DEF Uniform
<1>5. \A client, s : ClientOK(client, s)' <=> ClientOK(client, s) BY <1>3, <1>4 DEF ClientOK
<1>6. CacheOK(cache) => CacheOK(cache)' BY <1>5 DEF CacheOK
<1>7. CallOK(x) => CallOK(x)' BY <1>1, <1>2, <1>5 DEF CallOK
<1> QED BY <1>6, <1>7

LEMMA ChoiceKept ==
    ASSUME ChoiceInv, UNCHANGED td, CacheOK(clients'), CallOK(call'),
           \A x \in subs' : x.a \in DOMAIN Affordances
    PROVE  ChoiceInv'
<1>1. UNCHANGED Affordances BY DEF Affordances
<1>2. PICK cache, x : cache = clients' /\ x = call' OBVIOUS
<1>3. CacheOK(cache)' /\ CallOK(x)' BY <1>2, ChoiceStays
<1> QED BY <1>1, <1>2, <1>3 DEF ChoiceInv

LEMMA BecomesOK ==
    ASSUME ChoiceInv, NEW result, ResultOK(result), NEW proper, Becomes(result, proper),
           UNCHANGED <<td, subs>>
    PROVE  ChoiceInv'
<1>1. CacheOK(clients') BY DEF Becomes, ResultOK
<1>2. CallOK([NoCall EXCEPT !.outcome = "thrown"]) BY DEF CallOK, NoCall
<1>3. CallOK(call') BY <1>2 DEF Becomes, ResultOK
<1> QED BY <1>1, <1>3, ChoiceKept DEF ChoiceInv

LEMMA AnswerStep == ChoiceInv /\ Answer => ChoiceInv'
<1> SUFFICES ASSUME ChoiceInv, Answer PROVE ChoiceInv' OBVIOUS
<1>1. UNCHANGED <<td, clients>> /\ call' = NoCall /\ call.outcome = "chosen" BY DEF Answer
<1>2. call.a \in DOMAIN Affordances BY <1>1 DEF ChoiceInv, CallOK
<1>3. CallOK(NoCall) BY DEF CallOK, NoCall
<1>4. \A x \in subs' : x.a \in DOMAIN Affordances BY <1>2 DEF Answer, ChoiceInv
<1> QED BY <1>1, <1>3, <1>4, ChoiceKept DEF ChoiceInv

LEMMA StopStep ==
    ASSUME ChoiceInv, NEW x \in subs, Stop(x)
    PROVE  ChoiceInv'
<1>1. x.a \in DOMAIN Affordances BY DEF ChoiceInv
<1>2. PICK op, i : op = Ending(x.op) /\ i = EndingForm(x.a, x.form, op) OBVIOUS
<1>3. PICK result : result = ClientFor(clients, x.a, op, i) OBVIOUS
<1>4. ResultOK(result) BY <1>1, <1>3, ClientForOK DEF ChoiceInv
<1>5. /\ clients' = result.clients /\ UNCHANGED td /\ subs' \subseteq subs
      /\ call' = IF result.call.outcome = "chosen"
                 THEN [result.call EXCEPT !.outcome = "stopped", !.client = x.client]
                 ELSE result.call
  BY <1>2, <1>3 DEF Stop
<1>6. CallOK([result.call EXCEPT !.outcome = "stopped", !.client = x.client])
  <2>1. "outcome" \in DOMAIN result.call BY <1>4 DEF ResultOK, CallOK
  <2> DEFINE stopped == [result.call EXCEPT !.outcome = "stopped", !.client = x.client]
  <2>2. stopped.outcome = "stopped" /\ "outcome" \in DOMAIN stopped BY <2>1
  <2> HIDE DEF stopped
  <2>3. CallOK(stopped) BY <2>2 DEF CallOK
  <2> QED BY <2>3 DEF stopped
<1>7. CallOK(call') BY <1>4, <1>5, <1>6 DEF ResultOK
<1>8. CacheOK(clients') BY <1>4, <1>5 DEF ResultOK
<1> QED BY <1>5, <1>7, <1>8, ChoiceKept DEF ChoiceInv

(* Induction up to a number, for a set.                                    *)
LEMMA UpTo ==
    ASSUME NEW n \in Nat, NEW S, 0 \in S, \A k \in 1 .. n : k - 1 \in S => k \in S
    PROVE  \A k \in 0 .. n : k \in S
<1> DEFINE out == {k \in 0 .. n : k \notin S}
<1> SUFFICES ASSUME out # {} PROVE FALSE OBVIOUS
<1> DEFINE less == {p \in Nat \X Nat : p[1] < p[2]}
<1>1. IsWellFoundedOn(less, Nat) BY NatLessThanWellFounded DEF OpToRel
<1>2. out \subseteq Nat OBVIOUS
<1>3. PICK m \in out : \A j \in out : <<j, m>> \notin less
  <2> HIDE DEF out, less
  <2> QED BY <1>1, <1>2, WFMin, Zenon
<1>4. m \in 1 .. n OBVIOUS
<1>5. m - 1 \in 0 .. n /\ <<m - 1, m>> \in less BY <1>4
<1>6. m - 1 \in S BY <1>3, <1>5
<1> QED BY <1>4, <1>6

(* The properties of a Thing in a list.                                    *)
LEMMA NamesListed ==
    ASSUME td \in Things
    PROVE  SetToSeq({a \in DOMAIN Affordances : Affordances[a].kind = "property"})
             \in Seq(DOMAIN Affordances)
<1> DEFINE S == {a \in DOMAIN Affordances : Affordances[a].kind = "property"}
           D == 1 .. Cardinality(S)
<1>1. IsFiniteSet(DOMAIN Affordances) BY ClientChoiceAssumption DEF IsThing, Affordances
<1>2. IsFiniteSet(S) BY <1>1, FS_Subset
<1>s. S \subseteq DOMAIN Affordances OBVIOUS
<1> HIDE DEF S
<1>3. Cardinality(S) \in Nat /\ ExistsBijection(D, S) BY <1>2, FS_CardinalityType
<1>4. \E g \in [D -> S] : IsInjective(g)
  BY <1>3 DEF ExistsBijection, Bijection, Injection, IsInjective
<1>5. SetToSeq(S) \in [D -> S] BY <1>4 DEF SetToSeq
<1>6. PICK n \in Nat : n = Cardinality(S) BY <1>3
<1>f. PICK f : f = SetToSeq(S) OBVIOUS
<1>7. f \in [1 .. n -> DOMAIN Affordances] BY <1>s, <1>5, <1>6, <1>f
<1>8. f \in Seq(DOMAIN Affordances) BY <1>7
<1> QED BY <1>f, <1>8 DEF S

SumOK(sum) == ResultOK(sum) /\ sum.read \in Seq(DOMAIN Affordances)

LEMMA LookUpOK ==
    ASSUME td \in Things, NEW sum, SumOK(sum), NEW a \in DOMAIN Affordances
    PROVE  SumOK(LookUp(sum, a))
<1>1. PICK found : found = ClientFor(sum.clients, a, "readproperty", None) OBVIOUS
<1>2. ResultOK(found) BY <1>1, ClientForOK DEF SumOK, ResultOK
<1>3. PICK read \in Seq(DOMAIN Affordances) :
        read = IF found.call.outcome = "chosen" THEN Append(sum.read, a) ELSE sum.read
  <2>1. PICK old \in Seq(DOMAIN Affordances) : old = sum.read BY DEF SumOK
  <2>2. Append(old, a) \in Seq(DOMAIN Affordances) BY AppendProperties
  <2> QED BY <2>1, <2>2
<1>4. LookUp(sum, a) =
        IF sum.call.outcome = "thrown" THEN sum
        ELSE [clients |-> found.clients, call |-> found.call, read |-> read]
  BY <1>1, <1>3 DEF LookUp
<1>5. SumOK([clients |-> found.clients, call |-> found.call, read |-> read])
  BY <1>2 DEF SumOK, ResultOK
<1> QED BY <1>4, <1>5

LEMMA LookUpsAre ==
    ASSUME NEW names \in Seq(DOMAIN Affordances)
    PROVE  LookUps(names) =
             [k \in 0 .. Len(names) |->
                IF k = 0 THEN [clients |-> clients, call |-> NoCall, read |-> <<>>]
                ELSE LookUp(LookUps(names)[k - 1], names[k])]
<1> DEFINE Whole(g) ==
             g = [k \in 0 .. Len(names) |->
                    IF k = 0 THEN [clients |-> clients, call |-> NoCall, read |-> <<>>]
                    ELSE LookUp(g[k - 1], names[k])]
<1>1. \E g : Whole(g)
  <2>0. PICK n \in Nat : n = Len(names) OBVIOUS
  <2>1. PICK names1 : names1 = names OBVIOUS
  <2>2. PICK first : first = [clients |-> clients, call |-> NoCall, read |-> <<>>] OBVIOUS
  <2> DEFINE Step(r, k) == LookUp(r, names1[k])
             Loop(g, m) == g = [k \in 0 .. m |-> IF k = 0 THEN first ELSE Step(g[k - 1], k)]
             S == {m \in Nat : \E g : Loop(g, m)}
  <2> HIDE DEF Step
  <2>3. 0 \in S
    <3>1. PICK g : g = [k \in 0 .. 0 |-> first] OBVIOUS
    <3>2. Loop(g, 0) BY <3>1
    <3> QED BY <3>2
  <2>4. ASSUME NEW m \in 1 .. n, m - 1 \in S PROVE m \in S
    <3>1. PICK g : Loop(g, m - 1) BY <2>4
    <3>2. g[0] = first /\ \A k \in 1 .. (m - 1) : g[k] = Step(g[k - 1], k) BY <3>1
    <3>3. PICK end : end = Step(g[m - 1], m) OBVIOUS
    <3>4. PICK h : h = [k \in 0 .. m |-> IF k = m THEN end ELSE g[k]] OBVIOUS
    <3>5. ASSUME NEW k \in 0 .. m
          PROVE  h[k] = IF k = 0 THEN first ELSE Step(h[k - 1], k)
      <4>1. CASE k = 0 BY <3>2, <3>4, <4>1
      <4>2. CASE k = m
        <5>1. h[k] = end /\ h[k - 1] = g[m - 1] /\ k # 0 BY <3>4, <4>2
        <5> QED BY <3>3, <4>2, <5>1
      <4>3. CASE k # 0 /\ k # m
        <5>1. k \in 1 .. (m - 1) /\ h[k] = g[k] /\ h[k - 1] = g[k - 1] BY <3>4, <4>3
        <5> QED BY <3>2, <5>1
      <4> QED BY <4>1, <4>2, <4>3
    <3>6. h = [k \in 0 .. m |-> h[k]] BY <3>4
    <3>7. Loop(h, m) BY <3>5, <3>6
    <3> HIDE DEF Loop
    <3> QED BY <3>7
  <2>5. n \in S
    <3> HIDE DEF S
    <3>1. \A k \in 0 .. n : k \in S BY <2>3, <2>4, UpTo
    <3> QED BY <3>1
  <2>6. PICK g : Loop(g, n) BY <2>5
  <2>7. Whole(g) BY <2>0, <2>1, <2>2, <2>6 DEF Step
  <2> QED BY <2>7
<1>2. LookUps(names) = CHOOSE g : Whole(g) BY DEF LookUps
<1>3. Whole(LookUps(names))
  <2> HIDE DEF Whole
  <2> QED BY <1>1, <1>2
<1> QED BY <1>3

LEMMA ReadingsAre ==
    ASSUME NEW looked, looked.read \in Seq(DOMAIN Affordances)
    PROVE  Readings(looked) =
             [k \in 0 .. Len(looked.read) |->
                IF k = 0 THEN [clients |-> looked.clients, call |-> looked.call]
                ELSE ClientFor(Readings(looked)[k - 1].clients, looked.read[k], "readproperty", None)]
<1> DEFINE Whole(g) ==
             g = [k \in 0 .. Len(looked.read) |->
                    IF k = 0 THEN [clients |-> looked.clients, call |-> looked.call]
                    ELSE ClientFor(g[k - 1].clients, looked.read[k], "readproperty", None)]
<1>1. \E g : Whole(g)
  <2>0. PICK n \in Nat : n = Len(looked.read) OBVIOUS
  <2>1. PICK names1 : names1 = looked.read OBVIOUS
  <2>2. PICK first : first = [clients |-> looked.clients, call |-> looked.call] OBVIOUS
  <2> DEFINE Step(r, k) == ClientFor(r.clients, names1[k], "readproperty", None)
             Loop(g, m) == g = [k \in 0 .. m |-> IF k = 0 THEN first ELSE Step(g[k - 1], k)]
             S == {m \in Nat : \E g : Loop(g, m)}
  <2> HIDE DEF Step
  <2>3. 0 \in S
    <3>1. PICK g : g = [k \in 0 .. 0 |-> first] OBVIOUS
    <3>2. Loop(g, 0) BY <3>1
    <3> QED BY <3>2
  <2>4. ASSUME NEW m \in 1 .. n, m - 1 \in S PROVE m \in S
    <3>1. PICK g : Loop(g, m - 1) BY <2>4
    <3>2. g[0] = first /\ \A k \in 1 .. (m - 1) : g[k] = Step(g[k - 1], k) BY <3>1
    <3>3. PICK end : end = Step(g[m - 1], m) OBVIOUS
    <3>4. PICK h : h = [k \in 0 .. m |-> IF k = m THEN end ELSE g[k]] OBVIOUS
    <3>5. ASSUME NEW k \in 0 .. m
          PROVE  h[k] = IF k = 0 THEN first ELSE Step(h[k - 1], k)
      <4>1. CASE k = 0 BY <3>2, <3>4, <4>1
      <4>2. CASE k = m
        <5>1. h[k] = end /\ h[k - 1] = g[m - 1] /\ k # 0 BY <3>4, <4>2
        <5> QED BY <3>3, <4>2, <5>1
      <4>3. CASE k # 0 /\ k # m
        <5>1. k \in 1 .. (m - 1) /\ h[k] = g[k] /\ h[k - 1] = g[k - 1] BY <3>4, <4>3
        <5> QED BY <3>2, <5>1
      <4> QED BY <4>1, <4>2, <4>3
    <3>6. h = [k \in 0 .. m |-> h[k]] BY <3>4
    <3>7. Loop(h, m) BY <3>5, <3>6
    <3> HIDE DEF Loop
    <3> QED BY <3>7
  <2>5. n \in S
    <3> HIDE DEF S
    <3>1. \A k \in 0 .. n : k \in S BY <2>3, <2>4, UpTo
    <3> QED BY <3>1
  <2>6. PICK g : Loop(g, n) BY <2>5
  <2>7. Whole(g) BY <2>0, <2>1, <2>2, <2>6 DEF Step
  <2> QED BY <2>7
<1>2. Readings(looked) = CHOOSE g : Whole(g) BY DEF Readings
<1>3. Whole(Readings(looked))
  <2> HIDE DEF Whole
  <2> QED BY <1>1, <1>2
<1> QED BY <1>3

LEMMA LookUpsOK ==
    ASSUME td \in Things, CacheOK(clients), NEW names \in Seq(DOMAIN Affordances)
    PROVE  SumOK(LookUps(names)[Len(names)])
<1>1. PICK n \in Nat : n = Len(names) /\ DOMAIN names = 1 .. n OBVIOUS
<1>2. PICK first : first = [clients |-> clients, call |-> NoCall, read |-> <<>>] OBVIOUS
<1>3. PICK g : g = LookUps(names) OBVIOUS
<1>4. g = [k \in 0 .. n |-> IF k = 0 THEN first ELSE LookUp(g[k - 1], names[k])]
  BY <1>1, <1>2, <1>3, LookUpsAre
<1> DEFINE S == {k \in 0 .. n : SumOK(g[k])}
<1>5. 0 \in S
  <2>1. g[0] = first BY <1>4
  <2>2. CallOK(NoCall) BY DEF CallOK, NoCall
  <2>3. SumOK(first) BY <1>2, <2>2 DEF SumOK, ResultOK
  <2> QED BY <2>1, <2>3
<1>6. ASSUME NEW k \in 1 .. n, k - 1 \in S PROVE k \in S
  <2>1. g[k] = LookUp(g[k - 1], names[k]) BY <1>4
  <2>2. SumOK(g[k - 1]) BY <1>6
  <2>3. names[k] \in DOMAIN Affordances BY <1>1
  <2>4. SumOK(g[k]) BY <2>1, <2>2, <2>3, LookUpOK
  <2> QED BY <2>4
<1> HIDE DEF S
<1>7. \A k \in 0 .. n : k \in S BY <1>5, <1>6, UpTo
<1> QED BY <1>1, <1>3, <1>7 DEF S

LEMMA ReadingsOK ==
    ASSUME td \in Things, NEW looked, SumOK(looked)
    PROVE  ResultOK(Readings(looked)[Len(looked.read)])
<1>1. PICK names \in Seq(DOMAIN Affordances), n \in Nat :
        names = looked.read /\ n = Len(names) /\ DOMAIN names = 1 .. n
  BY DEF SumOK
<1>2. PICK first : first = [clients |-> looked.clients, call |-> looked.call] OBVIOUS
<1>3. PICK g : g = Readings(looked) OBVIOUS
<1>4. g = [k \in 0 .. n |-> IF k = 0 THEN first
             ELSE ClientFor(g[k - 1].clients, names[k], "readproperty", None)]
  BY <1>1, <1>2, <1>3, ReadingsAre
<1> DEFINE S == {k \in 0 .. n : ResultOK(g[k])}
<1>5. 0 \in S
  <2>1. g[0] = first BY <1>4
  <2>2. ResultOK(first) BY <1>2 DEF SumOK, ResultOK
  <2> QED BY <2>1, <2>2
<1>6. ASSUME NEW k \in 1 .. n, k - 1 \in S PROVE k \in S
  <2>1. g[k] = ClientFor(g[k - 1].clients, names[k], "readproperty", None) BY <1>4
  <2>2. CacheOK(g[k - 1].clients) BY <1>6 DEF ResultOK
  <2>3. names[k] \in DOMAIN Affordances BY <1>1
  <2>4. ResultOK(g[k]) BY <2>1, <2>2, <2>3, ClientForOK
  <2> QED BY <2>4
<1> HIDE DEF S
<1>7. \A k \in 0 .. n : k \in S BY <1>5, <1>6, UpTo
<1> QED BY <1>1, <1>3, <1>7 DEF S

LEMMA ReadAllStep == ChoiceInv /\ ReadAll => ChoiceInv'
<1> SUFFICES ASSUME ChoiceInv, ReadAll PROVE ChoiceInv' OBVIOUS
<1>0. td \in Things /\ CacheOK(clients) BY DEF ChoiceInv
<1>1. PICK names : names = SetToSeq({a \in DOMAIN Affordances : Affordances[a].kind = "property"})
  OBVIOUS
<1>2. names \in Seq(DOMAIN Affordances) BY <1>0, <1>1, NamesListed
<1>3. PICK looked : looked = LookUps(names)[Len(names)] OBVIOUS
<1>4. SumOK(looked) BY <1>0, <1>2, <1>3, LookUpsOK
<1>5. PICK read : read = Readings(looked)[Len(looked.read)] OBVIOUS
<1>6. ResultOK(read) BY <1>0, <1>4, <1>5, ReadingsOK
<1>7. PICK result : result = IF looked.call.outcome = "thrown" THEN looked ELSE read OBVIOUS
<1>8. ResultOK(result) BY <1>4, <1>6, <1>7 DEF SumOK
<1>9. Becomes(result, TRUE) /\ UNCHANGED <<td, subs>>
  BY <1>1, <1>3, <1>5, <1>7 DEF ReadAll
<1> QED BY <1>8, <1>9, BecomesOK

LEMMA ChoiceInit == Init => ChoiceInv
<1> SUFFICES ASSUME Init PROVE ChoiceInv OBVIOUS
<1>1. clients = [s \in Schemes |-> None] /\ td \in Things /\ call = NoCall /\ subs = {}
  BY DEF Init
<1>2. CacheOK(clients) BY <1>1 DEF CacheOK
<1>3. CallOK(NoCall) BY DEF CallOK, NoCall
<1> QED BY <1>1, <1>2, <1>3 DEF ChoiceInv

LEMMA ChoiceStep == ChoiceInv /\ [Next]_vars => ChoiceInv'
<1> SUFFICES ASSUME ChoiceInv, [Next]_vars PROVE ChoiceInv' OBVIOUS
<1>1. CASE UNCHANGED <<td, clients, call, subs>>
  BY <1>1, ChoiceKept DEF ChoiceInv
<1>2. ASSUME NEW a \in DOMAIN Affordances, NEW op, NEW index, NEW proper,
             Interact(a, op, index, proper)
      PROVE  ChoiceInv'
  <2>1. PICK result : result = ClientFor(clients, a, op, index) OBVIOUS
  <2>2. ResultOK(result) BY <2>1, ClientForOK DEF ChoiceInv
  <2> QED BY <1>2, <2>1, <2>2, BecomesOK DEF Interact
<1>3. CASE Answer BY <1>3, AnswerStep
<1>4. CASE ReadAll BY <1>4, ReadAllStep
<1>5. ASSUME NEW x \in subs, Stop(x) PROVE ChoiceInv' BY <1>5, StopStep
<1>6. ASSUME NEW s, AddFactory(s) \/ RemoveFactory(s) PROVE ChoiceInv'
  BY <1>1, <1>6 DEF AddFactory, RemoveFactory
<1>7. UNCHANGED vars => UNCHANGED <<td, clients, call, subs>> BY DEF vars
<1> QED BY <1>1, <1>2, <1>3, <1>4, <1>5, <1>6, <1>7 DEF Next

(* A request goes out with a form for its operation and to a client of the *)
(* scheme of the form, or of the scheme of another form that the href of   *)
(* the first mentions: getClientFor chooses the client by one form and the *)
(* form by the client.                                                     *)
THEOREM FormsFitClients == Spec => []FormFitsClient
<1>1. ChoiceInv => FormFitsClient
  BY DEF ChoiceInv, CallOK, ClientOK, FormFitsClient, TheForm
<1> QED BY <1>1, ChoiceInit, ChoiceStep, PTL DEF Spec

(* Where all forms of a scheme ask for one security that can be set, each  *)
(* request goes out with it, whichever of the paths filled the cache.      *)
THEOREM SecuredWhereUniform == Spec => []SecuredOrKnown
<1>1. ChoiceInv => SecuredOrKnown
  <2> SUFFICES ASSUME ChoiceInv, call.outcome = "chosen",
                      SecurityAfter(None) = SecurityAfter(TheForm),
                      \A a \in DOMAIN Affordances : \A i \in DOMAIN Forms(a) :
                         call.client.scheme \in Forms(a)[i].mentions =>
                            /\ SecurityAfter(Forms(a)[i]) = SecurityAfter(TheForm)
                            /\ ~SecurityFails(Forms(a)[i])
               PROVE  call.stale \/ call.client.security = SecurityAfter(TheForm)
    BY DEF SecuredOrKnown
  <2>1. Uniform(call.client.scheme) BY DEF Uniform
  <2>2. call.stale \/ ClientOK(call.client, call.client.scheme)
    BY DEF ChoiceInv, CallOK, TheForm
  <2> QED BY <2>1, <2>2 DEF ClientOK
<1> QED BY <1>1, ChoiceInit, ChoiceStep, PTL DEF Spec

-----------------------------------------------------------------------------
(* The codec for octet streams                                             *)

(* The powers of two of the codec.                                         *)
LEMMA TwoIs ==
    /\ Codec!Two \in [0 .. 30 -> Nat \ {0}]
    /\ Codec!Two[0] = 1
    /\ \A i \in 0 .. 29 : Codec!Two[i + 1] = 2 * Codec!Two[i]
<1> DEFINE power == <<1, 2, 4, 8, 16, 32, 64, 128, 256, 512, 1024, 2048, 4096, 8192, 16384,
                      32768, 65536, 131072, 262144, 524288, 1048576, 2097152, 4194304,
                      8388608, 16777216, 33554432, 67108864, 134217728, 268435456,
                      536870912, 1073741824>>
           f == [i \in 0 .. 30 |-> power[i + 1]]
           Powers(g) == g = [i \in 0 .. 30 |-> IF i = 0 THEN 1 ELSE 2 * g[i - 1]]
<1>1. Powers(f)
  <2>1. f[0] = 1 OBVIOUS
  <2>2. ASSUME NEW i \in 1 .. 30 PROVE f[i] = 2 * f[i - 1] OBVIOUS
  <2> QED BY <2>1, <2>2
<1>2. Codec!Two = CHOOSE g : Powers(g) BY DEF Codec!Two
<1>3. f \in [0 .. 30 -> Nat \ {0}] OBVIOUS
<1> HIDE DEF f
<1>4. Powers(Codec!Two) BY <1>1, <1>2
<1>5. PICK two : two = Codec!Two OBVIOUS
<1>6. Powers(two) BY <1>4, <1>5
<1>7. two[0] = 1 /\ \A i \in 0 .. 29 : two[i + 1] = 2 * two[i] BY <1>6
<1> DEFINE S == {k \in 0 .. 30 : two[k] \in Nat \ {0}}
<1>8. 0 \in S BY <1>7
<1>9. ASSUME NEW k \in 1 .. 30, k - 1 \in S PROVE k \in S
  <2>1. two[k] = 2 * two[k - 1] BY <1>7
  <2> QED BY <1>9, <2>1
<1> HIDE DEF S
<1>10. \A k \in 0 .. 30 : k \in S BY <1>8, <1>9, UpTo
<1> USE DEF S
<1>11. two \in [0 .. 30 -> Nat \ {0}] BY <1>6, <1>10
<1> QED BY <1>5, <1>7, <1>11

(* What Bit shifts a value by, and what is left of the value.              *)
Shift(i) == Codec!Two[IF i > 30 THEN 30 ELSE i]
Shifted(v, i) == v \div Shift(i)
Short == -Codec!Two[30] .. (Codec!Two[30] - 1)

LEMMA ShiftIs ==
    /\ \A i \in Nat : Shift(i) \in Nat \ {0}
    /\ Shift(0) = 1
    /\ \A i \in 0 .. 29 : Shift(i + 1) = 2 * Shift(i)
    /\ \A i \in Nat : i >= 30 => Shift(i) = Codec!Two[30]
BY TwoIs DEF Shift

LEMMA ShiftedIs ==
    ASSUME NEW v \in Short, NEW i \in Nat
    PROVE  /\ Shifted(v, i) \in Int /\ Shifted(v, i + 1) \in Int
           /\ Codec!Bit(v, i) \in {0, 1}
           /\ Shifted(v, i) = 2 * Shifted(v, i + 1) + Codec!Bit(v, i)
<1>1. PICK p \in Nat \ {0} : p = Shift(i) BY ShiftIs
<1>2. v \in Int BY TwoIs DEF Short
<1>3. Codec!Bit(v, i) = (v \div p) % 2 BY <1>1 DEF Codec!Bit, Shift
<1>4. CASE i < 30
  <2>1. Shift(i + 1) = 2 * p
    <3>1. i \in 0 .. 29 BY <1>4
    <3> QED BY <1>1, <3>1, ShiftIs
  <2>2. v \div (2 * p) = (v \div p) \div 2 BY <1>2
  <2> QED BY <1>1, <1>2, <1>3, <2>1, <2>2 DEF Shifted
<1>5. CASE i >= 30
  <2>1. Shift(i + 1) = p /\ p = Codec!Two[30] BY <1>1, <1>5, ShiftIs
  <2>2. -p <= v /\ v < p BY <2>1 DEF Short
  <2>3. v \div p \in {-1, 0} BY <1>2, <2>2
  <2> QED BY <1>1, <1>2, <1>3, <2>1, <2>3 DEF Shifted
<1> QED BY <1>4, <1>5

LEMMA ShiftedByNone == ASSUME NEW v \in Short PROVE Shifted(v, 0) = v
<1>1. v \in Int BY TwoIs DEF Short
<1> QED BY <1>1, ShiftIs DEF Shifted

(* Of a value that fits n bits nothing but a sign is left behind them.     *)
LEMMA ShiftedFitting ==
    ASSUME NEW v \in Short, NEW n \in Nat, n > 0, NEW signed \in BOOLEAN,
           ~Codec!Overflows(v, n, signed)
    PROVE  /\ Shifted(v, n - 1) = IF signed THEN -Codec!Bit(v, n - 1) ELSE Codec!Bit(v, n - 1)
           /\ v >= 0 => \A i \in Nat : i >= n => Shifted(v, i) = 0
<1>1. v \in Int BY TwoIs DEF Short
<1>2. PICK p \in Nat \ {0} : p = Shift(n - 1) BY ShiftIs
<1>3. Codec!Bit(v, n - 1) = (v \div p) % 2 BY <1>2 DEF Codec!Bit, Shift
<1>4. /\ -p <= v /\ v < 2 * p
      /\ signed => v < p
      /\ ~signed => v >= 0
  <2>1. CASE n > 30
    <3>1. p = Codec!Two[30] BY <1>2, <2>1, ShiftIs
    <3>2. -p <= v /\ v < p BY <3>1 DEF Short
    <3> QED BY <1>1, <2>1, <3>2 DEF Codec!Overflows
  <2>2. CASE n <= 30
    <3>1. p = Codec!Two[n - 1] /\ Codec!Two[n] = 2 * p BY <1>2, <2>2, TwoIs DEF Shift
    <3>2. ~(n > 30) /\ n # 0 BY <2>2
    <3>3. CASE signed
      <4>1. ~(v >= p \/ v < -p) BY <3>1, <3>2, <3>3 DEF Codec!Overflows
      <4> QED BY <1>1, <3>3, <4>1
    <3>4. CASE ~signed
      <4>1. ~(v >= 2 * p \/ v < 0) BY <3>1, <3>2, <3>4 DEF Codec!Overflows
      <4> QED BY <1>1, <3>4, <4>1
    <3> QED BY <3>3, <3>4
  <2> QED BY <2>1, <2>2
<1>5. Shifted(v, n - 1) = v \div p BY <1>2 DEF Shifted
<1>6. Shifted(v, n - 1) = IF signed THEN -Codec!Bit(v, n - 1) ELSE Codec!Bit(v, n - 1)
  <2>1. CASE signed
    <3>1. v \div p \in {-1, 0} BY <1>1, <1>4, <2>1
    <3> QED BY <1>3, <1>5, <2>1, <3>1
  <2>2. CASE ~signed
    <3>1. v \div p \in {0, 1} BY <1>1, <1>4, <2>2
    <3> QED BY <1>3, <1>5, <2>2, <3>1
  <2> QED BY <2>1, <2>2
<1>7. ASSUME v >= 0, NEW i \in Nat, i >= n PROVE Shifted(v, i) = 0
  <2>1. PICK m \in Nat : m = i - n BY <1>7
  <2> DEFINE S == {k \in 0 .. m : Shifted(v, n + k) = 0}
  <2>2. 0 \in S
    <3>1. Shifted(v, n - 1) \in {0, 1}
      <4>1. v \div p \in {0, 1} BY <1>1, <1>4, <1>7
      <4> QED BY <1>5, <4>1
    <3>2. n - 1 \in Nat /\ n - 1 + 1 = n BY <1>7
    <3>3. /\ Shifted(v, n) \in Int /\ Codec!Bit(v, n - 1) \in {0, 1}
          /\ Shifted(v, n - 1) = 2 * Shifted(v, n) + Codec!Bit(v, n - 1)
      BY <3>2, ShiftedIs
    <3>4. Shifted(v, n) = 0 BY <3>1, <3>3
    <3>5. n + 0 = n OBVIOUS
    <3> QED BY <3>4, <3>5
  <2>3. ASSUME NEW k \in 1 .. m, k - 1 \in S PROVE k \in S
    <3>1. PICK j \in Nat : j = n + (k - 1) /\ j + 1 = n + k OBVIOUS
    <3>2. Shifted(v, j) = 0 BY <2>3, <3>1
    <3>3. /\ Shifted(v, j + 1) \in Int /\ Codec!Bit(v, j) \in {0, 1}
          /\ Shifted(v, j) = 2 * Shifted(v, j + 1) + Codec!Bit(v, j)
      BY ShiftedIs
    <3>4. Shifted(v, j + 1) = 0 BY <3>2, <3>3
    <3> QED BY <3>1, <3>4
  <2>4. m \in S
    <3> HIDE DEF S
    <3>1. \A k \in 0 .. m : k \in S BY <2>2, <2>3, UpTo
    <3> QED BY <3>1
  <2>5. n + m = i BY <2>1
  <2> QED BY <2>4, <2>5
<1> QED BY <1>6, <1>7

(* The number of a sequence of bits is the last of its sums.               *)
Sums(f, b, n, signed) ==
    \A k \in 1 .. n : f[k] = IF k = 1 THEN IF signed THEN -b[1] ELSE b[1] ELSE 2 * f[k - 1] + b[k]

LEMMA NumberIs ==
    ASSUME NEW n \in Nat, n > 0, NEW b \in Seq({0, 1}), Len(b) = n, NEW signed \in BOOLEAN,
           NEW f \in [1 .. n -> Int], Sums(f, b, n, signed)
    PROVE  Codec!Number(b, signed) = f[n]
<1> DEFINE Whole(g) ==
        g = [k \in 1 .. n |-> IF k = 1 THEN IF signed THEN -b[1] ELSE b[1] ELSE 2 * g[k - 1] + b[k]]
<1>1. Whole(f)
  <2>1. f = [k \in 1 .. n |-> f[k]] OBVIOUS
  <2> QED BY <2>1 DEF Sums
<1>2. PICK g : g = CHOOSE h : Whole(h) OBVIOUS
<1>3. Codec!Number(b, signed) = g[n] BY <1>2 DEF Codec!Number
<1>4. Whole(g)
  <2> HIDE DEF Whole
  <2> QED BY <1>1, <1>2
<1> DEFINE S == {k \in 0 .. n : k = 0 \/ g[k] = f[k]}
<1>5. 0 \in S OBVIOUS
<1>6. ASSUME NEW k \in 1 .. n, k - 1 \in S PROVE k \in S
  <2>1. g[k] = IF k = 1 THEN IF signed THEN -b[1] ELSE b[1] ELSE 2 * g[k - 1] + b[k] BY <1>4
  <2>2. f[k] = IF k = 1 THEN IF signed THEN -b[1] ELSE b[1] ELSE 2 * f[k - 1] + b[k] BY DEF Sums
  <2>3. k # 1 => g[k - 1] = f[k - 1] BY <1>6
  <2> QED BY <2>1, <2>2, <2>3
<1>7. n \in S
  <2> HIDE DEF S
  <2>1. \A k \in 0 .. n : k \in S BY <1>5, <1>6, UpTo
  <2> QED BY <2>1
<1> QED BY <1>3, <1>7

LEMMA TwosComplementIs ==
    ASSUME NEW v \in Short, NEW n \in Nat
    PROVE  /\ Codec!TwosComplement(v, n) \in Seq({0, 1}) /\ Len(Codec!TwosComplement(v, n)) = n
           /\ \A i \in 1 .. n : Codec!TwosComplement(v, n)[i] = Codec!Bit(v, n - i)
<1>1. \A i \in 1 .. n : n - i \in Nat OBVIOUS
<1>2. \A i \in 1 .. n : Codec!Bit(v, n - i) \in {0, 1} BY <1>1, ShiftedIs
<1> QED BY <1>2 DEF Codec!TwosComplement

(* A value that fits is the number of its two's complement.                *)
LEMMA NumberOfTwosComplement ==
    ASSUME NEW v \in Short, NEW n \in Nat, n > 0, NEW signed \in BOOLEAN,
           ~Codec!Overflows(v, n, signed)
    PROVE  Codec!Number(Codec!TwosComplement(v, n), signed) = v
<1>1. PICK b : b = Codec!TwosComplement(v, n) OBVIOUS
<1>2. /\ b \in Seq({0, 1}) /\ Len(b) = n
      /\ \A i \in 1 .. n : b[i] = Codec!Bit(v, n - i)
  BY <1>1, TwosComplementIs
<1>3. PICK f : f = [k \in 1 .. n |-> Shifted(v, n - k)] OBVIOUS
<1>4. f \in [1 .. n -> Int]
  <2>1. \A k \in 1 .. n : n - k \in Nat OBVIOUS
  <2>2. \A k \in 1 .. n : Shifted(v, n - k) \in Int BY <2>1, ShiftedIs
  <2> QED BY <1>3, <2>2
<1>5. ASSUME NEW k \in 1 .. n
      PROVE  f[k] = IF k = 1 THEN IF signed THEN -b[1] ELSE b[1] ELSE 2 * f[k - 1] + b[k]
  <2>1. CASE k = 1
    <3>1. f[1] = Shifted(v, n - 1) /\ b[1] = Codec!Bit(v, n - 1) BY <1>2, <1>3
    <3>2. f[1] = IF signed THEN -Codec!Bit(v, n - 1) ELSE Codec!Bit(v, n - 1) BY <3>1, ShiftedFitting
    <3> QED BY <2>1, <3>1, <3>2
  <2>2. CASE k # 1
    <3>1. PICK j \in Nat : j = n - k OBVIOUS
    <3>2. n - (k - 1) = j + 1 BY <3>1
    <3>3. f[k] = Shifted(v, j) /\ f[k - 1] = Shifted(v, j + 1) /\ b[k] = Codec!Bit(v, j)
      BY <1>2, <1>3, <2>2, <3>1, <3>2
    <3>4. Shifted(v, j) = 2 * Shifted(v, j + 1) + Codec!Bit(v, j) BY ShiftedIs
    <3> QED BY <2>2, <3>3, <3>4
  <2> QED BY <2>1, <2>2
<1>6. Sums(f, b, n, signed) BY <1>5 DEF Sums
<1>7. f[n] = v
  <2>1. f[n] = Shifted(v, 0) BY <1>3
  <2> QED BY <2>1, ShiftedByNone
<1> QED BY <1>1, <1>2, <1>4, <1>6, <1>7, NumberIs

LEMMA SameBits ==
    ASSUME NEW n \in Nat, NEW b \in Seq({0, 1}), NEW c \in Seq({0, 1}), Len(b) = n, Len(c) = n,
           \A i \in 1 .. n : b[i] = c[i]
    PROVE  b = c
OBVIOUS

(* Zeros before it only make the field of a positive value wider.          *)
LEMMA Widened ==
    ASSUME NEW v \in Short, v >= 0, NEW n \in Nat, n > 0, NEW signed \in BOOLEAN,
           ~Codec!Overflows(v, n, signed), NEW m \in Nat
    PROVE  /\ Codec!Zeros(m) \o Codec!TwosComplement(v, n) = Codec!TwosComplement(v, m + n)
           /\ m > 0 => ~Codec!Overflows(v, m + n, signed)
<1>1. v \in Int BY TwoIs DEF Short
<1>2. PICK z : z = Codec!Zeros(m) OBVIOUS
<1>3. z \in Seq({0, 1}) /\ Len(z) = m /\ \A i \in 1 .. m : z[i] = 0 BY <1>2 DEF Codec!Zeros
<1>4. PICK b : b = Codec!TwosComplement(v, n) OBVIOUS
<1>5. b \in Seq({0, 1}) /\ Len(b) = n /\ \A i \in 1 .. n : b[i] = Codec!Bit(v, n - i)
  BY <1>4, TwosComplementIs
<1>0. PICK wide \in Nat : wide = m + n OBVIOUS
<1>6. PICK w : w = Codec!TwosComplement(v, wide) OBVIOUS
<1>7. w \in Seq({0, 1}) /\ Len(w) = m + n /\ \A i \in 1 .. (m + n) : w[i] = Codec!Bit(v, m + n - i)
  <2>1. /\ w \in Seq({0, 1}) /\ Len(w) = wide
        /\ \A i \in 1 .. wide : w[i] = Codec!Bit(v, wide - i)
    BY <1>6, TwosComplementIs
  <2> QED BY <1>0, <2>1
<1>8. \A i \in Nat : i >= n => Codec!Bit(v, i) = 0
  <2>1. ASSUME NEW i \in Nat, i >= n PROVE Codec!Bit(v, i) = 0
    <3>1. Shifted(v, i) = 0 BY <2>1, ShiftedFitting
    <3>2. /\ Shifted(v, i + 1) \in Int /\ Codec!Bit(v, i) \in {0, 1}
          /\ Shifted(v, i) = 2 * Shifted(v, i + 1) + Codec!Bit(v, i) BY ShiftedIs
    <3> QED BY <3>1, <3>2
  <2> QED BY <2>1
<1>9. z \o b = w
  <2>1. z \o b \in Seq({0, 1}) /\ Len(z \o b) = m + n BY <1>3, <1>5
  <2>2. ASSUME NEW i \in 1 .. (m + n) PROVE (z \o b)[i] = w[i]
    <3>1. CASE i <= m
      <4>1. (z \o b)[i] = 0 BY <1>3, <1>5, <3>1
      <4>2. m + n - i \in Nat /\ m + n - i >= n BY <3>1
      <4> QED BY <1>7, <1>8, <4>1, <4>2
    <3>2. CASE ~(i <= m)
      <4>1. (z \o b)[i] = b[i - m] /\ i - m \in 1 .. n BY <1>3, <1>5, <3>2
      <4>2. n - (i - m) = m + n - i OBVIOUS
      <4> QED BY <1>5, <1>7, <4>1, <4>2
    <3> QED BY <3>1, <3>2
  <2>3. \A i \in 1 .. wide : (z \o b)[i] = w[i] BY <1>0, <2>2
  <2> QED BY <1>0, <1>7, <2>1, <2>3, SameBits
<1>10. ASSUME m > 0 PROVE ~Codec!Overflows(v, m + n, signed)
  <2>1. CASE m + n > 30 BY <1>1, <2>1 DEF Codec!Overflows
  <2>2. CASE m + n <= 30
    <3>1. PICK q \in Nat \ {0} : q = Codec!Two[m + n - 1] /\ Codec!Two[m + n] = 2 * q
      BY <1>10, <2>2, TwoIs
    <3>2. v < q
      <4>1. m + n - 1 \in Nat /\ m + n - 1 >= n BY <1>10
      <4>2. Shifted(v, m + n - 1) = 0 BY <4>1, ShiftedFitting
      <4>3. Shift(m + n - 1) = q BY <2>2, <3>1 DEF Shift
      <4>4. v \div q = 0 BY <4>2, <4>3 DEF Shifted
      <4> QED BY <1>1, <3>1, <4>4
    <3>3. ~(m + n > 30) /\ m + n # 0 BY <1>10, <2>2
    <3> QED BY <1>1, <3>1, <3>2, <3>3 DEF Codec!Overflows
  <2> QED BY <2>1, <2>2
<1> QED BY <1>0, <1>2, <1>4, <1>6, <1>9, <1>10

(* The bytes of a buffer in reverse, and in reverse again.                 *)
LEMMA InOrderIs ==
    ASSUME NEW m \in Nat, NEW b \in Seq({0, 1}), Len(b) = 8 * m, NEW big \in BOOLEAN
    PROVE  /\ Codec!InOrder(b, big) \in Seq({0, 1}) /\ Len(Codec!InOrder(b, big)) = 8 * m
           /\ Codec!InOrder(Codec!InOrder(b, big), big) = b
<1>1. CASE big BY <1>1 DEF Codec!InOrder
<1>2. CASE ~big
  <2> DEFINE To(i) == 8 * (m - 1 - (i - 1) \div 8) + ((i - 1) % 8) + 1
  <2>1. \A i \in 1 .. (8 * m) : To(i) \in 1 .. (8 * m) /\ To(To(i)) = i OBVIOUS
  <2>2. ASSUME NEW c \in Seq({0, 1}), Len(c) = 8 * m
        PROVE  Codec!InOrder(c, big) = [i \in 1 .. (8 * m) |-> c[To(i)]]
    <3>1. Len(c) \div 8 = m BY <2>2
    <3>2. DOMAIN c = 1 .. (8 * m) BY <2>2
    <3> QED BY <1>2, <3>1, <3>2 DEF Codec!InOrder, Codec!Rearranged
  <2> HIDE DEF To
  <2>3. PICK c : c = [i \in 1 .. (8 * m) |-> b[To(i)]] OBVIOUS
  <2>4. c \in Seq({0, 1}) /\ Len(c) = 8 * m BY <2>1, <2>3
  <2>5. Codec!InOrder(b, big) = c BY <2>2, <2>3
  <2>6. Codec!InOrder(c, big) = [i \in 1 .. (8 * m) |-> c[To(i)]] BY <2>2, <2>4
  <2>7. \A i \in 1 .. (8 * m) : c[To(i)] = b[i] BY <2>1, <2>3
  <2>8. Codec!InOrder(c, big) = b BY <2>6, <2>7
  <2> QED BY <2>4, <2>5, <2>8
<1> QED BY <1>1, <1>2

(* One field: where it is, what is written to it, and what is read.        *)

Parameters == [length : Codec!Option, signed : {None, TRUE, FALSE}, byteSeq : {None} \cup STRING]

(* A field of n bits from a place of a buffer of size bytes on, which the  *)
(* codec accepts.                                                          *)
Placed(schema, par, size, from, n) ==
    /\ Codec!IsSchema(schema) /\ par \in Parameters
    /\ size \in Nat /\ from \in Nat /\ n \in Nat
    /\ Codec!Part(schema, size) = [from |-> from, n |-> n]
    /\ n > 0 /\ from + n <= 8 * size
    /\ ~Codec!Swaps(par) /\ ~Codec!Contradictory(schema, par, n)
    /\ par.length \in {None, size}

LEMMA NoneIsNoNumber == \A x \in Nat : x # None BY CoreAssumption

LEMMA PlacedIs ==
    ASSUME NEW schema, NEW par, NEW size, NEW from, NEW n, Placed(schema, par, size, from, n)
    PROVE  /\ Codec!Default(schema.bitOffset, 0) = from
           /\ Codec!Default(schema.bitLength, 8 * size) = n
           /\ schema.bitLength # None => schema.bitLength = n
           /\ schema.bitLength = None => from = 0 /\ n = 8 * size
           /\ Codec!Typed(schema) => Codec!TypeSemantics[schema.type].bits = n
<1>1. Codec!Part(schema, size) = [from |-> from, n |-> n] BY DEF Placed
<1>2. Codec!Default(schema.bitOffset, 0) = from /\ Codec!Default(schema.bitLength, 8 * size) = n
  BY <1>1 DEF Codec!Part
<1>3. Codec!Typed(schema) => Codec!TypeSemantics[schema.type].bits = n
  BY DEF Placed, Codec!Contradictory
<1>4. size \in Nat /\ from \in Nat /\ n \in Nat /\ from + n <= 8 * size BY DEF Placed
<1> QED BY <1>2, <1>3, <1>4 DEF Codec!Default

LEMMA Bytes ==
    ASSUME NEW n \in Nat
    PROVE  /\ Codec!BytesFor(n) \in Nat /\ 8 * Codec!BytesFor(n) >= n
           /\ 8 * Codec!BytesFor(n) < n + 8
           /\ n % 8 = 0 => 8 * Codec!BytesFor(n) = n
           /\ n % 8 # 0 => 8 * Codec!BytesFor(n) > n
BY DEF Codec!BytesFor

(* The lengths the codec settles on, and the size of the buffer.           *)
Unnamed(datum, schema, par) ==
    CASE datum.is = "boolean" -> 1
      [] datum.is = "string" -> Codec!BytesFor(Codec!Lengths(schema, par).offset + Len(datum.of))
      [] OTHER -> Codec!BytesFor(Codec!Lengths(schema, par).offset + 32)

LEMMA LengthsAre ==
    ASSUME NEW schema, NEW par, NEW size, NEW from, NEW n, Placed(schema, par, size, from, n),
           NEW settled, settled = Codec!Lengths(schema, par)
    PROVE  /\ settled.offset = from
           /\ \/ settled.bits = n /\ settled.bytes \in Nat /\ from + n <= 8 * settled.bytes
              \/ /\ settled.bits = None /\ settled.bytes = None
                 /\ par.length = None /\ from = 0 /\ n = 8 * size
                 /\ schema.bitLength = None /\ ~Codec!Typed(schema)
<1>1. /\ size \in Nat /\ from \in Nat /\ n \in Nat /\ par.length \in {None, size}
      /\ from + n <= 8 * size /\ schema.bitLength \in {None} \cup Nat
  BY DEF Placed, Codec!IsSchema, Codec!Option
<1>2. size # None /\ n # None BY <1>1, NoneIsNoNumber
<1>3. settled.offset = from BY PlacedIs DEF Codec!Lengths
<1> DEFINE named == IF Codec!Typed(schema) THEN Codec!TypeSemantics[schema.type].bits
                    ELSE schema.bitLength
<1>4. /\ settled.bits = IF named = None /\ par.length # None THEN 8 * par.length ELSE named
      /\ settled.bytes = IF par.length = None /\ named # None
                         THEN Codec!BytesFor(settled.offset + named) ELSE par.length
  BY <1>3 DEF Codec!Lengths
<1>5. CASE Codec!Typed(schema) \/ schema.bitLength # None
  <2>1. named = n BY <1>5, PlacedIs
  <2>2. PICK sum \in Nat : sum = from + n BY <1>1
  <2>3. Codec!BytesFor(sum) \in Nat /\ sum <= 8 * Codec!BytesFor(sum) BY Bytes
  <2> QED BY <1>1, <1>2, <1>3, <1>4, <2>1, <2>2, <2>3
<1>6. CASE ~Codec!Typed(schema) /\ schema.bitLength = None
  <2>1. named = None /\ from = 0 /\ n = 8 * size BY <1>6, PlacedIs
  <2> QED BY <1>1, <1>2, <1>3, <1>4, <1>6, <2>1
<1> QED BY <1>5, <1>6

LEMMA SizeIs ==
    ASSUME NEW schema, NEW par, NEW size, NEW from, NEW n, Placed(schema, par, size, from, n),
           NEW datum, size = Codec!Size(datum, schema, par),
           NEW settled, settled = Codec!Lengths(schema, par)
    PROVE  \/ settled.bits = n /\ settled.bytes = size
           \/ /\ settled.bits = None /\ settled.bytes = None
              /\ par.length = None /\ from = 0 /\ n = 8 * size
              /\ size = Unnamed(datum, schema, par)
<1>1. size = Codec!Default(settled.bytes, Unnamed(datum, schema, par))
  BY DEF Codec!Size, Unnamed
<1>2. CASE settled.bits = n /\ settled.bytes \in Nat
  BY <1>1, <1>2, NoneIsNoNumber DEF Codec!Default
<1>3. CASE /\ settled.bits = None /\ settled.bytes = None
           /\ par.length = None /\ from = 0 /\ n = 8 * size
  BY <1>1, <1>3 DEF Codec!Default
<1> QED BY <1>2, <1>3, LengthsAre

(* What is written to a field that is accepted is not refused before its   *)
(* type is looked at.                                                      *)
LEMMA WrittenByType ==
    ASSUME NEW schema, NEW par, NEW size, NEW from, NEW n, Placed(schema, par, size, from, n),
           Codec!DataType(schema) # "object", NEW datum
    PROVE  /\ Codec!Scalar(datum, schema, par) = Codec!ValueToBytes(datum, schema, par)
           /\ Codec!Scalar(datum, schema, par)
              = Codec!ScalarToBytes(datum, Codec!DataType(schema), Codec!Lengths(schema, par), schema, par)
<1>1. PICK settled : settled = Codec!Lengths(schema, par) OBVIOUS
<1>2. /\ settled.offset = from
      /\ \/ settled.bits = n
         \/ settled.bits = None /\ par.length = None /\ schema.bitLength = None /\ ~Codec!Typed(schema)
  BY <1>1, LengthsAre
<1>3. /\ size \in Nat /\ from \in Nat /\ n \in Nat /\ par.length \in {None, size}
      /\ from + n <= 8 * size /\ ~Codec!Contradictory(schema, par, n)
  BY DEF Placed
<1>4. ~Codec!Contradictory(schema, par, Codec!Default(schema.bitLength, settled.bits))
  <2>1. CASE Codec!Typed(schema)
    <3>1. Codec!Default(schema.bitLength, settled.bits) = n BY <1>2, <2>1, PlacedIs DEF Codec!Default
    <3> QED BY <1>3, <3>1
  <2>2. CASE ~Codec!Typed(schema) BY <2>2 DEF Codec!Contradictory
  <2> QED BY <2>1, <2>2
<1>5. ~(/\ par.length # None /\ (schema.bitLength # None \/ Codec!Typed(schema))
        /\ 8 * par.length < settled.bits + settled.offset)
  BY <1>2, <1>3
<1> DEFINE refused ==
        \/ Codec!Contradictory(schema, par, Codec!Default(schema.bitLength, settled.bits))
        \/ /\ par.length # None /\ (schema.bitLength # None \/ Codec!Typed(schema))
           /\ 8 * par.length < settled.bits + settled.offset
<1>6. ~refused BY <1>4, <1>5
<1>7. Codec!Scalar(datum, schema, par)
      = IF refused THEN Codec!Failed
        ELSE IF Codec!DataType(schema) = "object" THEN Codec!NoObject(datum, schema, par)
        ELSE Codec!ScalarToBytes(datum, Codec!DataType(schema), settled, schema, par)
  BY <1>1 DEF Codec!Scalar, Codec!Writing
<1>8. Codec!ValueToBytes(datum, schema, par)
      = IF refused THEN Codec!Failed
        ELSE IF Codec!DataType(schema) = "object" THEN Codec!ObjectToBytes(datum, schema, par)
        ELSE Codec!ScalarToBytes(datum, Codec!DataType(schema), settled, schema, par)
  BY <1>1 DEF Codec!ValueToBytes, Codec!Writing
<1> HIDE DEF refused
<1> QED BY <1>1, <1>6, <1>7, <1>8

(* What is read out of a buffer is what the field contains, behind the     *)
(* zeros that make it whole bytes.                                         *)
Padded(bits) == Codec!Zeros(8 * Codec!BytesFor(Len(bits)) - Len(bits)) \o bits

LEMMA NotPadded == ASSUME NEW b \in Seq({0, 1}), Len(b) % 8 = 0 PROVE Padded(b) = b
<1>0. PICK n \in Nat : n = Len(b) OBVIOUS
<1>1. 8 * Codec!BytesFor(Len(b)) - Len(b) = 0 BY <1>0, Bytes
<1>2. Codec!Zeros(0) = <<>> BY DEF Codec!Zeros
<1> QED BY <1>1, <1>2 DEF Padded

LEMMA ReadByType ==
    ASSUME NEW schema, NEW par, NEW size, NEW from, NEW n, Placed(schema, par, size, from, n),
           Codec!DataType(schema) # "object",
           NEW b \in Seq({0, 1}), Len(b) = 8 * size,
           NEW payload \in Seq({0, 1}), Len(payload) = n,
           \A i \in 1 .. n : b[from + i] = payload[i]
    PROVE  /\ Codec!BytesToValue(b, schema, par) = Codec!Reading(b, schema, par, Codec!TooDeep)
           /\ Codec!FlatToValue(b, schema, par) = Codec!Reading(b, schema, par, Codec!TooDeep)
           /\ Codec!Reading(b, schema, par, Codec!TooDeep)
              = Codec!ScalarToValue(Padded(payload), Codec!DataType(schema), schema, par)
<1>1. /\ size \in Nat /\ from \in Nat /\ n \in Nat /\ par.length \in {None, size}
      /\ n > 0 /\ from + n <= 8 * size
      /\ ~Codec!Swaps(par) /\ ~Codec!Contradictory(schema, par, n)
  BY DEF Placed
<1>2. Codec!Default(schema.bitLength, Len(b)) = n /\ Codec!Default(schema.bitOffset, 0) = from
  BY PlacedIs
<1> DEFINE selected == IF n < Len(b) THEN Codec!ReadBits(b, from, n) ELSE b
           refused == \/ par.length # None /\ 8 * par.length # Len(b)
                      \/ Codec!Contradictory(schema, par, n)
                      \/ n > Len(b) - from
<1>3. ~refused BY <1>1
<1>4. selected = Padded(payload)
  <2>1. CASE n < Len(b)
    <3>1. PICK part : part = SubSeq(b, from + 1, from + n) OBVIOUS
    <3>2. part \in Seq({0, 1}) /\ Len(part) = n /\ \A i \in 1 .. n : part[i] = b[from + i]
      BY <1>1, <3>1
    <3>3. part = payload BY <3>2, <1>1, SameBits
    <3> QED BY <2>1, <3>1, <3>3 DEF Codec!ReadBits, Padded
  <2>2. CASE ~(n < Len(b))
    <3>1. from = 0 /\ n = 8 * size BY <1>1, <2>2
    <3>2. b = payload BY <1>1, <3>1, SameBits
    <3>3. Len(payload) % 8 = 0 BY <1>1, <3>1
    <3> QED BY <2>2, <3>2, <3>3, NotPadded
  <2> QED BY <2>1, <2>2
<1>5. /\ Codec!BytesToValue(b, schema, par)
         = IF refused THEN Codec!Failed
           ELSE Codec!ScalarToValue(selected, Codec!DataType(schema), schema, par)
      /\ Codec!FlatToValue(b, schema, par)
         = IF refused THEN Codec!Failed
           ELSE Codec!ScalarToValue(selected, Codec!DataType(schema), schema, par)
      /\ Codec!Reading(b, schema, par, Codec!TooDeep)
         = IF refused THEN Codec!Failed
           ELSE Codec!ScalarToValue(selected, Codec!DataType(schema), schema, par)
  <2> HIDE DEF selected
  <2>1. Codec!BytesToValue(b, schema, par)
         = IF refused THEN Codec!Failed
           ELSE Codec!ScalarToValue(selected, Codec!DataType(schema), schema, par)
    BY <1>1, <1>2 DEF selected, Codec!BytesToValue, Codec!Reading
  <2>2. Codec!FlatToValue(b, schema, par)
         = IF refused THEN Codec!Failed
           ELSE Codec!ScalarToValue(selected, Codec!DataType(schema), schema, par)
    BY <1>1, <1>2 DEF selected, Codec!FlatToValue, Codec!Reading
  <2>3. Codec!Reading(b, schema, par, Codec!TooDeep)
         = IF refused THEN Codec!Failed
           ELSE Codec!ScalarToValue(selected, Codec!DataType(schema), schema, par)
    BY <1>1, <1>2 DEF selected, Codec!Reading
  <2> QED BY <2>1, <2>2, <2>3
<1> HIDE DEF selected, refused
<1> QED BY <1>3, <1>4, <1>5

(* A buffer with nothing but these bits from a place on.                   *)
Carries(b, size, from, bits) ==
    /\ b \in Seq({0, 1}) /\ Len(b) = 8 * size
    /\ \A i \in 1 .. (8 * size) :
          b[i] = IF from < i /\ i <= from + Len(bits) THEN bits[i - from] ELSE 0

LEMMA Joined ==
    ASSUME NEW a \in Seq({0, 1}), NEW b \in Seq({0, 1})
    PROVE  /\ a \o b \in Seq({0, 1}) /\ Len(a \o b) = Len(a) + Len(b)
           /\ \A i \in 1 .. (Len(a) + Len(b)) :
                 (a \o b)[i] = IF i <= Len(a) THEN a[i] ELSE b[i - Len(a)]
OBVIOUS

LEMMA Framed ==
    ASSUME NEW size \in Nat, NEW from \in Nat, NEW bits \in Seq({0, 1}), from + Len(bits) <= 8 * size
    PROVE  Carries(Codec!Zeros(from) \o bits \o Codec!Zeros(8 * size - from - Len(bits)),
                   size, from, bits)
<1>1. PICK n \in Nat : n = Len(bits) OBVIOUS
<1>2. PICK rest \in Nat : rest = 8 * size - from - n
  <2>1. from + n <= 8 * size BY <1>1
  <2>2. 8 * size - from - n \in Nat BY <2>1
  <2> QED BY <2>2
<1>3. PICK y : y = Codec!Zeros(from) OBVIOUS
<1>4. PICK z : z = Codec!Zeros(rest) OBVIOUS
<1>5. y \in Seq({0, 1}) /\ Len(y) = from /\ \A i \in 1 .. from : y[i] = 0 BY <1>3 DEF Codec!Zeros
<1>6. z \in Seq({0, 1}) /\ Len(z) = rest /\ \A i \in 1 .. rest : z[i] = 0 BY <1>4 DEF Codec!Zeros
<1>7. PICK w : w = y \o bits OBVIOUS
<1>8. /\ w \in Seq({0, 1}) /\ Len(w) = from + n
      /\ \A i \in 1 .. (from + n) : w[i] = IF i <= from THEN y[i] ELSE bits[i - from]
  BY <1>1, <1>5, <1>7, Joined
<1>9. PICK b : b = w \o z OBVIOUS
<1>10. /\ b \in Seq({0, 1}) /\ Len(b) = from + n + rest
       /\ \A i \in 1 .. (from + n + rest) : b[i] = IF i <= from + n THEN w[i] ELSE z[i - (from + n)]
  <2>1. PICK m \in Nat : m = from + n OBVIOUS
  <2>2. /\ b \in Seq({0, 1}) /\ Len(b) = m + rest
        /\ \A i \in 1 .. (m + rest) : b[i] = IF i <= m THEN w[i] ELSE z[i - m]
    <3>1. w \in Seq({0, 1}) /\ Len(w) = m BY <1>8, <2>1
    <3>2. z \in Seq({0, 1}) /\ Len(z) = rest BY <1>6
    <3>3. /\ w \o z \in Seq({0, 1}) /\ Len(w \o z) = m + rest
          /\ \A i \in 1 .. (m + rest) : (w \o z)[i] = IF i <= m THEN w[i] ELSE z[i - m]
      BY <3>1, <3>2, Joined
    <3> QED BY <1>9, <3>3
  <2> QED BY <2>1, <2>2
<1>11. ASSUME NEW i \in 1 .. (8 * size)
       PROVE  b[i] = IF from < i /\ i <= from + n THEN bits[i - from] ELSE 0
  <2>1. i \in 1 .. (from + n + rest) BY <1>2
  <2>2. CASE i <= from BY <1>5, <1>8, <1>10, <2>1, <2>2
  <2>3. CASE from < i /\ i <= from + n BY <1>8, <1>10, <2>1, <2>3
  <2>4. CASE i > from + n
    <3>1. i - (from + n) \in 1 .. rest BY <2>1, <2>4
    <3> QED BY <1>6, <1>10, <2>1, <2>4, <3>1
  <2> QED BY <2>2, <2>3, <2>4
<1>12. Len(b) = 8 * size BY <1>2, <1>10
<1>13. Carries(b, size, from, bits) BY <1>1, <1>10, <1>11, <1>12 DEF Carries
<1> QED BY <1>1, <1>2, <1>3, <1>4, <1>7, <1>9, <1>13

LEMMA CarriesSame ==
    ASSUME NEW size \in Nat, NEW from \in Nat, NEW bits, NEW b, NEW c,
           Carries(b, size, from, bits), Carries(c, size, from, bits)
    PROVE  b = c
<1>1. PICK n \in Nat : n = 8 * size OBVIOUS
<1>2. b \in Seq({0, 1}) /\ c \in Seq({0, 1}) /\ Len(b) = n /\ Len(c) = n BY <1>1 DEF Carries
<1>3. \A i \in 1 .. n : b[i] = c[i] BY <1>1 DEF Carries
<1> QED BY <1>2, <1>3, SameBits

LEMMA ZerosAre ==
    ASSUME NEW n \in Nat
    PROVE  /\ Codec!Zeros(n) \in Seq({0, 1}) /\ Len(Codec!Zeros(n)) = n
           /\ \A i \in 1 .. n : Codec!Zeros(n)[i] = 0
BY DEF Codec!Zeros

(* A value of up to 32 bits, written bit for bit.                          *)
LEMMA WriteBitsCarries ==
    ASSUME NEW v \in Short, NEW size \in Nat, NEW from \in Nat, NEW n \in Nat,
           n <= 32, from + n <= 8 * size
    PROVE  Carries(Codec!WriteBits(Codec!Zeros(8 * size), v, from, n, TRUE), size, from,
                   Codec!TwosComplement(v, n))
<1>1. PICK b : b = Codec!WriteBits(Codec!Zeros(8 * size), v, from, n, TRUE) OBVIOUS
<1>2. PICK bits : bits = Codec!TwosComplement(v, n) OBVIOUS
<1>3. /\ bits \in Seq({0, 1}) /\ Len(bits) = n
      /\ \A i \in 1 .. n : bits[i] = Codec!Bit(v, n - i)
  BY <1>2, TwosComplementIs
<1>4. PICK z : z = Codec!Zeros(8 * size) OBVIOUS
<1>5. DOMAIN z = 1 .. (8 * size) /\ \A i \in 1 .. (8 * size) : z[i] = 0 BY <1>4 DEF Codec!Zeros
<1> DEFINE set == {from + i + 1 : i \in {j \in 0 .. (n - 1) : Codec!Bit(v, (n - 1 - j) % 32) = 1}}
<1>6. b = [i \in DOMAIN z |-> IF i \in set THEN 1 ELSE z[i]] BY <1>1, <1>4 DEF Codec!WriteBits
<1>7. ASSUME NEW i \in 1 .. (8 * size)
      PROVE  b[i] = IF from < i /\ i <= from + n THEN bits[i - from] ELSE 0
  <2>1. b[i] = IF i \in set THEN 1 ELSE 0
    <3> HIDE DEF set
    <3> QED BY <1>5, <1>6
  <2>2. ASSUME from < i, i <= from + n PROVE i \in set <=> bits[i - from] = 1
    <3>1. PICK j \in 0 .. (n - 1) : j = i - from - 1 BY <2>2
    <3>2. (n - 1 - j) % 32 = n - 1 - j BY <3>1
    <3>3. n - 1 - j = n - (i - from) /\ i - from \in 1 .. n BY <2>2, <3>1
    <3>4. bits[i - from] = Codec!Bit(v, (n - 1 - j) % 32) BY <1>3, <3>2, <3>3
    <3>5. i = from + j + 1 BY <3>1
    <3>6. ASSUME NEW k \in 0 .. (n - 1), i = from + k + 1 PROVE k = j BY <3>1, <3>6
    <3> QED BY <3>4, <3>5, <3>6
  <2>3. ASSUME i \in set PROVE from < i /\ i <= from + n
    <3>1. PICK k \in 0 .. (n - 1) : i = from + k + 1 BY <2>3
    <3> QED BY <3>1
  <2>4. from < i /\ i <= from + n => bits[i - from] \in {0, 1}
    <3>1. from < i /\ i <= from + n => i - from \in 1 .. n OBVIOUS
    <3> QED BY <1>3, <3>1
  <2> HIDE DEF set
  <2> QED BY <2>1, <2>2, <2>3, <2>4
<1>8. b \in Seq({0, 1}) /\ Len(b) = 8 * size
  <2>1. b \in [1 .. (8 * size) -> {0, 1}]
    <3> HIDE DEF set
    <3> QED BY <1>5, <1>6
  <2>2. 8 * size \in Nat OBVIOUS
  <2> QED BY <2>1, <2>2
<1> HIDE DEF set
<1> QED BY <1>1, <1>2, <1>3, <1>7, <1>8 DEF Carries

(* Bits that are copied whole from a place on.                             *)
Copyable(bits, from) ==
    \/ from % 8 = 0 /\ Len(bits) % 8 = 0
    \/ Len(bits) <= 32 \/ Len(bits) > 48
    \/ \A i \in 1 .. Len(bits) : bits[i] = bits[1]

(* The field is written so, and read back from any buffer that has the     *)
(* same bits there.                                                        *)
Written(bytes, datum, schema, par, size, from) ==
    \E bits \in Seq({0, 1}) :
        /\ Carries(bytes, size, from, bits) /\ Copyable(bits, from)
        /\ Placed(schema, par, size, from, Len(bits))
        /\ Codec!ScalarToValue(Padded(bits), Codec!DataType(schema), schema, par) = datum

LEMMA Buffered ==
    ASSUME NEW bits
    PROVE  Codec!Buffer(bits).bits = bits /\ Codec!Buffer(bits) # Codec!Failed
BY DEF Codec!Buffer, Codec!Failed

IntegerBits(v, par, from, n) ==
    IF from = 0 THEN Codec!InOrder(Codec!TwosComplement(v, n), Codec!BigEndian(par))
    ELSE Codec!TwosComplement(v, n)

(* An integer is refused when it does not fit, and only then.              *)
LEMMA IntegerWritten ==
    ASSUME NEW schema, NEW par, NEW size, NEW from, NEW n, Placed(schema, par, size, from, n),
           NEW v \in Short, NEW datum, datum = [is |-> "integer", of |-> v],
           size = Codec!Size(datum, schema, par), Codec!IntegerKept(schema, par, v, size),
           NEW written, written = Codec!Scalar(datum, schema, par)
    PROVE  IF Codec!Overflows(v, n, Codec!Signed(schema, par)) THEN written = Codec!Failed
           ELSE \E b : written = Codec!Buffer(b) /\ Carries(b, size, from, IntegerBits(v, par, from, n))
<1>1. PICK type : type = Codec!DataType(schema) OBVIOUS
<1>2. type \in {"int", "integer"} BY <1>1 DEF Codec!IntegerKept
<1>3. /\ size \in Nat /\ from \in Nat /\ n \in Nat /\ n > 0 /\ from + n <= 8 * size
      /\ Codec!Part(schema, size) = [from |-> from, n |-> n]
  BY DEF Placed
<1>4. IF from = 0 THEN n = 8 * size /\ size \in {1, 2, 4} ELSE Codec!BigEndian(par) /\ n <= 32
  BY <1>3 DEF Codec!IntegerKept
<1>5. PICK settled : settled = Codec!Lengths(schema, par) OBVIOUS
<1>6. PICK signed : signed = Codec!Signed(schema, par) OBVIOUS
<1>7. PICK m : m = Codec!Default(settled.bits, 32) OBVIOUS
<1>8. PICK bytes : bytes = Codec!Default(settled.bytes, Codec!BytesFor(from + m)) OBVIOUS
<1>9. settled.offset = from BY <1>5, LengthsAre
<1>10. written = IF Codec!Overflows(v, m, signed) THEN Codec!Failed
                 ELSE IF from # 0
                      THEN Codec!Buffer(Codec!WriteBits(Codec!Zeros(8 * bytes), v, from, m, Codec!BigEndian(par)))
                 ELSE IF bytes \in {1, 2, 4}
                      THEN Codec!Buffer(Codec!InOrder(Codec!TwosComplement(v, 8 * bytes), Codec!BigEndian(par)))
                 ELSE Codec!ByteByByte(v, bytes, m, signed, Codec!BigEndian(par))
  <2>1. datum.is = "integer" /\ datum.of = v OBVIOUS
  <2>2. written = Codec!ScalarToBytes(datum, type, settled, schema, par)
    BY <1>1, <1>2, <1>5, WrittenByType
  <2>3. written = Codec!ValueToInteger(datum, settled.bits, settled.bytes, settled.offset, par, signed)
    BY <1>2, <1>6, <2>2 DEF Codec!ScalarToBytes
  <2> QED BY <1>7, <1>8, <1>9, <2>1, <2>3 DEF Codec!ValueToInteger
<1>11. m = n /\ bytes = size
  <2>1. CASE settled.bits = n /\ settled.bytes = size
    BY <1>3, <1>7, <1>8, <2>1, NoneIsNoNumber DEF Codec!Default
  <2>2. CASE /\ settled.bits = None /\ settled.bytes = None /\ from = 0 /\ n = 8 * size
             /\ size = Unnamed(datum, schema, par)
    <3>1. m = 32 BY <1>7, <2>2 DEF Codec!Default
    <3>2. size = Codec!BytesFor(0 + 32) BY <1>5, <1>9, <2>2 DEF Unnamed
    <3>3. bytes = Codec!BytesFor(0 + 32) BY <1>8, <2>2, <3>1 DEF Codec!Default
    <3>4. Codec!BytesFor(0 + 32) = 4 BY DEF Codec!BytesFor
    <3> QED BY <2>2, <3>1, <3>2, <3>3, <3>4
  <2> QED BY <1>5, <2>1, <2>2, SizeIs
<1>12. CASE Codec!Overflows(v, n, signed) BY <1>6, <1>10, <1>11, <1>12
<1>13. CASE ~Codec!Overflows(v, n, signed) /\ from # 0
  <2>1. PICK b : b = Codec!WriteBits(Codec!Zeros(8 * size), v, from, n, TRUE) OBVIOUS
  <2>2. written = Codec!Buffer(b) BY <1>4, <1>10, <1>11, <1>13, <2>1
  <2>3. Carries(b, size, from, Codec!TwosComplement(v, n))
    BY <1>3, <1>4, <1>13, <2>1, WriteBitsCarries
  <2> QED BY <1>6, <1>13, <2>2, <2>3 DEF IntegerBits
<1>14. CASE ~Codec!Overflows(v, n, signed) /\ from = 0
  <2>1. PICK b : b = Codec!InOrder(Codec!TwosComplement(v, n), Codec!BigEndian(par)) OBVIOUS
  <2>2. written = Codec!Buffer(b) BY <1>4, <1>10, <1>11, <1>14, <2>1
  <2>3. b \in Seq({0, 1}) /\ Len(b) = n
    <3>1. Codec!TwosComplement(v, n) \in Seq({0, 1}) /\ Len(Codec!TwosComplement(v, n)) = 8 * size
      BY <1>3, <1>4, <1>14, TwosComplementIs
    <3>2. Codec!BigEndian(par) \in BOOLEAN BY DEF Codec!BigEndian
    <3> QED BY <1>3, <1>4, <1>14, <2>1, <3>1, <3>2, InOrderIs
  <2>4. Carries(b, size, from, b) BY <1>3, <1>4, <1>14, <2>3 DEF Carries
  <2> QED BY <1>6, <1>14, <2>1, <2>2, <2>4 DEF IntegerBits
<1> QED BY <1>12, <1>13, <1>14

LEMMA SignedIs ==
    ASSUME NEW schema, NEW par PROVE Codec!Signed(schema, par) \in BOOLEAN /\ Codec!BigEndian(par) \in BOOLEAN
BY DEF Codec!Signed, Codec!BigEndian

LEMMA IntegerRead ==
    ASSUME NEW schema, NEW par, NEW size, NEW from, NEW n, Placed(schema, par, size, from, n),
           NEW v \in Short, NEW datum, datum = [is |-> "integer", of |-> v],
           Codec!IntegerKept(schema, par, v, size),
           ~Codec!Overflows(v, n, Codec!Signed(schema, par)),
           NEW bits, bits = IntegerBits(v, par, from, n)
    PROVE  /\ bits \in Seq({0, 1}) /\ Len(bits) = n
           /\ Codec!ScalarToValue(Padded(bits), Codec!DataType(schema), schema, par) = datum
<1>1. PICK type : type = Codec!DataType(schema) OBVIOUS
<1>2. type \in {"int", "integer"} BY <1>1 DEF Codec!IntegerKept
<1>3. /\ size \in Nat /\ from \in Nat /\ n \in Nat /\ n > 0
      /\ Codec!Part(schema, size) = [from |-> from, n |-> n]
  BY DEF Placed
<1>4. IF from = 0 THEN n = 8 * size /\ size \in {1, 2, 4}
      ELSE Codec!BigEndian(par) /\ n <= 32 /\ (v < 0 => n % 8 = 0)
  BY <1>3 DEF Codec!IntegerKept
<1>5. PICK signed \in BOOLEAN : signed = Codec!Signed(schema, par) BY SignedIs
<1>6. PICK big \in BOOLEAN : big = Codec!BigEndian(par) BY SignedIs
<1>7. PICK plain : plain = Codec!TwosComplement(v, n) OBVIOUS
<1>8. plain \in Seq({0, 1}) /\ Len(plain) = n BY <1>3, <1>7, TwosComplementIs
<1>9. Codec!Number(plain, signed) = v BY <1>3, <1>5, <1>7, NumberOfTwosComplement
<1>10. ASSUME NEW padded \in Seq({0, 1}), Len(padded) > 0, Len(padded) <= 48,
              Codec!Number(Codec!InOrder(padded, big), signed) = v
       PROVE  Codec!ScalarToValue(padded, type, schema, par) = datum
  <2>1. Codec!ScalarToValue(padded, type, schema, par) = Codec!IntegerToValue(padded, par, signed)
    BY <1>2, <1>5 DEF Codec!ScalarToValue
  <2>2. ~(Len(padded) = 0 \/ Len(padded) > 48) BY <1>10
  <2> QED BY <1>6, <1>10, <2>1, <2>2 DEF Codec!IntegerToValue
<1>11. CASE from = 0
  <2>1. bits = Codec!InOrder(plain, big) BY <1>6, <1>7, <1>11 DEF IntegerBits
  <2>2. bits \in Seq({0, 1}) /\ Len(bits) = n /\ Codec!InOrder(bits, big) = plain
    BY <1>3, <1>4, <1>8, <1>11, <2>1, InOrderIs
  <2>3. Len(bits) % 8 = 0 /\ Len(bits) > 0 /\ Len(bits) <= 48 BY <1>3, <1>4, <1>11, <2>2
  <2>4. Padded(bits) = bits BY <2>2, <2>3, NotPadded
  <2> QED BY <1>1, <1>9, <1>10, <2>2, <2>3, <2>4
<1>12. CASE from # 0
  <2>1. bits = plain /\ big = TRUE BY <1>4, <1>6, <1>7, <1>12 DEF IntegerBits
  <2>2. CASE n % 8 = 0
    <3>1. Padded(bits) = bits BY <1>8, <2>1, <2>2, NotPadded
    <3>2. Codec!InOrder(bits, big) = bits BY <2>1 DEF Codec!InOrder
    <3>3. Len(bits) > 0 /\ Len(bits) <= 48 BY <1>3, <1>4, <1>8, <1>12, <2>1
    <3>4. Codec!ScalarToValue(bits, type, schema, par) = datum BY <1>8, <1>9, <1>10, <2>1, <3>2, <3>3
    <3> QED BY <1>1, <1>8, <2>1, <3>1, <3>4
  <2>3. CASE n % 8 # 0
    <3>1. PICK m \in Nat : m = 8 * Codec!BytesFor(n) - n
      <4>1. 8 * Codec!BytesFor(n) - n \in Nat BY <1>3, Bytes
      <4> QED BY <4>1
    <3>2. m > 0 /\ m + n < n + 8 BY <1>3, <2>3, <3>1, Bytes
    <3>3. v \in Int BY TwoIs DEF Short
    <3>4. v >= 0 BY <1>4, <1>12, <2>3, <3>3
    <3>5. PICK wide \in Nat : wide = m + n BY <1>3
    <3>6. PICK padded : padded = Codec!TwosComplement(v, wide) OBVIOUS
    <3>7. Padded(bits) = padded
      <4>1. Codec!Zeros(m) \o plain = Codec!TwosComplement(v, m + n)
        BY <1>3, <1>5, <1>7, <3>4, Widened
      <4> QED BY <1>8, <2>1, <3>1, <3>5, <3>6, <4>1 DEF Padded
    <3>8. ~Codec!Overflows(v, wide, signed) BY <1>3, <1>5, <3>2, <3>4, <3>5, Widened
    <3>9. padded \in Seq({0, 1}) /\ Len(padded) = wide BY <3>6, TwosComplementIs
    <3>10. wide > 0 /\ wide <= 48 BY <1>3, <1>4, <1>12, <3>2, <3>5
    <3>11. Codec!Number(padded, signed) = v BY <3>6, <3>8, <3>10, NumberOfTwosComplement
    <3>12. Codec!InOrder(padded, big) = padded BY <2>1 DEF Codec!InOrder
    <3>13. Codec!ScalarToValue(padded, type, schema, par) = datum BY <1>10, <3>9, <3>10, <3>11, <3>12
    <3> QED BY <1>1, <1>8, <2>1, <3>7, <3>13
  <2> QED BY <2>2, <2>3
<1> QED BY <1>11, <1>12

LEMMA IntegerField ==
    ASSUME NEW schema, NEW par, NEW size, NEW from, NEW n, Placed(schema, par, size, from, n),
           NEW v \in Short, NEW datum, datum = [is |-> "integer", of |-> v],
           size = Codec!Size(datum, schema, par), Codec!IntegerKept(schema, par, v, size),
           NEW written, written = Codec!Scalar(datum, schema, par), written # Codec!Failed
    PROVE  Written(written.bits, datum, schema, par, size, from)
<1>1. ~Codec!Overflows(v, n, Codec!Signed(schema, par)) BY IntegerWritten
<1>2. PICK b : written = Codec!Buffer(b) /\ Carries(b, size, from, IntegerBits(v, par, from, n))
  BY <1>1, IntegerWritten
<1>3. PICK bits : bits = IntegerBits(v, par, from, n) OBVIOUS
<1>4. /\ bits \in Seq({0, 1}) /\ Len(bits) = n
      /\ Codec!ScalarToValue(Padded(bits), Codec!DataType(schema), schema, par) = datum
  BY <1>1, <1>3, IntegerRead
<1>5. written.bits = b BY <1>2, Buffered
<1>6. Copyable(bits, from)
  <2>1. size \in Nat /\ Codec!Part(schema, size) = [from |-> from, n |-> n] BY DEF Placed
  <2>2. IF from = 0 THEN n = 8 * size /\ size \in {1, 2, 4} ELSE n <= 32
    BY <2>1 DEF Codec!IntegerKept
  <2>3. n <= 32 BY <2>1, <2>2
  <2> QED BY <1>4, <2>3 DEF Copyable
<1> QED BY <1>2, <1>3, <1>4, <1>5, <1>6 DEF Written

(* A flag is one in all its bits or in none.                               *)
LEMMA BooleanField ==
    ASSUME NEW schema, NEW par, NEW size, NEW from, NEW n, Placed(schema, par, size, from, n),
           NEW flag \in BOOLEAN, NEW datum, datum = [is |-> "boolean", of |-> flag],
           schema.type = "boolean", size = Codec!Size(datum, schema, par),
           NEW written, written = Codec!Scalar(datum, schema, par)
    PROVE  written # Codec!Failed /\ Written(written.bits, datum, schema, par, size, from)
<1>1. Codec!DataType(schema) = "boolean" BY DEF Codec!DataType, Codec!Typed, Codec!TypeSemantics
<1>2. PICK settled : settled = Codec!Lengths(schema, par) OBVIOUS
<1>3. /\ size \in Nat /\ from \in Nat /\ n \in Nat /\ n > 0 /\ from + n <= 8 * size
  BY DEF Placed
<1>4. PICK bytes : bytes = Codec!Default(settled.bytes, 1) OBVIOUS
<1>5. PICK end : end = from + Codec!Default(settled.bits, 8 * bytes) OBVIOUS
<1>6. PICK b : b = [i \in 1 .. (8 * bytes) |->
                      IF datum = [is |-> "boolean", of |-> TRUE] /\ from < i /\ i <= end THEN 1 ELSE 0]
  OBVIOUS
<1>7. written = Codec!Buffer(b)
  <2>1. settled.offset = from BY <1>2, LengthsAre
  <2>2. written = Codec!ScalarToBytes(datum, "boolean", settled, schema, par)
    BY <1>1, <1>2, WrittenByType
  <2> QED BY <1>4, <1>5, <1>6, <2>1, <2>2 DEF Codec!ScalarToBytes
<1>8. (datum = [is |-> "boolean", of |-> TRUE]) <=> flag OBVIOUS
<1>9. bytes = size /\ end = from + n
  <2>1. CASE settled.bits = n /\ settled.bytes = size
    BY <1>3, <1>4, <1>5, <2>1, NoneIsNoNumber DEF Codec!Default
  <2>2. CASE /\ settled.bits = None /\ settled.bytes = None /\ from = 0 /\ n = 8 * size
             /\ size = Unnamed(datum, schema, par)
    <3>1. bytes = 1 BY <1>4, <2>2 DEF Codec!Default
    <3>2. end = 8 BY <1>5, <2>2, <3>1 DEF Codec!Default
    <3>3. size = 1 BY <2>2 DEF Unnamed
    <3> QED BY <2>2, <3>1, <3>2, <3>3
  <2> QED BY <1>2, <2>1, <2>2, SizeIs
<1>10. b \in Seq({0, 1}) /\ Len(b) = 8 * size BY <1>3, <1>6, <1>9
<1>11. written # Codec!Failed /\ written.bits = b BY <1>7, Buffered
<1>13. PICK bit \in {0, 1} : bit = IF flag THEN 1 ELSE 0 OBVIOUS
<1>14. PICK bits : bits = [i \in 1 .. n |-> bit] OBVIOUS
<1>15. bits \in Seq({0, 1}) /\ Len(bits) = n /\ \A i \in 1 .. n : bits[i] = bit BY <1>3, <1>14
<1>16. ASSUME NEW i \in 1 .. (8 * size)
       PROVE  b[i] = IF from < i /\ i <= from + n THEN bits[i - from] ELSE 0
  <2>1. b[i] = IF flag /\ from < i /\ i <= from + n THEN 1 ELSE 0 BY <1>6, <1>8, <1>9
  <2>2. from < i /\ i <= from + n => i - from \in 1 .. n BY <1>3
  <2>3. from < i /\ i <= from + n => bits[i - from] = bit BY <1>15, <2>2
  <2> QED BY <1>13, <2>1, <2>3
<1>17. Carries(b, size, from, bits) BY <1>10, <1>15, <1>16 DEF Carries
<1>18. PICK padded : padded = Padded(bits) OBVIOUS
<1>19. (\E i \in DOMAIN padded : padded[i] = 1) <=> flag
  <2>1. PICK m \in Nat : m = 8 * Codec!BytesFor(n) - n
    <3>1. 8 * Codec!BytesFor(n) - n \in Nat BY <1>3, Bytes
    <3> QED BY <3>1
  <2>2. PICK z : z = Codec!Zeros(m) OBVIOUS
  <2>3. z \in Seq({0, 1}) /\ Len(z) = m /\ \A i \in 1 .. m : z[i] = 0 BY <2>2, ZerosAre
  <2>4. padded = z \o bits BY <1>15, <1>18, <2>1, <2>2 DEF Padded
  <2>5. /\ padded \in Seq({0, 1}) /\ Len(padded) = m + n
        /\ \A i \in 1 .. (m + n) : padded[i] = IF i <= m THEN z[i] ELSE bits[i - m]
    BY <1>15, <2>3, <2>4, Joined
  <2>6. DOMAIN padded = 1 .. (m + n) BY <1>3, <2>5
  <2>7. flag => padded[m + n] = 1 /\ m + n \in DOMAIN padded
    <3>1. m + n \in 1 .. (m + n) /\ ~(m + n <= m) /\ m + n - m = n /\ n \in 1 .. n BY <1>3
    <3>2. padded[m + n] = bits[n] BY <2>5, <3>1
    <3> QED BY <1>13, <1>15, <2>6, <3>1, <3>2
  <2>8. ASSUME ~flag, NEW i \in 1 .. (m + n) PROVE padded[i] = 0
    <3>1. CASE i <= m
      <4>1. i \in 1 .. m BY <3>1
      <4> QED BY <2>3, <2>5, <3>1, <4>1
    <3>2. CASE ~(i <= m)
      <4>1. i - m \in 1 .. n BY <1>3, <3>2
      <4> QED BY <1>13, <1>15, <2>5, <2>8, <3>2, <4>1
    <3> QED BY <3>1, <3>2
  <2> QED BY <2>6, <2>7, <2>8
<1>20. Codec!ScalarToValue(padded, "boolean", schema, par) = datum
  <2>1. Codec!ScalarToValue(padded, "boolean", schema, par)
        = [is |-> "boolean", of |-> \E i \in DOMAIN padded : padded[i] = 1]
    BY DEF Codec!ScalarToValue
  <2>2. (\E i \in DOMAIN padded : padded[i] = 1) = flag BY <1>19
  <2> QED BY <2>1, <2>2
<1>21. Copyable(bits, from)
  <2>1. 1 \in 1 .. n BY <1>3
  <2>2. \A i \in 1 .. Len(bits) : bits[i] = bits[1] BY <1>15, <2>1
  <2> QED BY <2>2 DEF Copyable
<1> QED BY <1>1, <1>11, <1>15, <1>17, <1>18, <1>20, <1>21 DEF Written

(* The bytes of a string end up at the end of the buffer or, or-ed into it *)
(* bit by bit, where they do not begin with a byte.                        *)
LEMMA StringField ==
    ASSUME NEW schema, NEW par, NEW size, NEW from, NEW n, Placed(schema, par, size, from, n),
           NEW text \in Seq({0, 1}), Len(text) % 8 = 0,
           NEW datum, datum = [is |-> "string", of |-> text],
           size = Codec!Size(datum, schema, par), Codec!StringKept(schema, text, size),
           NEW written, written = Codec!Scalar(datum, schema, par)
    PROVE  written # Codec!Failed /\ Written(written.bits, datum, schema, par, size, from)
<1>1. /\ size \in Nat /\ from \in Nat /\ n \in Nat /\ n > 0 /\ from + n <= 8 * size
      /\ Codec!Part(schema, size) = [from |-> from, n |-> n]
  BY DEF Placed
<1>2. /\ schema.type = "string" /\ n = Len(text) /\ n % 8 = 0
      /\ IF from % 8 = 0 THEN from + n = 8 * size ELSE n <= 32 \/ n > 48
  BY <1>1 DEF Codec!StringKept
<1>3. Codec!DataType(schema) = "string"
  BY <1>2 DEF Codec!DataType, Codec!Typed, Codec!TypeSemantics
<1>4. PICK settled : settled = Codec!Lengths(schema, par) OBVIOUS
<1>5. PICK m : m = Codec!Default(settled.bits, n) OBVIOUS
<1>6. PICK bytes : bytes = Codec!Default(settled.bytes, Codec!BytesFor(from + m)) OBVIOUS
<1>7. m = n /\ bytes = size
  <2>1. CASE settled.bits = n /\ settled.bytes = size
    BY <1>1, <1>5, <1>6, <2>1, NoneIsNoNumber DEF Codec!Default
  <2>2. CASE /\ settled.bits = None /\ settled.bytes = None
             /\ size = Unnamed(datum, schema, par)
    <3>1. settled.offset = from BY <1>4, LengthsAre
    <3>2. datum.is = "string" /\ datum.of = text OBVIOUS
    <3>3. size = Codec!BytesFor(from + n) BY <1>2, <1>4, <2>2, <3>1, <3>2 DEF Unnamed
    <3> QED BY <1>5, <1>6, <2>2, <3>3 DEF Codec!Default
  <2> QED BY <1>4, <2>1, <2>2, SizeIs
<1>8. bytes \in Nat /\ from + n <= 8 * bytes BY <1>1, <1>7
<1>9. written = IF Len(text) > 8 * n \/ (from % 8 = 0 /\ 8 * bytes < n) THEN Codec!Failed
                ELSE IF from % 8 = 0
                     THEN Codec!Buffer(Codec!Zeros(8 * ((8 * bytes - n) \div 8)) \o text)
                ELSE Codec!CopyBits(text, 0, Codec!Zeros(8 * bytes), from, n)
  <2>1. settled.offset = from BY <1>4, LengthsAre
  <2>2. written = Codec!ScalarToBytes(datum, "string", settled, schema, par)
    BY <1>3, <1>4, WrittenByType
  <2>3. written = Codec!ValueToString(datum, settled.bits, settled.bytes, from)
    BY <2>1, <2>2 DEF Codec!ScalarToBytes
  <2>4. datum.is = "string" /\ datum.of = text OBVIOUS
  <2> QED BY <1>2, <1>5, <1>6, <1>7, <2>3, <2>4 DEF Codec!ValueToString
<1>10. ~(Len(text) > 8 * n \/ (from % 8 = 0 /\ 8 * bytes < n)) BY <1>1, <1>2, <1>8
<1>11. ASSUME NEW b, written = Codec!Buffer(b), Carries(b, bytes, from, text)
       PROVE  written # Codec!Failed /\ Written(written.bits, datum, schema, par, size, from)
  <2>1. written # Codec!Failed /\ written.bits = b BY <1>11, Buffered
  <2>3. Padded(text) = text BY NotPadded
  <2>4. Codec!ScalarToValue(text, "string", schema, par) = datum BY DEF Codec!ScalarToValue
  <2>5. Copyable(text, from)
    <3>1. CASE from % 8 = 0 BY <3>1 DEF Copyable
    <3>2. CASE from % 8 # 0
      <4>1. Len(text) <= 32 \/ Len(text) > 48 BY <1>2, <3>2
      <4> QED BY <4>1 DEF Copyable
    <3> QED BY <3>1, <3>2
  <2> QED BY <1>2, <1>3, <1>7, <1>11, <2>1, <2>3, <2>4, <2>5 DEF Written
<1>12. CASE from % 8 = 0
  <2>1. PICK front \in Nat : front = 8 * bytes - n
    <3>1. from \in Nat /\ n \in Nat /\ bytes \in Nat /\ from + n <= 8 * bytes BY <1>1, <1>8
    <3>2. 8 * bytes - n \in Nat BY <3>1
    <3> QED BY <3>2
  <2>2. front % 8 = 0 /\ 8 * ((8 * bytes - n) \div 8) = front
    <3>1. n \in Nat /\ bytes \in Nat /\ n % 8 = 0 BY <1>1, <1>2, <1>8
    <3> QED BY <2>1, <3>1
  <2>3. front = from
    <3>1. from \in Nat /\ n \in Nat /\ bytes \in Nat BY <1>1, <1>8
    <3>2. from + n = 8 * bytes BY <1>2, <1>7, <1>12
    <3> QED BY <2>1, <3>1, <3>2
  <2>4. PICK b : b = Codec!Zeros(from) \o text OBVIOUS
  <2>5. written = Codec!Buffer(b) BY <1>9, <1>10, <1>12, <2>2, <2>3, <2>4
  <2>6. Carries(b, bytes, from, text)
    <3>1. Carries(Codec!Zeros(from) \o text \o Codec!Zeros(8 * size - from - n), size, from, text)
      BY <1>1, <1>2, Framed
    <3>2. Codec!Zeros(8 * size - from - n) = <<>>
      <4>1. 8 * size - from - n = 0 BY <1>1, <1>2, <1>12
      <4> QED BY <4>1 DEF Codec!Zeros
    <3>3. b \in Seq({0, 1})
      <4>1. Codec!Zeros(from) \in Seq({0, 1}) BY <1>1, ZerosAre
      <4> QED BY <2>4, <4>1, Joined
    <3>4. b \o <<>> = b BY <3>3
    <3> QED BY <1>7, <2>4, <3>1, <3>2, <3>4
  <2> QED BY <1>11, <2>5, <2>6
<1>13. CASE from % 8 # 0
  <2>1. PICK read : read = Codec!ReadBits(text, 0, n) OBVIOUS
  <2>2. read = text
    <3>1. PICK part : part = SubSeq(text, 0 + 1, 0 + n) OBVIOUS
    <3>2. part \in Seq({0, 1}) /\ Len(part) = n /\ \A i \in 1 .. n : part[i] = text[i]
      BY <1>1, <1>2, <3>1
    <3>3. part = text BY <1>1, <1>2, <3>2, SameBits
    <3>4. 8 * Codec!BytesFor(n) - n = 0
      <4>1. n \in Nat /\ n % 8 = 0 BY <1>1, <1>2
      <4>2. PICK k \in Nat : k = n BY <4>1
      <4>3. 8 * Codec!BytesFor(k) = k BY <4>1, <4>2, Bytes
      <4> QED BY <4>2, <4>3
    <3>5. Codec!Zeros(0) = <<>> BY DEF Codec!Zeros
    <3>6. read = <<>> \o text BY <2>1, <3>1, <3>3, <3>4, <3>5 DEF Codec!ReadBits
    <3> QED BY <3>6
  <2>3. PICK copied : copied = IF n > 48 THEN read ELSE [i \in 1 .. n |-> text[0 + n - ((n - i) % 32)]]
    OBVIOUS
  <2>4. copied = text
    <3>1. CASE n > 48 BY <2>2, <2>3, <3>1
    <3>2. CASE ~(n > 48)
      <4>1. n <= 32 BY <1>2, <1>13, <3>2
      <4>2. \A i \in 1 .. n : 0 + n - ((n - i) % 32) = i BY <1>1, <4>1
      <4>3. copied = [i \in 1 .. n |-> text[i]] BY <2>3, <3>2, <4>2
      <4>4. copied \in Seq({0, 1}) /\ Len(copied) = n /\ \A i \in 1 .. n : copied[i] = text[i]
        BY <1>1, <1>2, <4>3
      <4> QED BY <1>1, <1>2, <4>4, SameBits
    <3> QED BY <3>1, <3>2
  <2>5. PICK z : z = Codec!Zeros(8 * bytes) OBVIOUS
  <2>6. PICK b : b = [i \in DOMAIN z |->
                        IF i > from /\ i <= from + Len(copied) /\ copied[i - from] = 1 THEN 1 ELSE z[i]]
    OBVIOUS
  <2>7. written = Codec!Buffer(b)
    <3>1. written = Codec!CopyBits(text, 0, z, from, n) BY <1>9, <1>10, <1>13, <2>5
    <3>2. ~(0 % 8 = 0 /\ from % 8 = 0 /\ n % 8 = 0) BY <1>13
    <3>3. ~(0 + n > Len(text) \/ n = 0) BY <1>1, <1>2
    <3> QED BY <2>1, <2>3, <2>6, <3>1, <3>2, <3>3 DEF Codec!CopyBits
  <2>8. Carries(b, bytes, from, text)
    <3>1. PICK width \in Nat : width = 8 * bytes BY <1>8
    <3>2. DOMAIN z = 1 .. width /\ \A i \in 1 .. width : z[i] = 0
      <4>1. z \in Seq({0, 1}) /\ Len(z) = width /\ \A i \in 1 .. width : z[i] = 0
        BY <2>5, <3>1, ZerosAre
      <4> QED BY <4>1
    <3>3. b \in Seq({0, 1}) /\ Len(b) = width BY <2>6, <3>2
    <3>4. ASSUME NEW i \in 1 .. width
          PROVE  b[i] = IF from < i /\ i <= from + n THEN text[i - from] ELSE 0
      <4>1. b[i] = IF i > from /\ i <= from + n /\ text[i - from] = 1 THEN 1 ELSE 0
        BY <1>2, <2>4, <2>6, <3>2
      <4>2. from < i /\ i <= from + n => i - from \in 1 .. n BY <1>1
      <4>3. from < i /\ i <= from + n => text[i - from] \in {0, 1} BY <1>2, <4>2
      <4> QED BY <4>1, <4>3
    <3> QED BY <1>2, <3>1, <3>3, <3>4 DEF Carries
  <2> QED BY <1>11, <2>7, <2>8
<1> QED BY <1>12, <1>13

(* A number is its pattern, in the byte order of the parameters.           *)
LEMMA NumberField ==
    ASSUME NEW schema, NEW par, NEW size, NEW from, NEW n, Placed(schema, par, size, from, n),
           NEW pattern \in Seq({0, 1}), Len(pattern) \in {16, 32, 64},
           NEW datum, datum = [is |-> "number", of |-> pattern],
           size = Codec!Size(datum, schema, par), Codec!NumberKept(schema, par, pattern, size),
           NEW written, written = Codec!Scalar(datum, schema, par), written # Codec!Failed
    PROVE  Written(written.bits, datum, schema, par, size, from)
<1>1. /\ size \in Nat /\ from \in Nat /\ n \in Nat /\ n > 0 /\ from + n <= 8 * size
      /\ Codec!Part(schema, size) = [from |-> from, n |-> n]
  BY DEF Placed
<1>2. PICK type : type = Codec!DataType(schema) OBVIOUS
<1>3. /\ type \in {"float", "number"} /\ n = Len(pattern) /\ from % 8 = 0
      /\ (from > 0 => Codec!BigEndian(par) \/ n = 16)
  <2>1. PICK part : part = [from |-> from, n |-> n] OBVIOUS
  <2>2. Codec!Part(schema, size) = part /\ part.from = from /\ part.n = n BY <1>1, <2>1
  <2> QED BY <1>2, <2>2, Zenon DEF Codec!NumberKept
<1>4. PICK settled : settled = Codec!Lengths(schema, par) OBVIOUS
<1>5. PICK m : m = Codec!Default(settled.bits, IF settled.bytes = None THEN 32 ELSE 8 * settled.bytes)
  OBVIOUS
<1>6. PICK bytes : bytes = Codec!Default(settled.bytes, Codec!BytesFor(from + m)) OBVIOUS
<1>7. PICK at : at = IF m > 16 /\ ~Codec!BigEndian(par) THEN 0 ELSE from OBVIOUS
<1>8. PICK bits : bits = Codec!InOrder(pattern, Codec!BigEndian(par)) OBVIOUS
<1>9. PICK b : b = Codec!Zeros(at) \o bits \o Codec!Zeros(8 * bytes - at - m) OBVIOUS
<1>10. written = Codec!Buffer(b)
  <2>1. settled.offset = from BY <1>4, LengthsAre
  <2>2. written = Codec!ScalarToBytes(datum, type, settled, schema, par)
    BY <1>2, <1>3, <1>4, WrittenByType
  <2>3. written = Codec!ValueToNumber(datum, settled.bits, settled.bytes, from, par)
    BY <1>3, <2>1, <2>2 DEF Codec!ScalarToBytes
  <2>4. datum.is = "number" /\ datum.of = pattern OBVIOUS
  <2>5. written = Codec!Failed \/ written = Codec!Buffer(b)
    BY <1>5, <1>6, <1>7, <1>8, <1>9, <2>3, <2>4 DEF Codec!ValueToNumber
  <2> QED BY <2>5
<1>11. written.bits = b BY <1>10, Buffered
<1>12. /\ bits \in Seq({0, 1}) /\ Len(bits) = n /\ n % 8 = 0
       /\ Codec!InOrder(bits, Codec!BigEndian(par)) = pattern
  <2>1. n \in {16, 32, 64} BY <1>3
  <2>2. PICK k \in Nat : n = 8 * k
    <3>1. n = 8 * 2 \/ n = 8 * 4 \/ n = 8 * 8 BY <2>1
    <3> QED BY <3>1
  <2>3. Len(pattern) = 8 * k /\ n % 8 = 0 BY <1>3, <2>2
  <2>4. Codec!BigEndian(par) \in BOOLEAN BY SignedIs
  <2> QED BY <1>8, <2>2, <2>3, <2>4, InOrderIs
<1>13. m = n /\ bytes = size
  <2>1. CASE settled.bits = n /\ settled.bytes = size
    BY <1>1, <1>5, <1>6, <2>1, NoneIsNoNumber DEF Codec!Default
  <2>2. CASE /\ settled.bits = None /\ settled.bytes = None /\ from = 0 /\ n = 8 * size
             /\ size = Unnamed(datum, schema, par)
    <3>1. m = 32 BY <1>5, <2>2 DEF Codec!Default
    <3>2. settled.offset = from BY <1>4, LengthsAre
    <3>3. size = Codec!BytesFor(0 + 32) BY <1>4, <2>2, <3>2 DEF Unnamed
    <3>4. bytes = Codec!BytesFor(0 + 32) BY <1>6, <2>2, <3>1 DEF Codec!Default
    <3>5. Codec!BytesFor(0 + 32) = 4 BY DEF Codec!BytesFor
    <3> QED BY <2>2, <3>1, <3>3, <3>4, <3>5
  <2> QED BY <1>4, <2>1, <2>2, SizeIs
<1>14. at = from
  <2>1. CASE from = 0 BY <1>7, <2>1
  <2>2. CASE from > 0 /\ Codec!BigEndian(par) BY <1>7, <2>2
  <2>3. CASE n = 16 BY <1>7, <1>13, <2>3
  <2> QED BY <1>1, <1>3, <2>1, <2>2, <2>3
<1>15. Carries(b, size, from, bits) BY <1>1, <1>9, <1>12, <1>13, <1>14, Framed
<1>16. Codec!ScalarToValue(Padded(bits), type, schema, par) = datum
  <2>1. Padded(bits) = bits BY <1>12, NotPadded
  <2>2. Codec!ScalarToValue(bits, type, schema, par) = Codec!NumberToValue(bits, par)
    BY <1>3 DEF Codec!ScalarToValue
  <2>3. Len(bits) \in {16, 32, 64} BY <1>3, <1>12
  <2> QED BY <1>12, <2>1, <2>2, <2>3 DEF Codec!NumberToValue
<1>17. Copyable(bits, from) BY <1>3, <1>12 DEF Copyable
<1> QED BY <1>2, <1>11, <1>12, <1>15, <1>16, <1>17 DEF Written

(* A scalar that the codec keeps has a place in the buffer.                *)
LEMMA ScalarPlaced ==
    ASSUME NEW schema, NEW par, NEW datum, Codec!IsSchema(schema), par \in Parameters,
           Codec!IsScalar(datum),
           NEW size, size = Codec!Size(datum, schema, par),
           Codec!ScalarKept(schema, par, datum, size),
           NEW from, from = Codec!Part(schema, size).from, NEW n, n = Codec!Part(schema, size).n
    PROVE  Placed(schema, par, size, from, n) /\ Codec!DataType(schema) # "object"
<1>1. schema.bitOffset \in {None} \cup Nat /\ schema.bitLength \in {None} \cup Nat
  BY DEF Codec!IsSchema, Codec!Option
<1>2. par.length \in {None} \cup Nat BY DEF Parameters, Codec!Option
<1>3. PICK offset \in Nat : offset = Codec!Default(schema.bitOffset, 0)
  BY <1>1 DEF Codec!Default
<1>4. PICK settled : settled = Codec!Lengths(schema, par) OBVIOUS
<1>5. PICK named \in {None} \cup Nat :
        named = IF Codec!Typed(schema) THEN Codec!TypeSemantics[schema.type].bits ELSE schema.bitLength
  <2>1. Codec!Typed(schema) => Codec!TypeSemantics[schema.type].bits \in Nat
    BY DEF Codec!Typed, Codec!TypeSemantics
  <2> QED BY <1>1, <2>1
<1>6. /\ settled.offset = offset
      /\ settled.bytes = IF par.length = None /\ named # None
                         THEN Codec!BytesFor(offset + named) ELSE par.length
  BY <1>3, <1>4, <1>5 DEF Codec!Lengths
<1>7. size = Codec!Default(settled.bytes, Unnamed(datum, schema, par))
  BY <1>4 DEF Codec!Size, Unnamed
<1>8. datum.is \in {"integer", "boolean", "string", "number"} BY DEF Codec!ScalarKept
<1>9. datum.is = "string" => Len(datum.of) \in Nat BY DEF Codec!IsScalar
<1>10. Unnamed(datum, schema, par) \in Nat
  <2>1. CASE datum.is = "boolean" BY <2>1 DEF Unnamed
  <2>2. CASE datum.is = "string"
    <3>1. PICK k \in Nat : k = offset + Len(datum.of) BY <1>9, <2>2
    <3>2. Unnamed(datum, schema, par) = Codec!BytesFor(k) BY <1>4, <1>6, <2>2, <3>1 DEF Unnamed
    <3> QED BY <3>2, Bytes
  <2>3. CASE datum.is \in {"integer", "number"}
    <3>1. PICK k \in Nat : k = offset + 32 OBVIOUS
    <3>2. Unnamed(datum, schema, par) = Codec!BytesFor(k) BY <1>4, <1>6, <2>3, <3>1 DEF Unnamed
    <3> QED BY <3>2, Bytes
  <2> QED BY <1>8, <2>1, <2>2, <2>3
<1>11. size \in Nat /\ par.length \in {None, size}
  <2>1. CASE par.length # None
    <3>1. settled.bytes = par.length BY <1>6, <2>1
    <3> QED BY <1>2, <1>7, <2>1, <3>1 DEF Codec!Default
  <2>2. CASE par.length = None /\ named # None
    <3>1. PICK k \in Nat : k = offset + named BY <1>5, <2>2
    <3>2. settled.bytes = Codec!BytesFor(k) /\ Codec!BytesFor(k) \in Nat BY <1>6, <2>2, <3>1, Bytes
    <3> QED BY <1>7, <2>2, <3>2, NoneIsNoNumber DEF Codec!Default
  <2>3. CASE par.length = None /\ named = None
    <3>1. settled.bytes = None BY <1>6, <2>3
    <3> QED BY <1>7, <1>10, <2>3, <3>1 DEF Codec!Default
  <2> QED BY <2>1, <2>2, <2>3
<1>12. from = offset /\ n = Codec!Default(schema.bitLength, 8 * size) BY <1>3 DEF Codec!Part
<1>13. n \in Nat BY <1>1, <1>11, <1>12 DEF Codec!Default
<1>14. Codec!Part(schema, size) = [from |-> from, n |-> n] BY <1>3, <1>12 DEF Codec!Part
<1>15. /\ ~Codec!Swaps(par) /\ ~Codec!Contradictory(schema, par, n)
       /\ n > 0 /\ from + n <= 8 * size
  BY DEF Codec!ScalarKept
<1>16. Codec!DataType(schema) # "object"
  <2>1. CASE datum.is = "integer"
    BY <2>1 DEF Codec!ScalarKept, Codec!IntegerKept
  <2>2. CASE datum.is = "number"
    BY <2>2 DEF Codec!ScalarKept, Codec!NumberKept
  <2>3. CASE datum.is = "boolean"
    <3>1. schema.type = "boolean" BY <2>3 DEF Codec!ScalarKept
    <3> QED BY <3>1 DEF Codec!DataType, Codec!Typed, Codec!TypeSemantics
  <2>4. CASE datum.is = "string"
    <3>1. schema.type = "string" BY <2>4 DEF Codec!ScalarKept, Codec!StringKept
    <3> QED BY <3>1 DEF Codec!DataType, Codec!Typed, Codec!TypeSemantics
  <2> QED BY <1>8, <2>1, <2>2, <2>3, <2>4
<1>17. from \in Nat BY <1>12
<1> QED BY <1>11, <1>13, <1>14, <1>15, <1>16, <1>17 DEF Placed

(* Whatever its type, a scalar that the codec keeps is written where it    *)
(* belongs.                                                                *)
LEMMA ScalarField ==
    ASSUME NEW schema, NEW par, NEW size, NEW from, NEW n, Placed(schema, par, size, from, n),
           NEW datum, Codec!IsScalar(datum), size = Codec!Size(datum, schema, par),
           Codec!ScalarKept(schema, par, datum, size),
           NEW written, written = Codec!Scalar(datum, schema, par), written # Codec!Failed
    PROVE  Written(written.bits, datum, schema, par, size, from)
<1>1. CASE datum.is = "integer"
  <2>1. PICK v \in Short : datum = [is |-> "integer", of |-> v]
    BY <1>1 DEF Codec!IsScalar, Short
  <2>2. Codec!IntegerKept(schema, par, v, size)
    <3>1. Codec!IntegerKept(schema, par, datum.of, size) BY <1>1 DEF Codec!ScalarKept
    <3> QED BY <2>1, <3>1
  <2> QED BY <2>1, <2>2, IntegerField
<1>2. CASE datum.is = "boolean"
  <2>1. PICK flag \in BOOLEAN : datum = [is |-> "boolean", of |-> flag]
    BY <1>2 DEF Codec!IsScalar
  <2>2. schema.type = "boolean" BY <1>2 DEF Codec!ScalarKept
  <2> QED BY <2>1, <2>2, BooleanField
<1>3. CASE datum.is = "string"
  <2>1. PICK text \in Seq({0, 1}) : datum = [is |-> "string", of |-> text] /\ Len(text) % 8 = 0
    BY <1>3 DEF Codec!IsScalar
  <2>2. Codec!StringKept(schema, text, size)
    <3>1. Codec!StringKept(schema, datum.of, size) BY <1>3 DEF Codec!ScalarKept
    <3> QED BY <2>1, <3>1
  <2> QED BY <2>1, <2>2, StringField
<1>4. CASE datum.is = "number"
  <2>1. PICK pattern \in Seq({0, 1}) :
          datum = [is |-> "number", of |-> pattern] /\ Len(pattern) \in {16, 32, 64}
    BY <1>4 DEF Codec!IsScalar
  <2>2. Codec!NumberKept(schema, par, pattern, size)
    <3>1. Codec!NumberKept(schema, par, datum.of, size) BY <1>4 DEF Codec!ScalarKept
    <3> QED BY <2>1, <3>1
  <2> QED BY <2>1, <2>2, NumberField
<1>5. datum.is \in {"integer", "boolean", "string", "number"} BY DEF Codec!ScalarKept
<1> QED BY <1>1, <1>2, <1>3, <1>4, <1>5

(* A scalar that is kept comes back.                                       *)
LEMMA ScalarBack ==
    ASSUME NEW schema, NEW par, NEW datum, Codec!IsSchema(schema), par \in Parameters,
           Codec!IsScalar(datum),
           Codec!ScalarKept(schema, par, datum, Codec!Size(datum, schema, par)),
           NEW written, written = Codec!ValueToBytes(datum, schema, par), written # Codec!Failed
    PROVE  Codec!BytesToValue(written.bits, schema, par) = datum
<1>1. PICK size : size = Codec!Size(datum, schema, par) OBVIOUS
<1>2. PICK from : from = Codec!Part(schema, size).from OBVIOUS
<1>3. PICK n : n = Codec!Part(schema, size).n OBVIOUS
<1>4. Placed(schema, par, size, from, n) /\ Codec!DataType(schema) # "object"
  BY <1>1, <1>2, <1>3, ScalarPlaced
<1>5. written = Codec!Scalar(datum, schema, par) BY <1>4, WrittenByType
<1>6. Written(written.bits, datum, schema, par, size, from) BY <1>1, <1>4, <1>5, ScalarField
<1>7. PICK bits \in Seq({0, 1}) :
        /\ Carries(written.bits, size, from, bits) /\ Copyable(bits, from)
        /\ Placed(schema, par, size, from, Len(bits))
        /\ Codec!ScalarToValue(Padded(bits), Codec!DataType(schema), schema, par) = datum
  BY <1>6 DEF Written
<1>8. PICK m \in Nat : m = Len(bits) OBVIOUS
<1>9. PICK b : b = written.bits OBVIOUS
<1>10. size \in Nat /\ from \in Nat /\ from + m <= 8 * size BY <1>7, <1>8 DEF Placed
<1>11. /\ b \in Seq({0, 1}) /\ Len(b) = 8 * size
       /\ \A i \in 1 .. (8 * size) :
             b[i] = IF from < i /\ i <= from + m THEN bits[i - from] ELSE 0
  BY <1>7, <1>8, <1>9 DEF Carries
<1>12. \A i \in 1 .. m : b[from + i] = bits[i]
  <2>1. ASSUME NEW i \in 1 .. m PROVE b[from + i] = bits[i]
    <3>1. from + i \in 1 .. (8 * size) /\ from < from + i /\ from + i <= from + m
          /\ from + i - from = i
      BY <1>10
    <3>2. PICK j \in 1 .. (8 * size) : j = from + i BY <3>1
    <3>3. j - from = i BY <1>10, <3>2
    <3>4. b[j] = bits[j - from] BY <1>11, <3>1, <3>2
    <3> QED BY <3>2, <3>3, <3>4
  <2> QED BY <2>1
<1>13. Placed(schema, par, size, from, m) BY <1>7, <1>8
<1>14. Codec!BytesToValue(b, schema, par)
       = Codec!ScalarToValue(Padded(bits), Codec!DataType(schema), schema, par)
  BY <1>4, <1>8, <1>11, <1>12, <1>13, ReadByType
<1> QED BY <1>7, <1>9, <1>14

Low(n, signed) == IF signed THEN -Codec!Two[n - 1] ELSE 0
High(n, signed) == IF signed THEN Codec!Two[n - 1] ELSE Codec!Two[n]
IntegerBuffer(v, size, from, n, signed, par) ==
    IF Low(n, signed) <= v /\ v < High(n, signed)
    THEN Codec!Buffer(Codec!InOrder(Codec!Zeros(from) \o Codec!TwosComplement(v, n)
                                    \o Codec!Zeros(8 * size - from - n), Codec!BigEndian(par)))
    ELSE Codec!Failed

(* The buffer of an integer, bit for bit, and the integers that have one.  *)
LEMMA IntegerLaidOut ==
    ASSUME NEW schema, NEW par, NEW size, NEW from, NEW n, Placed(schema, par, size, from, n),
           n <= 30, NEW v \in Short, NEW datum, datum = [is |-> "integer", of |-> v],
           size = Codec!Size(datum, schema, par), Codec!IntegerKept(schema, par, v, size),
           NEW written, written = Codec!Scalar(datum, schema, par),
           NEW signed, signed = Codec!Signed(schema, par)
    PROVE  written = IntegerBuffer(v, size, from, n, signed, par)
<1>0. PICK bytes : bytes = Codec!Zeros(from) \o Codec!TwosComplement(v, n)
                           \o Codec!Zeros(8 * size - from - n)
  OBVIOUS
<1> DEFINE low == Low(n, signed)
           high == High(n, signed)
<1>1. /\ size \in Nat /\ from \in Nat /\ n \in Nat /\ n > 0 /\ from + n <= 8 * size
      /\ Codec!Part(schema, size) = [from |-> from, n |-> n]
  BY DEF Placed
<1>2. IF from = 0 THEN n = 8 * size ELSE Codec!BigEndian(par)
  BY <1>1 DEF Codec!IntegerKept
<1>3. v \in Int BY TwoIs DEF Short
<1>4. Codec!Overflows(v, n, signed) <=> ~(low <= v /\ v < high)
  <2>0. n - 1 \in 0 .. 30 /\ n \in 0 .. 30 BY <1>1
  <2>1. PICK p \in Nat : p = Codec!Two[n - 1]
    <3>1. Codec!Two[n - 1] \in Nat BY <2>0, TwoIs
    <3> QED BY <3>1
  <2>2. PICK q \in Nat : q = Codec!Two[n]
    <3>1. Codec!Two[n] \in Nat BY <2>0, TwoIs
    <3> QED BY <3>1
  <2>3. ~(n > 30) /\ n # 0 BY <1>1
  <2>4. CASE signed
    <3>1. low = -p /\ high = p BY <2>1, <2>4 DEF Low, High
    <3>2. Codec!Overflows(v, n, signed) <=> v >= p \/ v < -p BY <2>1, <2>3, <2>4 DEF Codec!Overflows
    <3> HIDE DEF low, high
    <3> QED BY <1>3, <2>1, <3>1, <3>2
  <2>5. CASE ~signed
    <3>1. low = 0 /\ high = q BY <2>2, <2>5 DEF Low, High
    <3>2. Codec!Overflows(v, n, signed) <=> v >= q \/ v < 0 BY <2>2, <2>3, <2>5 DEF Codec!Overflows
    <3> HIDE DEF low, high
    <3> QED BY <1>3, <2>2, <3>1, <3>2
  <2> QED BY <2>4, <2>5
<1>7. IntegerBuffer(v, size, from, n, signed, par)
      = IF low <= v /\ v < high THEN Codec!Buffer(Codec!InOrder(bytes, Codec!BigEndian(par)))
        ELSE Codec!Failed
  BY <1>0 DEF IntegerBuffer
<1> HIDE DEF low, high
<1>5. CASE Codec!Overflows(v, n, signed)
  <2>1. written = Codec!Failed BY <1>5, IntegerWritten
  <2> QED BY <1>4, <1>5, <1>7, <2>1
<1>6. CASE ~Codec!Overflows(v, n, signed)
  <2>1. PICK b : written = Codec!Buffer(b) /\ Carries(b, size, from, IntegerBits(v, par, from, n))
    BY <1>6, IntegerWritten
  <2>2. PICK plain : plain = Codec!TwosComplement(v, n) OBVIOUS
  <2>3. plain \in Seq({0, 1}) /\ Len(plain) = n BY <1>1, <2>2, TwosComplementIs
  <2>4. b = Codec!InOrder(bytes, Codec!BigEndian(par))
    <3>1. CASE from = 0
      <4>1. bytes = plain
        <5>1. Codec!Zeros(0) = <<>> BY DEF Codec!Zeros
        <5>2. 8 * size - from - n = 0 BY <1>1, <1>2, <3>1
        <5>3. bytes = <<>> \o plain \o <<>> BY <1>0, <2>2, <3>1, <5>1, <5>2
        <5> QED BY <2>3, <5>3
      <4>2. PICK c : c = Codec!InOrder(plain, Codec!BigEndian(par)) OBVIOUS
      <4>3. c \in Seq({0, 1}) /\ Len(c) = 8 * size
        <5>1. Len(plain) = 8 * size BY <1>2, <2>3, <3>1
        <5>2. Codec!BigEndian(par) \in BOOLEAN BY SignedIs
        <5> QED BY <1>1, <2>3, <4>2, <5>1, <5>2, InOrderIs
      <4>4. Carries(c, size, from, c) BY <1>1, <3>1, <4>3 DEF Carries
      <4>5. Carries(b, size, from, c) BY <2>1, <2>2, <3>1, <4>2 DEF IntegerBits
      <4> QED BY <1>1, <4>1, <4>2, <4>4, <4>5, CarriesSame
    <3>2. CASE from # 0
      <4>1. Codec!InOrder(bytes, Codec!BigEndian(par)) = bytes BY <1>2, <3>2 DEF Codec!InOrder
      <4>2. Carries(bytes, size, from, plain) BY <1>0, <1>1, <2>2, <2>3, Framed
      <4>3. Carries(b, size, from, plain) BY <2>1, <2>2, <3>2 DEF IntegerBits
      <4>4. b = bytes BY <1>1, <4>2, <4>3, CarriesSame
      <4> QED BY <4>1, <4>4
    <3> QED BY <3>1, <3>2
  <2> QED BY <1>4, <1>6, <1>7, <2>1, <2>4
<1> QED BY <1>5, <1>6

(* The same of an exchange.                                                *)
LEMMA ScalarLaidOut ==
    ASSUME NEW schema, NEW par, NEW datum, Codec!IsSchema(schema), par \in Parameters,
           Codec!IsScalar(datum), datum.is = "integer",
           NEW size, size = Codec!Size(datum, schema, par),
           Codec!ScalarKept(schema, par, datum, size),
           NEW from, from = Codec!Part(schema, size).from,
           NEW n, n = Codec!Part(schema, size).n, n <= 30
    PROVE  Codec!ValueToBytes(datum, schema, par)
           = IntegerBuffer(datum.of, size, from, n, Codec!Signed(schema, par), par)
<1>1. PICK v \in Short : datum = [is |-> "integer", of |-> v]
  BY DEF Codec!IsScalar, Short
<1>2. v = datum.of BY <1>1
<1>3. Placed(schema, par, size, from, n) /\ Codec!DataType(schema) # "object"
  BY ScalarPlaced
<1>4. Codec!IntegerKept(schema, par, v, size) BY <1>2 DEF Codec!ScalarKept
<1>5. Codec!Scalar(datum, schema, par)
      = IntegerBuffer(v, size, from, n, Codec!Signed(schema, par), par)
  BY <1>1, <1>3, <1>4, IntegerLaidOut
<1> QED BY <1>2, <1>3, <1>5, WrittenByType

LEMMA Modulo32 ==
    ASSUME NEW d \in Nat
    PROVE  d % 32 \in 0 .. 31 /\ d % 32 <= d /\ (d < 32 => d % 32 = d)
OBVIOUS

(* A buffer with nothing in it from a place on, and with a field there.    *)
Clear(target, size, from) ==
    /\ target \in Seq({0, 1}) /\ Len(target) = 8 * size
    /\ \A i \in 1 .. (8 * size) : i > from => target[i] = 0

Extended(b, size, target, from, n, bits) ==
    /\ b \in Seq({0, 1}) /\ Len(b) = 8 * size
    /\ \A i \in 1 .. (8 * size) :
          b[i] = IF i <= from THEN target[i] ELSE IF i <= from + n THEN bits[i - from] ELSE 0

(* A field copied behind what a buffer already holds.                      *)
LEMMA CopyIs ==
    ASSUME NEW size \in Nat, NEW from \in Nat, NEW bits \in Seq({0, 1}),
           NEW n \in Nat, n = Len(bits), n > 0, from + n <= 8 * size,
           NEW source, Carries(source, size, from, bits), Copyable(bits, from),
           n <= 48 \/ n % 8 = 0,
           NEW target, Clear(target, size, from)
    PROVE  \E b : /\ Codec!CopyBits(source, from, target, from, n) = Codec!Buffer(b)
                  /\ Extended(b, size, target, from, n, bits)
<1>0. /\ target \in Seq({0, 1}) /\ Len(target) = 8 * size
      /\ \A i \in 1 .. (8 * size) : i > from => target[i] = 0
  BY DEF Clear
<1>1. PICK width \in Nat : width = 8 * size OBVIOUS
<1>2. /\ source \in Seq({0, 1}) /\ Len(source) = width
      /\ \A i \in 1 .. width : source[i] = IF from < i /\ i <= from + n THEN bits[i - from] ELSE 0
  BY <1>1 DEF Carries
<1>3. DOMAIN target = 1 .. width /\ \A i \in 1 .. width : target[i] \in {0, 1} BY <1>0, <1>1
<1>4. from + n <= width BY <1>1
<1>5. \A i \in 1 .. n : bits[i] \in {0, 1} OBVIOUS
<1>6. \A i \in 1 .. width : i > from => target[i] = 0 BY <1>0, <1>1
<1> DEFINE Right(b) ==
        \A i \in 1 .. width :
            b[i] = IF i <= from THEN target[i] ELSE IF i <= from + n THEN bits[i - from] ELSE 0
<1>7. ASSUME NEW b, DOMAIN b = 1 .. width, Right(b), b = [i \in 1 .. width |-> b[i]]
      PROVE  b \in Seq({0, 1}) /\ Len(b) = width
  <2>1. ASSUME NEW i \in 1 .. width PROVE b[i] \in {0, 1}
    <3>1. CASE i <= from BY <1>3, <1>7, <3>1
    <3>2. CASE i > from /\ i <= from + n
      <4>1. PICK j \in 1 .. n : j = i - from BY <3>2
      <4>2. b[i] = bits[j] BY <1>7, <3>2, <4>1
      <4> QED BY <1>5, <4>2
    <3>3. CASE i > from + n BY <1>7, <3>3
    <3> QED BY <3>1, <3>2, <3>3
  <2>2. b = [i \in 1 .. width |-> b[i]] BY <1>7
  <2> HIDE DEF Right
  <2>3. b \in [1 .. width -> {0, 1}] BY <2>1, <2>2
  <2> QED BY <2>3
<1>8. CASE from % 8 = 0 /\ n % 8 = 0
  <2>1. PICK end \in Nat : end = 8 * (from + n \div 8)
    <3>1. n \div 8 \in Nat OBVIOUS
    <3> QED BY <3>1
  <2>2. end >= from + n BY <1>8, <2>1
  <2>3. PICK copied : copied = (IF end < Len(source) THEN end ELSE Len(source)) - from OBVIOUS
  <2>4. copied \in Int /\ from + n <= from + copied /\ from + copied <= width
    BY <1>2, <1>4, <2>2, <2>3
  <2>5. PICK b : b = [i \in DOMAIN target |->
                        IF i > from /\ i <= from + copied THEN source[from + i - from] ELSE target[i]]
    OBVIOUS
  <2>6. Codec!CopyBits(source, from, target, from, n) = Codec!Buffer(b)
    <3>1. ~(from > Len(source)) BY <1>2, <1>4
    <3> QED BY <1>8, <2>1, <2>3, <2>5, <3>1 DEF Codec!CopyBits
  <2>7. Right(b)
    <3>1. ASSUME NEW i \in 1 .. width
          PROVE  b[i] = IF i <= from THEN target[i] ELSE IF i <= from + n THEN bits[i - from] ELSE 0
      <4>1. from + i - from = i OBVIOUS
      <4>2. b[i] = IF i > from /\ i <= from + copied THEN source[i] ELSE target[i]
        BY <1>3, <2>5, <4>1
      <4>3. CASE i <= from BY <4>2, <4>3
      <4>4. CASE i > from /\ i <= from + n
        <5>1. i <= from + copied BY <2>4, <4>4
        <5> QED BY <1>2, <4>2, <4>4, <5>1
      <4>5. CASE i > from + n
        <5>1. source[i] = 0 BY <1>2, <4>5
        <5>2. target[i] = 0 /\ ~(i <= from) BY <1>6, <4>5
        <5> QED BY <4>2, <4>5, <5>1, <5>2
      <4> QED BY <4>3, <4>4, <4>5
    <3> QED BY <3>1
  <2>8. DOMAIN b = 1 .. width /\ b = [i \in 1 .. width |-> b[i]] BY <1>3, <2>5
  <2>9. b \in Seq({0, 1}) /\ Len(b) = width
    <3> HIDE DEF Right
    <3> QED BY <1>7, <2>7, <2>8
  <2>10. Extended(b, size, target, from, n, bits) BY <1>1, <2>7, <2>9 DEF Extended
  <2> QED BY <2>6, <2>10
<1>9. CASE ~(from % 8 = 0 /\ n % 8 = 0)
  <2>1. PICK read : read = Codec!ReadBits(source, from, n) OBVIOUS
  <2>2. PICK written : written = IF n > 48 THEN read
                                 ELSE [i \in 1 .. n |-> source[from + n - ((n - i) % 32)]]
    OBVIOUS
  <2>3. Len(written) = n /\ \A i \in 1 .. n : written[i] = bits[i]
    <3>1. CASE n > 48
      <4>1. n % 8 = 0 BY <3>1
      <4>2. 8 * Codec!BytesFor(n) - n = 0
        <5>1. 8 * Codec!BytesFor(n) = n BY <4>1, Bytes
        <5> QED BY <5>1
      <4>3. PICK part : part = SubSeq(source, from + 1, from + n) OBVIOUS
      <4>4. part \in Seq({0, 1}) /\ Len(part) = n /\ \A i \in 1 .. n : part[i] = source[from + i]
        BY <1>2, <1>4, <4>3
      <4>5. Codec!Zeros(0) = <<>> BY DEF Codec!Zeros
      <4>6. read = <<>> \o part BY <2>1, <4>2, <4>3, <4>5 DEF Codec!ReadBits
      <4>7. written = part BY <2>2, <3>1, <4>4, <4>6
      <4>8. ASSUME NEW i \in 1 .. n PROVE part[i] = bits[i]
        <5>1. PICK j \in 1 .. width : j = from + i BY <1>4
        <5>2. source[j] = bits[j - from] /\ j - from = i BY <1>2, <5>1
        <5> QED BY <4>4, <5>1, <5>2
      <4> QED BY <4>4, <4>7, <4>8
    <3>2. CASE n <= 48
      <4>1. written = [i \in 1 .. n |-> source[from + n - ((n - i) % 32)]] BY <2>2, <3>2
      <4>2. ASSUME NEW i \in 1 .. n PROVE written[i] = bits[i]
        <5>0. PICK d \in Nat : d = n - i
          <6>1. n - i \in Nat OBVIOUS
          <6> QED BY <6>1
        <5>1. PICK k \in 0 .. 31 : k = d % 32 /\ k <= d /\ (d < 32 => k = d) BY Modulo32
        <5>2. k <= n - i BY <5>0, <5>1
        <5>3. PICK j \in 1 .. width : j = from + n - k BY <1>4, <5>2
        <5>4. written[i] = source[j] BY <4>1, <5>0, <5>1, <5>3
        <5>5. j - from = n - k /\ n - k \in 1 .. n /\ from < j /\ j <= from + n BY <5>2, <5>3
        <5>6. written[i] = bits[n - k] BY <1>2, <5>4, <5>5
        <5>7. CASE n <= 32
          <6>1. d < 32 BY <5>0, <5>7
          <6>2. k = d BY <5>1, <6>1
          <6>3. n - k = i BY <5>0, <6>2
          <6> QED BY <5>6, <6>3
        <5>8. CASE \A m \in 1 .. n : bits[m] = bits[1] BY <5>5, <5>6, <5>8
        <5> QED BY <1>9, <3>2, <5>7, <5>8 DEF Copyable
      <4>3. Len(written) = n BY <4>1
      <4> QED BY <4>2, <4>3
    <3> QED BY <3>1, <3>2
  <2>4. PICK b : b = [i \in DOMAIN target |->
                        IF i > from /\ i <= from + Len(written) /\ written[i - from] = 1
                        THEN 1 ELSE target[i]]
    OBVIOUS
  <2>5. Codec!CopyBits(source, from, target, from, n) = Codec!Buffer(b)
    <3>1. ~(from + n > Len(source) \/ n = 0) BY <1>2, <1>4
    <3>2. ~(from % 8 = 0 /\ from % 8 = 0 /\ n % 8 = 0) BY <1>9
    <3> QED BY <2>1, <2>2, <2>4, <3>1, <3>2 DEF Codec!CopyBits
  <2>6. Right(b)
    <3>1. ASSUME NEW i \in 1 .. width
          PROVE  b[i] = IF i <= from THEN target[i] ELSE IF i <= from + n THEN bits[i - from] ELSE 0
      <4>1. b[i] = IF i > from /\ i <= from + n /\ written[i - from] = 1 THEN 1 ELSE target[i]
        BY <1>3, <2>3, <2>4
      <4>2. i > from /\ i <= from + n => i - from \in 1 .. n OBVIOUS
      <4>3. i > from /\ i <= from + n => written[i - from] = bits[i - from] /\ bits[i - from] \in {0, 1}
        BY <1>5, <2>3, <4>2
      <4> QED BY <1>6, <4>1, <4>3
    <3> QED BY <3>1
  <2>7. DOMAIN b = 1 .. width /\ b = [i \in 1 .. width |-> b[i]] BY <1>3, <2>4
  <2>8. b \in Seq({0, 1}) /\ Len(b) = width
    <3> HIDE DEF Right
    <3> QED BY <1>7, <2>6, <2>7
  <2>9. Extended(b, size, target, from, n, bits) BY <1>1, <2>6, <2>8 DEF Extended
  <2> QED BY <2>5, <2>9
<1> QED BY <1>8, <1>9

(* One property more in the buffer of an object.                           *)
Put(datum, schema, par, target, k) ==
    LET property == schema.properties[k]
        object == property.type = "object"
        made == IF object THEN Codec!FlatToBytes(datum.of[k], property, par, target)
                  ELSE Codec!Scalar(datum.of[k], property, par)
        into == IF object /\ made # Codec!Failed THEN made.bits ELSE target
    IN  IF made = Codec!Failed THEN Codec!Failed
        ELSE Codec!CopyBits(made.bits, property.bitOffset, into,
                            Codec!Default(schema.bitOffset, 0) + property.bitOffset, property.bitLength)

Puts(f, datum, schema, par, first, n) ==
    f = [k \in 0 .. n |->
            IF k = 0 THEN Codec!Buffer(first)
            ELSE IF f[k - 1] = Codec!Failed THEN Codec!Failed
            ELSE Put(datum, schema, par, f[k - 1].bits, k)]

LEMMA PutsExist ==
    ASSUME NEW datum, NEW schema, NEW par, NEW first, NEW n \in Nat
    PROVE  \E f : Puts(f, datum, schema, par, first, n)
<1>1. PICK start : start = Codec!Buffer(first) OBVIOUS
<1> DEFINE Step(r, k) == IF r = Codec!Failed THEN Codec!Failed ELSE Put(datum, schema, par, r.bits, k)
           Loop(g, m) == g = [k \in 0 .. m |-> IF k = 0 THEN start ELSE Step(g[k - 1], k)]
           S == {m \in 0 .. n : \E g : Loop(g, m)}
<1> HIDE DEF Step
<1>2. 0 \in S
  <2>1. PICK g : g = [k \in 0 .. 0 |-> start] OBVIOUS
  <2>2. Loop(g, 0) BY <2>1
  <2> QED BY <2>2
<1>3. ASSUME NEW m \in 1 .. n, m - 1 \in S PROVE m \in S
  <2>1. PICK g : Loop(g, m - 1) BY <1>3
  <2>2. g[0] = start /\ \A k \in 1 .. (m - 1) : g[k] = Step(g[k - 1], k) BY <2>1
  <2>3. PICK end : end = Step(g[m - 1], m) OBVIOUS
  <2>4. PICK h : h = [k \in 0 .. m |-> IF k = m THEN end ELSE g[k]] OBVIOUS
  <2>5. ASSUME NEW k \in 0 .. m
        PROVE  h[k] = IF k = 0 THEN start ELSE Step(h[k - 1], k)
    <3>1. CASE k = 0 BY <2>2, <2>4, <3>1
    <3>2. CASE k = m
      <4>1. h[k] = end /\ h[k - 1] = g[m - 1] /\ k # 0 BY <2>4, <3>2
      <4> QED BY <2>3, <3>2, <4>1
    <3>3. CASE k # 0 /\ k # m
      <4>1. k \in 1 .. (m - 1) /\ h[k] = g[k] /\ h[k - 1] = g[k - 1] BY <2>4, <3>3
      <4> QED BY <2>2, <4>1
    <3> QED BY <3>1, <3>2, <3>3
  <2>6. h = [k \in 0 .. m |-> h[k]] BY <2>4
  <2>7. Loop(h, m) BY <2>5, <2>6
  <2> HIDE DEF Loop
  <2> QED BY <2>7
<1>4. n \in S
  <2> HIDE DEF S
  <2>1. \A k \in 0 .. n : k \in S BY <1>2, <1>3, UpTo
  <2> QED BY <2>1
<1>5. PICK g : Loop(g, n) BY <1>4
<1>6. Puts(g, datum, schema, par, first, n) BY <1>1, <1>5 DEF Step, Puts
<1> QED BY <1>6

LEMMA ObjectIsPut ==
    ASSUME NEW datum, NEW schema, NEW par, NEW first, NEW n \in Nat, n = Len(schema.properties),
           NEW written, written = Codec!ValueToObject(datum, schema, par, first, Codec!FlatToBytes),
           written # Codec!Failed
    PROVE  \E f : Puts(f, datum, schema, par, first, n) /\ written = f[n]
<1> DEFINE Whole(g) ==
             g = [k \in 0 .. n |->
                    IF k = 0 THEN Codec!Buffer(first)
                    ELSE IF g[k - 1] = Codec!Failed THEN Codec!Failed
                    ELSE Put(datum, schema, par, g[k - 1].bits, k)]
<1>1. PICK f : f = CHOOSE g : Whole(g) OBVIOUS
<1>2. written = f[n] BY <1>1 DEF Codec!ValueToObject, Put
<1>3. \E g : Whole(g)
  <2>1. PICK g : Puts(g, datum, schema, par, first, n) BY PutsExist
  <2> QED BY <2>1 DEF Puts
<1>4. Whole(f)
  <2> HIDE DEF Whole
  <2> QED BY <1>1, <1>3
<1>5. Puts(f, datum, schema, par, first, n) BY <1>4 DEF Puts
<1> QED BY <1>2, <1>5

(* An object the codec keeps, and its fields.                              *)
KeptObject(datum, schema, par, size, n) ==
    /\ Codec!IsSchema(schema) /\ par \in Parameters /\ Codec!IsObject(datum, schema)
    /\ Codec!ObjectKept(schema, par, datum)
    /\ size \in Nat /\ size = par.length
    /\ n \in Nat /\ n = Len(schema.properties)

LEMMA KeptObjectIs ==
    ASSUME NEW datum, NEW schema, NEW par, NEW size, NEW n, KeptObject(datum, schema, par, size, n)
    PROVE  /\ DOMAIN schema.properties = 1 .. n /\ DOMAIN datum.of = 1 .. n
           /\ datum = [is |-> "object", of |-> [k \in 1 .. n |-> datum.of[k]]]
           /\ Codec!Default(schema.bitOffset, 0) = 0
           /\ Codec!Default(schema.bitLength, 8 * size) = 8 * size
<1>1. Codec!IsObject(datum, schema) /\ Codec!ObjectKept(schema, par, datum)
      /\ size = par.length /\ n = Len(schema.properties)
  BY DEF KeptObject
<1>2. DOMAIN schema.properties = 1 .. n
  <2>1. schema.properties = [k \in 1 .. n |-> schema.properties[k]] BY <1>1 DEF Codec!IsObject
  <2> QED BY <2>1
<1>3. Len(datum.of) = n BY <1>1 DEF Codec!ObjectKept
<1>4. datum = [is |-> "object", of |-> [k \in 1 .. n |-> datum.of[k]]]
  <2>1. datum = [is |-> "object", of |-> [k \in 1 .. Len(datum.of) |-> datum.of[k]]]
    BY <1>1 DEF Codec!IsObject
  <2> QED BY <1>3, <2>1
<1>5. DOMAIN datum.of = 1 .. n
  <2>1. PICK items : items = [k \in 1 .. n |-> datum.of[k]] OBVIOUS
  <2>2. datum.of = items BY <1>4, <2>1
  <2> QED BY <2>1, <2>2
<1>6. Codec!Part(schema, size) = [from |-> 0, n |-> 8 * size] BY <1>1 DEF Codec!ObjectKept
<1> QED BY <1>2, <1>4, <1>5, <1>6 DEF Codec!Part

LEMMA FieldIs ==
    ASSUME NEW datum, NEW schema, NEW par, NEW size, NEW n, KeptObject(datum, schema, par, size, n),
           NEW k \in 1 .. n, NEW property, property = schema.properties[k],
           NEW item, item = datum.of[k]
    PROVE  /\ Placed(property, par, size, property.bitOffset, property.bitLength)
           /\ Codec!DataType(property) # "object" /\ property.type # "object"
           /\ Codec!IsScalar(item) /\ Codec!ScalarKept(property, par, item, size)
           /\ size = Codec!Size(item, property, par)
           /\ property.bitLength <= 48 \/ property.bitLength % 8 = 0
<1>1. /\ Codec!IsSchema(schema) /\ par \in Parameters /\ Codec!IsObject(datum, schema)
      /\ Codec!ObjectKept(schema, par, datum)
      /\ size \in Nat /\ size = par.length
  BY DEF KeptObject
<1>2. k \in DOMAIN schema.properties /\ k \in DOMAIN datum.of BY KeptObjectIs
<1>3. /\ None \notin {property.bitOffset, property.bitLength}
      /\ Codec!ScalarKept(property, par, item, size)
      /\ Codec!Part(property, size).n <= 48 \/ Codec!Part(property, size).n % 8 = 0
  BY <1>1, <1>2 DEF Codec!ObjectKept
<1>4. Codec!IsSchema(property) /\ (item.is = "object" \/ Codec!IsScalar(item))
  BY <1>1, <1>2 DEF Codec!IsObject
<1>5. item.is \in {"integer", "boolean", "string", "number"} BY <1>3 DEF Codec!ScalarKept
<1>6. Codec!IsScalar(item) BY <1>4, <1>5
<1>7. size = Codec!Size(item, property, par)
  <2>1. par.length # None BY <1>1 DEF Codec!ObjectKept
  <2>2. PICK settled : settled = Codec!Lengths(property, par) OBVIOUS
  <2>3. settled.bytes = par.length BY <2>1, <2>2 DEF Codec!Lengths
  <2>4. Codec!Size(item, property, par) = Codec!Default(settled.bytes, Unnamed(item, property, par))
    BY <2>2 DEF Codec!Size, Unnamed
  <2> QED BY <1>1, <2>1, <2>3, <2>4 DEF Codec!Default
<1>8. Codec!Part(property, size) = [from |-> property.bitOffset, n |-> property.bitLength]
  BY <1>3 DEF Codec!Part, Codec!Default
<1>9. Placed(property, par, size, property.bitOffset, property.bitLength)
      /\ Codec!DataType(property) # "object"
  <2>1. property.bitOffset = Codec!Part(property, size).from BY <1>8
  <2>2. property.bitLength = Codec!Part(property, size).n BY <1>8
  <2> QED BY <1>1, <1>3, <1>4, <1>6, <1>7, <2>1, <2>2, ScalarPlaced
<1>10. property.type # "object"
  BY <1>9 DEF Codec!DataType, Codec!Typed, Codec!TypeSemantics
<1> QED BY <1>3, <1>6, <1>7, <1>8, <1>9, <1>10

(* The fields that a buffer already holds, with nothing behind them.       *)
End(schema, k) ==
    IF k = 0 THEN 0 ELSE schema.properties[k].bitOffset + schema.properties[k].bitLength

Holds(b, property, par, size, item) ==
    \E bits \in Seq({0, 1}) :
        /\ Placed(property, par, size, property.bitOffset, Len(bits))
        /\ Codec!ScalarToValue(Padded(bits), Codec!DataType(property), property, par) = item
        /\ \A i \in 1 .. Len(bits) : b[property.bitOffset + i] = bits[i]

Filled(b, datum, schema, par, size, k) ==
    /\ b \in Seq({0, 1}) /\ Len(b) = 8 * size
    /\ \A j \in 1 .. k :
          /\ End(schema, j) <= End(schema, k)
          /\ Holds(b, schema.properties[j], par, size, datum.of[j])
    /\ \A i \in 1 .. (8 * size) : i > End(schema, k) => b[i] = 0

LEMMA PutFills ==
    ASSUME NEW datum, NEW schema, NEW par, NEW size, NEW n, KeptObject(datum, schema, par, size, n),
           NEW k \in 1 .. n, NEW target, Filled(target, datum, schema, par, size, k - 1),
           NEW put, put = Put(datum, schema, par, target, k), put # Codec!Failed
    PROVE  \E b : put = Codec!Buffer(b) /\ Filled(b, datum, schema, par, size, k)
<1>0. n \in Nat BY DEF KeptObject
<1>1. PICK property : property = schema.properties[k] OBVIOUS
<1>2. PICK item : item = datum.of[k] OBVIOUS
<1>3. PICK from : from = property.bitOffset OBVIOUS
<1>4. PICK m : m = property.bitLength OBVIOUS
<1>5. /\ Placed(property, par, size, from, m)
      /\ Codec!DataType(property) # "object" /\ property.type # "object"
      /\ Codec!IsScalar(item) /\ Codec!ScalarKept(property, par, item, size)
      /\ size = Codec!Size(item, property, par)
      /\ m <= 48 \/ m % 8 = 0
  BY <1>1, <1>2, <1>3, <1>4, FieldIs
<1>6. size \in Nat /\ from \in Nat /\ m \in Nat /\ m > 0 /\ from + m <= 8 * size BY <1>5 DEF Placed
<1>7. PICK written : written = Codec!Scalar(item, property, par) OBVIOUS
<1>8. /\ written # Codec!Failed
      /\ put = Codec!CopyBits(written.bits, from, target, from, m)
  <2>1. put = IF written = Codec!Failed THEN Codec!Failed
              ELSE Codec!CopyBits(written.bits, from, target,
                                  Codec!Default(schema.bitOffset, 0) + from, m)
    BY <1>1, <1>2, <1>3, <1>4, <1>5, <1>7 DEF Put
  <2>2. Codec!Default(schema.bitOffset, 0) + from = from BY <1>6, KeptObjectIs
  <2> QED BY <2>1, <2>2
<1>9. Written(written.bits, item, property, par, size, from) BY <1>5, <1>7, <1>8, ScalarField
<1>10. PICK bits \in Seq({0, 1}) :
         /\ Carries(written.bits, size, from, bits) /\ Copyable(bits, from)
         /\ Placed(property, par, size, from, Len(bits))
         /\ Codec!ScalarToValue(Padded(bits), Codec!DataType(property), property, par) = item
  BY <1>9 DEF Written
<1>11. Len(bits) = m
  <2>1. Codec!Part(property, size) = [from |-> from, n |-> Len(bits)] BY <1>10 DEF Placed
  <2>2. Codec!Part(property, size) = [from |-> from, n |-> m] BY <1>5 DEF Placed
  <2>3. [from |-> from, n |-> Len(bits)].n = [from |-> from, n |-> m].n BY <2>1, <2>2
  <2> QED BY <2>3
<1>12. /\ target \in Seq({0, 1}) /\ Len(target) = 8 * size
       /\ \A j \in 1 .. (k - 1) :
             /\ End(schema, j) <= End(schema, k - 1)
             /\ Holds(target, schema.properties[j], par, size, datum.of[j])
       /\ \A i \in 1 .. (8 * size) : i > End(schema, k - 1) => target[i] = 0
  BY DEF Filled
<1>13. End(schema, k) = from + m BY <1>1, <1>3, <1>4 DEF End
<1>14. ASSUME NEW j \in 1 .. n PROVE End(schema, j) \in Nat
  <2>1. PICK other : other = schema.properties[j] OBVIOUS
  <2>2. Placed(other, par, size, other.bitOffset, other.bitLength) BY <2>1, FieldIs
  <2>3. other.bitOffset \in Nat /\ other.bitLength \in Nat BY <2>2 DEF Placed
  <2>4. j # 0 BY <1>0
  <2>5. End(schema, j) = other.bitOffset + other.bitLength BY <2>1, <2>4 DEF End
  <2> QED BY <2>3, <2>5
<1>15. End(schema, k - 1) \in Nat /\ End(schema, k - 1) <= from
  <2>1. CASE k = 1 BY <1>6, <2>1 DEF End
  <2>2. CASE k > 1
    <3>1. PICK j \in 1 .. n : j = k - 1
      <4>1. k - 1 \in 1 .. n BY <1>0, <2>2
      <4> QED BY <4>1
    <3>2. Codec!ObjectKept(schema, par, datum) /\ size = par.length BY DEF KeptObject
    <3>3. k \in DOMAIN schema.properties
      <4>1. DOMAIN schema.properties = 1 .. n BY KeptObjectIs
      <4> QED BY <4>1
    <3>4. PICK before : before = schema.properties[j] OBVIOUS
    <3>5. Codec!Part(before, size).from + Codec!Part(before, size).n <= Codec!Part(property, size).from
      BY <1>1, <2>2, <3>1, <3>2, <3>3, <3>4 DEF Codec!ObjectKept
    <3>6. Codec!Part(property, size).from = from
      <4>1. Codec!Part(property, size) = [from |-> from, n |-> m] BY <1>5 DEF Placed
      <4> QED BY <4>1
    <3>7. /\ Codec!Part(before, size).from = before.bitOffset
          /\ Codec!Part(before, size).n = before.bitLength
      <4>1. Placed(before, par, size, before.bitOffset, before.bitLength) BY <3>4, FieldIs
      <4>2. Codec!Part(before, size) = [from |-> before.bitOffset, n |-> before.bitLength]
        BY <4>1 DEF Placed
      <4> QED BY <4>2
    <3>8. End(schema, j) = before.bitOffset + before.bitLength BY <3>4 DEF End
    <3> QED BY <1>14, <3>1, <3>5, <3>6, <3>7, <3>8
  <2> QED BY <2>1, <2>2
<1>16. \A i \in 1 .. (8 * size) : i > from => target[i] = 0 BY <1>6, <1>12, <1>15
<1>17. PICK b :
         /\ put = Codec!Buffer(b)
         /\ b \in Seq({0, 1}) /\ Len(b) = 8 * size
         /\ \A i \in 1 .. (8 * size) :
               b[i] = IF i <= from THEN target[i] ELSE IF i <= from + m THEN bits[i - from] ELSE 0
  <2>1. PICK source : source = written.bits OBVIOUS
  <2>2. Carries(source, size, from, bits) /\ Copyable(bits, from) BY <1>10, <2>1
  <2>3. Clear(target, size, from) BY <1>12, <1>16 DEF Clear
  <2>4. m = Len(bits) BY <1>11
  <2>5. PICK b : /\ Codec!CopyBits(source, from, target, from, m) = Codec!Buffer(b)
                 /\ Extended(b, size, target, from, m, bits)
    BY <1>5, <1>6, <2>2, <2>3, <2>4, CopyIs
  <2> QED BY <1>8, <2>1, <2>5 DEF Extended
<1>18. Holds(b, property, par, size, item)
  <2>1. ASSUME NEW i \in 1 .. Len(bits) PROVE b[from + i] = bits[i]
    <3>1. PICK j \in 1 .. (8 * size) : j = from + i BY <1>6, <1>11
    <3>2. ~(j <= from) /\ j <= from + m /\ j - from = i BY <1>6, <1>11, <3>1
    <3>3. b[j] = bits[j - from] BY <1>17, <3>2
    <3> QED BY <3>1, <3>2, <3>3
  <2> QED BY <1>3, <1>10, <2>1 DEF Holds
<1>19. ASSUME NEW j \in 1 .. (k - 1)
       PROVE  /\ End(schema, j) <= End(schema, k)
              /\ Holds(b, schema.properties[j], par, size, datum.of[j])
  <2>1. End(schema, j) \in Nat /\ End(schema, j) <= from
    <3>1. j \in 1 .. n BY <1>0
    <3> QED BY <1>6, <1>12, <1>14, <1>15, <3>1
  <2>2. PICK other : other = schema.properties[j] OBVIOUS
  <2>3. PICK old \in Seq({0, 1}) :
          /\ Placed(other, par, size, other.bitOffset, Len(old))
          /\ Codec!ScalarToValue(Padded(old), Codec!DataType(other), other, par) = datum.of[j]
          /\ \A i \in 1 .. Len(old) : target[other.bitOffset + i] = old[i]
    BY <1>12, <2>2 DEF Holds
  <2>4. Len(old) = other.bitLength
    <3>1. j \in 1 .. n BY <1>0
    <3>2. Placed(other, par, size, other.bitOffset, other.bitLength) BY <2>2, <3>1, FieldIs
    <3>3. Codec!Part(other, size) = [from |-> other.bitOffset, n |-> other.bitLength] BY <3>2 DEF Placed
    <3>4. Codec!Part(other, size) = [from |-> other.bitOffset, n |-> Len(old)] BY <2>3 DEF Placed
    <3>5. [from |-> other.bitOffset, n |-> Len(old)].n = [from |-> other.bitOffset, n |-> other.bitLength].n
      BY <3>3, <3>4
    <3> QED BY <3>5
  <2>5. PICK at \in Nat : at = other.bitOffset BY <2>3 DEF Placed
  <2>6. PICK length \in Nat : length = Len(old) OBVIOUS
  <2>7. at + length <= from BY <2>1, <2>2, <2>4, <2>5, <2>6 DEF End
  <2>8. ASSUME NEW i \in 1 .. Len(old) PROVE b[other.bitOffset + i] = old[i]
    <3>1. PICK p \in 1 .. (8 * size) : p = at + i BY <1>6, <2>6, <2>7
    <3>2. p <= from BY <1>6, <2>6, <2>7, <3>1
    <3>3. b[p] = target[p] BY <1>17, <3>2
    <3> QED BY <2>3, <2>5, <3>1, <3>3
  <2>9. Holds(b, other, par, size, datum.of[j]) BY <2>3, <2>8 DEF Holds
  <2> QED BY <1>6, <1>13, <2>1, <2>2, <2>9
<1>20. ASSUME NEW j \in 1 .. k
       PROVE  /\ End(schema, j) <= End(schema, k)
              /\ Holds(b, schema.properties[j], par, size, datum.of[j])
  <2>1. CASE j = k BY <1>1, <1>2, <1>6, <1>13, <1>18, <2>1
  <2>2. CASE j # k
    <3>1. j \in 1 .. (k - 1) BY <2>2
    <3> QED BY <1>19, <3>1
  <2> QED BY <2>1, <2>2
<1>21. \A i \in 1 .. (8 * size) : i > End(schema, k) => b[i] = 0 BY <1>6, <1>13, <1>17
<1>22. Filled(b, datum, schema, par, size, k) BY <1>17, <1>20, <1>21 DEF Filled
<1> QED BY <1>17, <1>22

LEMMA ObjectWritten ==
    ASSUME NEW datum, NEW schema, NEW par, NEW size, NEW n, KeptObject(datum, schema, par, size, n),
           NEW written, written = Codec!ValueToBytes(datum, schema, par), written # Codec!Failed
    PROVE  \E b : written = Codec!Buffer(b) /\ Filled(b, datum, schema, par, size, n)
<1>1. /\ schema.type = "object" /\ par.length # None /\ size = par.length
      /\ size \in Nat /\ n \in Nat /\ n = Len(schema.properties)
  BY DEF KeptObject, Codec!ObjectKept
<1>2. Codec!DataType(schema) = "object" BY <1>1 DEF Codec!DataType, Codec!Typed, Codec!TypeSemantics
<1>3. datum.is = "object" BY KeptObjectIs
<1>4. PICK first : first = Codec!Zeros(8 * size) OBVIOUS
<1>5. written = Codec!ObjectToBytes(datum, schema, par)
  BY <1>2 DEF Codec!ValueToBytes, Codec!Writing
<1>6. written = Codec!ValueToObject(datum, schema, par, first, Codec!FlatToBytes)
  BY <1>1, <1>3, <1>4, <1>5 DEF Codec!ObjectToBytes
<1>7. PICK f : Puts(f, datum, schema, par, first, n) /\ written = f[n]
  BY <1>1, <1>6, ObjectIsPut
<1>8. /\ f[0] = Codec!Buffer(first)
      /\ \A k \in 1 .. n : f[k] = IF f[k - 1] = Codec!Failed THEN Codec!Failed
                                  ELSE Put(datum, schema, par, f[k - 1].bits, k)
  <2>1. f = [k \in 0 .. n |->
               IF k = 0 THEN Codec!Buffer(first)
               ELSE IF f[k - 1] = Codec!Failed THEN Codec!Failed
               ELSE Put(datum, schema, par, f[k - 1].bits, k)]
    BY <1>7 DEF Puts
  <2>2. 0 \in 0 .. n /\ \A k \in 1 .. n : k \in 0 .. n /\ k # 0 BY <1>1
  <2>3. f[0] = Codec!Buffer(first) BY <2>1, <2>2
  <2>4. ASSUME NEW k \in 1 .. n
        PROVE  f[k] = IF f[k - 1] = Codec!Failed THEN Codec!Failed
                      ELSE Put(datum, schema, par, f[k - 1].bits, k)
    BY <2>1, <2>2, Zenon
  <2> QED BY <2>3, <2>4
<1> DEFINE S == {k \in 0 .. n : f[k] # Codec!Failed =>
                    \E b : f[k] = Codec!Buffer(b) /\ Filled(b, datum, schema, par, size, k)}
<1>9. 0 \in S
  <2>1. PICK width \in Nat : width = 8 * size BY <1>1
  <2>2. first \in Seq({0, 1}) /\ Len(first) = width /\ \A i \in 1 .. width : first[i] = 0
    BY <1>4, <2>1, ZerosAre
  <2>3. Filled(first, datum, schema, par, size, 0) BY <2>1, <2>2 DEF Filled
  <2> QED BY <1>1, <1>8, <2>3
<1>10. ASSUME NEW k \in 1 .. n, k - 1 \in S PROVE k \in S
  <2>1. SUFFICES ASSUME f[k] # Codec!Failed
                 PROVE  \E b : f[k] = Codec!Buffer(b) /\ Filled(b, datum, schema, par, size, k)
    BY <1>1
  <2>2. f[k - 1] # Codec!Failed BY <1>8, <2>1
  <2>3. PICK target : f[k - 1] = Codec!Buffer(target) /\ Filled(target, datum, schema, par, size, k - 1)
    BY <1>10, <2>2
  <2>4. f[k - 1].bits = target BY <2>3, Buffered
  <2>5. f[k] = Put(datum, schema, par, target, k) BY <1>8, <2>2, <2>4
  <2> QED BY <2>1, <2>3, <2>5, PutFills
<1>11. n \in S
  <2> HIDE DEF S
  <2>1. \A k \in 0 .. n : k \in S BY <1>1, <1>9, <1>10, UpTo
  <2> QED BY <1>1, <2>1
<1> QED BY <1>7, <1>11

(* What every property holds is what the object is read as.                *)
LEMMA ObjectRead ==
    ASSUME NEW datum, NEW schema, NEW par, NEW size, NEW n, KeptObject(datum, schema, par, size, n),
           NEW b, Filled(b, datum, schema, par, size, n)
    PROVE  Codec!BytesToValue(b, schema, par) = datum
<1>1. /\ schema.type = "object" /\ size = par.length /\ ~Codec!Swaps(par)
      /\ size \in Nat /\ n \in Nat /\ par \in Parameters
  BY DEF KeptObject, Codec!ObjectKept
<1>2. b \in Seq({0, 1}) /\ Len(b) = 8 * size BY DEF Filled
<1>3. /\ DOMAIN schema.properties = 1 .. n
      /\ datum = [is |-> "object", of |-> [k \in 1 .. n |-> datum.of[k]]]
      /\ Codec!Default(schema.bitOffset, 0) = 0
      /\ Codec!Default(schema.bitLength, 8 * size) = 8 * size
  BY KeptObjectIs
<1>4. Codec!DataType(schema) = "object" /\ ~Codec!Contradictory(schema, par, 8 * size)
  BY <1>1 DEF Codec!DataType, Codec!Contradictory, Codec!Typed, Codec!TypeSemantics
<1>5. Codec!BytesToValue(b, schema, par) = Codec!ObjectToValue(b, schema, par, Codec!FlatToValue)
  <2>1. ~(par.length # None /\ 8 * par.length # Len(b)) BY <1>1, <1>2
  <2>2. Codec!Default(schema.bitLength, Len(b)) = Len(b) BY <1>2, <1>3
  <2>3. ~(Len(b) < Len(b)) /\ ~(Len(b) > Len(b) - 0) BY <1>1, <1>2
  <2>4. ~Codec!Contradictory(schema, par, Len(b)) BY <1>2, <1>4
  <2> QED BY <1>1, <1>3, <1>4, <2>1, <2>2, <2>3, <2>4 DEF Codec!BytesToValue, Codec!Reading
<1>6. PICK same : same = [par EXCEPT !.length = Len(b) \div 8] OBVIOUS
<1>7. same = par
  <2>1. Len(b) \div 8 = par.length BY <1>1, <1>2
  <2>2. par = [length |-> par.length, signed |-> par.signed, byteSeq |-> par.byteSeq]
    BY <1>1 DEF Parameters
  <2> QED BY <1>6, <2>1, <2>2
<1>8. PICK values : values = [k \in 1 .. n |-> Codec!FlatToValue(b, schema.properties[k], par)] OBVIOUS
<1>9. Codec!ObjectToValue(b, schema, par, Codec!FlatToValue)
      = IF \E k \in DOMAIN values : values[k] = Codec!Failed THEN Codec!Failed
        ELSE [is |-> "object", of |-> values]
  BY <1>1, <1>3, <1>6, <1>7, <1>8 DEF Codec!ObjectToValue
<1>10. ASSUME NEW k \in 1 .. n PROVE values[k] = datum.of[k] /\ values[k] # Codec!Failed
  <2>1. PICK property : property = schema.properties[k] OBVIOUS
  <2>2. PICK item : item = datum.of[k] OBVIOUS
  <2>3. Codec!DataType(property) # "object" /\ Codec!ScalarKept(property, par, item, size)
    BY <2>1, <2>2, FieldIs
  <2>4. Holds(b, property, par, size, item) BY <2>1, <2>2 DEF Filled
  <2>5. PICK bits \in Seq({0, 1}) :
          /\ Placed(property, par, size, property.bitOffset, Len(bits))
          /\ Codec!ScalarToValue(Padded(bits), Codec!DataType(property), property, par) = item
          /\ \A i \in 1 .. Len(bits) : b[property.bitOffset + i] = bits[i]
    BY <2>4 DEF Holds
  <2>6. PICK from : from = property.bitOffset OBVIOUS
  <2>7. PICK m : m = Len(bits) OBVIOUS
  <2>8. Placed(property, par, size, from, m) /\ \A i \in 1 .. m : b[from + i] = bits[i]
    BY <2>5, <2>6, <2>7
  <2>9. Codec!FlatToValue(b, property, par)
        = Codec!ScalarToValue(Padded(bits), Codec!DataType(property), property, par)
    BY <1>2, <2>3, <2>7, <2>8, ReadByType
  <2>10. values[k] = item BY <1>8, <2>1, <2>5, <2>9
  <2>11. item.is \in {"integer", "boolean", "string", "number"} BY <2>3 DEF Codec!ScalarKept
  <2>12. item # Codec!Failed BY <2>11 DEF Codec!Failed
  <2> QED BY <2>2, <2>10, <2>12
<1>11. values = [k \in 1 .. n |-> datum.of[k]] BY <1>8, <1>10
<1>12. ~\E k \in DOMAIN values : values[k] = Codec!Failed BY <1>8, <1>10
<1> QED BY <1>3, <1>5, <1>9, <1>11, <1>12

LEMMA ObjectBack ==
    ASSUME NEW datum, NEW schema, NEW par, Codec!IsSchema(schema), par \in Parameters,
           Codec!IsObject(datum, schema), Codec!ObjectKept(schema, par, datum),
           NEW written, written = Codec!ValueToBytes(datum, schema, par), written # Codec!Failed
    PROVE  Codec!BytesToValue(written.bits, schema, par) = datum
<1>1. PICK size : size = par.length OBVIOUS
<1>2. PICK n : n = Len(schema.properties) OBVIOUS
<1>3. size \in Nat BY <1>1 DEF Parameters, Codec!Option, Codec!ObjectKept
<1>4. n \in Nat BY <1>2 DEF Codec!IsObject
<1>5. KeptObject(datum, schema, par, size, n) BY <1>1, <1>2, <1>3, <1>4 DEF KeptObject
<1>6. PICK b : written = Codec!Buffer(b) /\ Filled(b, datum, schema, par, size, n)
  BY <1>5, ObjectWritten
<1>7. written.bits = b BY <1>6, Buffered
<1> QED BY <1>5, <1>6, <1>7, ObjectRead

(* What is on the wire, and what is read from it, is what the codec makes  *)
(* of the exchange in use.                                                 *)
CodecInv ==
    /\ exchange \in Exchanges
    /\ wire \in {None, Codec!ValueToBytes(exchange.value, exchange.schema, exchange.par)}
    /\ got # None => /\ wire \notin {None, Codec!Failed}
                     /\ got = Codec!BytesToValue(wire.bits, exchange.schema, exchange.par)

LEMMA CodecInvOK == CodecInv => CodecExact
<1> SUFFICES ASSUME CodecInv PROVE CodecExact OBVIOUS
<1>1. PICK datum : datum = exchange.value OBVIOUS
<1>2. PICK schema : schema = exchange.schema OBVIOUS
<1>3. PICK par : par = exchange.par OBVIOUS
<1>4. /\ par \in Parameters /\ Codec!IsSchema(schema)
      /\ datum.is = "object" \/ Codec!IsScalar(datum)
      /\ datum.is = "object" /\ schema.type = "object" => Codec!IsObject(datum, schema)
  <2>1. Codec!IsExchange(exchange) BY ExchangesAssumption DEF CodecInv
  <2> QED BY <1>1, <1>2, <1>3, <2>1 DEF Codec!IsExchange, Parameters
<1>5. PICK size : size = Codec!Size(datum, schema, par) OBVIOUS
<1>6. wire # None => wire = Codec!ValueToBytes(datum, schema, par)
  BY <1>1, <1>2, <1>3 DEF CodecInv
<1>7. Codec!Kept => IF datum.is = "object" THEN Codec!ObjectKept(schema, par, datum)
                    ELSE Codec!ScalarKept(schema, par, datum, size)
  BY <1>1, <1>2, <1>3, <1>5 DEF Codec!Kept
<1>8. Codec!RoundTrip
  <2>1. SUFFICES ASSUME got # None, Codec!Kept PROVE got = datum BY <1>1 DEF Codec!RoundTrip
  <2>2. /\ wire # None /\ wire # Codec!Failed
        /\ got = Codec!BytesToValue(wire.bits, schema, par)
    BY <1>2, <1>3, <2>1 DEF CodecInv
  <2>3. PICK written : written = wire OBVIOUS
  <2>4. written = Codec!ValueToBytes(datum, schema, par) /\ written # Codec!Failed
    BY <1>6, <2>2, <2>3
  <2>5. CASE datum.is = "object"
    <3>1. Codec!ObjectKept(schema, par, datum) BY <1>7, <2>1, <2>5
    <3>2. Codec!IsObject(datum, schema) BY <1>4, <2>5, <3>1 DEF Codec!ObjectKept
    <3> QED BY <1>4, <2>2, <2>3, <2>4, <3>1, <3>2, ObjectBack
  <2>6. CASE datum.is # "object"
    <3>1. Codec!ScalarKept(schema, par, datum, Codec!Size(datum, schema, par)) BY <1>5, <1>7, <2>1, <2>6
    <3> QED BY <1>4, <2>2, <2>3, <2>4, <2>6, <3>1, ScalarBack
  <2> QED BY <2>5, <2>6
<1>9. Codec!LaidOut
  <2>1. PICK part : part = Codec!Part(schema, size) OBVIOUS
  <2>2. PICK signed : signed = Codec!Signed(schema, par) OBVIOUS
  <2>3. SUFFICES ASSUME wire # None, datum.is = "integer", Codec!Kept, part.n <= 30
                 PROVE  wire = IntegerBuffer(datum.of, size, part.from, part.n, signed, par)
    BY <1>1, <1>2, <1>3, <1>5, <2>1, <2>2 DEF Codec!LaidOut, IntegerBuffer, Low, High
  <2>4. Codec!ScalarKept(schema, par, datum, size) BY <1>7, <2>3
  <2>5. wire = Codec!ValueToBytes(datum, schema, par) BY <1>6, <2>3
  <2>6. Codec!IsScalar(datum) BY <1>4, <2>3
  <2>7. PICK from : from = part.from OBVIOUS
  <2>8. PICK n : n = part.n OBVIOUS
  <2>9. Codec!ValueToBytes(datum, schema, par)
        = IntegerBuffer(datum.of, size, from, n, Codec!Signed(schema, par), par)
    BY <1>4, <1>5, <2>1, <2>3, <2>4, <2>6, <2>7, <2>8, ScalarLaidOut
  <2> QED BY <2>2, <2>5, <2>7, <2>8, <2>9
<1> QED BY <1>8, <1>9 DEF CodecExact, Codec!CodecExact

(* Every value of every exchange comes back as what it was, and an integer *)
(* is on the wire bit for bit.                                             *)
THEOREM CodecKeeps == Codec!Spec => []CodecExact
<1>1. Codec!Init => CodecInv BY DEF Codec!Init, CodecInv
<1>2. CodecInv /\ [Codec!Next]_Codec!vars => CodecInv'
  <2> SUFFICES ASSUME CodecInv, [Codec!Next]_Codec!vars PROVE CodecInv' OBVIOUS
  <2>1. CASE Codec!Write
    <3>1. got = None BY <2>1 DEF CodecInv, Codec!Write
    <3> QED BY <2>1, <3>1 DEF CodecInv, Codec!Write
  <2>2. CASE Codec!Read BY <2>2 DEF CodecInv, Codec!Read
  <2>3. CASE UNCHANGED Codec!vars BY <2>3 DEF CodecInv, Codec!vars
  <2> QED BY <2>1, <2>2, <2>3 DEF Codec!Next
<1> QED BY <1>1, <1>2, CodecInvOK, PTL DEF Codec!Spec
=============================================================================
