--------------------------- MODULE ConsumedProofs ---------------------------
(***************************************************************************)
(* Theorems about ConsumedThing, for all affordances, any number of calls  *)
(* and of faults.  EntryIsLive is inductive beside the types;              *)
(* StoppedIsSilent needs that a callback in the pool is that of a call     *)
(* about its topic (CallbacksMatch): a call that stops listening gives up  *)
(* the callback of its own affordance, and can have no other.              *)
(***************************************************************************)
EXTENDS ConsumedThing, TLAPS

(* The calls whose callbacks may be in the pool.                           *)
Silent == {"new", "connecting", "stopping", "stopped", "releasing", "done"}

CallbacksMatch ==
    \A a \in Topics :
      LET c == subscribers[a] IN
      c # None => call[c].aff = a /\ call[c].phase \notin Silent

(* A call that has begun is about an affordance.                           *)
CallsNamed == \A c \in Calls : call[c].phase # "new" => call[c].aff \in Topics

Typed == TypeOK /\ CallsNamed
IInv == Typed /\ EntryIsLive /\ CallbacksMatch

-----------------------------------------------------------------------------
(* Lemmas about the operators                                              *)

LEMMA NoneApart == None \notin Calls /\ None \notin Topics
  BY ConsumedAssumption

(* A call that goes on to another await keeps what it is about, and the    *)
(* other calls stay as they are.                                           *)
LEMMA AwaitsEffect ==
    ASSUME TypeOK, NEW c \in Calls, NEW ph \in Phases,
           NEW k \in Calls \cup {None}, Awaits(c, ph, k)
    PROVE  /\ call' \in [Calls -> CallType]
           /\ call'[c].phase = ph /\ call'[c].aff = call[c].aff
           /\ \A d \in Calls \ {c} : call'[d] = call[d]
<1>1. call \in [Calls -> CallType] BY DEF TypeOK
<1>2. call' = [call EXCEPT ![c] = [@ EXCEPT !.phase = ph, !.via = k]]
  BY <1>1 DEF Awaits, CallType
<1>3. [call[c] EXCEPT !.phase = ph, !.via = k] \in CallType
  BY <1>1 DEF CallType
<1>4. /\ call'[c] = [call[c] EXCEPT !.phase = ph, !.via = k]
      /\ \A d \in Calls \ {c} : call'[d] = call[d]
      /\ call' \in [Calls -> CallType]
  BY <1>1, <1>2, <1>3
<1> QED BY <1>1, <1>4 DEF CallType

LEMMA BecomesEffect ==
    ASSUME TypeOK, NEW c \in Calls, NEW ph \in Phases, Becomes(c, ph)
    PROVE  /\ call' \in [Calls -> CallType]
           /\ call'[c].phase = ph /\ call'[c].aff = call[c].aff
           /\ \A d \in Calls \ {c} : call'[d] = call[d]
  BY AwaitsEffect DEF Becomes

LEMMA SubscribeTyped ==
    ASSUME PoolTypeOK, NEW k \in Calls, NEW c \in Calls, NEW t \in Topics,
           Subscribe(k, c, t)
    PROVE  /\ subscribers' \in [Topics -> Calls \cup {None}]
           /\ granted' \in [Calls -> SUBSET Topics]
           /\ \A u \in Topics : subscribers'[u] = IF u = t /\ subscribers[u] = None
                                                  THEN c ELSE subscribers[u]
<1>1. subscribers \in [Topics -> Calls \cup {None}] /\ granted \in [Calls -> SUBSET Topics]
  BY DEF PoolTypeOK
<1>2. \A u \in Topics : subscribers'[u] = IF u = t /\ subscribers[u] = None
                                          THEN c ELSE subscribers[u]
  BY <1>1 DEF Subscribe
<1>3. subscribers' \in [Topics -> Calls \cup {None}]
  BY <1>1 DEF Subscribe
<1>4. granted' \in [Calls -> SUBSET Topics]
  BY <1>1 DEF Subscribe
<1> QED BY <1>2, <1>3, <1>4

LEMMA UnsubscribeTyped ==
    ASSUME PoolTypeOK, NEW t \in Topics, Unsubscribe(t)
    PROVE  /\ subscribers' \in [Topics -> Calls \cup {None}]
           /\ granted' \in [Calls -> SUBSET Topics]
           /\ \A u \in Topics : subscribers'[u] = IF u = t THEN None ELSE subscribers[u]
  BY DEF PoolTypeOK, Unsubscribe

LEMMA FaultTyped ==
    ASSUME faults \in 0 .. MaxFaults, Fault
    PROVE  faults' \in 0 .. MaxFaults
  BY ConsumedAssumption DEF Fault

LEMMA RejectedTyped ==
    ASSUME faults \in 0 .. MaxFaults, NEW c \in Calls, Rejected(c)
    PROVE  faults' \in 0 .. MaxFaults
  BY FaultTyped DEF Rejected

LEMMA AloneTyped ==
    ASSUME alone \in [Topics -> BOOLEAN],
           \/ \E c \in Calls, a \in Topics \cup {None} : Undisturbed(c, a)
           \/ \E as \in SUBSET (Topics \cup {None}) : Disturbed(as)
           \/ UNCHANGED alone
    PROVE  alone' \in [Topics -> BOOLEAN]
<1>1. ASSUME NEW c \in Calls, NEW a \in Topics \cup {None}, Undisturbed(c, a)
      PROVE  alone' \in [Topics -> BOOLEAN]
  <2> DEFINE clear == \A d \in Calls \ {c} : call[d].aff = a => call[d].phase \in Over
  <2>1. alone' = [alone EXCEPT ![a] = @ /\ clear] BY <1>1 DEF Undisturbed
  <2>2. clear \in BOOLEAN OBVIOUS
  <2> HIDE DEF clear
  <2> QED BY <2>1, <2>2
<1>2. ASSUME NEW as \in SUBSET (Topics \cup {None}), Disturbed(as)
      PROVE  alone' \in [Topics -> BOOLEAN]
  BY <1>2 DEF Disturbed
<1> QED BY <1>1, <1>2

-----------------------------------------------------------------------------
(* Type correctness                                                        *)

(* What a step does to one call, as far as the types are concerned: it     *)
(* stays named, and a call past its connection knows that there is one.    *)
LEMMA CallTyped ==
    ASSUME Typed, NEW c \in Calls, NEW ph \in Phases \ {"new"},
           call[c].phase # "new",
           call' \in [Calls -> CallType],
           call'[c].phase = ph, call'[c].aff = call[c].aff,
           \A d \in Calls \ {c} : call'[d] = call[d],
           client' = None => client = None /\ ph \in {"connecting", "failed"}
    PROVE  /\ CallsNamed'
           /\ client' = None =>
                \A d \in Calls : call'[d].phase \in {"new", "connecting", "failed"}
<1>1. CallsNamed' BY DEF Typed, CallsNamed
<1>2. client' = None =>
        \A d \in Calls : call'[d].phase \in {"new", "connecting", "failed"}
  BY DEF Typed, TypeOK
<1> QED BY <1>1, <1>2

LEMMA TypedStep == Typed /\ [Next]_vars => Typed'
<1> SUFFICES ASSUME Typed, [Next]_vars PROVE Typed'
  OBVIOUS
<1> USE NoneApart
<1>a. /\ call \in [Calls -> CallType] /\ entry \in [Topics -> Calls \cup {None}]
      /\ client \in Calls \cup {None} /\ ended \subseteq Calls
      /\ PoolTypeOK /\ TypeOK /\ CallsNamed
      /\ faults \in 0 .. MaxFaults /\ uncaught \in BOOLEAN
      /\ alone \in [Topics -> BOOLEAN]
  BY DEF Typed, TypeOK, PoolTypeOK
<1>b. \A c \in Calls : /\ call[c].aff \in Topics \cup {None}
                       /\ call[c].via \in Calls \cup {None}
                       /\ call[c].phase \in Phases
  BY <1>a DEF CallType
<1>c. \A c \in Calls : call[c].phase \notin {"new", "connecting", "failed"}
                         => client # None
  BY <1>a DEF TypeOK
<1>d. \A c \in Calls : call[c].phase # "new" => call[c].aff \in Topics
  BY <1>a DEF CallsNamed
<1>1. ASSUME NEW c \in Calls, NEW op \in {"observe", "read"}, NEW a \in Topics,
             Begin(c, op, a)
      PROVE  Typed'
  <2>1. /\ UNCHANGED <<client, ended, entry, faults, uncaught>>
        /\ Undisturbed(c, a) /\ In(c, "new")
    BY <1>1 DEF Begin
  <2>2. alone' \in [Topics -> BOOLEAN]
    BY <1>a, <2>1, AloneTyped
  <2>3. CASE client = None
    <3> DEFINE rec == [op |-> op, aff |-> a, phase |-> "connecting", via |-> None]
    <3>1. rec \in CallType BY DEF CallType, Phases, Over
    <3>2. call' = [call EXCEPT ![c] = rec] /\ UNCHANGED <<subscribers, granted>>
      BY <1>1, <2>3 DEF Begin
    <3>3. /\ call' \in [Calls -> CallType] /\ call'[c].phase = "connecting"
          /\ call'[c].aff = a /\ \A d \in Calls \ {c} : call'[d] = call[d]
      BY <1>a, <3>1, <3>2
    <3>4. PoolTypeOK' BY <1>a, <2>1, <3>2 DEF PoolTypeOK
    <3>5. CallsNamed' BY <1>a, <3>3 DEF CallsNamed
    <3>6. client' = None =>
            \A d \in Calls : call'[d].phase \in {"new", "connecting", "failed"}
      BY <1>a, <3>3, <2>1 DEF TypeOK
    <3> QED BY <1>a, <2>1, <2>2, <3>3, <3>4, <3>5, <3>6 DEF Typed, TypeOK
  <2>4. CASE client # None
    <3> DEFINE rec == [op |-> op, aff |-> a, phase |-> Subscribing(op), via |-> client]
    <3>1. rec \in CallType BY <1>a, <2>4 DEF CallType, Phases, Over, Subscribing
    <3>2. call' = [call EXCEPT ![c] = rec] /\ Subscribe(client, c, a)
      BY <1>1, <2>4 DEF Begin
    <3>3. call' \in [Calls -> CallType] /\ call'[c].aff = a
          /\ \A d \in Calls \ {c} : call'[d] = call[d]
      BY <1>a, <3>1, <3>2
    <3>4. PoolTypeOK'
      BY <1>a, <2>1, <2>4, <3>2, SubscribeTyped DEF PoolTypeOK
    <3>5. CallsNamed' BY <1>a, <3>3 DEF CallsNamed
    <3> QED BY <1>a, <2>1, <2>2, <2>4, <3>3, <3>4, <3>5 DEF Typed, TypeOK
  <2> QED BY <2>3, <2>4
<1>2. ASSUME NEW c \in Calls, Connected(c) PROVE Typed'
  <2> DEFINE ph == Subscribing(call[c].op)
  <2>1. ph \in {"subscribing", "asking"} BY DEF Subscribing
  <2>2. /\ call' \in [Calls -> CallType] /\ call'[c].phase = ph
        /\ call'[c].aff = call[c].aff /\ \A d \in Calls \ {c} : call'[d] = call[d]
    BY <1>2, <1>a, <2>1, AwaitsEffect DEF Connected, Phases, Over
  <2>3. PoolTypeOK'
    BY <1>2, <1>a, <1>d, SubscribeTyped DEF Connected, In, PoolTypeOK
  <2>4. CallsNamed' BY <1>2, <1>a, <1>d, <2>2 DEF Connected, In, CallsNamed
  <2>5. client' # None BY <1>2 DEF Connected
  <2> QED BY <1>2, <1>a, <2>2, <2>3, <2>4, <2>5 DEF Connected, Typed, TypeOK
<1>3. ASSUME NEW c \in Calls, ConnectFails(c) PROVE Typed'
  <2>1. /\ In(c, "connecting") /\ Fault /\ Becomes(c, "failed")
        /\ UNCHANGED <<client, subscribers, granted, ended, entry, uncaught, alone>>
    BY <1>3 DEF ConnectFails, pool
  <2>2. /\ call' \in [Calls -> CallType] /\ call'[c].phase = "failed"
        /\ call'[c].aff = call[c].aff /\ \A d \in Calls \ {c} : call'[d] = call[d]
    BY <1>a, <2>1, BecomesEffect DEF Phases, Over
  <2>3. /\ CallsNamed'
        /\ client' = None =>
             \A d \in Calls : call'[d].phase \in {"new", "connecting", "failed"}
    BY <2>1, <2>2, CallTyped DEF In, Phases, Over
  <2> QED BY <1>a, <2>1, <2>2, <2>3, FaultTyped DEF Typed, TypeOK, PoolTypeOK
<1>4. ASSUME NEW c \in Calls, Subscribed(c) PROVE Typed'
  <2>1. PICK ph \in {"established", "waiting"} :
          /\ call[c].phase \in {"subscribing", "asking"} /\ Becomes(c, ph)
          /\ entry' = IF ph = "established" THEN [entry EXCEPT ![call[c].aff] = c] ELSE entry
          /\ UNCHANGED <<client, subscribers, granted, ended, faults, uncaught, alone>>
    BY <1>4 DEF Subscribed, pool, In
  <2>2. /\ call' \in [Calls -> CallType] /\ call'[c].phase = ph
        /\ call'[c].aff = call[c].aff /\ \A d \in Calls \ {c} : call'[d] = call[d]
    BY <1>a, <2>1, BecomesEffect DEF Phases, Over
  <2>3. CallsNamed' BY <1>a, <2>1, <2>2 DEF CallsNamed
  <2>4. client' # None BY <1>c, <2>1
  <2>5. entry' \in [Topics -> Calls \cup {None}] BY <1>a, <2>1
  <2> QED BY <1>a, <2>1, <2>2, <2>3, <2>4, <2>5 DEF Typed, TypeOK, PoolTypeOK
<1>5. ASSUME NEW c \in Calls, SubscribeFails(c) PROVE Typed'
  <2>1. /\ call[c].phase \in {"subscribing", "asking"}
        /\ Rejected(c) /\ Becomes(c, "failed") /\ uncaught' \in BOOLEAN
        /\ Disturbed({call[c].aff})
        /\ UNCHANGED <<client, subscribers, granted, ended, entry>>
    BY <1>5 DEF SubscribeFails, pool
  <2>2. /\ call' \in [Calls -> CallType] /\ call'[c].phase = "failed"
        /\ call'[c].aff = call[c].aff /\ \A d \in Calls \ {c} : call'[d] = call[d]
    BY <1>a, <2>1, BecomesEffect DEF Phases, Over
  <2>3. CallsNamed' BY <1>a, <2>1, <2>2 DEF CallsNamed
  <2>4. client' # None BY <1>c, <2>1
  <2>5. alone' \in [Topics -> BOOLEAN] BY <1>a, <1>b, <2>1, AloneTyped
  <2>6. faults' \in 0 .. MaxFaults BY <1>a, <2>1, RejectedTyped
  <2> QED BY <1>a, <2>1, <2>2, <2>3, <2>4, <2>5, <2>6 DEF Typed, TypeOK, PoolTypeOK
<1>6. ASSUME NEW c \in Calls, Stop(c) PROVE Typed'
  <2>1. /\ call[c].phase \in {"established", "stopped"}
        /\ Unsubscribe(call[c].aff) /\ Undisturbed(c, call[c].aff)
        /\ UNCHANGED <<client, ended, faults, uncaught>>
        /\ \E ph \in {"stopping", "stopped"} : Awaits(c, ph, client)
        /\ entry' \in {entry, [entry EXCEPT ![call[c].aff] = None]}
    BY <1>6 DEF Stop
  <2>2. PICK ph \in {"stopping", "stopped"} : Awaits(c, ph, client) BY <2>1
  <2>3. /\ call' \in [Calls -> CallType] /\ call'[c].phase = ph
        /\ call'[c].aff = call[c].aff /\ \A d \in Calls \ {c} : call'[d] = call[d]
    BY <1>a, <2>2, AwaitsEffect DEF Phases, Over
  <2>4. CallsNamed' BY <1>a, <2>1, <2>3 DEF CallsNamed
  <2>5. client' # None BY <1>c, <2>1
  <2>6. alone' \in [Topics -> BOOLEAN] BY <1>a, <1>b, <2>1, AloneTyped
  <2>7. PoolTypeOK' BY <1>a, <1>d, <2>1, UnsubscribeTyped DEF PoolTypeOK
  <2>8. entry' \in [Topics -> Calls \cup {None}] BY <1>a, <2>1
  <2> QED BY <1>a, <2>1, <2>3, <2>4, <2>5, <2>6, <2>7, <2>8 DEF Typed, TypeOK
<1>7. ASSUME NEW c \in Calls, Stopped(c) PROVE Typed'
  <2>1. /\ call[c].phase \in {"stopping", "stopped"} /\ Becomes(c, "stopped")
        /\ entry' \in {entry, [entry EXCEPT ![call[c].aff] = None]}
        /\ UNCHANGED <<client, subscribers, granted, ended, faults, uncaught, alone>>
    BY <1>7 DEF Stopped, pool
  <2>2. /\ call' \in [Calls -> CallType] /\ call'[c].phase = "stopped"
        /\ call'[c].aff = call[c].aff /\ \A d \in Calls \ {c} : call'[d] = call[d]
    BY <1>a, <2>1, BecomesEffect DEF Phases, Over
  <2>3. CallsNamed' BY <1>a, <2>1, <2>2 DEF CallsNamed
  <2>4. client' # None BY <1>c, <2>1
  <2>5. entry' \in [Topics -> Calls \cup {None}] BY <1>a, <2>1
  <2> QED BY <1>a, <2>1, <2>2, <2>3, <2>4, <2>5 DEF Typed, TypeOK, PoolTypeOK
<1>8. ASSUME NEW c \in Calls, StopFails(c) PROVE Typed'
  <2>1. /\ Rejected(c) /\ call[c].phase \in {"stopping", "stopped"}
        /\ Disturbed({call[c].aff})
        /\ UNCHANGED <<client, subscribers, granted, ended, entry>>
        /\ uncaught' \in BOOLEAN
    BY <1>8, <1>a DEF StopFails, pool, In
  <2>2. /\ call' \in [Calls -> CallType] /\ CallsNamed'
    <3>1. CASE call' = call BY <1>a, <3>1 DEF CallsNamed
    <3>2. CASE \E ph \in {"established", "stopped"} : Becomes(c, ph)
      <4> PICK ph \in {"established", "stopped"} : Becomes(c, ph) BY <3>2
      <4> QED BY <1>a, <2>1, BecomesEffect DEF CallsNamed, Phases, Over
    <3> QED BY <1>8, <3>1, <3>2 DEF StopFails
  <2>3. client' # None BY <1>c, <2>1
  <2>4. alone' \in [Topics -> BOOLEAN] BY <1>a, <1>b, <2>1, AloneTyped
  <2>5. faults' \in 0 .. MaxFaults BY <1>a, <2>1, RejectedTyped
  <2> QED BY <1>a, <2>1, <2>2, <2>3, <2>4, <2>5 DEF Typed, TypeOK, PoolTypeOK
<1>9. ASSUME NEW c \in Calls, Released(c) PROVE Typed'
  <2>1. /\ In(c, "releasing") /\ UNCHANGED <<client, subscribers, granted, ended>>
        /\ UNCHANGED <<entry, uncaught, alone>>
        /\ \E ph \in {"done", "failed"} : Becomes(c, ph)
        /\ faults' \in 0 .. MaxFaults
    BY <1>9, <1>a, RejectedTyped DEF Released, pool
  <2>2. PICK ph \in {"done", "failed"} : Becomes(c, ph) BY <2>1
  <2>3. /\ call' \in [Calls -> CallType] /\ call'[c].phase = ph
        /\ call'[c].aff = call[c].aff /\ \A d \in Calls \ {c} : call'[d] = call[d]
    BY <1>a, <2>2, BecomesEffect DEF Phases, Over
  <2>4. CallsNamed' BY <1>a, <2>1, <2>3 DEF CallsNamed, In
  <2>5. client' # None BY <1>c, <2>1 DEF In
  <2> QED BY <1>a, <2>1, <2>3, <2>4, <2>5 DEF Typed, TypeOK, PoolTypeOK
<1>10. ASSUME NEW k \in Calls, NEW a \in Topics, Deliver(k, a) PROVE Typed'
  <2> DEFINE c == subscribers[a]
  <2>1. /\ c \in Calls /\ call[c].phase \in {"asking", "waiting"}
        /\ Awaits(c, "releasing", client) /\ Unsubscribe(a)
        /\ UNCHANGED <<client, ended, entry, faults, uncaught, alone>>
    BY <1>10, <1>a DEF Deliver, PoolTypeOK
  <2>2. /\ call' \in [Calls -> CallType] /\ call'[c].phase = "releasing"
        /\ call'[c].aff = call[c].aff /\ \A d \in Calls \ {c} : call'[d] = call[d]
    BY <1>a, <2>1, AwaitsEffect DEF Phases, Over
  <2>3. CallsNamed' BY <1>a, <2>1, <2>2 DEF CallsNamed
  <2>4. client' # None BY <1>c, <2>1
  <2>5. PoolTypeOK' BY <1>a, <2>1, UnsubscribeTyped DEF PoolTypeOK
  <2> QED BY <1>a, <2>1, <2>2, <2>3, <2>4, <2>5 DEF Typed, TypeOK
<1>11. ASSUME ClientError PROVE Typed'
  <2>1. /\ Fault /\ UNCHANGED <<client, subscribers, granted, ended, entry, uncaught>>
        /\ \E as \in SUBSET Topics : Disturbed(as)
    BY <1>11 DEF ClientError, pool
  <2>2. PICK hit \in SUBSET Topics :
          call' = [d \in Calls |-> IF \E a \in hit : subscribers[a] = d
                                   THEN [call[d] EXCEPT !.phase = "failed", !.via = None]
                                   ELSE call[d]]
               /\ \A a \in hit : call[subscribers[a]].phase \in {"asking", "waiting"}
    BY <1>11 DEF ClientError
  <2>h. ASSUME NEW d \in Calls
        PROVE  LET over == [call[d] EXCEPT !.phase = "failed", !.via = None] IN
               /\ over \in CallType /\ over.phase = "failed" /\ over.aff = call[d].aff
               /\ \/ call'[d] = call[d]
                  \/ call'[d] = over /\ call[d].phase \in {"asking", "waiting"}
    <3>1. call[d] \in CallType BY <1>a
    <3>2. \/ call'[d] = call[d]
          \/ /\ call'[d] = [call[d] EXCEPT !.phase = "failed", !.via = None]
             /\ \E a \in hit : subscribers[a] = d
      BY <2>2
    <3> QED BY <2>2, <3>1, <3>2 DEF CallType, Phases, Over
  <2>3. call' \in [Calls -> CallType]
    <3>1. call' = [d \in Calls |-> call'[d]] BY <2>2
    <3>2. ASSUME NEW d \in Calls PROVE call'[d] \in CallType
      <4>1. call[d] \in CallType BY <1>a
      <4> QED BY <4>1, <2>h
    <3> QED BY <3>1, <3>2
  <2>4. \A d \in Calls :
          /\ call'[d].aff = call[d].aff
          /\ \/ call'[d].phase = call[d].phase
             \/ call'[d].phase = "failed" /\ call[d].phase \in {"asking", "waiting"}
    BY <2>h
  <2>5. CallsNamed' BY <1>a, <2>4 DEF CallsNamed
  <2>6. client' = None =>
          \A d \in Calls : call'[d].phase \in {"new", "connecting", "failed"}
    BY <1>a, <2>1, <2>4 DEF TypeOK
  <2>7. alone' \in [Topics -> BOOLEAN] BY <1>a, <2>1, AloneTyped
  <2> QED BY <1>a, <2>1, <2>3, <2>5, <2>6, <2>7, FaultTyped DEF Typed, TypeOK, PoolTypeOK
<1>12. ASSUME Destroy PROVE Typed'
  <2>1. /\ UNCHANGED <<client, entry, call, faults, uncaught>>
        /\ End /\ Disturbed(Topics)
    BY <1>12 DEF Destroy, End
  <2>2. PoolTypeOK' BY <1>a, <2>1 DEF End, PoolTypeOK
  <2>3. alone' \in [Topics -> BOOLEAN] BY <1>a, <2>1, AloneTyped
  <2> QED BY <1>a, <2>1, <2>2, <2>3 DEF Typed, TypeOK, CallsNamed
<1>13. CASE UNCHANGED vars
  BY <1>a, <1>13 DEF vars, pool, Typed, TypeOK, PoolTypeOK, CallsNamed
<1> QED
  BY <1>1, <1>2, <1>3, <1>4, <1>5, <1>6, <1>7, <1>8, <1>9, <1>10, <1>11, <1>12, <1>13
     DEF Next

LEMMA InitTyped == Init => Typed
<1> SUFFICES ASSUME Init PROVE Typed OBVIOUS
<1> DEFINE rec == [op |-> "none", aff |-> None, phase |-> "new", via |-> None]
<1>1. rec \in CallType BY DEF CallType, Phases, Over
<1>2. call = [c \in Calls |-> rec] BY DEF Init
<1>3. call \in [Calls -> CallType] /\ \A c \in Calls : call[c].phase = "new"
  BY <1>1, <1>2
<1>4. faults \in 0 .. MaxFaults BY ConsumedAssumption DEF Init
<1> QED BY <1>3, <1>4 DEF Init, PoolInit, Typed, TypeOK, PoolTypeOK, CallsNamed

-----------------------------------------------------------------------------
(* The invariant                                                           *)

(* A step that changes one call to a phase that is not silent, or one that *)
(* has no callback, keeps the callbacks matched.                           *)
LEMMA CallbacksKept ==
    ASSUME Typed, CallbacksMatch, NEW c \in Calls,
           \A d \in Calls \ {c} : call'[d] = call[d],
           \A a \in Topics : subscribers'[a] \in {subscribers[a], None},
           \/ call'[c].aff = call[c].aff /\ call'[c].phase \notin Silent
           \/ \A a \in Topics : subscribers'[a] # c
    PROVE  CallbacksMatch'
<1> SUFFICES ASSUME NEW a \in Topics, subscribers'[a] # None
             PROVE  /\ call'[subscribers'[a]].aff = a
                    /\ call'[subscribers'[a]].phase \notin Silent
  BY DEF CallbacksMatch
<1>1. subscribers'[a] = subscribers[a] /\ subscribers[a] \in Calls
  BY DEF Typed, TypeOK, PoolTypeOK
<1>2. call[subscribers[a]].aff = a /\ call[subscribers[a]].phase \notin Silent
  BY <1>1 DEF CallbacksMatch
<1>3. CASE subscribers[a] = c BY <1>1, <1>2, <1>3
<1>4. CASE subscribers[a] # c BY <1>1, <1>2, <1>4
<1> QED BY <1>3, <1>4

(* A step that changes one call which no entry is about, or keeps it alive,*)
(* and clears entries at most, keeps the entries live.                     *)
LEMMA EntriesKept ==
    ASSUME Typed, EntryIsLive, NEW c \in Calls,
           \A d \in Calls \ {c} : call'[d] = call[d],
           \A a \in Topics : entry'[a] \in {entry[a], None},
           \/ /\ call'[c].aff = call[c].aff
              /\ call'[c].phase \in {"established", "stopping"}
           \/ \A a \in Topics : entry'[a] # c
    PROVE  EntryIsLive'
<1> SUFFICES ASSUME NEW a \in Topics, entry'[a] # None
             PROVE  /\ call'[entry'[a]].aff = a
                    /\ call'[entry'[a]].phase \in {"established", "stopping"}
  BY DEF EntryIsLive
<1>1. entry'[a] = entry[a] /\ entry[a] \in Calls
  BY DEF Typed, TypeOK
<1>2. /\ call[entry[a]].aff = a
      /\ call[entry[a]].phase \in {"established", "stopping"}
  BY <1>1 DEF EntryIsLive
<1>3. CASE entry[a] = c BY <1>1, <1>2, <1>3
<1>4. CASE entry[a] # c BY <1>1, <1>2, <1>4
<1> QED BY <1>3, <1>4

(* The call that subscribes is the only one that can come in.              *)
LEMMA CallbackAdded ==
    ASSUME Typed, CallbacksMatch, NEW k \in Calls, NEW c \in Calls,
           NEW t \in Topics, Subscribe(k, c, t),
           call[c].phase \in {"new", "connecting"},
           call'[c].aff = t, call'[c].phase \notin Silent,
           \A d \in Calls \ {c} : call'[d] = call[d]
    PROVE  CallbacksMatch'
<1> SUFFICES ASSUME NEW a \in Topics, subscribers'[a] # None
             PROVE  /\ call'[subscribers'[a]].aff = a
                    /\ call'[subscribers'[a]].phase \notin Silent
  BY DEF CallbacksMatch
<1>1. subscribers'[a] = IF a = t /\ subscribers[a] = None THEN c ELSE subscribers[a]
  BY SubscribeTyped DEF Typed, TypeOK
<1>2. CASE a = t /\ subscribers[a] = None BY <1>1, <1>2
<1>3. CASE ~(a = t /\ subscribers[a] = None)
  <2>1. /\ subscribers'[a] = subscribers[a] /\ subscribers[a] \in Calls
        /\ call[subscribers[a]].aff = a /\ call[subscribers[a]].phase \notin Silent
    BY <1>1, <1>3 DEF CallbacksMatch, Typed, TypeOK, PoolTypeOK
  <2>2. subscribers[a] # c BY <2>1 DEF Silent
  <2> QED BY <2>1, <2>2
<1> QED BY <1>2, <1>3
-----------------------------------------------------------------------------
LEMMA InvStep == IInv /\ [Next]_vars => EntryIsLive' /\ CallbacksMatch'
<1> SUFFICES ASSUME IInv, [Next]_vars PROVE EntryIsLive' /\ CallbacksMatch'
  OBVIOUS
<1> USE NoneApart
<1>a. /\ Typed /\ TypeOK /\ EntryIsLive /\ CallbacksMatch
      /\ call \in [Calls -> CallType] /\ entry \in [Topics -> Calls \cup {None}]
      /\ subscribers \in [Topics -> Calls \cup {None}]
      /\ client \in Calls \cup {None} /\ PoolTypeOK
  BY DEF IInv, Typed, TypeOK, PoolTypeOK
<1>b. \A c \in Calls : call[c].phase # "new" => call[c].aff \in Topics
  BY <1>a DEF Typed, CallsNamed
<1>c. \A c \in Calls : call[c].phase \notin {"new", "connecting", "failed"}
                         => client \in Calls
  BY <1>a DEF TypeOK
(* A call with an entry or a callback has it for its own affordance.       *)
<1>d. ASSUME NEW c \in Calls, NEW a \in Topics
      PROVE  /\ entry[a] = c => /\ call[c].phase \in {"established", "stopping"}
                                 /\ call[c].aff = a
             /\ subscribers[a] = c => call[c].phase \notin Silent /\ call[c].aff = a
  BY <1>a DEF EntryIsLive, CallbacksMatch
<1>1. ASSUME NEW c \in Calls, NEW op \in {"observe", "read"}, NEW a \in Topics,
             Begin(c, op, a)
      PROVE  EntryIsLive' /\ CallbacksMatch'
  <2> DEFINE ph == IF client = None THEN "connecting" ELSE Subscribing(op)
             rec == [op |-> op, aff |-> a, phase |-> ph, via |-> client]
  <2>1. call' = [call EXCEPT ![c] = rec] /\ UNCHANGED entry /\ call[c].phase = "new"
    BY <1>1 DEF Begin, In
  <2>2. /\ call'[c].phase = ph /\ call'[c].aff = a
        /\ \A d \in Calls \ {c} : call'[d] = call[d]
    BY <1>a, <2>1
  <2>3. EntryIsLive' BY <1>a, <1>d, <2>1, <2>2, EntriesKept
  <2>4. CASE client = None
    <3>1. UNCHANGED subscribers BY <1>1, <2>4 DEF Begin
    <3>2. CallbacksMatch' BY <1>a, <1>d, <2>1, <2>2, <3>1, CallbacksKept DEF Silent
    <3> QED BY <2>3, <3>2
  <2>5. CASE client # None
    <3>1. Subscribe(client, c, a) BY <1>1, <2>5 DEF Begin
    <3>2. ph \notin Silent BY <2>5 DEF Subscribing, Silent
    <3>3. CallbacksMatch' BY <1>a, <2>1, <2>2, <2>5, <3>1, <3>2, CallbackAdded
    <3> QED BY <2>3, <3>3
  <2> QED BY <2>4, <2>5
<1>2. ASSUME NEW c \in Calls, Connected(c) PROVE EntryIsLive' /\ CallbacksMatch'
  <2> DEFINE ph == Subscribing(call[c].op)
  <2>1. ph \in {"subscribing", "asking"} BY DEF Subscribing
  <2>2. /\ call[c].phase = "connecting" /\ Awaits(c, ph, c) /\ UNCHANGED entry
        /\ Subscribe(c, c, call[c].aff)
    BY <1>2 DEF Connected, In
  <2>3. /\ call'[c].phase = ph /\ call'[c].aff = call[c].aff
        /\ \A d \in Calls \ {c} : call'[d] = call[d]
    BY <1>a, <2>1, <2>2, AwaitsEffect DEF Phases, Over
  <2>4. EntryIsLive' BY <1>a, <1>d, <2>2, <2>3, EntriesKept
  <2>5. CallbacksMatch' BY <1>a, <1>b, <2>1, <2>2, <2>3, CallbackAdded DEF Silent
  <2> QED BY <2>4, <2>5
<1>3. ASSUME NEW c \in Calls, ConnectFails(c) \/ SubscribeFails(c)
      PROVE  EntryIsLive' /\ CallbacksMatch'
  <2>1. /\ call[c].phase \in {"connecting", "subscribing", "asking"}
        /\ Becomes(c, "failed") /\ UNCHANGED <<entry, subscribers>>
    BY <1>3 DEF ConnectFails, SubscribeFails, In, pool
  <2>2. /\ call'[c].phase = "failed" /\ call'[c].aff = call[c].aff
        /\ \A d \in Calls \ {c} : call'[d] = call[d]
    BY <1>a, <2>1, BecomesEffect DEF Phases, Over
  <2>3. EntryIsLive' BY <1>a, <1>d, <2>1, <2>2, EntriesKept
  <2>4. CallbacksMatch' BY <1>a, <2>1, <2>2, CallbacksKept DEF Silent
  <2> QED BY <2>3, <2>4
<1>4. ASSUME NEW c \in Calls, Subscribed(c) PROVE EntryIsLive' /\ CallbacksMatch'
  <2>1. PICK ph \in {"established", "waiting"} :
          /\ call[c].phase \in {"subscribing", "asking"} /\ Becomes(c, ph)
          /\ entry' = IF ph = "established" THEN [entry EXCEPT ![call[c].aff] = c] ELSE entry
          /\ UNCHANGED subscribers
    BY <1>4 DEF Subscribed, pool, In
  <2>2. /\ call'[c].phase = ph /\ call'[c].aff = call[c].aff
        /\ \A d \in Calls \ {c} : call'[d] = call[d]
    BY <1>a, <2>1, BecomesEffect DEF Phases, Over
  <2>3. CallbacksMatch' BY <1>a, <2>1, <2>2, CallbacksKept DEF Silent
  <2>4. CASE ph = "waiting" BY <1>a, <1>d, <2>1, <2>2, <2>3, <2>4, EntriesKept
  <2>5. CASE ph = "established"
    <3> SUFFICES ASSUME NEW a \in Topics, entry'[a] # None
                 PROVE  /\ call'[entry'[a]].aff = a
                        /\ call'[entry'[a]].phase \in {"established", "stopping"}
      BY <2>3 DEF EntryIsLive
    <3>1. CASE a = call[c].aff BY <1>a, <2>1, <2>2, <2>5, <3>1
    <3>2. CASE a # call[c].aff
      <4>1. entry'[a] = entry[a] /\ entry[a] \in Calls BY <1>a, <2>1, <2>5, <3>2
      <4>2. /\ call[entry[a]].aff = a
            /\ call[entry[a]].phase \in {"established", "stopping"}
        BY <1>d, <4>1
      <4>3. entry[a] # c BY <2>1, <4>2
      <4> QED BY <2>2, <4>1, <4>2, <4>3
    <3> QED BY <3>1, <3>2
  <2> QED BY <2>4, <2>5
<1>5. ASSUME NEW c \in Calls, Stop(c) PROVE EntryIsLive' /\ CallbacksMatch'
  <2> DEFINE a == call[c].aff
  <2>1. /\ call[c].phase \in {"established", "stopped"} /\ Unsubscribe(a)
        /\ \/ Awaits(c, "stopping", client) /\ UNCHANGED entry
           \/ Awaits(c, "stopped", client) /\ entry' = [entry EXCEPT ![a] = None]
    BY <1>5 DEF Stop
  <2>2. /\ call'[c].phase \in {"stopping", "stopped"} /\ call'[c].aff = a
        /\ \A d \in Calls \ {c} : call'[d] = call[d]
    BY <1>a, <2>1, AwaitsEffect DEF Phases, Over
  <2>3. \A u \in Topics : subscribers'[u] = IF u = a THEN None ELSE subscribers[u]
    BY <1>a, <1>b, <2>1, UnsubscribeTyped
  <2>4. CallbacksMatch'
    <3>1. \A u \in Topics : subscribers'[u] # c BY <1>d, <2>3
    <3> QED BY <1>a, <2>2, <2>3, <3>1, CallbacksKept
  <2>5. EntryIsLive'
    <3>1. CASE Awaits(c, "stopping", client) /\ UNCHANGED entry
      <4>1. call'[c].phase = "stopping" BY <1>a, <3>1, AwaitsEffect DEF Phases, Over
      <4> QED BY <1>a, <2>2, <3>1, <4>1, EntriesKept
    <3>2. CASE entry' = [entry EXCEPT ![a] = None]
      <4>1. \A u \in Topics : entry'[u] = IF u = a THEN None ELSE entry[u]
        BY <1>a, <3>2
      <4>2. \A u \in Topics : entry'[u] # c BY <1>d, <4>1
      <4> QED BY <1>a, <2>2, <4>1, <4>2, EntriesKept
    <3> QED BY <2>1, <3>1, <3>2
  <2> QED BY <2>4, <2>5
<1>6. ASSUME NEW c \in Calls, Stopped(c) PROVE EntryIsLive' /\ CallbacksMatch'
  <2> DEFINE a == call[c].aff
  <2>1. /\ call[c].phase \in {"stopping", "stopped"} /\ Becomes(c, "stopped")
        /\ UNCHANGED subscribers
        /\ entry' = IF call[c].phase = "stopping" THEN [entry EXCEPT ![a] = None] ELSE entry
    BY <1>6 DEF Stopped, In, pool
  <2>2. /\ call'[c].phase = "stopped" /\ call'[c].aff = a
        /\ \A d \in Calls \ {c} : call'[d] = call[d]
    BY <1>a, <2>1, BecomesEffect DEF Phases, Over
  <2>3. \A u \in Topics : subscribers'[u] # c BY <1>d, <2>1 DEF Silent
  <2>4. CallbacksMatch' BY <1>a, <2>1, <2>2, <2>3, CallbacksKept
  <2>5. \A u \in Topics : entry'[u] \in {entry[u], None} /\ entry'[u] # c
    BY <1>a, <1>d, <2>1
  <2>6. EntryIsLive' BY <1>a, <2>2, <2>5, EntriesKept
  <2> QED BY <2>4, <2>6
<1>7. ASSUME NEW c \in Calls, StopFails(c) PROVE EntryIsLive' /\ CallbacksMatch'
  <2> DEFINE a == call[c].aff
             ph == IF entry[a] = c THEN "established" ELSE "stopped"
  <2>1. /\ call[c].phase \in {"stopping", "stopped"} /\ UNCHANGED <<subscribers, entry>>
        /\ UNCHANGED call \/ Becomes(c, ph)
    BY <1>7 DEF StopFails, In, pool
  <2>2. CASE UNCHANGED call BY <1>a, <2>1, <2>2 DEF EntryIsLive, CallbacksMatch
  <2>3. CASE Becomes(c, ph)
    <3>1. /\ call'[c].phase = ph /\ call'[c].aff = a
          /\ \A d \in Calls \ {c} : call'[d] = call[d]
      BY <1>a, <2>3, BecomesEffect DEF Phases, Over
    <3>2. \A u \in Topics : subscribers'[u] # c BY <1>d, <2>1 DEF Silent
    <3>3. CallbacksMatch' BY <1>a, <2>1, <3>1, <3>2, CallbacksKept
    <3>4. ph = "established" \/ \A u \in Topics : entry'[u] # c BY <1>d, <2>1
    <3>5. EntryIsLive' BY <1>a, <2>1, <3>1, <3>4, EntriesKept
    <3> QED BY <3>3, <3>5
  <2> QED BY <2>1, <2>2, <2>3
<1>8. ASSUME NEW c \in Calls, Released(c) PROVE EntryIsLive' /\ CallbacksMatch'
  <2>1. /\ call[c].phase = "releasing" /\ UNCHANGED <<subscribers, entry>>
        /\ Becomes(c, "done") \/ Becomes(c, "failed")
    BY <1>8 DEF Released, In, pool
  <2>2. \A d \in Calls \ {c} : call'[d] = call[d]
    BY <1>a, <2>1, BecomesEffect DEF Phases, Over
  <2>3. EntryIsLive' BY <1>a, <1>d, <2>1, <2>2, EntriesKept
  <2>4. CallbacksMatch' BY <1>a, <1>d, <2>1, <2>2, CallbacksKept DEF Silent
  <2> QED BY <2>3, <2>4
<1>9. ASSUME NEW k \in Calls, NEW a \in Topics, Deliver(k, a)
      PROVE  EntryIsLive' /\ CallbacksMatch'
  <2> DEFINE c == subscribers[a]
  <2>1. /\ c \in Calls /\ call[c].phase \in {"asking", "waiting"} /\ UNCHANGED entry
        /\ Awaits(c, "releasing", client) /\ Unsubscribe(a)
    BY <1>9, <1>a DEF Deliver
  <2>2. \A d \in Calls \ {c} : call'[d] = call[d]
    BY <1>a, <2>1, AwaitsEffect DEF Phases, Over
  <2>3. \A u \in Topics : subscribers'[u] = IF u = a THEN None ELSE subscribers[u]
    BY <1>a, <2>1, UnsubscribeTyped
  <2>4. \A u \in Topics : subscribers'[u] # c BY <1>d, <2>1, <2>3
  <2>5. CallbacksMatch' BY <1>a, <2>1, <2>2, <2>3, <2>4, CallbacksKept
  <2>6. EntryIsLive' BY <1>a, <1>d, <2>1, <2>2, EntriesKept
  <2> QED BY <2>5, <2>6
<1>10. ASSUME ClientError PROVE EntryIsLive' /\ CallbacksMatch'
  <2>1. UNCHANGED <<subscribers, entry>> BY <1>10 DEF ClientError, pool
  <2>2. ASSUME NEW d \in Calls
        PROVE  \/ call'[d] = call[d]
               \/ /\ call[d].phase \in {"asking", "waiting"}
                  /\ call'[d].phase = "failed" /\ call'[d].aff = call[d].aff
    <3>1. call[d] \in CallType BY <1>a
    <3>2. \/ call'[d] = call[d]
          \/ /\ call'[d] = [call[d] EXCEPT !.phase = "failed", !.via = None]
             /\ call[d].phase \in {"asking", "waiting"}
      BY <1>10 DEF ClientError
    <3> QED BY <3>1, <3>2 DEF CallType
  <2>3. EntryIsLive'
    <3> SUFFICES ASSUME NEW a \in Topics, entry[a] # None
                 PROVE  /\ call'[entry[a]].aff = a
                        /\ call'[entry[a]].phase \in {"established", "stopping"}
      BY <2>1 DEF EntryIsLive
    <3> QED BY <1>a, <1>d, <2>2
  <2>4. CallbacksMatch'
    <3> SUFFICES ASSUME NEW a \in Topics, subscribers[a] # None
                 PROVE  /\ call'[subscribers[a]].aff = a
                        /\ call'[subscribers[a]].phase \notin Silent
      BY <2>1 DEF CallbacksMatch
    <3> QED BY <1>a, <1>d, <2>2 DEF Silent
  <2> QED BY <2>3, <2>4
<1>11. ASSUME Destroy PROVE EntryIsLive' /\ CallbacksMatch'
  <2>1. UNCHANGED <<entry, call>> /\ \A a \in Topics : subscribers'[a] = None
    BY <1>11 DEF Destroy, End
  <2> QED BY <1>a, <2>1 DEF EntryIsLive, CallbacksMatch
<1>12. CASE UNCHANGED vars
  BY <1>a, <1>12 DEF vars, pool, EntryIsLive, CallbacksMatch
<1> QED
  BY <1>1, <1>2, <1>3, <1>4, <1>5, <1>6, <1>7, <1>8, <1>9, <1>10, <1>11, <1>12
     DEF Next

LEMMA Invariant == Spec => []IInv
<1>1. Init => IInv
  <2>1. Init => EntryIsLive /\ CallbacksMatch
    BY NoneApart DEF Init, PoolInit, EntryIsLive, CallbacksMatch
  <2> QED BY <2>1, InitTyped DEF IInv
<1>2. IInv /\ [Next]_vars => IInv'
  BY TypedStep, InvStep DEF IInv
<1> QED BY <1>1, <1>2, PTL DEF Spec

-----------------------------------------------------------------------------
(* Calls about one affordance that come one after the other                *)

Serving == {"subscribing", "established", "asking", "waiting"}

(* What holds of an affordance while alone does: no connection has been    *)
(* ended, one call at most is not over, a callback in the pool is that of  *)
(* a call that serves, and a call that serves has it.                      *)
AloneAt(a) ==
    /\ ended = {}
    /\ \A c, d \in Calls :
         /\ call[c].aff = a /\ call[c].phase \notin Over
         /\ call[d].aff = a /\ call[d].phase \notin Over
         => c = d
    /\ subscribers[a] # None => call[subscribers[a]].phase \in Serving
    /\ \A c \in Calls : call[c].aff = a /\ call[c].phase \in Serving =>
         /\ subscribers[a] = c
         /\ \E k \in Calls : a \in granted[k]
         /\ call[c].phase = "established" => entry[a] = c

AloneInv == \A a \in Topics : alone[a] => AloneAt(a)

OthersOver(c, a) ==
    \A d \in Calls \ {c} : call[d].aff = a => call[d].phase \in Over

LEMMA UndisturbedEffect ==
    ASSUME alone \in [Topics -> BOOLEAN], NEW c \in Calls, NEW a \in Topics,
           Undisturbed(c, a)
    PROVE  /\ alone'[a] => alone[a] /\ OthersOver(c, a)
           /\ \A b \in Topics \ {a} : alone'[b] => alone[b]
<1> DEFINE clear == OthersOver(c, a)
<1>1. alone' = [alone EXCEPT ![a] = @ /\ clear] BY DEF Undisturbed, OthersOver
<1> HIDE DEF clear
<1>2. alone'[a] = (alone[a] /\ clear) /\ \A b \in Topics \ {a} : alone'[b] = alone[b]
  BY <1>1
<1> QED BY <1>2 DEF clear

LEMMA DisturbedEffect ==
    ASSUME NEW as, Disturbed(as), NEW b \in Topics, alone'[b]
    PROVE  alone[b] /\ b \notin as
<1>1. alone'[b] = (alone[b] /\ b \notin as) BY DEF Disturbed
<1> QED BY <1>1

(* A step that is about other affordances.                                 *)
LEMMA ElsewhereKept ==
    ASSUME Typed, CallbacksMatch, NEW a \in Topics, AloneAt(a), ended' = ended,
           \A d \in Calls : call'[d].aff = a => call'[d] = call[d],
           \A d \in Calls : call[d].aff = a /\ call[d].phase # "new" => call'[d] = call[d],
           subscribers'[a] = subscribers[a], entry'[a] = entry[a],
           (\E k \in Calls : a \in granted[k]) => \E k \in Calls : a \in granted'[k]
    PROVE  AloneAt(a)'
<1>1. ASSUME NEW c \in Calls, NEW d \in Calls,
             call'[c].aff = a, call'[c].phase \notin Over,
             call'[d].aff = a, call'[d].phase \notin Over
      PROVE  c = d
  BY <1>1 DEF AloneAt
<1>2. ASSUME subscribers'[a] # None PROVE call'[subscribers'[a]].phase \in Serving
  <2>1. /\ subscribers[a] \in Calls /\ call[subscribers[a]].aff = a
        /\ call[subscribers[a]].phase \in Serving
    BY <1>2 DEF AloneAt, CallbacksMatch, Typed, TypeOK, PoolTypeOK
  <2> QED BY <2>1 DEF Serving
<1>3. ASSUME NEW c \in Calls, call'[c].aff = a, call'[c].phase \in Serving
      PROVE  /\ subscribers'[a] = c
             /\ \E k \in Calls : a \in granted'[k]
             /\ call'[c].phase = "established" => entry'[a] = c
  BY <1>3 DEF AloneAt
<1>4. ended' = {} BY DEF AloneAt
<1> QED BY <1>1, <1>2, <1>3, <1>4 DEF AloneAt

(* A step of the only call about the affordance that is not over: it has   *)
(* what serves it, or nobody has a callback.                               *)
LEMMA OwnKept ==
    ASSUME NEW a \in Topics, NEW c \in Calls, ended' = {}, None \notin Calls,
           \A d \in Calls \ {c} : call'[d] = call[d],
           OthersOver(c, a),
           \/ /\ call'[c].phase \in Serving /\ subscribers'[a] = c
              /\ \E k \in Calls : a \in granted'[k]
              /\ call'[c].phase = "established" => entry'[a] = c
           \/ call'[c].phase \notin Serving /\ subscribers'[a] = None
    PROVE  AloneAt(a)'
<1>1. \A d \in Calls \ {c} : call'[d].aff = a => call'[d].phase \in Over
  BY DEF OthersOver
<1>2. \A d \in Calls : call'[d].aff = a /\ call'[d].phase \notin Over => d = c
  BY <1>1
<1>3. \A d \in Calls : call'[d].aff = a /\ call'[d].phase \in Serving => d = c
  BY <1>1 DEF Serving, Over
<1>4. subscribers'[a] # None => call'[subscribers'[a]].phase \in Serving
  OBVIOUS
<1>5. \A d \in Calls : call'[d].aff = a /\ call'[d].phase \in Serving =>
         /\ subscribers'[a] = d
         /\ \E k \in Calls : a \in granted'[k]
         /\ call'[d].phase = "established" => entry'[a] = d
  BY <1>3
<1> QED BY <1>2, <1>4, <1>5 DEF AloneAt

(* With the other calls about an affordance over, and its own not serving, *)
(* nobody has a callback.                                                  *)
LEMMA NobodyListens ==
    ASSUME Typed, CallbacksMatch, NEW a \in Topics, AloneAt(a), NEW c \in Calls,
           OthersOver(c, a), call[c].phase \notin Serving
    PROVE  subscribers[a] = None
<1> SUFFICES ASSUME subscribers[a] # None PROVE FALSE OBVIOUS
<1>1. /\ subscribers[a] \in Calls /\ call[subscribers[a]].aff = a
      /\ call[subscribers[a]].phase \in Serving
  BY DEF AloneAt, CallbacksMatch, Typed, TypeOK, PoolTypeOK
<1> QED BY <1>1 DEF OthersOver, Serving, Over

LEMMA OnlyOne ==
    ASSUME NEW a, AloneAt(a), NEW c \in Calls, call[c].aff = a, call[c].phase \notin Over
    PROVE  OthersOver(c, a)
  BY DEF AloneAt, OthersOver

LEMMA GrantedAdded ==
    ASSUME PoolTypeOK, NEW k \in Calls, NEW c \in Calls, NEW t \in Topics,
           Subscribe(k, c, t), ended = {}
    PROVE  /\ t \in granted'[k]
           /\ \A b \in Topics : (\E j \in Calls : b \in granted[j])
                                 => \E j \in Calls : b \in granted'[j]
<1>1. granted' = [granted EXCEPT ![k] = @ \cup {t}] /\ granted \in [Calls -> SUBSET Topics]
  BY DEF Subscribe, PoolTypeOK
<1>2. \A j \in Calls : granted[j] \subseteq granted'[j]
  BY <1>1
<1> QED BY <1>1, <1>2

LEMMA GrantedElsewhere ==
    ASSUME PoolTypeOK, NEW t \in Topics, Unsubscribe(t), NEW b \in Topics \ {t},
           NEW k \in Calls, b \in granted[k]
    PROVE  \E j \in Calls : b \in granted'[j]
<1>1. granted' = [granted EXCEPT ![client] = @ \ {t}] /\ granted \in [Calls -> SUBSET Topics]
  BY DEF Unsubscribe, PoolTypeOK
<1>2. b \in granted'[k]
  BY <1>1
<1> QED BY <1>2

LEMMA AloneStep == IInv /\ AloneInv /\ [Next]_vars => AloneInv'
<1> SUFFICES ASSUME IInv, AloneInv, [Next]_vars, NEW b \in Topics, alone'[b]
             PROVE  AloneAt(b)'
  BY DEF AloneInv
<1> USE NoneApart
<1>a. /\ Typed /\ TypeOK /\ PoolTypeOK /\ CallbacksMatch /\ EntryIsLive
      /\ call \in [Calls -> CallType] /\ alone \in [Topics -> BOOLEAN]
      /\ entry \in [Topics -> Calls \cup {None}]
      /\ subscribers \in [Topics -> Calls \cup {None}]
  BY DEF IInv, Typed, TypeOK, PoolTypeOK
<1>b. \A c \in Calls : call[c].phase # "new" => call[c].aff \in Topics
  BY <1>a DEF Typed, CallsNamed
<1>c. alone[b] => AloneAt(b) BY DEF AloneInv
<1>1. ASSUME NEW c \in Calls, NEW op \in {"observe", "read"}, NEW a \in Topics,
             Begin(c, op, a)
      PROVE  AloneAt(b)'
  <2> DEFINE ph == IF client = None THEN "connecting" ELSE Subscribing(op)
             rec == [op |-> op, aff |-> a, phase |-> ph, via |-> client]
  <2>1. /\ call' = [call EXCEPT ![c] = rec] /\ call[c].phase = "new"
        /\ Undisturbed(c, a) /\ UNCHANGED <<ended, entry>>
    BY <1>1 DEF Begin, In
  <2>2. /\ call'[c].phase = ph /\ call'[c].aff = a
        /\ \A d \in Calls \ {c} : call'[d] = call[d]
    BY <1>a, <2>1
  <2>3. alone[b] /\ AloneAt(b) /\ (b = a => OthersOver(c, a)) /\ ended = {}
    BY <1>a, <1>c, <2>1, UndisturbedEffect DEF AloneAt
  <2>4. CASE client = None
    <3>1. UNCHANGED <<subscribers, granted>> BY <1>1, <2>4 DEF Begin
    <3>2. CASE b = a
      <4>1. subscribers[a] = None BY <1>a, <2>1, <2>3, <3>2, NobodyListens DEF Serving
      <4>2. call'[c].phase \notin Serving BY <2>2, <2>4 DEF Serving
      <4> QED BY <2>1, <2>2, <2>3, <3>1, <3>2, <4>1, <4>2, OwnKept
    <3>3. CASE b # a
      BY <1>a, <2>1, <2>2, <2>3, <3>1, <3>3, ElsewhereKept
    <3> QED BY <3>2, <3>3
  <2>5. CASE client # None
    <3>1. Subscribe(client, c, a) /\ client \in Calls
      BY <1>1, <1>a, <2>5 DEF Begin, PoolTypeOK
    <3>2. /\ \A u \in Topics : subscribers'[u] = IF u = a /\ subscribers[u] = None
                                                 THEN c ELSE subscribers[u]
          /\ a \in granted'[client]
          /\ \A u \in Topics : (\E j \in Calls : u \in granted[j])
                                 => \E j \in Calls : u \in granted'[j]
      BY <1>a, <2>3, <3>1, SubscribeTyped, GrantedAdded
    <3>3. CASE b = a
      <4>1. subscribers[a] = None BY <1>a, <2>1, <2>3, <3>3, NobodyListens DEF Serving
      <4>2. /\ call'[c].phase \in Serving /\ call'[c].phase # "established"
            /\ subscribers'[a] = c
        BY <2>2, <2>5, <3>2, <4>1 DEF Serving, Subscribing
      <4> QED BY <2>1, <2>2, <2>3, <3>1, <3>2, <3>3, <4>2, OwnKept
    <3>4. CASE b # a
      <4>1. subscribers'[b] = subscribers[b] BY <3>2, <3>4
      <4> QED BY <1>a, <2>1, <2>2, <2>3, <3>2, <3>4, <4>1, ElsewhereKept
    <3> QED BY <3>3, <3>4
  <2> QED BY <2>4, <2>5
<1>2. ASSUME NEW c \in Calls, Connected(c) PROVE AloneAt(b)'
  <2> DEFINE ph == Subscribing(call[c].op)
             a == call[c].aff
  <2>1. ph \in {"subscribing", "asking"} BY DEF Subscribing
  <2>2. /\ call[c].phase = "connecting" /\ Awaits(c, ph, c)
        /\ Subscribe(c, c, a) /\ UNCHANGED <<ended, entry, alone>>
    BY <1>2 DEF Connected, In
  <2>3. /\ call'[c].phase = ph /\ call'[c].aff = a /\ a \in Topics
        /\ \A d \in Calls \ {c} : call'[d] = call[d]
    BY <1>a, <1>b, <2>1, <2>2, AwaitsEffect DEF Phases, Over
  <2>4. AloneAt(b) /\ ended = {} BY <1>c, <2>2 DEF AloneAt
  <2>5. /\ \A u \in Topics : subscribers'[u] = IF u = a /\ subscribers[u] = None
                                               THEN c ELSE subscribers[u]
        /\ a \in granted'[c]
        /\ \A u \in Topics : (\E j \in Calls : u \in granted[j])
                               => \E j \in Calls : u \in granted'[j]
    BY <1>a, <2>2, <2>3, <2>4, SubscribeTyped, GrantedAdded
  <2>6. CASE b = a
    <3>1. OthersOver(c, a) BY <2>2, <2>4, <2>6, OnlyOne DEF Over
    <3>2. subscribers[a] = None
      BY <1>a, <2>2, <2>3, <2>4, <2>6, <3>1, NobodyListens DEF Serving
    <3>3. /\ call'[c].phase \in Serving /\ call'[c].phase # "established"
          /\ subscribers'[a] = c
      BY <2>1, <2>3, <2>5, <3>2 DEF Serving
    <3> QED BY <2>2, <2>3, <2>4, <2>5, <2>6, <3>1, <3>3, OwnKept
  <2>7. CASE b # a
    <3>1. subscribers'[b] = subscribers[b] BY <2>5, <2>7
    <3> QED BY <1>a, <2>2, <2>3, <2>4, <2>5, <2>7, <3>1, ElsewhereKept
  <2> QED BY <2>6, <2>7
(* A call that fails before it has a callback, or with the affordance      *)
(* disturbed.                                                              *)
<1>3. ASSUME NEW c \in Calls, ConnectFails(c) PROVE AloneAt(b)'
  <2>1. /\ call[c].phase = "connecting" /\ Becomes(c, "failed")
        /\ UNCHANGED <<ended, entry, subscribers, granted, alone>>
    BY <1>3 DEF ConnectFails, In, pool
  <2>2. /\ call'[c].phase = "failed" /\ call'[c].aff = call[c].aff
        /\ \A d \in Calls \ {c} : call'[d] = call[d]
    BY <1>a, <2>1, BecomesEffect DEF Phases, Over
  <2>3. AloneAt(b) /\ ended' = {} BY <1>c, <2>1 DEF AloneAt
  <2>4. CASE b = call[c].aff
    <3>1. OthersOver(c, b) BY <2>1, <2>3, <2>4, OnlyOne DEF Over
    <3>2. subscribers[b] = None BY <1>a, <2>1, <2>3, <3>1, NobodyListens DEF Serving
    <3>3. call'[c].phase \notin Serving BY <2>2 DEF Serving
    <3> QED BY <2>1, <2>2, <2>3, <3>1, <3>2, <3>3, OwnKept
  <2>5. CASE b # call[c].aff
    BY <1>a, <2>1, <2>2, <2>3, <2>5, ElsewhereKept
  <2> QED BY <2>4, <2>5
<1>4. ASSUME NEW c \in Calls, SubscribeFails(c) PROVE AloneAt(b)'
  <2>1. /\ Becomes(c, "failed") /\ Disturbed({call[c].aff})
        /\ UNCHANGED <<ended, entry, subscribers, granted>>
    BY <1>4 DEF SubscribeFails, pool
  <2>2. /\ call'[c].aff = call[c].aff
        /\ \A d \in Calls \ {c} : call'[d] = call[d]
    BY <1>a, <2>1, BecomesEffect DEF Phases, Over
  <2>3. AloneAt(b) /\ b # call[c].aff BY <1>c, <2>1, DisturbedEffect
  <2> QED BY <1>a, <2>1, <2>2, <2>3, ElsewhereKept
<1>5. ASSUME NEW c \in Calls, Subscribed(c) PROVE AloneAt(b)'
  <2> DEFINE a == call[c].aff
  <2>1. PICK ph \in {"established", "waiting"} :
          /\ call[c].phase \in {"subscribing", "asking"} /\ Becomes(c, ph)
          /\ entry' = IF ph = "established" THEN [entry EXCEPT ![a] = c] ELSE entry
          /\ UNCHANGED <<ended, subscribers, granted, alone>>
    BY <1>5 DEF Subscribed, pool, In
  <2>2. /\ call'[c].phase = ph /\ call'[c].aff = a /\ a \in Topics
        /\ \A d \in Calls \ {c} : call'[d] = call[d]
    BY <1>a, <1>b, <2>1, BecomesEffect DEF Phases, Over
  <2>3. AloneAt(b) /\ ended' = {} BY <1>c, <2>1 DEF AloneAt
  <2>4. CASE b = a
    <3>1. OthersOver(c, a) BY <2>1, <2>3, <2>4, OnlyOne DEF Over
    <3>2. subscribers[a] = c /\ \E k \in Calls : a \in granted[k]
      BY <2>1, <2>3, <2>4 DEF AloneAt, Serving
    <3>3. call'[c].phase = "established" => entry'[a] = c
      BY <1>a, <2>1, <2>2
    <3>4. call'[c].phase \in Serving BY <2>2 DEF Serving
    <3> QED BY <2>1, <2>2, <2>3, <2>4, <3>1, <3>2, <3>3, <3>4, OwnKept
  <2>5. CASE b # a
    <3>1. entry'[b] = entry[b] BY <1>a, <2>1, <2>2, <2>5
    <3> QED BY <1>a, <2>1, <2>2, <2>3, <2>5, <3>1, ElsewhereKept
  <2> QED BY <2>4, <2>5
<1>6. ASSUME NEW c \in Calls, Stop(c) PROVE AloneAt(b)'
  <2> DEFINE a == call[c].aff
  <2>1. /\ call[c].phase \in {"established", "stopped"} /\ Unsubscribe(a)
        /\ Undisturbed(c, a) /\ UNCHANGED ended
        /\ \E ph \in {"stopping", "stopped"} : Awaits(c, ph, client)
        /\ entry' \in {entry, [entry EXCEPT ![a] = None]}
    BY <1>6 DEF Stop
  <2>2. /\ call'[c].phase \in {"stopping", "stopped"} /\ call'[c].aff = a /\ a \in Topics
        /\ \A d \in Calls \ {c} : call'[d] = call[d]
    BY <1>a, <1>b, <2>1, AwaitsEffect DEF Phases, Over, PoolTypeOK
  <2>3. \A u \in Topics : subscribers'[u] = IF u = a THEN None ELSE subscribers[u]
    BY <1>a, <2>1, <2>2, UnsubscribeTyped
  <2>4. alone[b] /\ AloneAt(b) /\ (b = a => OthersOver(c, a)) /\ ended' = {}
    BY <1>a, <1>c, <2>1, <2>2, UndisturbedEffect DEF AloneAt
  <2>5. CASE b = a
    <3>1. call'[c].phase \notin Serving BY <2>2 DEF Serving
    <3> QED BY <2>2, <2>3, <2>4, <2>5, <3>1, OwnKept
  <2>6. CASE b # a
    <3>1. entry'[b] = entry[b] BY <1>a, <2>1, <2>2, <2>6
    <3>2. (\E k \in Calls : b \in granted[k]) => \E k \in Calls : b \in granted'[k]
      BY <1>a, <2>1, <2>2, <2>6, GrantedElsewhere
    <3>3. subscribers'[b] = subscribers[b] BY <2>3, <2>6
    <3> QED BY <1>a, <2>1, <2>2, <2>4, <2>6, <3>1, <3>2, <3>3, ElsewhereKept
  <2> QED BY <2>5, <2>6
<1>7. ASSUME NEW c \in Calls, Stopped(c) PROVE AloneAt(b)'
  <2> DEFINE a == call[c].aff
  <2>1. /\ call[c].phase \in {"stopping", "stopped"} /\ Becomes(c, "stopped")
        /\ entry' = IF call[c].phase = "stopping" THEN [entry EXCEPT ![a] = None] ELSE entry
        /\ UNCHANGED <<ended, subscribers, granted, alone>>
    BY <1>7 DEF Stopped, In, pool
  <2>2. /\ call'[c].phase = "stopped" /\ call'[c].aff = a /\ a \in Topics
        /\ \A d \in Calls \ {c} : call'[d] = call[d]
    BY <1>a, <1>b, <2>1, BecomesEffect DEF Phases, Over
  <2>3. AloneAt(b) /\ ended' = {} BY <1>c, <2>1 DEF AloneAt
  <2>4. CASE b = a /\ call[c].phase = "stopping"
    <3>1. OthersOver(c, a) BY <2>3, <2>4, OnlyOne DEF Over
    <3>2. subscribers[a] = None
      BY <1>a, <2>2, <2>3, <2>4, <3>1, NobodyListens DEF Serving
    <3>3. call'[c].phase \notin Serving BY <2>2 DEF Serving
    <3> QED BY <2>1, <2>2, <2>3, <2>4, <3>1, <3>2, <3>3, OwnKept
  <2>5. CASE call[c].phase = "stopped"
    <3>1. UNCHANGED <<ended, entry, subscribers, granted>> BY <2>1, <2>5
    <3>2. \A d \in Calls : call'[d].phase = call[d].phase /\ call'[d].aff = call[d].aff
      BY <2>2, <2>5
    <3> QED BY <1>a, <2>3, <3>1, <3>2 DEF AloneAt, PoolTypeOK
  <2>6. CASE b # a
    <3>1. entry'[b] = entry[b] BY <1>a, <2>1, <2>2, <2>6
    <3> QED BY <1>a, <2>1, <2>2, <2>3, <2>6, <3>1, ElsewhereKept
  <2> QED BY <2>1, <2>4, <2>5, <2>6
<1>8. ASSUME NEW c \in Calls, StopFails(c) PROVE AloneAt(b)'
  <2>1. /\ call[c].phase \in {"stopping", "stopped"} /\ Disturbed({call[c].aff})
        /\ UNCHANGED <<ended, entry, subscribers, granted>>
        /\ call' = call \/ \E ph \in {"established", "stopped"} : Becomes(c, ph)
    BY <1>8 DEF StopFails, pool, In
  <2>2. /\ call'[c].aff = call[c].aff
        /\ \A d \in Calls \ {c} : call'[d] = call[d]
    <3>1. CASE call' = call BY <3>1
    <3>2. CASE \E ph \in {"established", "stopped"} : Becomes(c, ph)
      BY <1>a, <3>2, BecomesEffect DEF Phases, Over
    <3> QED BY <2>1, <3>1, <3>2
  <2>3. AloneAt(b) /\ b # call[c].aff BY <1>c, <2>1, DisturbedEffect
  <2> QED BY <1>a, <2>1, <2>2, <2>3, ElsewhereKept
<1>9. ASSUME NEW c \in Calls, Released(c) PROVE AloneAt(b)'
  <2>1. /\ call[c].phase = "releasing"
        /\ UNCHANGED <<ended, entry, subscribers, granted, alone>>
        /\ \E ph \in {"done", "failed"} : Becomes(c, ph)
    BY <1>9 DEF Released, In, pool
  <2>2. /\ call'[c].phase \in {"done", "failed"} /\ call'[c].aff = call[c].aff
        /\ \A d \in Calls \ {c} : call'[d] = call[d]
    BY <1>a, <2>1, BecomesEffect DEF Phases, Over
  <2>3. AloneAt(b) /\ ended' = {} BY <1>c, <2>1 DEF AloneAt
  <2>4. CASE b = call[c].aff
    <3>1. OthersOver(c, b) BY <2>1, <2>3, <2>4, OnlyOne DEF Over
    <3>2. subscribers[b] = None BY <1>a, <2>1, <2>3, <3>1, NobodyListens DEF Serving
    <3>3. call'[c].phase \notin Serving BY <2>2 DEF Serving
    <3> QED BY <2>1, <2>2, <2>3, <3>1, <3>2, <3>3, OwnKept
  <2>5. CASE b # call[c].aff
    BY <1>a, <2>1, <2>2, <2>3, <2>5, ElsewhereKept
  <2> QED BY <2>4, <2>5
<1>10. ASSUME NEW k \in Calls, NEW a \in Topics, Deliver(k, a) PROVE AloneAt(b)'
  <2> DEFINE c == subscribers[a]
  <2>1. /\ c \in Calls /\ call[c].phase \in {"asking", "waiting"}
        /\ Awaits(c, "releasing", client) /\ Unsubscribe(a)
        /\ UNCHANGED <<ended, entry, alone>>
    BY <1>10, <1>a DEF Deliver
  <2>2. call[c].aff = a BY <1>a, <2>1 DEF CallbacksMatch
  <2>3. /\ call'[c].phase = "releasing" /\ call'[c].aff = a
        /\ \A d \in Calls \ {c} : call'[d] = call[d]
    BY <1>a, <2>1, <2>2, AwaitsEffect DEF Phases, Over, PoolTypeOK
  <2>4. \A u \in Topics : subscribers'[u] = IF u = a THEN None ELSE subscribers[u]
    BY <1>a, <2>1, UnsubscribeTyped
  <2>5. AloneAt(b) /\ ended' = {} BY <1>c, <2>1 DEF AloneAt
  <2>6. CASE b = a
    <3>1. OthersOver(c, a) BY <2>1, <2>2, <2>5, <2>6, OnlyOne DEF Over
    <3>2. call'[c].phase \notin Serving BY <2>3 DEF Serving
    <3> QED BY <2>1, <2>3, <2>4, <2>5, <2>6, <3>1, <3>2, OwnKept
  <2>7. CASE b # a
    <3>1. (\E j \in Calls : b \in granted[j]) => \E j \in Calls : b \in granted'[j]
      BY <1>a, <2>1, <2>7, GrantedElsewhere
    <3>2. subscribers'[b] = subscribers[b] BY <2>4, <2>7
    <3> QED BY <1>a, <2>1, <2>2, <2>3, <2>5, <2>7, <3>1, <3>2, ElsewhereKept
  <2> QED BY <2>6, <2>7
<1>11. ASSUME ClientError PROVE AloneAt(b)'
  <2> DEFINE hit == {a \in Topics : /\ subscribers[a] # None
                                    /\ call[subscribers[a]].phase \in {"asking", "waiting"}}
  <2>1. /\ UNCHANGED <<ended, entry, subscribers, granted>> /\ Disturbed(hit)
        /\ call' = [c \in Calls |-> IF \E a \in hit : subscribers[a] = c
                                    THEN [call[c] EXCEPT !.phase = "failed", !.via = None]
                                    ELSE call[c]]
    BY <1>11 DEF ClientError, pool
  <2>2. AloneAt(b) /\ b \notin hit BY <1>c, <2>1, DisturbedEffect
  <2>3. ASSUME NEW d \in Calls
        PROVE  call'[d].aff = call[d].aff /\ (call[d].aff = b => call'[d] = call[d])
    <3>1. CASE \E a \in hit : subscribers[a] = d
      <4>1. PICK a \in hit : subscribers[a] = d BY <3>1
      <4>2. call[d].aff = a /\ a # b BY <1>a, <2>2, <4>1 DEF CallbacksMatch
      <4>3. call'[d] = [call[d] EXCEPT !.phase = "failed", !.via = None]
        BY <2>1, <3>1
      <4>4. call[d] \in CallType BY <1>a
      <4>5. call'[d].aff = call[d].aff BY <4>3, <4>4 DEF CallType
      <4> QED BY <4>2, <4>5
    <3>2. CASE ~ \E a \in hit : subscribers[a] = d
      BY <2>1, <3>2
    <3> QED BY <3>1, <3>2
  <2>4. /\ \A d \in Calls : call'[d].aff = b => call'[d] = call[d]
        /\ \A d \in Calls : call[d].aff = b /\ call[d].phase # "new" => call'[d] = call[d]
    BY <2>3
  <2> HIDE DEF hit
  <2> QED BY <1>a, <2>1, <2>2, <2>4, ElsewhereKept
<1>12. ASSUME Destroy PROVE AloneAt(b)'
  <2>1. FALSE BY <1>12, DisturbedEffect DEF Destroy
  <2> QED BY <2>1
<1>13. CASE UNCHANGED vars
  BY <1>a, <1>c, <1>13, ElsewhereKept DEF vars, pool
<1> QED
  BY <1>1, <1>2, <1>3, <1>4, <1>5, <1>6, <1>7, <1>8, <1>9, <1>10, <1>11, <1>12, <1>13
     DEF Next

-----------------------------------------------------------------------------
(* Theorems                                                                *)

(* However calls overlap and fail, every variable keeps its type, and the  *)
(* pool is asked for nothing before it is connected.                       *)
THEOREM TypeCorrect == Spec => []TypeOK
<1>1. IInv => TypeOK BY DEF IInv, Typed
<1> QED BY <1>1, Invariant, PTL

(* An affordance in observedProperties or subscribedEvents is that of an   *)
(* established subscription, which the application can stop.               *)
THEOREM EntriesLive == Spec => []EntryIsLive
<1>1. IInv => EntryIsLive BY DEF IInv
<1> QED BY <1>1, Invariant, PTL

(* No message reaches a listener whose subscription stop() has been called *)
(* for, nor a reading that has its message.                                *)
THEOREM StoppedAreSilent == Spec => []StoppedIsSilent
<1>1. IInv => StoppedIsSilent
  BY DEF IInv, CallbacksMatch, Silent, StoppedIsSilent
<1> QED BY <1>1, Invariant, PTL

(* As long as the calls about one affordance come one after the other and  *)
(* do not fail, a subscription or a reading has the callback and the       *)
(* broker sends to it, whatever the calls about other affordances do to    *)
(* the connections.                                                        *)
THEOREM AloneServed == Spec => []AloneIsServed
<1>1. Init => AloneInv
  BY NoneApart DEF Init, PoolInit, AloneInv, AloneAt, Over, Serving
<1>2. IInv /\ AloneInv /\ [Next]_vars => AloneInv'
  BY AloneStep
<1>3. IInv /\ AloneInv => AloneIsServed
  <2> SUFFICES ASSUME IInv, AloneInv, NEW c \in Calls,
                      call[c].phase \in Serving, alone[call[c].aff]
               PROVE  LET a == call[c].aff IN
                      /\ subscribers[a] = c
                      /\ \E k \in Calls : a \in granted[k]
                      /\ call[c].phase = "established" => entry[a] = c
    BY DEF AloneIsServed, Serving, In
  <2>1. call[c].aff \in Topics
    BY DEF IInv, Typed, CallsNamed, Serving
  <2> QED BY <2>1 DEF AloneInv, AloneAt
<1> QED BY <1>1, <1>2, <1>3, Invariant, PTL DEF Spec
=============================================================================
