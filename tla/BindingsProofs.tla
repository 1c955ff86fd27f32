--------------------------- MODULE BindingsProofs ---------------------------
(***************************************************************************)
(* Theorems about the bindings that MCBindings puts side by side, each     *)
(* about the specification of one of them, for any number of calls, hosts, *)
(* endpoints, nodes and subscriptions.                                     *)
(***************************************************************************)
EXTENDS MCBindings, FiniteSetTheorems, TLAPS

-----------------------------------------------------------------------------
(* Subscriptions of the Modbus client                                      *)

PollType == [id : Ids, interval : BOOLEAN, reading : Nat, failed : BOOLEAN, ended : BOOLEAN,
             refused : BOOLEAN, replaced : BOOLEAN]

(* An entry of _subscriptions is a subscription with that id.              *)
PollInv ==
    /\ polls \in Seq(PollType)
    /\ subscriptions \in [Ids -> Nat \cup {None}]
    /\ \A id \in Ids : subscriptions[id] # None =>
          subscriptions[id] \in DOMAIN polls /\ polls[subscriptions[id]].id = id
    /\ Modbus!PollsWhileLinked

LEMMA PollInit == Modbus!Init => PollInv
BY DEF Modbus!Init, PollInv, Modbus!PollsWhileLinked

LEMMA PollMarked ==
    ASSUME NEW poll \in PollType, NEW mark \in BOOLEAN
    PROVE  LET new == [poll EXCEPT !.replaced = mark] IN
           /\ new \in PollType /\ new.id = poll.id /\ new.interval = poll.interval
           /\ new.failed = poll.failed /\ new.ended = poll.ended /\ new.replaced = mark
BY DEF PollType

LEMMA PollEnded ==
    ASSUME NEW poll \in PollType
    PROVE  LET new == Modbus!Ended(poll) IN
           /\ new \in PollType /\ new.id = poll.id /\ ~new.interval /\ new.failed = poll.failed
           /\ new.ended /\ new.replaced = poll.replaced
BY DEF PollType, Modbus!Ended

LEMMA PollRejected ==
    ASSUME NEW poll \in PollType, poll.reading > 0
    PROVE  LET new == [poll EXCEPT !.reading = @ - 1, !.interval = FALSE, !.failed = TRUE] IN
           /\ new \in PollType /\ new.id = poll.id /\ ~new.interval /\ new.failed
           /\ new.ended = poll.ended /\ new.replaced = poll.replaced
<1>1. poll.reading - 1 \in Nat BY DEF PollType
<1> QED BY <1>1 DEF PollType

LEMMA PollRead ==
    ASSUME NEW poll \in PollType, NEW n \in Nat
    PROVE  LET new == [poll EXCEPT !.reading = n] IN
           /\ new \in PollType /\ new.id = poll.id /\ new.interval = poll.interval
           /\ new.failed = poll.failed /\ new.ended = poll.ended /\ new.replaced = poll.replaced
BY DEF PollType

(* A step of one subscription that neither links nor replaces it.          *)
LEMMA OnePollStep ==
    ASSUME PollInv, NEW k \in DOMAIN polls, NEW poll \in PollType,
           polls' = [polls EXCEPT ![k] = poll], UNCHANGED subscriptions,
           poll.id = polls[k].id, poll.replaced = polls[k].replaced,
           poll.interval => polls[k].interval,
           polls[k].failed => poll.failed, polls[k].ended => poll.ended,
           poll.interval \/ poll.failed \/ poll.ended \/ ~polls[k].interval
    PROVE  PollInv'
<1> USE DEF PollInv
<1>1. polls' \in Seq(PollType) /\ DOMAIN polls' = DOMAIN polls
  OBVIOUS
<1>2. polls'[k] = poll /\ \A j \in DOMAIN polls : j # k => polls'[j] = polls[j]
  OBVIOUS
<1>3. \A j \in DOMAIN polls : polls'[j].id = polls[j].id
  BY <1>2
<1>4. Modbus!PollsWhileLinked'
  BY <1>1, <1>2, <1>3 DEF Modbus!PollsWhileLinked
<1> QED BY <1>1, <1>3, <1>4

LEMMA PollStep ==
    ASSUME PollInv, [Modbus!Next]_(Modbus!vars)
    PROVE  PollInv'
<1> USE BindingsAssumption
<1>0. CASE UNCHANGED Modbus!vars
  BY <1>0 DEF Modbus!vars, PollInv, Modbus!PollsWhileLinked
<1>1. ASSUME NEW id \in Ids, Modbus!Subscribe(id)
      PROVE  PollInv'
  <2> DEFINE known == subscriptions[id]
             mark(k) == polls[k].replaced \/ known = k
             marked(k) == [polls[k] EXCEPT !.replaced = mark(k)]
             new == Modbus!NewPoll(id, known # None)
  <2>1. polls \in Seq(PollType) /\ new \in PollType /\ new.id = id /\ new.interval
    BY <1>1 DEF PollInv, PollType, Modbus!NewPoll
  <2>2. \A k \in DOMAIN polls :
          /\ marked(k) \in PollType
          /\ marked(k).id = polls[k].id /\ marked(k).interval = polls[k].interval
          /\ marked(k).failed = polls[k].failed /\ marked(k).ended = polls[k].ended
          /\ marked(k).replaced <=> (polls[k].replaced \/ known = k)
    <3> TAKE k \in DOMAIN polls
    <3>1. mark(k) \in BOOLEAN OBVIOUS
    <3> HIDE DEF mark
    <3>2. polls[k] \in PollType BY <2>1
    <3>3. marked(k).replaced = mark(k) BY <3>1, <3>2, PollMarked
    <3>4. marked(k).replaced <=> (polls[k].replaced \/ known = k) BY <3>3 DEF mark
    <3> QED BY <3>1, <3>2, <3>4, PollMarked
  <2>3. /\ polls' = Append([k \in DOMAIN polls |-> marked(k)], new)
        /\ subscriptions' = [subscriptions EXCEPT ![id] = Len(polls')]
    BY <1>1 DEF Modbus!Subscribe
  <2> HIDE DEF marked, new
  <2>4. [k \in DOMAIN polls |-> marked(k)] \in Seq(PollType)
        /\ Len([k \in DOMAIN polls |-> marked(k)]) = Len(polls)
    BY <2>1, <2>2
  <2>5. /\ polls' \in Seq(PollType) /\ Len(polls') = Len(polls) + 1
        /\ DOMAIN polls' = DOMAIN polls \cup {Len(polls) + 1}
        /\ polls'[Len(polls) + 1] = new
        /\ \A k \in DOMAIN polls : polls'[k] = marked(k)
    BY <2>1, <2>3, <2>4
  <2>6. /\ subscriptions' \in [Ids -> Nat \cup {None}]
        /\ subscriptions'[id] = Len(polls) + 1
        /\ \A x \in Ids : x # id => subscriptions'[x] = subscriptions[x]
    BY <2>1, <2>3, <2>5 DEF PollInv
  <2>7. \A x \in Ids : subscriptions'[x] # None =>
          subscriptions'[x] \in DOMAIN polls' /\ polls'[subscriptions'[x]].id = x
    BY <2>1, <2>2, <2>5, <2>6 DEF PollInv
  <2>8. ASSUME NEW k \in DOMAIN polls'
        PROVE  /\ polls'[k].interval => subscriptions'[polls'[k].id] = k \/ polls'[k].replaced
               /\ subscriptions'[polls'[k].id] = k
                    => polls'[k].interval \/ polls'[k].failed \/ polls'[k].ended
    <3>1. CASE k = Len(polls) + 1 BY <2>1, <2>5, <2>6, <3>1
    <3>2. CASE k \in DOMAIN polls
      <4>1. polls'[k].id = polls[k].id /\ polls[k].id \in Ids /\ k # Len(polls) + 1
        BY <2>1, <2>2, <2>5, <3>2 DEF PollType
      <4>2. /\ polls[k].interval => subscriptions[polls[k].id] = k \/ polls[k].replaced
            /\ subscriptions[polls[k].id] = k
                 => polls[k].interval \/ polls[k].failed \/ polls[k].ended
        BY <3>2 DEF PollInv, Modbus!PollsWhileLinked
      <4>3. CASE polls[k].id = id BY <2>2, <2>5, <2>6, <3>2, <4>1, <4>2, <4>3
      <4>4. CASE polls[k].id # id BY <2>2, <2>5, <2>6, <3>2, <4>1, <4>2, <4>4
      <4> QED BY <4>3, <4>4
    <3> QED BY <2>5, <3>1, <3>2
  <2> QED BY <2>5, <2>6, <2>7, <2>8 DEF PollInv, Modbus!PollsWhileLinked
<1>2. ASSUME NEW id \in Ids, Modbus!Unlink(id)
      PROVE  PollInv'
  <2>1. PICK k \in DOMAIN polls : k = subscriptions[id] /\ polls[k].id = id
    BY <1>2 DEF Modbus!Unlink, PollInv
  <2> DEFINE poll == Modbus!Ended(polls[k])
  <2>2. /\ polls[k] \in PollType
        /\ poll \in PollType /\ poll.id = id /\ ~poll.interval
        /\ poll.replaced = polls[k].replaced
    BY <2>1, PollEnded DEF PollInv
  <2>3. polls' = [polls EXCEPT ![k] = poll] /\ subscriptions' = [subscriptions EXCEPT ![id] = None]
    BY <1>2, <2>1 DEF Modbus!Unlink
  <2> HIDE DEF poll
  <2>4. /\ polls' \in Seq(PollType) /\ DOMAIN polls' = DOMAIN polls /\ polls'[k] = poll
        /\ \A j \in DOMAIN polls : j # k => polls'[j] = polls[j]
    BY <2>2, <2>3 DEF PollInv
  <2>5. /\ subscriptions' \in [Ids -> Nat \cup {None}] /\ subscriptions'[id] = None
        /\ \A x \in Ids : x # id => subscriptions'[x] = subscriptions[x]
    BY <2>3 DEF PollInv
  <2>6. \A j \in DOMAIN polls : polls'[j].id = polls[j].id /\ polls[j].id \in Ids
    <3> TAKE j \in DOMAIN polls
    <3>1. polls[j] \in PollType BY DEF PollInv
    <3> QED BY <2>1, <2>2, <2>4, <3>1 DEF PollType
  <2>7. DOMAIN polls \subseteq Nat BY DEF PollInv
  <2>8. Modbus!PollsWhileLinked'
    BY <2>1, <2>2, <2>4, <2>5, <2>6, <2>7 DEF PollInv, Modbus!PollsWhileLinked
  <2> QED BY <2>4, <2>5, <2>6, <2>8 DEF PollInv
<1>3. ASSUME NEW k \in DOMAIN polls,
             Modbus!Tick(k) \/ Modbus!Resolves(k) \/ Modbus!Rejects(k) \/ Modbus!Unsubscribe(k)
      PROVE  PollInv'
  <2>0. polls[k] \in PollType BY DEF PollInv
  <2>1. polls[k].reading \in Nat BY <2>0 DEF PollType
  <2>2. \E poll \in PollType :
          /\ polls' = [polls EXCEPT ![k] = poll]
          /\ poll.id = polls[k].id /\ poll.replaced = polls[k].replaced
          /\ poll.interval => polls[k].interval
          /\ polls[k].failed => poll.failed
          /\ polls[k].ended => poll.ended
          /\ poll.interval \/ poll.failed \/ poll.ended \/ ~polls[k].interval
    <3>1. CASE Modbus!Tick(k)
      <4> DEFINE poll == [polls[k] EXCEPT !.reading = polls[k].reading + 1]
      <4>1. polls' = [polls EXCEPT ![k] = poll] BY <3>1 DEF Modbus!Tick, PollInv
      <4>2. polls[k].reading + 1 \in Nat BY <2>1
      <4>3. /\ poll \in PollType /\ poll.id = polls[k].id /\ poll.interval = polls[k].interval
            /\ poll.failed = polls[k].failed /\ poll.ended = polls[k].ended
            /\ poll.replaced = polls[k].replaced
        BY <2>0, <4>2, PollRead
      <4> HIDE DEF poll
      <4> QED BY <4>1, <4>3
    <3>2. CASE Modbus!Resolves(k)
      <4> DEFINE poll == [polls[k] EXCEPT !.reading = polls[k].reading - 1]
      <4>1. polls' = [polls EXCEPT ![k] = poll] /\ polls[k].reading - 1 \in Nat
        BY <2>1, <3>2 DEF Modbus!Resolves, PollInv
      <4>3. /\ poll \in PollType /\ poll.id = polls[k].id /\ poll.interval = polls[k].interval
            /\ poll.failed = polls[k].failed /\ poll.ended = polls[k].ended
            /\ poll.replaced = polls[k].replaced
        BY <2>0, <4>1, PollRead
      <4> HIDE DEF poll
      <4> QED BY <4>1, <4>3
    <3>3. CASE Modbus!Rejects(k)
      <4> DEFINE poll == [polls[k] EXCEPT !.reading = polls[k].reading - 1, !.interval = FALSE,
                                          !.failed = TRUE]
      <4>1. polls' = [polls EXCEPT ![k] = poll] /\ polls[k].reading > 0
        BY <3>3 DEF Modbus!Rejects
      <4>3. /\ poll \in PollType /\ poll.id = polls[k].id /\ ~poll.interval
            /\ poll.failed /\ poll.ended = polls[k].ended
            /\ poll.replaced = polls[k].replaced
        BY <2>0, <4>1, PollRejected
      <4> HIDE DEF poll
      <4> QED BY <4>1, <4>3
    <3>4. CASE Modbus!Unsubscribe(k)
      BY <2>0, <3>4, PollEnded DEF Modbus!Unsubscribe
    <3> QED BY <1>3, <3>1, <3>2, <3>3, <3>4
  <2>3. UNCHANGED subscriptions
    BY <1>3 DEF Modbus!Tick, Modbus!Resolves, Modbus!Rejects, Modbus!Unsubscribe
  <2> QED BY <2>2, <2>3, OnePollStep
<1> QED BY <1>0, <1>1, <1>2, <1>3 DEF Modbus!Next

(* Readings go on only while unlinkResource can end them, unless a second  *)
(* subscription has taken the entry; and an entry is of a subscription     *)
(* that reads, or of one whose end is known.                               *)
THEOREM PolledWhileLinked == Modbus!Spec => []PollsWhileLinked
<1>1. PollInv => PollsWhileLinked BY DEF PollInv, PollsWhileLinked
<1>2. PollInv /\ [Modbus!Next]_(Modbus!vars) => PollInv' BY PollStep
<1> QED BY PollInit, <1>1, <1>2, PTL DEF Modbus!Spec

-----------------------------------------------------------------------------
(* The router of the NETCONF client                                        *)

RouterType == [host : Hosts, stage : {"opening", "open", "failed", "closed"}]

NetconfCallType ==
    [stage : {"unused", "initializing", "opening", "sent", "thrown", "done"},
     host : Hosts \cup {None}, via : Nat \cup {None}]

(* While requests do not overlap the opening of a router: one request at   *)
(* most opens one, for its own host, and meanwhile none is in use.         *)
OneOpens ==
    /\ router \in Nat \cup {None}
    /\ routers \in Seq(RouterType)
    /\ netconfCalls \in [NetconfCalls -> NetconfCallType]
    /\ \A c, d \in Netconf!Opening : c = d
    /\ \A c \in NetconfCalls :
         LET call == netconfCalls[c] IN
         /\ (call.stage = "unused") <=> (call.host = None)
         /\ call.stage = "initializing" => router = None /\ ~connected /\ params = call.host
         /\ call.stage = "opening" =>
              /\ call.via = router /\ router \in DOMAIN routers
              /\ routers[router].stage = "opening"
         /\ call.stage = "sent" =>
              /\ call.via = router /\ router \in DOMAIN routers
              /\ routers[router].stage = "open"
    /\ router # None /\ Netconf!Opening = {} =>
         router \in DOMAIN routers /\ routers[router].stage = "open"
    /\ \A r \in DOMAIN routers :
         /\ routers[r].stage = "open" => router = r
         /\ \E d \in NetconfCalls : netconfCalls[d].host = routers[r].host

NetconfInv == overlapped \/ OneOpens

LEMMA NetconfInit == Netconf!Init => NetconfInv
BY BindingsAssumption
   DEF Netconf!Init, Netconf!NewCall, NetconfInv, OneOpens, NetconfCallType, Netconf!Opening

(* A call goes on, without a host of its own being changed.                *)
LEMMA NetconfCallStep ==
    ASSUME OneOpens, NEW c \in NetconfCalls, NEW call \in NetconfCallType,
           netconfCalls' = [netconfCalls EXCEPT ![c] = call]
    PROVE  /\ netconfCalls' \in [NetconfCalls -> NetconfCallType]
           /\ netconfCalls'[c] = call
           /\ \A d \in NetconfCalls : d # c => netconfCalls'[d] = netconfCalls[d]
           /\ Netconf!Opening' = IF call.stage \in {"initializing", "opening"}
                                 THEN Netconf!Opening \cup {c} ELSE Netconf!Opening \ {c}
           /\ netconfCalls[c].host \in {None, call.host} =>
                \A r \in DOMAIN routers :
                   \E d \in NetconfCalls : netconfCalls'[d].host = routers[r].host
<1>1. /\ netconfCalls' \in [NetconfCalls -> NetconfCallType]
      /\ netconfCalls'[c] = call
      /\ \A d \in NetconfCalls : d # c => netconfCalls'[d] = netconfCalls[d]
  BY DEF OneOpens
<1>2. Netconf!Opening' = IF call.stage \in {"initializing", "opening"}
                         THEN Netconf!Opening \cup {c} ELSE Netconf!Opening \ {c}
  BY <1>1 DEF Netconf!Opening
<1>3. ASSUME netconfCalls[c].host \in {None, call.host}, NEW r \in DOMAIN routers
      PROVE  \E d \in NetconfCalls : netconfCalls'[d].host = routers[r].host
  <2>1. PICK d \in NetconfCalls : netconfCalls[d].host = routers[r].host
    BY DEF OneOpens
  <2>2. routers[r] \in RouterType BY DEF OneOpens
  <2>3. routers[r].host # None BY <2>2, BindingsAssumption DEF RouterType
  <2> QED BY <1>1, <1>3, <2>1, <2>3
<1> QED BY <1>1, <1>2, <1>3

LEMMA NetconfStep ==
    ASSUME NetconfInv, [Netconf!Next]_(Netconf!vars)
    PROVE  NetconfInv'
<1> USE BindingsAssumption
<1> SUFFICES ASSUME ~overlapped' PROVE OneOpens'
  BY DEF NetconfInv
<1>0. OneOpens
  BY DEF NetconfInv, Netconf!Next, Netconf!vars, Netconf!Request, Netconf!KeyMissing,
     Netconf!OpenRouter, Netconf!Opened, Netconf!OpenFails, Netconf!Answered
<1>1. CASE UNCHANGED Netconf!vars
  BY <1>0, <1>1 DEF Netconf!vars, OneOpens, Netconf!Opening
<1>2. ASSUME NEW c \in NetconfCalls, NEW host \in Hosts, Netconf!Request(c, host)
      PROVE  OneOpens'
  <2>1. netconfCalls[c] \in NetconfCallType BY <1>0 DEF OneOpens
  <2>2. /\ netconfCalls[c].stage = "unused" /\ netconfCalls[c].host = None
        /\ Netconf!Opening = {} /\ UNCHANGED <<router, routers>>
    BY <1>0, <1>2 DEF Netconf!Request, OneOpens
  <2>3. CASE router # None
    <3> DEFINE call == [netconfCalls[c] EXCEPT !.host = host, !.stage = "sent", !.via = router]
    <3>1. /\ call \in NetconfCallType /\ call.stage = "sent" /\ call.host = host
          /\ call.via = router
      BY <1>0, <2>1, <2>3 DEF NetconfCallType, OneOpens
    <3>2. netconfCalls' = [netconfCalls EXCEPT ![c] = call] /\ UNCHANGED <<connected, params>>
      BY <1>2, <2>1, <2>3 DEF Netconf!Request, Netconf!Sent, NetconfCallType
    <3> HIDE DEF call
    <3>3. /\ netconfCalls' \in [NetconfCalls -> NetconfCallType] /\ netconfCalls'[c] = call
          /\ \A d \in NetconfCalls : d # c => netconfCalls'[d] = netconfCalls[d]
          /\ Netconf!Opening' = {}
          /\ \A r \in DOMAIN routers : \E d \in NetconfCalls : netconfCalls'[d].host = routers[r].host
      BY <1>0, <2>2, <3>1, <3>2, NetconfCallStep
    <3> QED BY <1>0, <2>2, <2>3, <3>1, <3>2, <3>3 DEF OneOpens
  <2>4. CASE router = None
    <3> DEFINE call == [netconfCalls[c] EXCEPT !.stage = "initializing", !.host = host]
    <3>1. call \in NetconfCallType /\ call.stage = "initializing" /\ call.host = host
      BY <2>1 DEF NetconfCallType
    <3>2. netconfCalls' = [netconfCalls EXCEPT ![c] = call] /\ ~connected' /\ params' = host
      BY <1>2, <2>4 DEF Netconf!Request
    <3> HIDE DEF call
    <3>3. \A d \in NetconfCalls : netconfCalls[d].stage \notin {"initializing", "opening", "sent"}
      BY <1>0, <2>2, <2>4 DEF OneOpens, Netconf!Opening
    <3>4. /\ netconfCalls' \in [NetconfCalls -> NetconfCallType] /\ netconfCalls'[c] = call
          /\ \A d \in NetconfCalls : d # c => netconfCalls'[d] = netconfCalls[d]
          /\ Netconf!Opening' = {c}
          /\ \A r \in DOMAIN routers : \E d \in NetconfCalls : netconfCalls'[d].host = routers[r].host
      BY <1>0, <2>2, <3>1, <3>2, NetconfCallStep, ZenonT(40)
    <3> QED BY <1>0, <2>2, <2>4, <3>1, <3>2, <3>3, <3>4 DEF OneOpens
  <2> QED BY <2>3, <2>4
<1>3. ASSUME NEW c \in NetconfCalls, Netconf!KeyMissing(c) \/ Netconf!OpenFails(c)
      PROVE  OneOpens'
  <2> DEFINE call == [netconfCalls[c] EXCEPT !.stage = "thrown"]
  <2>1. netconfCalls[c] \in NetconfCallType BY <1>0 DEF OneOpens
  <2>2. call \in NetconfCallType /\ call.stage = "thrown" /\ call.host = netconfCalls[c].host
    BY <2>1 DEF NetconfCallType
  <2>3. netconfCalls' = [netconfCalls EXCEPT ![c] = call] /\ router' = None
    BY <1>3 DEF Netconf!KeyMissing, Netconf!OpenFails, Netconf!DeletedRouter
  <2> HIDE DEF call
  <2>4. c \in Netconf!Opening /\ Netconf!Opening = {c}
    BY <1>0, <1>3 DEF OneOpens, Netconf!Opening, Netconf!KeyMissing, Netconf!OpenFails
  <2>5. /\ \A d \in NetconfCalls : netconfCalls[d].stage # "sent"
        /\ \A r \in DOMAIN routers : routers[r].stage # "open"
    BY <1>0, <1>3 DEF OneOpens, Netconf!KeyMissing, Netconf!OpenFails
  <2>6. /\ routers' \in Seq(RouterType) /\ DOMAIN routers' = DOMAIN routers
        /\ \A r \in DOMAIN routers : /\ routers'[r].host = routers[r].host
                                     /\ routers'[r].stage # "open"
    <3>1. CASE Netconf!KeyMissing(c) BY <1>0, <2>5, <3>1 DEF Netconf!KeyMissing, OneOpens
    <3>2. CASE Netconf!OpenFails(c)
      <4>1. PICK k \in DOMAIN routers : k = netconfCalls[c].via
        BY <1>0, <3>2 DEF Netconf!OpenFails, OneOpens
      <4>2. routers[k] \in RouterType BY <1>0 DEF OneOpens
      <4> DEFINE new == [routers[k] EXCEPT !.stage = "failed"]
      <4>3. new \in RouterType /\ new.host = routers[k].host /\ new.stage = "failed"
        BY <4>2 DEF RouterType
      <4>4. routers' = [routers EXCEPT ![k] = new] BY <3>2, <4>1 DEF Netconf!OpenFails
      <4> HIDE DEF new
      <4> QED BY <1>0, <2>5, <4>3, <4>4 DEF OneOpens
    <3> QED BY <1>3, <3>1, <3>2
  <2>7. \A d \in NetconfCalls : netconfCalls'[d].stage \notin {"initializing", "opening", "sent"}
    BY <1>0, <2>2, <2>3, <2>4, <2>5, NetconfCallStep, ZenonT(40) DEF Netconf!Opening
  <2>8. /\ netconfCalls' \in [NetconfCalls -> NetconfCallType] /\ netconfCalls'[c] = call
        /\ \A d \in NetconfCalls : d # c => netconfCalls'[d] = netconfCalls[d]
        /\ Netconf!Opening' = {}
        /\ \A r \in DOMAIN routers : \E d \in NetconfCalls : netconfCalls'[d].host = routers[r].host
    BY <1>0, <2>2, <2>3, <2>4, NetconfCallStep
  <2>9. \A d \in NetconfCalls :
          (netconfCalls'[d].stage = "unused") <=> (netconfCalls'[d].host = None)
    BY <1>0, <2>2, <2>4, <2>8 DEF OneOpens, Netconf!Opening
  <2>10. \A r \in DOMAIN routers' :
           \E d \in NetconfCalls : netconfCalls'[d].host = routers'[r].host
    BY <2>6, <2>8
  <2> QED BY <2>3, <2>6, <2>7, <2>8, <2>9, <2>10 DEF OneOpens
<1>4. ASSUME NEW c \in NetconfCalls, Netconf!OpenRouter(c)
      PROVE  OneOpens'
  <2>1. netconfCalls[c] \in NetconfCallType BY <1>0 DEF OneOpens
  <2>2. /\ router = None /\ ~connected /\ params = netconfCalls[c].host /\ params \in Hosts
        /\ netconfCalls[c].stage = "initializing" /\ Netconf!Opening = {c}
        /\ \A d \in NetconfCalls : netconfCalls[d].stage # "sent"
    BY <1>0, <1>4, <2>1 DEF OneOpens, NetconfCallType, Netconf!OpenRouter, Netconf!Opening
  <2> DEFINE new == [host |-> params, stage |-> "opening"]
             k == Len(routers) + 1
             call == [netconfCalls[c] EXCEPT !.stage = "opening", !.via = k]
  <2>3. new \in RouterType /\ new.host = netconfCalls[c].host /\ new.stage = "opening"
    BY <2>2 DEF RouterType
  <2>4. routers' = Append(routers, new)
    BY <1>4, <2>2 DEF Netconf!OpenRouter
  <2> HIDE DEF new
  <2>5. /\ routers' \in Seq(RouterType) /\ Len(routers') = k /\ k \in Nat
        /\ DOMAIN routers' = DOMAIN routers \cup {k} /\ routers'[k] = new
        /\ \A r \in DOMAIN routers : routers'[r] = routers[r] /\ r # k
    BY <1>0, <2>3, <2>4 DEF OneOpens
  <2>6. /\ call \in NetconfCallType /\ call.stage = "opening" /\ call.via = k
        /\ call.host = netconfCalls[c].host
    BY <2>1, <2>5 DEF NetconfCallType
  <2>7. netconfCalls' = [netconfCalls EXCEPT ![c] = call] /\ router' = k
    BY <1>4, <2>5 DEF Netconf!OpenRouter
  <2> HIDE DEF call, k
  <2>8. \A r \in DOMAIN routers : routers[r].stage # "open"
    BY <1>0, <2>2 DEF OneOpens
  <2>9. /\ netconfCalls' \in [NetconfCalls -> NetconfCallType] /\ netconfCalls'[c] = call
        /\ \A d \in NetconfCalls : d # c => netconfCalls'[d] = netconfCalls[d]
        /\ Netconf!Opening' = {c}
        /\ \A r \in DOMAIN routers : \E d \in NetconfCalls : netconfCalls'[d].host = routers[r].host
    BY <1>0, <2>2, <2>6, <2>7, NetconfCallStep
  <2>10. \A d \in NetconfCalls : d # c =>
           netconfCalls'[d].stage \notin {"initializing", "opening", "sent"}
    BY <2>2, <2>9 DEF Netconf!Opening
  <2>11. \A r \in DOMAIN routers' :
           \E d \in NetconfCalls : netconfCalls'[d].host = routers'[r].host
    BY <2>3, <2>5, <2>6, <2>9
  <2>12. \A d \in NetconfCalls :
           (netconfCalls'[d].stage = "unused") <=> (netconfCalls'[d].host = None)
    BY <1>0, <2>2, <2>6, <2>9 DEF OneOpens
  <2> QED BY <1>0, <2>2, <2>3, <2>5, <2>6, <2>7, <2>8, <2>9, <2>10, <2>11, <2>12 DEF OneOpens
<1>5. ASSUME NEW c \in NetconfCalls, Netconf!Opened(c)
      PROVE  OneOpens'
  <2>1. netconfCalls[c] \in NetconfCallType BY <1>0 DEF OneOpens
  <2>2. PICK k \in DOMAIN routers :
          /\ k = router /\ k = netconfCalls[c].via /\ routers[k].stage = "opening"
          /\ netconfCalls[c].stage = "opening" /\ Netconf!Opening = {c}
    BY <1>0, <1>5 DEF OneOpens, Netconf!Opened, Netconf!Opening
  <2>3. routers[k] \in RouterType BY <1>0 DEF OneOpens
  <2> DEFINE new == [routers[k] EXCEPT !.stage = "open"]
             call == [netconfCalls[c] EXCEPT !.stage = "sent", !.via = router]
  <2>4. new \in RouterType /\ new.host = routers[k].host /\ new.stage = "open"
    BY <2>3 DEF RouterType
  <2>5. routers' = [routers EXCEPT ![k] = new] BY <1>5, <2>2 DEF Netconf!Opened
  <2>6. k \in Nat /\ router # None BY <1>0, <2>2 DEF OneOpens
  <2>7. /\ call \in NetconfCallType /\ call.stage = "sent" /\ call.via = k
        /\ call.host = netconfCalls[c].host
    BY <2>1, <2>2, <2>6 DEF NetconfCallType
  <2>8. netconfCalls' = [netconfCalls EXCEPT ![c] = call] /\ UNCHANGED router
    BY <1>5, <2>6 DEF Netconf!Opened, Netconf!Sent
  <2> HIDE DEF new, call
  <2>9. /\ routers' \in Seq(RouterType) /\ DOMAIN routers' = DOMAIN routers /\ routers'[k] = new
        /\ \A r \in DOMAIN routers : r # k => routers'[r] = routers[r]
    BY <1>0, <2>4, <2>5 DEF OneOpens
  <2>10. /\ netconfCalls' \in [NetconfCalls -> NetconfCallType] /\ netconfCalls'[c] = call
         /\ \A d \in NetconfCalls : d # c => netconfCalls'[d] = netconfCalls[d]
         /\ Netconf!Opening' = {}
         /\ \A r \in DOMAIN routers : \E d \in NetconfCalls : netconfCalls'[d].host = routers[r].host
    BY <1>0, <2>2, <2>7, <2>8, NetconfCallStep, ZenonT(40)
  <2>11. \A d \in NetconfCalls :
           d # c => netconfCalls'[d].stage \notin {"initializing", "opening", "sent"}
    BY <1>0, <2>2, <2>10 DEF Netconf!Opening, OneOpens
  <2>12. \A d \in NetconfCalls :
           (netconfCalls'[d].stage = "unused") <=> (netconfCalls'[d].host = None)
    BY <1>0, <2>2, <2>7, <2>10 DEF OneOpens
  <2>13. \A r \in DOMAIN routers' : routers'[r].stage = "open" => r = k
    BY <1>0, <2>2, <2>9 DEF OneOpens
  <2>14. \A r \in DOMAIN routers' :
           \E d \in NetconfCalls : netconfCalls'[d].host = routers'[r].host
    BY <2>4, <2>9, <2>10
  <2> QED BY <1>0, <2>2, <2>4, <2>6, <2>7, <2>8, <2>9, <2>10, <2>11, <2>12, <2>13, <2>14, ZenonT(40) DEF OneOpens
<1>6. ASSUME NEW c \in NetconfCalls, Netconf!Answered(c)
      PROVE  OneOpens'
  <2>1. netconfCalls[c] \in NetconfCallType BY <1>0 DEF OneOpens
  <2>2. PICK stage \in {"done", "thrown"} : netconfCalls' = [netconfCalls EXCEPT ![c].stage = stage]
    BY <1>6 DEF Netconf!Answered
  <2> DEFINE call == [netconfCalls[c] EXCEPT !.stage = stage]
  <2>3. /\ call \in NetconfCallType /\ call.host = netconfCalls[c].host
        /\ call.stage \in {"done", "thrown"} /\ call.stage \notin {"initializing", "opening"}
    BY <2>1 DEF NetconfCallType
  <2>4. netconfCalls' = [netconfCalls EXCEPT ![c] = call] BY <2>2
  <2> HIDE DEF call
  <2>5. /\ netconfCalls[c].stage = "sent" /\ c \notin Netconf!Opening
        /\ UNCHANGED <<router, connected, params, routers>>
    BY <1>6 DEF Netconf!Answered, Netconf!Opening
  <2>6. /\ netconfCalls' \in [NetconfCalls -> NetconfCallType] /\ netconfCalls'[c] = call
        /\ \A d \in NetconfCalls : d # c => netconfCalls'[d] = netconfCalls[d]
        /\ Netconf!Opening' = Netconf!Opening \ {c}
        /\ \A r \in DOMAIN routers : \E d \in NetconfCalls : netconfCalls'[d].host = routers[r].host
    BY <1>0, <2>3, <2>4, <2>5, NetconfCallStep, ZenonT(40)
  <2>7. Netconf!Opening' = Netconf!Opening BY <2>5, <2>6
  <2>8. \A d \in NetconfCalls :
          (netconfCalls'[d].stage = "unused") <=> (netconfCalls'[d].host = None)
    BY <1>0, <2>3, <2>5, <2>6 DEF OneOpens
  <2>9. \A d \in NetconfCalls :
          /\ netconfCalls'[d].stage = "initializing" =>
               router = None /\ ~connected /\ params = netconfCalls'[d].host
          /\ netconfCalls'[d].stage = "opening" =>
               /\ netconfCalls'[d].via = router /\ router \in DOMAIN routers
               /\ routers[router].stage = "opening"
          /\ netconfCalls'[d].stage = "sent" =>
               /\ netconfCalls'[d].via = router /\ router \in DOMAIN routers
               /\ routers[router].stage = "open"
    <3> TAKE d \in NetconfCalls
    <3>1. CASE d = c BY <2>3, <2>6, <3>1
    <3>2. CASE d # c BY <1>0, <2>6, <3>2 DEF OneOpens
    <3> QED BY <3>1, <3>2
  <2> QED BY <1>0, <2>5, <2>6, <2>7, <2>8, <2>9 DEF OneOpens
<1> QED BY <1>1, <1>2, <1>3, <1>4, <1>5, <1>6 DEF Netconf!Next

(* While no request begins as another one opens the router, there is one   *)
(* open router, and all requests of a client that is used for one device   *)
(* go over it.                                                             *)
THEOREM RouterInUse == Netconf!Spec => []OneRouter
<1>1. NetconfInv => OneRouter
  <2> SUFFICES ASSUME OneOpens PROVE Netconf!OneRouter
    BY DEF NetconfInv, OneRouter, Netconf!OneRouter
  <2>1. ASSUME NEW c \in NetconfCalls, netconfCalls[c].stage = "sent"
        PROVE  LET r == netconfCalls[c].via IN
               /\ routers[r].stage = "open"
               /\ \/ routers[r].host = netconfCalls[c].host
                  \/ \E d \in NetconfCalls : netconfCalls[d].host \notin {None, netconfCalls[c].host}
    <3>1. PICK r \in DOMAIN routers : r = netconfCalls[c].via /\ routers[r].stage = "open"
      BY <2>1 DEF OneOpens
    <3>2. PICK d \in NetconfCalls : netconfCalls[d].host = routers[r].host
      BY DEF OneOpens
    <3>3. routers[r].host # None
      <4>1. routers[r] \in RouterType BY DEF OneOpens
      <4> QED BY <4>1, BindingsAssumption DEF RouterType
    <3> QED BY <3>1, <3>2, <3>3
  <2> QED BY <2>1 DEF OneOpens, Netconf!OneRouter
<1>2. NetconfInv /\ [Netconf!Next]_(Netconf!vars) => NetconfInv' BY NetconfStep
<1> QED BY NetconfInit, <1>1, <1>2, PTL DEF Netconf!Spec

-----------------------------------------------------------------------------
(* The routes of the HTTP server                                           *)

RequestRecord ==
    [stage : {"unused", "credentials", "handler", "polling", "deaf", "left", "done", "lost"},
     q : RequestType \cup {None}, status : Nat \cup {None}, handled : BOOLEAN, granted : BOOLEAN]

RoutesInv ==
    /\ req \in [Slots -> RequestRecord]
    /\ \A r \in Slots : req[r].stage = "credentials" => req[r].q \in RequestType
    /\ HandledIfGranted

LEMMA RoutesInit == Init => RoutesInv
BY DEF Init, Unused, RoutesInv, RequestRecord, HandledIfGranted

(* One request goes on.                                                    *)
LEMMA OneRequestStep ==
    ASSUME RoutesInv, NEW r \in Slots, NEW record \in RequestRecord,
           req' = [req EXCEPT ![r] = record], record.handled => record.granted,
           record.stage = "credentials" => record.q \in RequestType
    PROVE  RoutesInv'
BY DEF RoutesInv, HandledIfGranted

LEMMA WithoutHandlerStatus ==
    ASSUME NEW q \in RequestType
    PROVE  /\ WithoutHandler(q) \in Nat \cup {None}
           /\ q.method = "OPTIONS" => WithoutHandler(q) # None
<1>1. q.method \in {"GET", "PUT", "POST", "HEAD", "OPTIONS", "DELETE"} BY DEF RequestType
<1>2. Unallowed(q) \in Nat BY DEF Unallowed
<1> QED BY <1>1, <1>2, BindingsAssumption DEF WithoutHandler

(* The credentials are in order where a handler is called.                 *)
LEMMA ProceedStep ==
    ASSUME RoutesInv, NEW r \in Slots, NEW q \in RequestType, NEW granted \in BOOLEAN,
           Proceed(r, q, granted)
    PROVE  RoutesInv'
<1>1. req[r] \in RequestRecord /\ (req[r].handled => req[r].granted)
  BY DEF RoutesInv, HandledIfGranted
<1>2. WithoutHandler(q) \in Nat \cup {None} BY WithoutHandlerStatus
<1>3. CASE RefusedWith401(q, granted)
  <2>0. PICK status \in Nat : status = 401 OBVIOUS
  <2> DEFINE record == [req[r] EXCEPT !.q = q, !.stage = "done", !.status = status]
  <2>1. /\ record \in RequestRecord /\ (record.handled => record.granted)
        /\ record.stage = "credentials" => record.q \in RequestType
    BY <1>1 DEF RequestRecord
  <2>2. req' = [req EXCEPT ![r] = record] BY <1>3, <2>0 DEF Proceed
  <2> HIDE DEF record
  <2> QED BY <2>1, <2>2, OneRequestStep
<1>4. CASE ~RefusedWith401(q, granted) /\ WithoutHandler(q) # None
  <2> DEFINE record == [req[r] EXCEPT !.q = q, !.stage = "done", !.status = WithoutHandler(q)]
  <2>1. /\ record \in RequestRecord /\ (record.handled => record.granted)
        /\ record.stage = "credentials" => record.q \in RequestType
    BY <1>1, <1>2 DEF RequestRecord
  <2>2. req' = [req EXCEPT ![r] = record] BY <1>4 DEF Proceed
  <2> HIDE DEF record
  <2> QED BY <2>1, <2>2, OneRequestStep
<1>5. CASE ~RefusedWith401(q, granted) /\ WithoutHandler(q) = None
  <2>0. granted = TRUE BY <1>5, WithoutHandlerStatus DEF RefusedWith401
  <2>3. PICK throws \in BOOLEAN : throws = LateThrow(q) BY DEF LateThrow
  <2> DEFINE record == [req[r] EXCEPT !.q = q, !.stage = IF throws THEN "lost" ELSE "handler",
                                      !.handled = ~throws, !.granted = TRUE]
  <2>1. record \in RequestRecord /\ record.granted /\ record.stage # "credentials"
    BY <1>1 DEF RequestRecord
  <2>2. req' = [req EXCEPT ![r] = record] BY <1>5, <2>0, <2>3 DEF Proceed
  <2> HIDE DEF record
  <2> QED BY <2>1, <2>2, OneRequestStep
<1> QED BY <1>3, <1>4, <1>5

LEMMA AtOnceStatus ==
    ASSUME NEW q \in RequestType
    PROVE  AtOnce(q) \in Nat \cup {None}
BY DEF AtOnce

LEMMA RoutesStep ==
    ASSUME RoutesInv, [Next]_vars
    PROVE  RoutesInv'
<1> USE BindingsAssumption
<1>0. CASE UNCHANGED vars BY <1>0 DEF vars, RoutesInv, HandledIfGranted
<1>1. \A r \in Slots : req[r] \in RequestRecord /\ (req[r].handled => req[r].granted)
  BY DEF RoutesInv, HandledIfGranted
<1>2. ASSUME NEW r \in Slots, NEW q \in Requests, Receive(r, q)
      PROVE  RoutesInv'
  <2>1. q \in RequestType BY HttpRoutesAssumption
  <2>2. CASE AtOnce(q) # None
    <3> DEFINE record == [req[r] EXCEPT !.q = q, !.stage = "done", !.status = AtOnce(q)]
    <3>1. /\ record \in RequestRecord /\ (record.handled => record.granted)
          /\ record.stage = "credentials" => record.q \in RequestType
      BY <1>1, <2>1, AtOnceStatus DEF RequestRecord
    <3>2. req' = [req EXCEPT ![r] = record] BY <1>2, <2>2 DEF Receive
    <3> HIDE DEF record
    <3> QED BY <3>1, <3>2, OneRequestStep
  <2>3. CASE AtOnce(q) = None /\ ~EarlyThrow(q) /\ scheme \notin {None, "oauth2"}
    <3>1. Granted(scheme, q.auth) \in BOOLEAN BY DEF Granted
    <3>2. Proceed(r, q, Granted(scheme, q.auth)) BY <1>2, <2>3 DEF Receive
    <3>3. PICK granted \in BOOLEAN : granted = Granted(scheme, q.auth) BY <3>1
    <3> QED BY <2>1, <3>2, <3>3, ProceedStep
  <2>4. CASE AtOnce(q) = None /\ (EarlyThrow(q) \/ scheme \in {None, "oauth2"})
    <3>1. \/ req' = [req EXCEPT ![r] = [req[r] EXCEPT !.q = q, !.stage = "credentials"]]
          \/ req' = [req EXCEPT ![r] = [req[r] EXCEPT !.q = q, !.stage = "lost"]]
      BY <1>2, <2>4 DEF Receive
    <3> DEFINE awaiting == [req[r] EXCEPT !.q = q, !.stage = "credentials"]
               lost == [req[r] EXCEPT !.q = q, !.stage = "lost"]
    <3>2. /\ awaiting \in RequestRecord /\ (awaiting.handled => awaiting.granted)
          /\ awaiting.q = q /\ lost.stage = "lost"
          /\ lost \in RequestRecord /\ (lost.handled => lost.granted)
      BY <1>1, <2>1 DEF RequestRecord
    <3>3. req' = [req EXCEPT ![r] = awaiting] \/ req' = [req EXCEPT ![r] = lost] BY <3>1
    <3> HIDE DEF awaiting, lost
    <3> QED BY <2>1, <3>2, <3>3, OneRequestStep
  <2> QED BY <2>2, <2>3, <2>4
<1>3. ASSUME NEW r \in Slots, CredentialsChecked(r)
      PROVE  RoutesInv'
  <2>1. PICK answer \in Introspected :
          Proceed(r, req[r].q, Validated(req[r].q.auth, answer) = "yes")
    BY <1>3 DEF CredentialsChecked
  <2>2. PICK granted \in BOOLEAN : granted = (Validated(req[r].q.auth, answer) = "yes")
    OBVIOUS
  <2>3. PICK q : q = req[r].q OBVIOUS
  <2>4. Proceed(r, q, granted) BY <2>1, <2>2, <2>3
  <2>5. q \in RequestType BY <1>3, <2>3 DEF CredentialsChecked, RoutesInv
  <2> QED BY <2>4, <2>5, ProceedStep
<1>4. ASSUME NEW r \in Slots,
             HandlerResolves(r) \/ HandlerRejects(r) \/ ContentFails(r) \/ Polls(r)
      PROVE  RoutesInv'
  <2>1. \/ \E status \in Nat \cup {None} :
               req' = [req EXCEPT ![r].stage = "done", ![r].status = status]
        \/ \E stage \in {"polling", "lost", "deaf", "left"} : req' = [req EXCEPT ![r].stage = stage]
    BY <1>4 DEF HandlerResolves, HandlerRejects, ContentFails, Polls, Notified, HourOver,
                ClientLeaves, Answer
  <2>2. ASSUME NEW status \in Nat \cup {None},
               req' = [req EXCEPT ![r].stage = "done", ![r].status = status]
        PROVE  RoutesInv'
    <3> DEFINE record == [req[r] EXCEPT !.stage = "done", !.status = status]
    <3>1. /\ record \in RequestRecord /\ (record.handled => record.granted)
          /\ record.stage = "credentials" => record.q \in RequestType
      BY <1>1 DEF RequestRecord
    <3>2. req' = [req EXCEPT ![r] = record] BY <1>1, <2>2 DEF RoutesInv
    <3> HIDE DEF record
    <3> QED BY <3>1, <3>2, OneRequestStep
  <2>3. ASSUME NEW stage \in {"polling", "lost", "deaf", "left"}, req' = [req EXCEPT ![r].stage = stage]
        PROVE  RoutesInv'
    <3> DEFINE record == [req[r] EXCEPT !.stage = stage]
    <3>1. /\ record \in RequestRecord /\ (record.handled => record.granted)
          /\ record.stage = "credentials" => record.q \in RequestType
      BY <1>1 DEF RequestRecord
    <3>2. req' = [req EXCEPT ![r] = record] BY <2>3
    <3> HIDE DEF record
    <3> QED BY <3>1, <3>2, OneRequestStep
  <2> QED BY <2>1, <2>2, <2>3
<1> QED BY <1>0, <1>2, <1>3, <1>4 DEF Next, Settles

(* A handler of the application runs only for requests with the            *)
(* credentials of the scheme of the Thing: whatever the schemes, routes    *)
(* and answers of the introspection endpoint are.                          *)
THEOREM OnlyGrantedHandled == Spec => []HandledIfGranted
<1>1. RoutesInv => HandledIfGranted BY DEF RoutesInv
<1>2. RoutesInv /\ [Next]_vars => RoutesInv' BY RoutesStep
<1> QED BY RoutesInit, <1>1, <1>2, PTL DEF Spec

-----------------------------------------------------------------------------
(* The HTTP client, whose requests and subscriptions do not touch each     *)
(* other                                                                   *)

ClientSpec == Client!Init /\ [][Client!Tokens \/ Client!Subscribing]_(Client!vars)

TokenRequest == [stage : {"unused", "token", "sent", "refresh", "resent", "done", "failed"},
                 used : Nat, from : Nat, refused : BOOLEAN, lost : BOOLEAN]

CredentialType == [kind : {"none", "static", "client", "password", "tuya"},
                   first : {"none", "pending", "resolved", "rejected"}, token : Nat]

(* The tokens that a refresh has used up, of which the answer was lost.    *)
LostTokens == {requests[q].from : q \in {x \in Calls : requests[x].lost}}

(* Nothing is sent with an OAuth credential before its first token; from   *)
(* then on its token can be refreshed, unless an answer was lost; and what *)
(* is presented can be, unless two present it or an answer was lost.       *)
TokensInv ==
    /\ credential \in CredentialType
    /\ issued \in Nat
    /\ requests \in [Calls -> TokenRequest]
    /\ \A r \in Calls :
         /\ requests[r].stage = "refresh" => Client!OAuth
         /\ requests[r].lost \/ requests[r].refused => requests[r].stage = "failed"
         /\ requests[r].refused => requests[r].from \in doubled \/ requests[r].from \in LostTokens
    /\ Client!OAuth =>
         /\ credential.first # "none"
         /\ credential.first = "resolved" => credential.token \in refreshable \/ credential.token \in LostTokens
         /\ \A r \in Calls :
              requests[r].stage \in {"sent", "refresh", "resent"} => credential.first = "resolved"
    /\ \A r \in Client!Refreshing :
         \/ requests[r].from \in refreshable \cup doubled
         \/ requests[r].from \in LostTokens
    /\ \A r, q \in Client!Refreshing :
         r # q /\ requests[r].from = requests[q].from => requests[r].from \in doubled

LEMMA TokensInit == Client!Init => TokensInv
BY DEF Client!Init, Client!NoCredential, Client!NewRequest, TokensInv, TokenRequest, CredentialType,
       Client!OAuth, Client!Refreshing

(* What has been lost remains so, since a request that failed is over.     *)
LEMMA LostKept ==
    ASSUME \A q \in Calls : requests[q].lost => requests'[q] = requests[q]
    PROVE  LostTokens \subseteq LostTokens'
BY DEF LostTokens

(* One request goes on and the credential stays.                           *)
LEMMA TokenRequestStep ==
    ASSUME TokensInv, NEW r \in Calls, NEW request \in TokenRequest,
           requests[r].stage # "failed",
           requests' = [requests EXCEPT ![r] = request],
           UNCHANGED <<credential, refreshable, issued, doubled>>,
           request.stage # "refresh", ~request.refused, ~request.lost,
           Client!OAuth /\ request.stage \in {"sent", "resent"} => credential.first = "resolved"
    PROVE  TokensInv'
<1>1. /\ requests' \in [Calls -> TokenRequest] /\ requests'[r] = request
      /\ \A q \in Calls : q # r => requests'[q] = requests[q]
  BY DEF TokensInv
<1>2. Client!Refreshing' = Client!Refreshing \ {r} BY <1>1 DEF Client!Refreshing
<1>3. Client!OAuth' <=> Client!OAuth BY DEF Client!OAuth
<1>4. LostTokens \subseteq LostTokens'
  <2>1. \A q \in Calls : requests[q].lost => requests'[q] = requests[q] BY <1>1 DEF TokensInv
  <2> QED BY <2>1, LostKept
<1>5. \A q \in Calls :
        /\ requests'[q].stage = "refresh" => Client!OAuth'
        /\ requests'[q].lost \/ requests'[q].refused => requests'[q].stage = "failed"
        /\ requests'[q].refused => requests'[q].from \in doubled' \/ requests'[q].from \in LostTokens'
  BY <1>1, <1>3, <1>4 DEF TokensInv
<1>6. Client!OAuth' =>
        /\ credential'.first # "none"
        /\ credential'.first = "resolved"
             => credential'.token \in refreshable' \/ credential'.token \in LostTokens'
        /\ \A q \in Calls : requests'[q].stage \in {"sent", "refresh", "resent"}
                              => credential'.first = "resolved"
  BY <1>1, <1>3, <1>4 DEF TokensInv
<1>7. \A q \in Client!Refreshing' :
        \/ requests'[q].from \in refreshable' \cup doubled'
        \/ requests'[q].from \in LostTokens'
  BY <1>1, <1>2, <1>4 DEF TokensInv, Client!Refreshing
<1>8. \A p, q \in Client!Refreshing' :
        p # q /\ requests'[p].from = requests'[q].from => requests'[p].from \in doubled'
  BY <1>1, <1>2 DEF TokensInv, Client!Refreshing
<1>9. credential' \in CredentialType /\ issued' \in Nat BY DEF TokensInv
<1> QED BY <1>1, <1>5, <1>6, <1>7, <1>8, <1>9 DEF TokensInv

LEMMA TokensUnchanged ==
    ASSUME TokensInv,
           UNCHANGED <<credential, refreshable, issued, requests, doubled>>
    PROVE  TokensInv'
BY DEF TokensInv, Client!OAuth, Client!Refreshing, LostTokens

(* All that wait for the first token go on.                                *)
LEMMA FirstTokenStep ==
    ASSUME TokensInv, Client!FirstToken
    PROVE  TokensInv'
<1>0. \A r \in Calls : requests[r] \in TokenRequest BY DEF TokensInv
<1>1. Client!OAuth /\ credential.first = "pending" /\ UNCHANGED doubled
  BY DEF Client!FirstToken
<1>2. \A r \in Calls : requests[r].stage \notin {"sent", "refresh", "resent"}
  BY <1>1 DEF TokensInv
<1>3. PICK n \in Nat : n = issued + 1 BY DEF TokensInv
<1>4. \/ /\ issued' = n
         /\ credential' = [credential EXCEPT !.first = "resolved", !.token = n]
         /\ refreshable' = refreshable \cup {n}
         /\ requests' = [r \in Calls |-> IF r \in Client!Signing THEN Client!Sent(r, n)
                                         ELSE requests[r]]
      \/ /\ credential' = [credential EXCEPT !.first = "rejected"]
         /\ requests' = [r \in Calls |-> IF r \in Client!Signing THEN Client!Fail(r) ELSE requests[r]]
         /\ UNCHANGED <<issued, refreshable>>
  BY <1>3 DEF Client!FirstToken, Client!Issue
<1>5. ASSUME NEW r \in Calls
      PROVE  \/ requests'[r] = requests[r]
             \/ /\ requests[r].stage = "token"
                /\ requests'[r] \in TokenRequest
                /\ requests'[r].stage \in {"sent", "failed"}
                /\ requests'[r].stage = "sent" => credential'.first = "resolved"
                /\ ~requests'[r].refused /\ ~requests'[r].lost
  <2>1. CASE r \in Client!Signing
    <3>1. requests[r].stage = "token" /\ ~requests[r].refused /\ ~requests[r].lost
      BY <1>0, <2>1 DEF Client!Signing, TokensInv
    <3>2. Client!Sent(r, n) \in TokenRequest /\ Client!Sent(r, n).stage = "sent"
          /\ ~Client!Sent(r, n).refused /\ ~Client!Sent(r, n).lost
      BY <1>0, <3>1 DEF Client!Sent, TokenRequest
    <3>3. Client!Fail(r) \in TokenRequest /\ Client!Fail(r).stage = "failed"
          /\ ~Client!Fail(r).refused /\ ~Client!Fail(r).lost
      BY <1>0, <3>1 DEF Client!Fail, TokenRequest
    <3>4. credential' = [credential EXCEPT !.first = "resolved", !.token = n]
            => credential'.first = "resolved"
      BY DEF TokensInv, CredentialType
    <3> QED BY <1>4, <2>1, <3>1, <3>2, <3>3, <3>4
  <2>2. CASE r \notin Client!Signing BY <1>4, <2>2
  <2> QED BY <2>1, <2>2
<1>6. requests' \in [Calls -> TokenRequest]
  <2>1. \/ requests' = [r \in Calls |-> IF r \in Client!Signing THEN Client!Sent(r, n) ELSE requests[r]]
        \/ requests' = [r \in Calls |-> IF r \in Client!Signing THEN Client!Fail(r) ELSE requests[r]]
    BY <1>4
  <2>2. \A r \in Calls : requests'[r] \in TokenRequest BY <1>0, <1>5
  <2> QED BY <2>1, <2>2
<1>7. /\ credential' \in CredentialType /\ issued' \in Nat
      /\ credential'.first \in {"resolved", "rejected"} /\ Client!OAuth'
      /\ credential'.first = "resolved" => credential'.token \in refreshable'
  BY <1>1, <1>4 DEF TokensInv, CredentialType, Client!OAuth
<1>8. LostTokens \subseteq LostTokens'
  <2>1. \A q \in Calls : requests[q].lost => requests'[q] = requests[q] BY <1>5 DEF TokensInv
  <2> QED BY <2>1, LostKept
<1>9. Client!Refreshing' = {} BY <1>2, <1>5 DEF Client!Refreshing
<1>10. \A r \in Calls :
         /\ requests'[r].stage = "refresh" => Client!OAuth'
         /\ requests'[r].lost \/ requests'[r].refused => requests'[r].stage = "failed"
         /\ requests'[r].refused => requests'[r].from \in doubled' \/ requests'[r].from \in LostTokens'
         /\ requests'[r].stage \in {"sent", "refresh", "resent"} => credential'.first = "resolved"
  BY <1>1, <1>2, <1>5, <1>7, <1>8 DEF TokensInv
<1> QED BY <1>6, <1>7, <1>9, <1>10 DEF TokensInv

(* The request begins to refresh the token that is in place.               *)
LEMMA RefreshBegins ==
    ASSUME TokensInv, NEW r \in Calls, Client!OAuth, requests[r].stage = "sent",
           requests' = [requests EXCEPT ![r].stage = "refresh", ![r].from = credential.token],
           doubled' = IF \E q \in Client!Refreshing : requests[q].from = credential.token
                      THEN doubled \cup {credential.token} ELSE doubled,
           UNCHANGED <<credential, refreshable, issued>>
    PROVE  TokensInv'
<1> DEFINE request == [requests[r] EXCEPT !.stage = "refresh", !.from = credential.token]
<1>1. /\ request \in TokenRequest /\ request.stage = "refresh"
      /\ ~request.refused /\ ~request.lost /\ request.from = credential.token
  <2>1. credential.token \in Nat /\ requests[r] \in TokenRequest BY DEF TokensInv, CredentialType
  <2>2. ~requests[r].refused /\ ~requests[r].lost BY DEF TokensInv
  <2> QED BY <2>1, <2>2 DEF TokenRequest
<1>2. requests' = [requests EXCEPT ![r] = request] BY DEF TokensInv
<1> HIDE DEF request
<1>3. /\ requests' \in [Calls -> TokenRequest] /\ requests'[r] = request
      /\ \A q \in Calls : q # r => requests'[q] = requests[q]
  BY <1>1, <1>2 DEF TokensInv
<1>4. Client!Refreshing' = Client!Refreshing \cup {r} BY <1>1, <1>3 DEF Client!Refreshing
<1>5. Client!OAuth' /\ credential.first = "resolved" BY DEF Client!OAuth, TokensInv
<1>6. LostTokens \subseteq LostTokens'
  <2>1. \A q \in Calls : requests[q].lost => requests'[q] = requests[q] BY <1>3 DEF TokensInv
  <2> QED BY <2>1, LostKept
<1>7. credential.token \in refreshable \/ credential.token \in LostTokens' BY <1>5, <1>6 DEF TokensInv
<1>8. doubled \subseteq doubled' OBVIOUS
<1>9. \A q \in Calls :
        /\ requests'[q].lost \/ requests'[q].refused => requests'[q].stage = "failed"
        /\ requests'[q].refused => requests'[q].from \in doubled' \/ requests'[q].from \in LostTokens'
  BY <1>1, <1>3, <1>6, <1>8 DEF TokensInv
<1>10. ASSUME NEW q \in Client!Refreshing'
       PROVE  requests'[q].from \in refreshable' \cup doubled' \/ requests'[q].from \in LostTokens'
  <2>1. CASE q = r BY <1>1, <1>3, <1>7, <2>1
  <2>2. CASE q # r
    <3>1. q \in Client!Refreshing /\ q \in Calls BY <1>4, <2>2 DEF Client!Refreshing
    <3>2. requests[q].from \in refreshable \cup doubled \/ requests[q].from \in LostTokens
      BY <3>1 DEF TokensInv
    <3> QED BY <1>3, <1>6, <1>8, <2>2, <3>1, <3>2
  <2> QED BY <2>1, <2>2
<1>11. \A p, q \in Client!Refreshing' :
         p # q /\ requests'[p].from = requests'[q].from => requests'[p].from \in doubled'
  <2> SUFFICES ASSUME NEW p \in Client!Refreshing', NEW q \in Client!Refreshing', p # q,
                      requests'[p].from = requests'[q].from
               PROVE  requests'[p].from \in doubled'
    OBVIOUS
  <2>1. CASE p = r
    <3>1. q \in Client!Refreshing /\ requests[q].from = credential.token
      BY <1>1, <1>3, <1>4, <2>1 DEF Client!Refreshing
    <3> QED BY <1>1, <1>3, <2>1, <3>1
  <2>2. CASE q = r
    <3>1. p \in Client!Refreshing /\ requests[p].from = credential.token
      BY <1>1, <1>3, <1>4, <2>2 DEF Client!Refreshing
    <3> QED BY <1>1, <1>3, <2>2, <3>1
  <2>3. CASE p # r /\ q # r
    BY <1>3, <1>4, <1>8, <2>3 DEF TokensInv, Client!Refreshing
  <2> QED BY <2>1, <2>2, <2>3
<1>12. credential' \in CredentialType /\ issued' \in Nat BY DEF TokensInv
<1> QED BY <1>3, <1>5, <1>7, <1>9, <1>10, <1>11, <1>12 DEF TokensInv

(* The refresh has used its token up, be it that its answer is lost: who   *)
(* else presents that token has been counted among those that double.      *)
LEMMA RefreshAnswered ==
    ASSUME TokensInv, NEW r \in Client!Refreshing, NEW n \in Nat, NEW request \in TokenRequest,
           requests' = [requests EXCEPT ![r] = request], issued' = n,
           refreshable' = (IF Rotating THEN refreshable \ {requests[r].from} ELSE refreshable) \cup {n},
           \/ /\ credential' = [credential EXCEPT !.token = n]
              /\ request.stage = "resent" /\ ~request.lost
           \/ /\ UNCHANGED credential
              /\ request.stage = "failed" /\ request.lost /\ request.from = requests[r].from,
           ~request.refused, UNCHANGED doubled
    PROVE  TokensInv'
<1>1. /\ r \in Calls /\ requests[r].stage = "refresh" /\ Client!OAuth
      /\ credential.first = "resolved"
  BY DEF Client!Refreshing, TokensInv
<1>2. /\ requests' \in [Calls -> TokenRequest] /\ requests'[r] = request
      /\ \A q \in Calls : q # r => requests'[q] = requests[q]
  BY <1>1 DEF TokensInv
<1>3. Client!Refreshing' = Client!Refreshing \ {r} BY <1>2 DEF Client!Refreshing
<1>4. LostTokens \subseteq LostTokens'
  <2>1. \A q \in Calls : requests[q].lost => requests'[q] = requests[q]
    BY <1>1, <1>2 DEF TokensInv
  <2> QED BY <2>1, LostKept
<1>5. /\ credential' \in CredentialType /\ credential'.first = "resolved" /\ Client!OAuth'
      /\ credential'.token = n \/ credential' = credential
  BY <1>1 DEF TokensInv, CredentialType, Client!OAuth
<1>6. \A t \in refreshable : t \in refreshable' \/ t = requests[r].from OBVIOUS
<1>7. credential'.token \in refreshable' \/ credential'.token \in LostTokens'
  <2>1. CASE credential' = [credential EXCEPT !.token = n]
    <3>1. credential'.token = n BY <2>1 DEF TokensInv, CredentialType
    <3> QED BY <3>1
  <2>2. CASE UNCHANGED credential /\ request.lost /\ request.from = requests[r].from
    <3>1. requests[r].from \in LostTokens' BY <1>1, <1>2, <2>2 DEF LostTokens
    <3>2. credential.token \in refreshable \/ credential.token \in LostTokens BY <1>1 DEF TokensInv
    <3> QED BY <1>4, <1>6, <2>2, <3>1, <3>2
  <2> QED BY <2>1, <2>2
<1>8. \A q \in Calls :
        /\ requests'[q].stage = "refresh" => Client!OAuth'
        /\ requests'[q].lost \/ requests'[q].refused => requests'[q].stage = "failed"
        /\ requests'[q].refused => requests'[q].from \in doubled' \/ requests'[q].from \in LostTokens'
  BY <1>2, <1>4, <1>5 DEF TokensInv
<1>9. ASSUME NEW q \in Client!Refreshing'
      PROVE  requests'[q].from \in refreshable' \cup doubled' \/ requests'[q].from \in LostTokens'
  <2>1. q \in Client!Refreshing /\ q # r /\ q \in Calls /\ requests'[q] = requests[q]
    BY <1>2, <1>3 DEF Client!Refreshing
  <2>2. requests[q].from \in refreshable \cup doubled \/ requests[q].from \in LostTokens
    BY <2>1 DEF TokensInv
  <2>3. requests[q].from = requests[r].from => requests[q].from \in doubled
    BY <2>1 DEF TokensInv
  <2> QED BY <1>4, <1>6, <2>1, <2>2, <2>3
<1>10. \A p, q \in Client!Refreshing' :
         p # q /\ requests'[p].from = requests'[q].from => requests'[p].from \in doubled'
  BY <1>2, <1>3 DEF TokensInv, Client!Refreshing
<1> QED BY <1>2, <1>5, <1>7, <1>8, <1>9, <1>10 DEF TokensInv

(* The token endpoint does not take the token.                             *)
LEMMA RefreshRefused ==
    ASSUME TokensInv, NEW r \in Client!Refreshing, requests[r].from \notin refreshable,
           requests' = [requests EXCEPT ![r].stage = "failed", ![r].refused = TRUE],
           UNCHANGED <<credential, refreshable, issued, doubled>>
    PROVE  TokensInv'
<1>1. r \in Calls /\ requests[r].stage = "refresh" /\ Client!OAuth
  BY DEF Client!Refreshing, TokensInv
<1> DEFINE request == [requests[r] EXCEPT !.stage = "failed", !.refused = TRUE]
<1>2. /\ request \in TokenRequest /\ request.stage = "failed" /\ ~request.lost
      /\ request.from = requests[r].from
  BY <1>1 DEF TokensInv, TokenRequest
<1>3. requests' = [requests EXCEPT ![r] = request] BY <1>1 DEF TokensInv
<1> HIDE DEF request
<1>4. /\ requests' \in [Calls -> TokenRequest] /\ requests'[r] = request
      /\ \A q \in Calls : q # r => requests'[q] = requests[q]
  BY <1>1, <1>2, <1>3 DEF TokensInv
<1>5. Client!Refreshing' = Client!Refreshing \ {r} BY <1>2, <1>4 DEF Client!Refreshing
<1>6. LostTokens \subseteq LostTokens'
  <2>1. \A q \in Calls : requests[q].lost => requests'[q] = requests[q]
    BY <1>1, <1>4 DEF TokensInv
  <2> QED BY <2>1, LostKept
<1>7. requests[r].from \in doubled \/ requests[r].from \in LostTokens BY DEF TokensInv
<1>8. Client!OAuth' BY <1>1 DEF Client!OAuth
<1>9. \A q \in Calls :
        /\ requests'[q].stage = "refresh" => Client!OAuth'
        /\ requests'[q].lost \/ requests'[q].refused => requests'[q].stage = "failed"
        /\ requests'[q].refused => requests'[q].from \in doubled' \/ requests'[q].from \in LostTokens'
  BY <1>2, <1>4, <1>6, <1>7, <1>8 DEF TokensInv
<1>10. \A q \in Client!Refreshing' :
         requests'[q].from \in refreshable' \cup doubled' \/ requests'[q].from \in LostTokens'
  BY <1>4, <1>5, <1>6 DEF TokensInv, Client!Refreshing
<1>11. \A p, q \in Client!Refreshing' :
         p # q /\ requests'[p].from = requests'[q].from => requests'[p].from \in doubled'
  BY <1>4, <1>5 DEF TokensInv, Client!Refreshing
<1>12. /\ credential' \in CredentialType /\ issued' \in Nat /\ credential'.first # "none"
       /\ credential'.first = "resolved" => credential'.token \in refreshable' \/ credential'.token \in LostTokens'
       /\ \A q \in Calls : requests'[q].stage \in {"sent", "refresh", "resent"}
                             => credential'.first = "resolved"
  BY <1>1, <1>2, <1>4, <1>6 DEF TokensInv
<1> QED BY <1>4, <1>9, <1>10, <1>11, <1>12 DEF TokensInv

LEMMA TokensStep ==
    ASSUME TokensInv, [Client!Tokens \/ Client!Subscribing]_(Client!vars)
    PROVE  TokensInv'
<1>0. \A r \in Calls : /\ requests[r] \in TokenRequest
                       /\ requests[r].stage # "failed" => ~requests[r].refused /\ ~requests[r].lost
  BY DEF TokensInv
<1>1. CASE UNCHANGED Client!vars BY <1>1, TokensUnchanged DEF Client!vars
<1>2. CASE Client!Subscribing
  BY <1>2, TokensUnchanged
     DEF Client!Subscribing, Client!Subscribe, Client!Opened, Client!Arrives,
         Client!Event, Client!Breaks, Client!Unsubscribe, Client!UnlinkResource, Client!Stop,
         Client!tokenVars
<1>3. ASSUME NEW m \in Metadata, Client!SetSecurity(m)
      PROVE  TokensInv'
  <2>1. /\ \A r \in Calls : requests[r].stage = "unused" /\ ~requests[r].lost /\ ~requests[r].refused
        /\ credential = [kind |-> "none", first |-> "none", token |-> 0]
        /\ UNCHANGED <<refreshable, issued, requests, doubled>>
    BY <1>3 DEF Client!SetSecurity, Client!NewRequest, Client!NoCredential
  <2>2. /\ credential' \in CredentialType
        /\ credential'.kind \in {"client", "password"} => credential'.first = "pending"
    <3> DEFINE made(kind, first) == [kind |-> kind, first |-> first, token |-> 0]
    <3>1. \/ \E kind \in {"none", "static", "tuya"} : credential' = made(kind, "none")
          \/ \E kind \in {"client", "password"} : credential' = made(kind, "pending")
      BY <1>3, <2>1 DEF Client!SetSecurity, Client!Secured, Client!NoCredential
    <3> QED BY <3>1 DEF CredentialType
  <2>3. Client!OAuth' => credential'.first = "pending" BY <2>2 DEF Client!OAuth
  <2>4. Client!Refreshing' = {} BY <2>1 DEF Client!Refreshing
  <2> QED BY <2>1, <2>2, <2>3, <2>4 DEF TokensInv
<1>4. CASE Client!FirstToken BY <1>4, FirstTokenStep
<1>5. CASE Client!Expire BY <1>5, TokensUnchanged DEF Client!Expire
<1>6. ASSUME NEW r \in Calls, Client!Request(r)
      PROVE  TokensInv'
  <2>1. PICK request : requests' = [requests EXCEPT ![r] = request] /\ request =
           CASE Client!OAuth /\ credential.first = "pending" -> [requests[r] EXCEPT !.stage = "token"]
             [] Client!OAuth /\ credential.first = "rejected" -> Client!Fail(r)
             [] credential.kind = "tuya" /\ credential.token \notin valid
                  -> [requests[r] EXCEPT !.stage = "token"]
             [] OTHER -> Client!Sent(r, credential.token)
    BY <1>6 DEF Client!Request, TokensInv
  <2>2. \/ request = [requests[r] EXCEPT !.stage = "token"]
        \/ request = [requests[r] EXCEPT !.stage = "failed"]
        \/ /\ request = [requests[r] EXCEPT !.stage = "sent", !.used = credential.token]
           /\ Client!OAuth => credential.first = "resolved"
    BY <2>1 DEF Client!Fail, Client!Sent, TokensInv, CredentialType
  <2>3. credential.token \in Nat /\ requests[r].stage = "unused"
    BY <1>6 DEF TokensInv, CredentialType, Client!Request
  <2>4. /\ request \in TokenRequest /\ request.stage \in {"token", "failed", "sent"}
        /\ ~request.refused /\ ~request.lost
        /\ request.stage = "sent" /\ Client!OAuth => credential.first = "resolved"
    <3>1. CASE request = [requests[r] EXCEPT !.stage = "token"]
      BY <1>0, <2>3, <3>1 DEF TokenRequest
    <3>2. CASE request = [requests[r] EXCEPT !.stage = "failed"]
      BY <1>0, <2>3, <3>2 DEF TokenRequest
    <3>3. CASE /\ request = [requests[r] EXCEPT !.stage = "sent", !.used = credential.token]
               /\ Client!OAuth => credential.first = "resolved"
      BY <1>0, <2>3, <3>3 DEF TokenRequest
    <3> QED BY <2>2, <3>1, <3>2, <3>3
  <2>5. UNCHANGED <<credential, refreshable, issued, doubled>> BY <1>6 DEF Client!Request
  <2> QED BY <2>1, <2>3, <2>4, <2>5, TokenRequestStep
<1>7. ASSUME NEW r \in Calls, Client!TuyaToken(r)
      PROVE  TokensInv'
  <2>0. ~Client!OAuth /\ UNCHANGED <<refreshable, doubled>> /\ requests[r].stage = "token"
    BY <1>7 DEF Client!TuyaToken, Client!OAuth, Client!Signing
  <2>1. CASE /\ Client!Issue
             /\ credential' = [credential EXCEPT !.token = issued + 1]
             /\ requests' = [requests EXCEPT ![r] = Client!Sent(r, issued + 1)]
    <3>1. issued + 1 \in Nat /\ issued' \in Nat BY <2>1 DEF TokensInv, Client!Issue
    <3> DEFINE request == Client!Sent(r, issued + 1)
    <3>2. request \in TokenRequest /\ request.stage = "sent" /\ ~request.refused /\ ~request.lost
      BY <1>0, <2>0, <3>1 DEF TokenRequest, Client!Sent
    <3>3. requests' = [requests EXCEPT ![r] = request] BY <2>1
    <3> HIDE DEF request
    <3>4. credential' \in CredentialType /\ ~Client!OAuth'
      BY <2>0, <2>1, <3>1 DEF TokensInv, CredentialType, Client!OAuth
    <3>5. /\ requests' \in [Calls -> TokenRequest] /\ requests'[r] = request
          /\ \A q \in Calls : q # r => requests'[q] = requests[q]
      BY <3>2, <3>3 DEF TokensInv
    <3>6. \A q \in Calls : requests[q].stage # "refresh" BY <2>0 DEF TokensInv
    <3>7. Client!Refreshing' = {} BY <3>2, <3>5, <3>6 DEF Client!Refreshing
    <3>8. LostTokens \subseteq LostTokens'
      <4>1. \A q \in Calls : requests[q].lost => requests'[q] = requests[q]
        BY <1>0, <2>0, <3>5
      <4> QED BY <4>1, LostKept
    <3>9. \A q \in Calls :
            /\ requests'[q].stage # "refresh"
            /\ requests'[q].lost \/ requests'[q].refused => requests'[q].stage = "failed"
            /\ requests'[q].refused => requests'[q].from \in doubled' \/ requests'[q].from \in LostTokens'
      BY <2>0, <3>2, <3>5, <3>6, <3>8 DEF TokensInv
    <3> QED BY <3>1, <3>4, <3>5, <3>7, <3>9 DEF TokensInv
  <2>2. CASE /\ requests' = [requests EXCEPT ![r] = Client!Fail(r)]
             /\ UNCHANGED <<credential, issued, valid>>
    <3> DEFINE request == Client!Fail(r)
    <3>1. request \in TokenRequest /\ request.stage = "failed" /\ ~request.refused /\ ~request.lost
      BY <1>0, <2>0 DEF Client!Fail, TokenRequest
    <3>2. requests' = [requests EXCEPT ![r] = request] BY <2>2
    <3> HIDE DEF request
    <3> QED BY <2>0, <2>2, <3>1, <3>2, TokenRequestStep
  <2> QED BY <1>7, <2>1, <2>2 DEF Client!TuyaToken
<1>8. ASSUME NEW r \in Calls, Client!Response(r)
      PROVE  TokensInv'
  <2>0. requests[r].stage = "sent" /\ UNCHANGED <<credential, refreshable, issued>>
    BY <1>8 DEF Client!Response
  <2>1. CASE /\ \/ requests' = [requests EXCEPT ![r].stage = "done"]
                \/ requests' = [requests EXCEPT ![r] = Client!Fail(r)]
             /\ UNCHANGED doubled
    <3>1. PICK stage \in {"done", "failed"} :
            requests' = [requests EXCEPT ![r] = [requests[r] EXCEPT !.stage = stage]]
      BY <2>1 DEF Client!Fail
    <3> DEFINE request == [requests[r] EXCEPT !.stage = stage]
    <3>2. request \in TokenRequest /\ request.stage = stage /\ ~request.refused /\ ~request.lost
      BY <1>0, <2>0 DEF TokenRequest
    <3>3. requests' = [requests EXCEPT ![r] = request] BY <3>1
    <3> HIDE DEF request
    <3> QED BY <2>0, <2>1, <3>2, <3>3, TokenRequestStep
  <2>2. CASE /\ Client!OAuth
             /\ requests' = [requests EXCEPT ![r].stage = "refresh", ![r].from = credential.token]
             /\ doubled' = IF \E q \in Client!Refreshing : requests[q].from = credential.token
                           THEN doubled \cup {credential.token} ELSE doubled
    BY <2>0, <2>2, RefreshBegins
  <2> QED BY <1>8, <2>1, <2>2 DEF Client!Response
<1>9. ASSUME NEW r \in Calls, Client!Refreshed(r)
      PROVE  TokensInv'
  <2>0. /\ r \in Client!Refreshing /\ requests[r].stage = "refresh" /\ Client!OAuth
        /\ credential.first = "resolved" /\ UNCHANGED doubled
    BY <1>9 DEF Client!Refreshed, Client!Refreshing, TokensInv
  <2>n. PICK n \in Nat : n = issued + 1 BY DEF TokensInv
  <2> DEFINE rotated ==
        (IF Rotating THEN refreshable \ {requests[r].from} ELSE refreshable) \cup {n}
  <2>1. CASE /\ issued' = n /\ refreshable' = rotated
             /\ credential' = Client!CredentialAfter(n)
             /\ requests' = [requests EXCEPT ![r].stage = "resent", ![r].used = n]
    <3> DEFINE request == [requests[r] EXCEPT !.stage = "resent", !.used = n]
    <3>2. request \in TokenRequest /\ request.stage = "resent" /\ ~request.refused /\ ~request.lost
      BY <1>0, <2>0 DEF TokenRequest
    <3>3. requests' = [requests EXCEPT ![r] = request] BY <2>1 DEF TokensInv
    <3>4. credential' = [credential EXCEPT !.token = n] BY <2>1 DEF Client!CredentialAfter
    <3> HIDE DEF request
    <3> QED BY <2>0, <2>1, <3>2, <3>3, <3>4, RefreshAnswered
  <2>2. CASE /\ issued' = n /\ refreshable' = rotated /\ UNCHANGED credential
             /\ requests' = [requests EXCEPT ![r].stage = "failed", ![r].lost = TRUE]
    <3> DEFINE request == [requests[r] EXCEPT !.stage = "failed", !.lost = TRUE]
    <3>2. /\ request \in TokenRequest /\ request.stage = "failed" /\ ~request.refused /\ request.lost
          /\ request.from = requests[r].from
      BY <1>0, <2>0 DEF TokenRequest
    <3>3. requests' = [requests EXCEPT ![r] = request] BY <2>2 DEF TokensInv
    <3> HIDE DEF request
    <3> QED BY <2>0, <2>2, <3>2, <3>3, RefreshAnswered
  <2>3. CASE /\ requests' = [requests EXCEPT ![r] = Client!Fail(r)]
             /\ UNCHANGED <<credential, valid, refreshable, issued>>
    <3> DEFINE request == Client!Fail(r)
    <3>1. request \in TokenRequest /\ request.stage = "failed" /\ ~request.refused /\ ~request.lost
      BY <1>0, <2>0 DEF Client!Fail, TokenRequest
    <3>2. requests' = [requests EXCEPT ![r] = request] BY <2>3
    <3> HIDE DEF request
    <3> QED BY <2>0, <2>3, <3>1, <3>2, TokenRequestStep
  <2>4. CASE /\ requests[r].from \notin refreshable
             /\ requests' = [requests EXCEPT ![r].stage = "failed", ![r].refused = TRUE]
             /\ UNCHANGED <<credential, valid, refreshable, issued>>
    BY <2>0, <2>4, RefreshRefused
  <2> QED BY <1>9, <2>n, <2>1, <2>2, <2>3, <2>4 DEF Client!Refreshed, Client!Issue
<1>10. ASSUME NEW r \in Calls, Client!ResponseAgain(r)
       PROVE  TokensInv'
  <2>1. PICK stage \in {"done", "failed"} :
          requests' = [requests EXCEPT ![r] = [requests[r] EXCEPT !.stage = stage]]
    BY <1>10 DEF Client!ResponseAgain, Client!Fail, TokensInv
  <2> DEFINE request == [requests[r] EXCEPT !.stage = stage]
  <2>0. requests[r].stage = "resent" BY <1>10 DEF Client!ResponseAgain
  <2>2. request \in TokenRequest /\ request.stage = stage /\ ~request.refused /\ ~request.lost
    BY <1>0, <2>0 DEF TokenRequest
  <2>3. requests' = [requests EXCEPT ![r] = request] BY <2>1
  <2> HIDE DEF request
  <2>4. UNCHANGED <<credential, refreshable, issued, doubled>> BY <1>10 DEF Client!ResponseAgain
  <2> QED BY <2>0, <2>2, <2>3, <2>4, TokenRequestStep
<1> QED
  BY <1>1, <1>2, <1>3, <1>4, <1>5, <1>6, <1>7, <1>8, <1>9, <1>10 DEF Client!Tokens

(* A refresh is refused by the token endpoint only when its token was in   *)
(* the hands of two refreshes at a time, or when the answer to another     *)
(* refresh with the token was lost.                                        *)
THEOREM RefusedOnlyDoubled == ClientSpec => []RefusedIfDoubled
<1>1. TokensInv => RefusedIfDoubled
  BY DEF TokensInv, LostTokens, RefusedIfDoubled, Client!RefusedIfDoubled
<1>2. TokensInv /\ [Client!Tokens \/ Client!Subscribing]_(Client!vars) => TokensInv' BY TokensStep
<1> QED BY TokensInit, <1>1, <1>2, PTL DEF ClientSpec

SubType ==
    [stage : {"unused", "head", "connecting", "get", "registered", "listening", "ended"},
     kind : {None, "longpoll", "sse"}, href : Hrefs \cup {None},
     settled : {"no", "resolved", "rejected"}, closed : BOOLEAN, failed : BOOLEAN, events : Nat,
     undone : BOOLEAN, before : [Subscriptions -> SUBSET {"closed", "undone"}]]

(* What is polled, or has delivered something, was established before.     *)
SubOK(sub) ==
    /\ sub \in SubType
    /\ (sub.stage = "unused") <=> (sub.href = None)
    /\ sub.stage = "unused" => sub.settled = "no" /\ sub.events = 0 /\ ~sub.closed
    /\ sub.closed => sub.stage = "ended"
    /\ sub.stage \in {"get", "registered", "listening"} \/ sub.events > 0 => sub.settled # "no"

(* What was established and goes on is the active one of its href, or has  *)
(* been displaced; and what is active is one of that href.                 *)
SubsInv ==
    /\ subs \in [Subscriptions -> SubType]
    /\ active \in [Hrefs -> Subscriptions \cup {None}]
    /\ \A s \in Subscriptions : SubOK(subs[s])
    /\ \A s, x \in Subscriptions : subs[s].before[x] \subseteq Client!Ends(x)
    /\ \A s \in Subscriptions :
         subs[s].settled = "resolved" /\ subs[s].stage # "ended"
           => active[subs[s].href] = s \/ Client!Displaced(s)
    /\ \A h \in Hrefs : active[h] # None =>
         /\ subs[active[h]].href = h
         /\ subs[active[h]].settled = "resolved" /\ ~subs[active[h]].closed

LEMMA SubsInit == Client!Init => SubsInv
BY BindingsAssumption
   DEF Client!Init, Client!NewSubscription, SubsInv, SubType, SubOK

LEMMA SubsUnchanged ==
    ASSUME SubsInv, UNCHANGED <<subs, active>>
    PROVE  SubsInv'
BY DEF SubsInv, SubOK, Client!Displaced, Client!Ends

LEMMA ClosedEnds ==
    ASSUME NEW x
    PROVE  /\ subs[x].closed <=> "closed" \in Client!Ends(x)
           /\ subs[x].undone <=> "undone" \in Client!Ends(x)
           /\ Client!Ends(x) \subseteq {"closed", "undone"}
BY DEF Client!Ends

(* Who was displaced remains so: what had the entry has it still, or has   *)
(* been closed.                                                            *)
LEMMA DisplacedKept ==
    ASSUME SubsInv, NEW s \in Subscriptions, Client!Displaced(s), subs[s].href \in Hrefs,
           subs'[s].href = subs[s].href, subs'[s].before = subs[s].before,
           \A x \in Subscriptions : subs[x].href = subs[s].href =>
              /\ subs'[x].href = subs[x].href
              /\ Client!Ends(x) \subseteq Client!Ends(x)'
              /\ active[subs[s].href] = x
                   => active'[subs[s].href] = x \/ "closed" \in Client!Ends(x)'
    PROVE  Client!Displaced(s)'
<1>1. PICK x \in Subscriptions \ {s} :
        /\ subs[x].href = subs[s].href
        /\ active[subs[s].href] = x \/ ~(Client!Ends(x) \subseteq subs[s].before[x])
  BY DEF Client!Displaced
<1>2. subs'[x].href = subs'[s].href BY <1>1
<1>3. CASE active[subs[s].href] = x
  <2>1. x # None BY BindingsAssumption, <1>1
  <2>2. "closed" \notin subs[s].before[x]
    <3>1. ~subs[x].closed BY <1>3, <2>1 DEF SubsInv
    <3>2. subs[s].before[x] \subseteq Client!Ends(x) BY <1>1 DEF SubsInv
    <3> QED BY <3>1, <3>2, ClosedEnds
  <2>3. active'[subs[s].href] = x \/ "closed" \in Client!Ends(x)' BY <1>1, <1>3
  <2> QED BY <1>1, <1>2, <2>2, <2>3 DEF Client!Displaced
<1>4. CASE ~(Client!Ends(x) \subseteq subs[s].before[x])
  <2>1. ~(Client!Ends(x)' \subseteq subs'[s].before[x]) BY <1>1, <1>4
  <2> QED BY <1>1, <1>2, <2>1 DEF Client!Displaced
<1> QED BY <1>1, <1>3, <1>4

(* One subscription goes on, without becoming established or being closed. *)
LEMMA OneSubStep ==
    ASSUME SubsInv, NEW s \in Subscriptions, NEW sub, SubOK(sub),
           subs' = [subs EXCEPT ![s] = sub], UNCHANGED active,
           sub.href = subs[s].href \/ subs[s].href = None,
           sub.closed = subs[s].closed, sub.undone = subs[s].undone, sub.before = subs[s].before,
           (sub.settled = "resolved") <=> (subs[s].settled = "resolved"),
           sub.stage # "ended" => subs[s].stage # "ended"
    PROVE  SubsInv'
<1> USE BindingsAssumption
<1>1. /\ subs' \in [Subscriptions -> SubType] /\ subs'[s] = sub
      /\ \A x \in Subscriptions : x # s => subs'[x] = subs[x]
  BY DEF SubsInv, SubOK
<1>2. \A x \in Subscriptions : subs[x].href # None => subs'[x].href = subs[x].href BY <1>1
<1>3. \A x \in Subscriptions : SubOK(subs'[x]) BY <1>1 DEF SubsInv
<1>4. \A x \in Subscriptions : /\ subs'[x].before = subs[x].before
                               /\ Client!Ends(x)' = Client!Ends(x)
  BY <1>1 DEF Client!Ends
<1>5. ASSUME NEW x \in Subscriptions, subs'[x].settled = "resolved", subs'[x].stage # "ended"
      PROVE  active'[subs'[x].href] = x \/ Client!Displaced(x)'
  <2>1. subs[x].settled = "resolved" /\ subs[x].stage # "ended" BY <1>1, <1>5
  <2>2. subs[x].href # None /\ subs[x].href \in Hrefs BY <2>1 DEF SubsInv, SubOK, SubType
  <2>3. subs'[x].href = subs[x].href BY <1>2, <2>2
  <2>4. CASE Client!Displaced(x) BY <1>2, <1>4, <2>2, <2>3, <2>4, DisplacedKept
  <2> QED BY <2>1, <2>3, <2>4 DEF SubsInv
<1>6. \A h \in Hrefs : active[h] # None =>
         /\ subs'[active[h]].href = h
         /\ subs'[active[h]].settled = "resolved" /\ ~subs'[active[h]].closed
  BY <1>1, <1>2 DEF SubsInv
<1>7. \A x, y \in Subscriptions : subs'[x].before[y] \subseteq Client!Ends(y)'
  BY <1>4 DEF SubsInv
<1> QED BY <1>1, <1>3, <1>5, <1>6, <1>7 DEF SubsInv

LEMMA CloseEffect ==
    ASSUME SubsInv, NEW s \in Subscriptions, subs[s].stage # "unused"
    PROVE  LET sub == Client!Close(s)
               done == [sub EXCEPT !.undone = TRUE]
           IN  /\ SubOK(sub) /\ sub.href = subs[s].href /\ sub.stage = "ended" /\ sub.closed
               /\ sub.undone = subs[s].undone /\ sub.before = subs[s].before
               /\ SubOK(done) /\ done.href = subs[s].href /\ done.stage = "ended" /\ done.closed
               /\ done.undone /\ done.before = subs[s].before
<1>1. SubOK(subs[s]) BY DEF SubsInv
<1>2. PICK failed \in BOOLEAN : failed = (subs[s].failed \/ subs[s].kind = "longpoll")
  OBVIOUS
<1> DEFINE sub == [subs[s] EXCEPT !.closed = TRUE, !.stage = "ended", !.failed = failed]
           done == [sub EXCEPT !.undone = TRUE]
<1>3. Client!Close(s) = sub BY <1>2 DEF Client!Close
<1>4. /\ sub \in SubType /\ sub.href = subs[s].href /\ sub.stage = "ended" /\ sub.closed
      /\ sub.settled = subs[s].settled /\ sub.events = subs[s].events
      /\ sub.undone = subs[s].undone /\ sub.before = subs[s].before
  BY <1>1 DEF SubOK, SubType
<1> HIDE DEF sub
<1>5. /\ done \in SubType /\ done.href = sub.href /\ done.stage = "ended" /\ done.closed
      /\ done.settled = sub.settled /\ done.events = sub.events
      /\ done.undone /\ done.before = sub.before
  BY <1>4 DEF SubType
<1> HIDE DEF done
<1>6. SubOK(sub) /\ SubOK(done) BY <1>1, <1>4, <1>5 DEF SubOK
<1> QED BY <1>3, <1>4, <1>5, <1>6 DEF done

(* The entry of an href goes with a subscription to it that is closed, or  *)
(* that was closed and is ended again: whose entry is taken is displaced.  *)
LEMMA EndedStep ==
    ASSUME SubsInv, NEW h \in Hrefs, NEW s \in Subscriptions, subs[s].href = h,
           NEW sub, SubOK(sub), sub.href = h, sub.stage = "ended", sub.closed,
           subs[s].undone => sub.undone, sub.before = subs[s].before,
           ~subs[s].closed \/ (sub.undone /\ ~subs[s].undone),
           subs' = [subs EXCEPT ![s] = sub], active' = [active EXCEPT ![h] = None]
    PROVE  SubsInv'
<1> USE BindingsAssumption
<1>1. /\ subs' \in [Subscriptions -> SubType] /\ subs'[s] = sub
      /\ \A x \in Subscriptions : x # s => subs'[x] = subs[x]
      /\ active' \in [Hrefs -> Subscriptions \cup {None}] /\ active'[h] = None
      /\ \A g \in Hrefs : g # h => active'[g] = active[g]
  BY DEF SubsInv, SubOK
<1>2. \A x \in Subscriptions : subs'[x].href = subs[x].href /\ subs'[x].before = subs[x].before
  BY <1>1
<1>3. \A x \in Subscriptions : SubOK(subs'[x]) BY <1>1 DEF SubsInv
<1>4. /\ \A x \in Subscriptions : Client!Ends(x) \subseteq Client!Ends(x)'
      /\ ~(Client!Ends(s)' \subseteq Client!Ends(s))
  BY <1>1 DEF Client!Ends
<1>5. ASSUME NEW x \in Subscriptions, subs'[x].settled = "resolved", subs'[x].stage # "ended"
      PROVE  active'[subs'[x].href] = x \/ Client!Displaced(x)'
  <2>1. x # s /\ subs'[x] = subs[x] BY <1>1, <1>5
  <2>2. CASE subs[x].href = h
    <3>1. subs[x].before[s] \subseteq Client!Ends(s) BY DEF SubsInv
    <3>2. ~(Client!Ends(s)' \subseteq subs'[x].before[s]) BY <1>2, <1>4, <3>1
    <3> QED BY <1>2, <2>1, <2>2, <3>2 DEF Client!Displaced
  <2>3. CASE subs[x].href # h
    <3>1. subs[x].href \in Hrefs
      BY <1>5, <2>1 DEF SubsInv, SubOK, SubType
    <3>2. active'[subs[x].href] = active[subs[x].href] BY <1>1, <2>3, <3>1
    <3>3. CASE Client!Displaced(x) BY <1>2, <1>4, <3>1, <3>2, <3>3, DisplacedKept
    <3> QED BY <1>5, <2>1, <3>2, <3>3 DEF SubsInv
  <2> QED BY <2>2, <2>3
<1>6. \A g \in Hrefs : active'[g] # None =>
         /\ subs'[active'[g]].href = g
         /\ subs'[active'[g]].settled = "resolved" /\ ~subs'[active'[g]].closed
  <2> SUFFICES ASSUME NEW g \in Hrefs, active'[g] # None
               PROVE  /\ subs'[active'[g]].href = g
                      /\ subs'[active'[g]].settled = "resolved" /\ ~subs'[active'[g]].closed
    OBVIOUS
  <2>1. g # h /\ active'[g] = active[g] /\ active[g] \in Subscriptions BY <1>1
  <2>2. active[g] # s BY <2>1 DEF SubsInv
  <2> QED BY <1>1, <2>1, <2>2 DEF SubsInv
<1>7. \A x, y \in Subscriptions : subs'[x].before[y] \subseteq Client!Ends(y)'
  BY <1>2, <1>4 DEF SubsInv
<1> QED BY <1>1, <1>3, <1>5, <1>6, <1>7 DEF SubsInv

(* open() resolves for the first time: the entry is of this one, and the   *)
(* one that had it is displaced.                                           *)
LEMMA EstablishedStep ==
    ASSUME SubsInv, NEW s \in Subscriptions, subs[s].href \in Hrefs, ~subs[s].closed,
           subs[s].settled = "no",
           NEW sub, SubOK(sub), sub.href = subs[s].href, sub.settled = "resolved", ~sub.closed,
           sub.undone = subs[s].undone, sub.before = [x \in Subscriptions |-> Client!Ends(x)],
           subs' = [subs EXCEPT ![s] = sub], active' = [active EXCEPT ![subs[s].href] = s]
    PROVE  SubsInv'
<1> USE BindingsAssumption
<1> DEFINE h == subs[s].href
<1>1. /\ subs' \in [Subscriptions -> SubType] /\ subs'[s] = sub
      /\ \A x \in Subscriptions : x # s => subs'[x] = subs[x]
      /\ active' \in [Hrefs -> Subscriptions \cup {None}] /\ active'[h] = s
      /\ \A g \in Hrefs : g # h => active'[g] = active[g]
  BY DEF SubsInv, SubOK
<1>2. \A x \in Subscriptions : subs'[x].href = subs[x].href BY <1>1
<1>3. \A x \in Subscriptions : SubOK(subs'[x]) BY <1>1 DEF SubsInv
<1>4. \A x \in Subscriptions : Client!Ends(x)' = Client!Ends(x) BY <1>1 DEF Client!Ends
<1>5. ASSUME NEW x \in Subscriptions, subs'[x].settled = "resolved", subs'[x].stage # "ended"
      PROVE  active'[subs'[x].href] = x \/ Client!Displaced(x)'
  <2>1. CASE x = s BY <1>1, <2>1
  <2>2. CASE x # s /\ subs[x].href = h
    BY <1>1, <1>2, <2>2 DEF Client!Displaced
  <2>3. CASE x # s /\ subs[x].href # h
    <3>1. subs[x].href \in Hrefs /\ subs'[x] = subs[x]
      BY <1>1, <1>5, <2>3 DEF SubsInv, SubOK, SubType
    <3>2. active'[subs[x].href] = active[subs[x].href] BY <1>1, <2>3, <3>1
    <3>3. CASE Client!Displaced(x) BY <1>2, <1>4, <3>1, <3>2, <3>3, DisplacedKept
    <3> QED BY <1>5, <3>1, <3>2, <3>3 DEF SubsInv
  <2> QED BY <2>1, <2>2, <2>3
<1>6. \A g \in Hrefs : active'[g] # None =>
        /\ subs'[active'[g]].href = g
        /\ subs'[active'[g]].settled = "resolved" /\ ~subs'[active'[g]].closed
  <2> SUFFICES ASSUME NEW g \in Hrefs, active'[g] # None
               PROVE  /\ subs'[active'[g]].href = g
                      /\ subs'[active'[g]].settled = "resolved" /\ ~subs'[active'[g]].closed
    OBVIOUS
  <2>1. CASE g = h BY <1>1, <2>1
  <2>2. CASE g # h
    <3>1. active'[g] = active[g] /\ active[g] \in Subscriptions BY <1>1, <2>2
    <3>2. active[g] # s BY <2>2, <3>1 DEF SubsInv
    <3> QED BY <1>1, <3>1, <3>2 DEF SubsInv
  <2> QED BY <2>1, <2>2
<1>7. \A x, y \in Subscriptions : subs'[x].before[y] \subseteq Client!Ends(y)'
  <2> SUFFICES ASSUME NEW x \in Subscriptions, NEW y \in Subscriptions
               PROVE  subs'[x].before[y] \subseteq Client!Ends(y)
    BY <1>4
  <2>1. CASE x = s BY <1>1, <2>1
  <2>2. CASE x # s BY <1>1, <2>2 DEF SubsInv
  <2> QED BY <2>1, <2>2
<1> QED BY <1>1, <1>3, <1>5, <1>6, <1>7 DEF SubsInv

LEMMA SubsStep ==
    ASSUME SubsInv, [Client!Tokens \/ Client!Subscribing]_(Client!vars)
    PROVE  SubsInv'
<1> USE BindingsAssumption
<1>0. \A s \in Subscriptions : SubOK(subs[s]) /\ subs[s] \in SubType BY DEF SubsInv
<1>1. CASE UNCHANGED Client!vars BY <1>1, SubsUnchanged DEF Client!vars
<1>2. CASE Client!Tokens
  BY <1>2, SubsUnchanged
     DEF Client!Tokens, Client!SetSecurity, Client!FirstToken, Client!Expire, Client!Request,
         Client!TuyaToken, Client!Response, Client!Refreshed, Client!ResponseAgain, Client!subVars
<1>3. ASSUME NEW s \in Subscriptions, NEW h \in Hrefs, NEW kind \in {"longpoll", "sse"},
             Client!Subscribe(s, h, kind)
      PROVE  SubsInv'
  <2>1. PICK stage \in {"head", "connecting"} :
          subs' = [subs EXCEPT ![s].stage = stage, ![s].kind = kind, ![s].href = h]
    BY <1>3 DEF Client!Subscribe
  <2> DEFINE sub == [subs[s] EXCEPT !.stage = stage, !.kind = kind, !.href = h]
  <2>2. subs[s].stage = "unused" /\ UNCHANGED active BY <1>3 DEF Client!Subscribe
  <2>3. /\ sub \in SubType /\ sub.stage = stage /\ sub.href = h
        /\ sub.settled = "no" /\ sub.events = 0 /\ ~sub.closed
        /\ sub.undone = subs[s].undone /\ sub.before = subs[s].before
    <3>1. sub \in SubType BY <1>0, ZenonT(40) DEF SubType
    <3>2. /\ sub.stage = stage /\ sub.href = h
          /\ sub.undone = subs[s].undone /\ sub.before = subs[s].before
      BY <1>0 DEF SubType
    <3>3. subs[s].settled = "no" /\ subs[s].events = 0 /\ ~subs[s].closed
      BY <1>0, <2>2 DEF SubOK
    <3> QED BY <3>1, <3>2, <3>3
  <2>4. subs' = [subs EXCEPT ![s] = sub] BY <2>1 DEF SubsInv
  <2> HIDE DEF sub
  <2>5. SubOK(sub) BY <2>3 DEF SubOK
  <2>6. subs[s].href = None /\ subs[s].settled = "no" /\ subs[s].closed = sub.closed
    BY <1>0, <2>2, <2>3 DEF SubOK, SubType
  <2> QED BY <2>2, <2>3, <2>4, <2>5, <2>6, OneSubStep
<1>4. ASSUME NEW s \in Subscriptions, Client!Opened(s)
      PROVE  SubsInv'
  <2>0. subs[s].stage \in {"head", "connecting"} BY <1>4 DEF Client!Opened
  <2>d. DOMAIN subs = Subscriptions BY DEF SubsInv
  <2>1. PICK stage \in {"get", "listening"} :
          stage = IF subs[s].stage = "head" THEN "get" ELSE "listening"
    OBVIOUS
  <2>2. ~subs[s].closed /\ subs[s].href # None /\ subs[s].href \in Hrefs
    BY <1>0, <2>0 DEF SubOK, SubType
  <2>3. CASE subs[s].settled # "no"
    <3> DEFINE sub == [subs[s] EXCEPT !.stage = stage]
    <3>1. subs' = [subs EXCEPT ![s] = sub] /\ UNCHANGED active
      <4>1. subs' = [subs EXCEPT ![s] = [subs[s] EXCEPT !.stage = stage, !.settled = subs[s].settled,
                                                        !.before = subs[s].before]]
        BY <1>4, <2>1, <2>3, <2>d DEF Client!Opened
      <4>2. [subs[s] EXCEPT !.stage = stage, !.settled = subs[s].settled, !.before = subs[s].before]
              = sub
        BY <1>0 DEF SubType
      <4> QED BY <1>4, <2>3, <4>1, <4>2 DEF Client!Opened
    <3>2. /\ sub \in SubType /\ sub.stage = stage /\ sub.href = subs[s].href
          /\ sub.settled = subs[s].settled /\ sub.closed = subs[s].closed
          /\ sub.undone = subs[s].undone /\ sub.before = subs[s].before /\ sub.events = subs[s].events
      BY <1>0 DEF SubType
    <3> HIDE DEF sub
    <3>3. SubOK(sub) BY <1>0, <2>2, <2>3, <3>2 DEF SubOK
    <3> QED BY <2>0, <3>1, <3>2, <3>3, OneSubStep
  <2>4. CASE subs[s].settled = "no"
    <3> DEFINE before == [x \in Subscriptions |-> Client!Ends(x)]
               sub == [subs[s] EXCEPT !.stage = stage, !.settled = "resolved", !.before = before]
    <3>0. before \in [Subscriptions -> SUBSET {"closed", "undone"}] BY ClosedEnds
    <3>1. subs' = [subs EXCEPT ![s] = sub] /\ active' = [active EXCEPT ![subs[s].href] = s]
      BY <1>4, <2>1, <2>4, <2>d DEF Client!Opened
    <3> HIDE DEF before
    <3>2. /\ sub \in SubType /\ sub.stage = stage /\ sub.href = subs[s].href
          /\ sub.settled = "resolved" /\ sub.closed = subs[s].closed
          /\ sub.undone = subs[s].undone /\ sub.before = before /\ sub.events = subs[s].events
      BY <1>0, <3>0 DEF SubType
    <3> HIDE DEF sub
    <3>3. SubOK(sub) BY <1>0, <2>2, <3>2 DEF SubOK
    <3> QED BY <2>2, <2>4, <3>1, <3>2, <3>3, EstablishedStep DEF before
  <2> QED BY <2>3, <2>4
<1>5. ASSUME NEW s \in Subscriptions,
             Client!Arrives(s) \/ Client!Event(s) \/ Client!Breaks(s)
      PROVE  SubsInv'
  <2>0. DOMAIN subs = Subscriptions /\ SubOK(subs[s]) BY <1>0 DEF SubsInv
  <2>1. UNCHANGED active BY <1>5 DEF Client!Arrives, Client!Event, Client!Breaks
  <2>3. CASE Client!Arrives(s)
    <3> DEFINE sub == [subs[s] EXCEPT !.stage = "registered"]
    <3>1. subs' = [subs EXCEPT ![s] = sub] /\ subs[s].stage = "get"
      BY <2>0, <2>3 DEF Client!Arrives
    <3>2. /\ sub \in SubType /\ sub.stage = "registered" /\ sub.href = subs[s].href
          /\ sub.undone = subs[s].undone /\ sub.before = subs[s].before
          /\ sub.settled = subs[s].settled /\ sub.closed = subs[s].closed
      BY <1>0 DEF SubType
    <3> HIDE DEF sub
    <3>3. SubOK(sub) BY <2>0, <3>1, <3>2 DEF SubOK
    <3> QED BY <2>1, <3>1, <3>2, <3>3, OneSubStep
  <2>4. CASE Client!Event(s)
    <3>0. PICK stage \in {"get", "listening"} :
            subs' = [subs EXCEPT ![s].events = @ + 1, ![s].stage = stage]
      BY <2>0, <2>4 DEF Client!Event, Client!NextPoll
    <3>n. PICK n \in Nat : n = subs[s].events + 1 BY <1>0 DEF SubType
    <3> DEFINE sub == [subs[s] EXCEPT !.events = n, !.stage = stage]
    <3>1. subs' = [subs EXCEPT ![s] = sub] /\ subs[s].stage \in {"registered", "listening"}
      BY <2>0, <2>4, <3>0, <3>n DEF Client!Event
    <3>2. /\ sub \in SubType /\ sub.stage = stage /\ sub.href = subs[s].href
          /\ sub.undone = subs[s].undone /\ sub.before = subs[s].before
          /\ sub.settled = subs[s].settled /\ sub.closed = subs[s].closed
      BY <1>0 DEF SubType
    <3> HIDE DEF sub
    <3>3. SubOK(sub) BY <2>0, <3>1, <3>2 DEF SubOK
    <3> QED BY <2>1, <3>1, <3>2, <3>3, OneSubStep
  <2>5. CASE Client!Breaks(s)
    <3>0. PICK stage \in {"ended", "connecting"}, settled \in {"resolved", "rejected"} :
            /\ subs' = [subs EXCEPT ![s].stage = stage, ![s].failed = TRUE, ![s].settled = settled]
            /\ settled = IF subs[s].settled = "no" THEN "rejected" ELSE subs[s].settled
      <4>1. subs[s].settled \in {"no", "resolved", "rejected"} BY <1>0 DEF SubType
      <4> QED BY <2>0, <2>5, <4>1 DEF Client!Breaks
    <3> DEFINE sub == [subs[s] EXCEPT !.stage = stage, !.failed = TRUE, !.settled = settled]
    <3>1. /\ subs' = [subs EXCEPT ![s] = sub]
          /\ subs[s].stage \in {"head", "get", "registered", "connecting", "listening"}
      BY <2>0, <2>5, <3>0 DEF Client!Breaks
    <3>2. /\ sub \in SubType /\ sub.stage = stage /\ sub.href = subs[s].href
          /\ sub.undone = subs[s].undone /\ sub.before = subs[s].before
          /\ sub.settled = settled /\ sub.closed = subs[s].closed
      <4>1. sub \in SubType BY <1>0, ZenonT(40) DEF SubType
      <4>2. sub.stage = stage /\ sub.settled = settled BY <1>0 DEF SubType
      <4> QED BY <4>1, <4>2
    <3> HIDE DEF sub
    <3>3. SubOK(sub) BY <2>0, <3>0, <3>1, <3>2 DEF SubOK
    <3>4. /\ (sub.settled = "resolved") <=> (subs[s].settled = "resolved")
          /\ sub.stage # "ended" => subs[s].stage # "ended"
      BY <3>0, <3>1, <3>2
    <3> QED BY <2>1, <3>1, <3>2, <3>3, <3>4, OneSubStep
  <2> QED BY <1>5, <2>3, <2>4, <2>5
<1>6. ASSUME NEW s \in Subscriptions, Client!Unsubscribe(s)
      PROVE  SubsInv'
  <2>1. subs[s].settled = "resolved" /\ subs[s].stage # "unused" /\ ~subs[s].undone
    BY <1>0, <1>6 DEF Client!Unsubscribe, SubOK
  <2>2. PICK h \in Hrefs : h = subs[s].href BY <1>0, <2>1 DEF SubOK, SubType
  <2>3. PICK sub : /\ sub = [Client!Close(s) EXCEPT !.undone = TRUE]
                   /\ SubOK(sub) /\ sub.href = h /\ sub.stage = "ended" /\ sub.closed
                   /\ sub.undone /\ sub.before = subs[s].before
    BY <2>1, <2>2, CloseEffect
  <2>4. subs' = [subs EXCEPT ![s] = sub] /\ active' = [active EXCEPT ![h] = None]
    BY <1>6, <2>2, <2>3 DEF Client!Unsubscribe
  <2> QED BY <2>1, <2>2, <2>3, <2>4, EndedStep
<1>7. ASSUME NEW h \in Hrefs, Client!UnlinkResource(h)
      PROVE  SubsInv'
  <2>1. PICK s \in Subscriptions : /\ s = active[h] /\ subs[s].href = h
                                   /\ subs[s].stage # "unused" /\ ~subs[s].closed
    BY <1>0, <1>7 DEF Client!UnlinkResource, SubsInv, SubOK
  <2> DEFINE sub == Client!Close(s)
  <2>2. /\ SubOK(sub) /\ sub.href = h /\ sub.stage = "ended"
        /\ sub.closed /\ sub.undone = subs[s].undone /\ sub.before = subs[s].before
    BY <2>1, CloseEffect
  <2>3. subs' = [subs EXCEPT ![s] = sub] /\ active' = [active EXCEPT ![h] = None]
    BY <1>7, <2>1 DEF Client!UnlinkResource, Client!Unlinked
  <2> HIDE DEF sub
  <2> QED BY <2>1, <2>2, <2>3, EndedStep
<1>8. CASE Client!Stop
  <2>1. ASSUME NEW s \in Subscriptions
        PROVE  \/ subs'[s] = subs[s] /\ \A h \in Hrefs : active[h] # s
               \/ /\ SubOK(subs'[s]) /\ subs'[s].href = subs[s].href /\ subs'[s].stage = "ended"
                  /\ subs'[s].closed /\ subs'[s].undone = subs[s].undone
                  /\ subs'[s].before = subs[s].before
    <3>1. CASE \E h \in Hrefs : active[h] = s
      <4>1. subs[s].stage # "unused" BY <1>0, <3>1 DEF SubsInv, SubOK
      <4>2. subs'[s] = Client!Close(s) BY <1>8, <3>1 DEF Client!Stop
      <4> QED BY <4>1, <4>2, CloseEffect
    <3>2. CASE ~ \E h \in Hrefs : active[h] = s BY <1>8, <3>2 DEF Client!Stop
    <3> QED BY <3>1, <3>2
  <2>2. /\ subs' = [s \in Subscriptions |-> subs'[s]] /\ active' = [h \in Hrefs |-> None]
    BY <1>8 DEF Client!Stop
  <2>3. \A s \in Subscriptions : /\ SubOK(subs'[s]) /\ subs'[s].href = subs[s].href
                                 /\ subs'[s].before = subs[s].before
    BY <1>0, <2>1
  <2>4. subs' \in [Subscriptions -> SubType] BY <2>2, <2>3 DEF SubOK
  <2>5. \A s \in Subscriptions :
          /\ Client!Ends(s) \subseteq Client!Ends(s)'
          /\ (\E h \in Hrefs : active[h] = s) => "closed" \in Client!Ends(s)'
    <3> TAKE s \in Subscriptions
    <3>1. CASE subs'[s] = subs[s] /\ \A h \in Hrefs : active[h] # s BY <3>1 DEF Client!Ends
    <3>2. CASE subs'[s].closed /\ subs'[s].undone = subs[s].undone BY <3>2 DEF Client!Ends
    <3> QED BY <2>1, <3>1, <3>2
  <2>6. ASSUME NEW s \in Subscriptions, subs'[s].settled = "resolved", subs'[s].stage # "ended"
        PROVE  Client!Displaced(s)'
    <3>1. subs'[s] = subs[s] /\ \A h \in Hrefs : active[h] # s BY <2>1, <2>6
    <3>2. subs[s].href \in Hrefs BY <1>0, <2>6, <3>1 DEF SubOK, SubType
    <3>3. Client!Displaced(s) BY <2>6, <3>1, <3>2 DEF SubsInv
    <3> QED BY <2>3, <2>5, <3>2, <3>3, DisplacedKept
  <2>7. \A x, y \in Subscriptions : subs'[x].before[y] \subseteq Client!Ends(y)'
    BY <2>3, <2>5 DEF SubsInv
  <2> QED BY <2>2, <2>3, <2>4, <2>6, <2>7 DEF SubsInv
<1> QED
  BY <1>1, <1>2, <1>3, <1>4, <1>5, <1>6, <1>7, <1>8 DEF Client!Subscribing

(* A subscription that delivers events and goes on is the active one of    *)
(* its href, but for the cases that are named; and what is active has been *)
(* established and not closed.                                             *)
THEOREM OpenIsActive == ClientSpec => []ActiveIffOpen
<1>1. SubsInv => ActiveIffOpen
  <2> SUFFICES ASSUME SubsInv PROVE Client!ActiveIffOpen BY DEF ActiveIffOpen
  <2>1. ASSUME NEW s \in Subscriptions, subs[s].events > 0, subs[s].stage # "ended"
        PROVE  active[subs[s].href] = s \/ Client!Displaced(s) \/ subs[s].settled = "rejected"
    <3>1. SubOK(subs[s]) BY DEF SubsInv
    <3>2. subs[s].settled \in {"resolved", "rejected"}
      BY <2>1, <3>1 DEF SubOK, SubType
    <3> QED BY <2>1, <3>2 DEF SubsInv
  <2> QED BY <2>1 DEF Client!ActiveIffOpen, SubsInv
<1>2. SubsInv /\ [Client!Tokens \/ Client!Subscribing]_(Client!vars) => SubsInv' BY SubsStep
<1> QED BY SubsInit, <1>1, <1>2, PTL DEF ClientSpec

-----------------------------------------------------------------------------
(* The connections of the OPC UA client                                    *)

ConnectionType ==
    [endpoint : Endpoints, stage : {"opening", "open", "failed", "closed"}, late : BOOLEAN]

OpcuaCallType ==
    [stage : {"unused", "connecting", "resolving", "monitoring", "active", "ended", "done", "thrown"},
     kind : {None, "use", "subscribe", "unlink"}, endpoint : Endpoints \cup {None},
     node : Nodes \cup {None}, waits : Nat \cup {None}, on : Nat \cup {None}]

OpcuaCallOK(call) ==
    /\ call \in OpcuaCallType
    /\ call.stage = "unused" => call.node = None
    /\ call.stage # "unused" => call.endpoint \in Endpoints /\ call.node \in Nodes

Listed(k, left) == \E i \in DOMAIN left : left[i] = k

(* What stop() may still close: a connection that is there or comes, and   *)
(* that was asked for in time.                                             *)
InTime(connection) == connection.stage \in {"opening", "open"} /\ ~connection.late

(* Such a connection is cached, and while stop() is under way it is on its *)
(* list, and it is open when stop() begins to close what is on it.         *)
ConnectionsInv ==
    /\ connections \in Seq(ConnectionType)
    /\ cached \in [Endpoints -> Nat \cup {None}]
    /\ opcuaCalls \in [OpcuaCalls -> OpcuaCallType]
    /\ \A c \in OpcuaCalls : OpcuaCallOK(opcuaCalls[c])
    /\ stopping \in [stage : {"no", "waiting", "closing"}, left : Seq(Nat)]
    /\ \A e \in Endpoints : cached[e] # None =>
         cached[e] \in DOMAIN connections /\ connections[cached[e]].endpoint = e
    /\ \A k \in DOMAIN connections : InTime(connections[k]) =>
         /\ cached[connections[k].endpoint] = k
         /\ stopping.stage # "no" => Listed(k, stopping.left)
         /\ stopping.stage = "closing" => connections[k].stage = "open"

LEMMA SetToSeqLists ==
    ASSUME NEW S \in SUBSET Nat, IsFiniteSet(S)
    PROVE  /\ Opcua!SetToSeq(S) \in Seq(Nat)
           /\ \A k \in S : Listed(k, Opcua!SetToSeq(S))
<1> DEFINE D == 1 .. Cardinality(S)
           f == Opcua!SetToSeq(S)
<1>1. Cardinality(S) \in Nat /\ ExistsBijection(D, S) BY FS_CardinalityType
<1>2. \E g \in [D -> S] : Opcua!IsInjective(g)
  BY <1>1 DEF ExistsBijection, Bijection, Injection, IsInjective, Opcua!IsInjective
<1>c. Opcua!Cardinality(S) = Cardinality(S) BY DEF Opcua!Cardinality, Cardinality
<1>3. f \in [D -> S] /\ Opcua!IsInjective(f) BY <1>2, <1>c DEF Opcua!SetToSeq
<1>4. f \in Injection(D, S) BY <1>3 DEF Injection, IsInjective, Opcua!IsInjective
<1>5. Cardinality(D) = Cardinality(S) BY <1>1, FS_Interval
<1>6. f \in Surjection(D, S)
  <2> HIDE DEF f, D
  <2> QED BY <1>4, <1>5, FS_Injection
<1> HIDE DEF f
<1>7. f \in Seq(Nat)
  <2>1. PICK n \in Nat : n = Cardinality(S) BY <1>1
  <2>2. f \in [1 .. n -> Nat] BY <1>3, <2>1
  <2> QED BY <2>2
<1>8. \A k \in S : Listed(k, f) BY <1>3, <1>6 DEF Surjection, Listed
<1> QED BY <1>7, <1>8 DEF f

(* What is cached is a finite set of connections.                          *)
LEMMA CachedFinite ==
    ASSUME ConnectionsInv
    PROVE  /\ Opcua!Range(cached) \ {None} \in SUBSET Nat
           /\ IsFiniteSet(Opcua!Range(cached) \ {None})
<1> USE BindingsAssumption
<1> DEFINE S == Opcua!Range(cached)
<1>1. cached \in Surjection(Endpoints, S) BY DEF ConnectionsInv, Surjection, Opcua!Range
<1>2. IsFiniteSet(S) BY <1>1, FS_Surjection
<1>3. S \subseteq Nat \cup {None} BY DEF ConnectionsInv, Opcua!Range
<1>4. IsFiniteSet(S \ {None}) BY <1>2, FS_RemoveElement
<1> QED BY <1>3, <1>4

LEMMA ConnectionsInit == Opcua!Init => ConnectionsInv
BY BindingsAssumption
   DEF Opcua!Init, Opcua!NewCall, Opcua!Idle, ConnectionsInv, OpcuaCallType, OpcuaCallOK

(* A step that leaves the connections and stop() alone.                    *)
LEMMA ConnectionsKept ==
    ASSUME ConnectionsInv, UNCHANGED <<connections, cached, stopping>>,
           opcuaCalls' \in [OpcuaCalls -> OpcuaCallType],
           \A c \in OpcuaCalls : OpcuaCallOK(opcuaCalls'[c])
    PROVE  ConnectionsInv'
BY DEF ConnectionsInv

LEMMA OneCallTyped ==
    ASSUME ConnectionsInv, NEW c \in OpcuaCalls, NEW call, OpcuaCallOK(call),
           opcuaCalls' = [opcuaCalls EXCEPT ![c] = call]
    PROVE  /\ opcuaCalls' \in [OpcuaCalls -> OpcuaCallType]
           /\ \A d \in OpcuaCalls : OpcuaCallOK(opcuaCalls'[d])
           /\ opcuaCalls'[c] = call
           /\ \A d \in OpcuaCalls : d # c => opcuaCalls'[d] = opcuaCalls[d]
BY DEF ConnectionsInv, OpcuaCallOK

(* A call goes on to another stage.                                        *)
LEMMA CallMoves ==
    ASSUME NEW call, OpcuaCallOK(call), call.stage # "unused",
           NEW stage \in {"monitoring", "active", "ended", "done", "thrown"}
    PROVE  LET new == [call EXCEPT !.stage = stage] IN
           /\ OpcuaCallOK(new) /\ new.stage = stage
           /\ new.node = call.node /\ new.kind = call.kind
BY DEF OpcuaCallOK, OpcuaCallType

LEMMA WithConnectionStep ==
    ASSUME ConnectionsInv, NEW c \in OpcuaCalls, NEW call, OpcuaCallOK(call),
           call.stage \in {"connecting", "resolving"}, Opcua!WithConnection(c, call)
    PROVE  /\ ConnectionsInv'
           /\ \E new : /\ OpcuaCallOK(new) /\ new.stage = call.stage
                       /\ new.node = call.node /\ new.kind = call.kind
                       /\ opcuaCalls' = [opcuaCalls EXCEPT ![c] = new]
<1> USE BindingsAssumption
<1>1. PICK e \in Endpoints : e = call.endpoint BY DEF OpcuaCallOK
<1>2. PICK k : k = IF cached[e] = None THEN Len(connections) + 1 ELSE cached[e]
  OBVIOUS
<1>3. k \in Nat BY <1>2 DEF ConnectionsInv
<1> DEFINE new == [call EXCEPT !.waits = k]
<1>4. /\ new \in OpcuaCallType /\ new.stage = call.stage
      /\ new.node = call.node /\ new.kind = call.kind /\ new.endpoint = call.endpoint
  BY <1>3 DEF OpcuaCallOK, OpcuaCallType
<1>5. /\ opcuaCalls' = [opcuaCalls EXCEPT ![c] = new] /\ UNCHANGED stopping
      /\ cached' = [cached EXCEPT ![e] = k]
      /\ connections' = IF cached[e] = None THEN Append(connections, Opcua!NewConnection(e))
                        ELSE connections
  BY <1>1, <1>2 DEF Opcua!WithConnection
<1> HIDE DEF new
<1>6. OpcuaCallOK(new) BY <1>4 DEF OpcuaCallOK
<1>7. CASE cached[e] # None
  <2>1. UNCHANGED <<connections, cached, stopping>> BY <1>2, <1>5, <1>7 DEF ConnectionsInv
  <2> QED BY <1>4, <1>5, <1>6, <2>1, OneCallTyped, ConnectionsKept
<1>8. CASE cached[e] = None
  <2>1. PICK late \in BOOLEAN : late = (stopping.stage # "no") OBVIOUS
  <2> DEFINE fresh == [endpoint |-> e, stage |-> "opening", late |-> late]
  <2>2. fresh \in ConnectionType /\ fresh.endpoint = e /\ (fresh.late <=> stopping.stage # "no")
        /\ fresh.stage = "opening"
    BY <2>1 DEF ConnectionType
  <2>3. connections' = Append(connections, fresh) /\ k = Len(connections) + 1
    BY <1>2, <1>5, <1>8, <2>1 DEF Opcua!NewConnection
  <2> HIDE DEF fresh
  <2>4. /\ connections' \in Seq(ConnectionType) /\ connections'[k] = fresh
        /\ DOMAIN connections' = DOMAIN connections \cup {k}
        /\ \A j \in DOMAIN connections : connections'[j] = connections[j] /\ j # k
    BY <2>2, <2>3 DEF ConnectionsInv
  <2>5. /\ cached' \in [Endpoints -> Nat \cup {None}] /\ cached'[e] = k
        /\ \A f \in Endpoints : f # e => cached'[f] = cached[f]
    BY <1>3, <1>5 DEF ConnectionsInv
  <2>6. \A f \in Endpoints : cached'[f] # None =>
          cached'[f] \in DOMAIN connections' /\ connections'[cached'[f]].endpoint = f
    BY <2>2, <2>4, <2>5 DEF ConnectionsInv
  <2>7. ASSUME NEW j \in DOMAIN connections', InTime(connections'[j])
        PROVE  /\ cached'[connections'[j].endpoint] = j
               /\ stopping'.stage # "no" => Listed(j, stopping'.left)
               /\ stopping'.stage = "closing" => connections'[j].stage = "open"
    <3>1. CASE j = k BY <1>5, <2>2, <2>4, <2>5, <2>7, <3>1 DEF InTime
    <3>2. CASE j \in DOMAIN connections
      <4>0. connections[j] \in ConnectionType /\ j \in Nat BY <3>2 DEF ConnectionsInv
      <4>1. /\ connections'[j] = connections[j] /\ InTime(connections[j])
            /\ connections[j].endpoint \in Endpoints
            /\ cached[connections[j].endpoint] = j /\ j # None
        BY <2>4, <2>7, <3>2, <4>0 DEF ConnectionsInv, ConnectionType
      <4>2. connections[j].endpoint # e BY <1>8, <4>1
      <4> QED BY <1>5, <2>5, <3>2, <4>1, <4>2 DEF ConnectionsInv
    <3> QED BY <2>4, <3>1, <3>2
  <2>8. /\ opcuaCalls' \in [OpcuaCalls -> OpcuaCallType]
        /\ \A d \in OpcuaCalls : OpcuaCallOK(opcuaCalls'[d])
    BY <1>5, <1>6, OneCallTyped
  <2>9. stopping' \in [stage : {"no", "waiting", "closing"}, left : Seq(Nat)]
    BY <1>5 DEF ConnectionsInv
  <2> QED BY <1>4, <1>5, <1>6, <2>4, <2>5, <2>6, <2>7, <2>8, <2>9 DEF ConnectionsInv
<1> QED BY <1>7, <1>8

LEMMA MovesStep ==
    ASSUME ConnectionsInv, NEW c \in OpcuaCalls, opcuaCalls[c].stage # "unused",
           NEW stage \in {"monitoring", "active", "ended", "done", "thrown"},
           opcuaCalls' = [opcuaCalls EXCEPT ![c].stage = stage],
           UNCHANGED <<connections, cached, stopping>>
    PROVE  ConnectionsInv'
<1>1. PICK call : call = opcuaCalls[c] /\ OpcuaCallOK(call) /\ call.stage # "unused"
  BY DEF ConnectionsInv
<1>2. PICK new : new = [call EXCEPT !.stage = stage] /\ OpcuaCallOK(new) BY <1>1, CallMoves
<1>3. opcuaCalls' = [opcuaCalls EXCEPT ![c] = new] BY <1>1, <1>2 DEF ConnectionsInv
<1> QED BY <1>2, <1>3, OneCallTyped, ConnectionsKept

(* One connection changes its stage or becomes late.                       *)
LEMMA OneConnectionChanged ==
    ASSUME ConnectionsInv, NEW k \in DOMAIN connections, NEW connection \in ConnectionType,
           connection.endpoint = connections[k].endpoint,
           connections' = [connections EXCEPT ![k] = connection]
    PROVE  /\ connections' \in Seq(ConnectionType) /\ DOMAIN connections' = DOMAIN connections
           /\ connections'[k] = connection
           /\ \A j \in DOMAIN connections :
                connections'[j].endpoint = connections[j].endpoint
           /\ \A j \in DOMAIN connections : j # k => connections'[j] = connections[j]
BY DEF ConnectionsInv

LEMMA ConnectionFailsStep ==
    ASSUME ConnectionsInv, NEW k \in DOMAIN connections, Opcua!ConnectionFails(k)
    PROVE  ConnectionsInv'
<1> USE BindingsAssumption
<1> DEFINE failed == [connections[k] EXCEPT !.stage = "failed"]
<1>1. connections[k] \in ConnectionType BY DEF ConnectionsInv
<1>2. /\ failed \in ConnectionType /\ failed.endpoint = connections[k].endpoint
      /\ ~InTime(failed)
  BY <1>1 DEF ConnectionType, InTime
<1>3. connections' = [connections EXCEPT ![k] = failed]
  BY DEF Opcua!ConnectionFails, ConnectionsInv
<1> HIDE DEF failed
<1>4. /\ connections' \in Seq(ConnectionType) /\ DOMAIN connections' = DOMAIN connections
      /\ ~InTime(connections'[k])
      /\ \A j \in DOMAIN connections : connections'[j].endpoint = connections[j].endpoint
      /\ \A j \in DOMAIN connections : j # k => connections'[j] = connections[j]
  BY <1>2, <1>3, OneConnectionChanged
<1>5. PICK e \in Endpoints : e = connections[k].endpoint BY <1>1 DEF ConnectionType
<1>6. /\ cached' \in [Endpoints -> Nat \cup {None}]
      /\ \A f \in Endpoints : cached'[f] # None => cached'[f] = cached[f]
      /\ \A f \in Endpoints : cached[f] # k => cached'[f] = cached[f]
  BY <1>5 DEF Opcua!ConnectionFails, Opcua!Evicted, ConnectionsInv
<1>7. /\ stopping' \in [stage : {"no", "waiting", "closing"}, left : Seq(Nat)]
      /\ stopping'.stage # "no" => stopping' = stopping
  BY DEF Opcua!ConnectionFails, Opcua!Idle, ConnectionsInv
<1>8. ASSUME NEW c \in OpcuaCalls PROVE OpcuaCallOK(opcuaCalls'[c])
  <2>1. CASE Opcua!Waits(c, k)
    <3>1. PICK call : call = opcuaCalls[c] /\ OpcuaCallOK(call) /\ call.stage # "unused"
      BY <2>1 DEF ConnectionsInv, Opcua!Waits
    <3>2. opcuaCalls'[c] = [call EXCEPT !.stage = "thrown"]
      BY <2>1, <3>1 DEF Opcua!ConnectionFails
    <3> QED BY <3>1, <3>2, CallMoves, ZenonT(40)
  <2>2. CASE ~Opcua!Waits(c, k) BY <2>2 DEF Opcua!ConnectionFails, ConnectionsInv
  <2> QED BY <2>1, <2>2
<1>9. opcuaCalls' \in [OpcuaCalls -> OpcuaCallType]
  <2>1. opcuaCalls' = [c \in OpcuaCalls |-> opcuaCalls'[c]] BY DEF Opcua!ConnectionFails
  <2> QED BY <1>8, <2>1 DEF OpcuaCallOK
<1>10. ASSUME NEW j \in DOMAIN connections', InTime(connections'[j])
       PROVE  /\ cached'[connections'[j].endpoint] = j
              /\ stopping'.stage # "no" => Listed(j, stopping'.left)
              /\ stopping'.stage = "closing" => connections'[j].stage = "open"
  <2>1. j \in DOMAIN connections /\ j # k /\ connections'[j] = connections[j] BY <1>4, <1>10
  <2>2. connections[j] \in ConnectionType /\ InTime(connections[j])
    BY <1>10, <2>1 DEF ConnectionsInv
  <2>3. connections[j].endpoint \in Endpoints /\ cached[connections[j].endpoint] = j
    BY <2>1, <2>2 DEF ConnectionsInv, ConnectionType
  <2> QED BY <1>6, <1>7, <2>1, <2>2, <2>3 DEF ConnectionsInv
<1>11. ASSUME NEW f \in Endpoints, cached'[f] # None
       PROVE  cached'[f] \in DOMAIN connections' /\ connections'[cached'[f]].endpoint = f
  BY <1>4, <1>6, <1>11, SMTT(20) DEF ConnectionsInv
<1> QED BY <1>4, <1>6, <1>7, <1>8, <1>9, <1>10, <1>11 DEF ConnectionsInv

LEMMA CloseNextStep == ConnectionsInv /\ Opcua!CloseNext => ConnectionsInv'
<1> USE BindingsAssumption
<1> SUFFICES ASSUME ConnectionsInv, Opcua!CloseNext PROVE ConnectionsInv' OBVIOUS
<1>1. PICK k \in Nat, left \in Seq(Nat) :
        /\ k = Head(stopping.left) /\ left = Tail(stopping.left)
        /\ \A j : Listed(j, stopping.left) => j = k \/ Listed(j, left)
  <2>1. stopping.left \in Seq(Nat) /\ stopping.left # <<>>
    BY DEF Opcua!CloseNext, ConnectionsInv
  <2>2. Head(stopping.left) \in Nat /\ Tail(stopping.left) \in Seq(Nat) BY <2>1
  <2>3. ASSUME NEW j, Listed(j, stopping.left), j # Head(stopping.left)
        PROVE  Listed(j, Tail(stopping.left))
    <3>1. PICK i \in DOMAIN stopping.left : stopping.left[i] = j BY <2>3 DEF Listed
    <3>2. i # 1 BY <2>1, <2>3, <3>1
    <3>3. i - 1 \in DOMAIN Tail(stopping.left) /\ Tail(stopping.left)[i - 1] = j
      BY <2>1, <3>1, <3>2, SMTT(20)
    <3> QED BY <3>3 DEF Listed
  <2> QED BY <2>2, <2>3
<1>2. /\ stopping.stage = "closing" /\ stopping'.stage = "closing" /\ stopping'.left = left
      /\ stopping' \in [stage : {"no", "waiting", "closing"}, left : Seq(Nat)]
      /\ UNCHANGED <<cached, opcuaCalls>>
  BY <1>1 DEF Opcua!CloseNext, ConnectionsInv
<1>3. /\ connections' \in Seq(ConnectionType) /\ DOMAIN connections' = DOMAIN connections
      /\ k \in DOMAIN connections => ~InTime(connections'[k])
      /\ \A j \in DOMAIN connections : connections'[j].endpoint = connections[j].endpoint
      /\ \A j \in DOMAIN connections : j # k => connections'[j] = connections[j]
  <2>1. CASE k \notin DOMAIN connections
    <3>1. connections' = connections BY <1>1, <2>1 DEF Opcua!CloseNext, ConnectionsInv
    <3> QED BY <2>1, <3>1 DEF ConnectionsInv
  <2>2. CASE k \in DOMAIN connections
    <3>1. PICK connection \in ConnectionType :
             /\ connection.endpoint = connections[k].endpoint /\ ~InTime(connection)
             /\ connections' = [connections EXCEPT ![k] = connection]
      <4>0. connections[k] \in ConnectionType BY <2>2 DEF ConnectionsInv
      <4> DEFINE closed1 == [connections[k] EXCEPT !.stage = "closed"]
                 late1 == [connections[k] EXCEPT !.late = TRUE]
      <4>1. closed1 \in ConnectionType /\ late1 \in ConnectionType
        BY <4>0 DEF ConnectionType
      <4>2. /\ ~InTime(closed1) /\ ~InTime(late1)
            /\ closed1.endpoint = connections[k].endpoint
            /\ late1.endpoint = connections[k].endpoint
        BY <4>0 DEF ConnectionType, InTime
      <4>3. \/ connections' = [connections EXCEPT ![k] = closed1]
            \/ connections' = [connections EXCEPT ![k] = late1]
        BY <1>1, <2>2 DEF Opcua!CloseNext, ConnectionsInv
      <4> HIDE DEF closed1, late1
      <4> QED BY <4>1, <4>2, <4>3
    <3> QED BY <2>2, <3>1, OneConnectionChanged
  <2> QED BY <2>1, <2>2
<1>4. ASSUME NEW j \in DOMAIN connections', InTime(connections'[j])
      PROVE  /\ cached'[connections'[j].endpoint] = j
             /\ stopping'.stage # "no" => Listed(j, stopping'.left)
             /\ stopping'.stage = "closing" => connections'[j].stage = "open"
  <2>1. j \in DOMAIN connections /\ j # k /\ connections'[j] = connections[j] BY <1>3, <1>4
  <2>2. InTime(connections[j]) BY <1>4, <2>1
  <2>3. /\ cached[connections[j].endpoint] = j /\ Listed(j, stopping.left)
        /\ connections[j].stage = "open"
    BY <1>2, <2>1, <2>2 DEF ConnectionsInv
  <2> QED BY <1>1, <1>2, <2>1, <2>3
<1>5. ASSUME NEW f \in Endpoints, cached'[f] # None
      PROVE  cached'[f] \in DOMAIN connections' /\ connections'[cached'[f]].endpoint = f
  BY <1>2, <1>3, <1>5 DEF ConnectionsInv
<1> QED BY <1>2, <1>3, <1>4, <1>5 DEF ConnectionsInv

LEMMA ConnectionsStep == ConnectionsInv /\ [Opcua!Next]_(Opcua!vars) => ConnectionsInv'
<1> USE BindingsAssumption
<1> SUFFICES ASSUME ConnectionsInv, [Opcua!Next]_(Opcua!vars) PROVE ConnectionsInv' OBVIOUS
<1>0. \A c \in OpcuaCalls : OpcuaCallOK(opcuaCalls[c]) /\ opcuaCalls[c] \in OpcuaCallType
  BY DEF ConnectionsInv
<1>1. CASE UNCHANGED Opcua!vars BY <1>1 DEF Opcua!vars, ConnectionsInv
<1>2. ASSUME NEW c \in OpcuaCalls, NEW kind \in {"use", "subscribe", "unlink"},
             NEW e \in Endpoints, NEW n \in Nodes, Opcua!Begin(c, kind, e, n)
      PROVE  ConnectionsInv'
  <2> DEFINE call == [Opcua!NewCall EXCEPT
                        !.stage = "connecting", !.kind = kind, !.endpoint = e, !.node = n]
  <2>1. OpcuaCallOK(call) /\ call.stage = "connecting"
    BY DEF Opcua!NewCall, OpcuaCallOK, OpcuaCallType
  <2>2. Opcua!WithConnection(c, call) BY <1>2 DEF Opcua!Begin
  <2> HIDE DEF call
  <2> QED BY <2>1, <2>2, WithConnectionStep
<1>3. ASSUME NEW c \in OpcuaCalls, Opcua!ResolveNodeId(c) PROVE ConnectionsInv'
  <2>1. PICK call : call = opcuaCalls[c] /\ OpcuaCallOK(call) /\ call.stage = "connecting"
    BY <1>0, <1>3 DEF Opcua!ResolveNodeId, Opcua!Ready
  <2> DEFINE new == [call EXCEPT !.stage = "resolving", !.on = call.waits]
  <2>2. OpcuaCallOK(new) /\ new.stage = "resolving"
    BY <2>1 DEF OpcuaCallOK, OpcuaCallType
  <2>3. Opcua!WithConnection(c, new) BY <1>3, <2>1 DEF Opcua!ResolveNodeId
  <2> HIDE DEF new
  <2> QED BY <2>2, <2>3, WithConnectionStep
<1>4. ASSUME NEW c \in OpcuaCalls, NEW stage \in {"monitoring", "active", "ended", "done", "thrown"},
             opcuaCalls[c].stage # "unused", opcuaCalls' = [opcuaCalls EXCEPT ![c].stage = stage],
             UNCHANGED Opcua!Others
      PROVE  ConnectionsInv'
  BY <1>4, MovesStep DEF Opcua!Others
<1>5. ASSUME NEW c \in OpcuaCalls,
             \/ Opcua!CallFails(c) \/ Opcua!UseSession(c) \/ Opcua!Subscribe(c)
             \/ Opcua!Monitored(c) \/ Opcua!Unsubscribe(c) \/ Opcua!UnlinkResource(c)
      PROVE  ConnectionsInv'
  <2>1. CASE Opcua!CallFails(c) BY <1>4, <2>1 DEF Opcua!CallFails, Opcua!Ready, Opcua!Others
  <2>2. CASE Opcua!UseSession(c) BY <1>4, <2>2 DEF Opcua!UseSession, Opcua!Ready, Opcua!Others
  <2>3. CASE Opcua!Subscribe(c) BY <1>4, <2>3 DEF Opcua!Subscribe, Opcua!Ready, Opcua!Others
  <2>4. CASE Opcua!Monitored(c) BY <1>4, <2>4 DEF Opcua!Monitored, Opcua!Others
  <2>5. CASE Opcua!Unsubscribe(c) BY <1>4, <2>5 DEF Opcua!Unsubscribe, Opcua!Others
  <2>6. CASE Opcua!UnlinkResource(c)
    BY <1>4, <2>6 DEF Opcua!UnlinkResource, Opcua!Ready, Opcua!Others
  <2> QED BY <1>5, <2>1, <2>2, <2>3, <2>4, <2>5, <2>6
<1>6. ASSUME NEW k \in DOMAIN connections, Opcua!Opened(k) PROVE ConnectionsInv'
  <2>1. connections[k] \in ConnectionType /\ connections[k].stage = "opening"
    BY <1>6 DEF Opcua!Opened, ConnectionsInv
  <2> DEFINE open == [connections[k] EXCEPT !.stage = "open"]
  <2>2. /\ open \in ConnectionType /\ open.endpoint = connections[k].endpoint
        /\ open.stage = "open" /\ (InTime(open) => InTime(connections[k]))
    BY <2>1 DEF ConnectionType, InTime
  <2>3. connections' = [connections EXCEPT ![k] = open]
    BY <1>6 DEF Opcua!Opened, ConnectionsInv
  <2> HIDE DEF open
  <2>4. /\ connections' \in Seq(ConnectionType) /\ DOMAIN connections' = DOMAIN connections
        /\ connections'[k] = open
        /\ \A j \in DOMAIN connections : connections'[j].endpoint = connections[j].endpoint
        /\ \A j \in DOMAIN connections : j # k => connections'[j] = connections[j]
    BY <2>2, <2>3, OneConnectionChanged
  <2>5. UNCHANGED <<cached, opcuaCalls, stopping>> BY <1>6 DEF Opcua!Opened
  <2>6. ASSUME NEW j \in DOMAIN connections', InTime(connections'[j])
        PROVE  /\ cached'[connections'[j].endpoint] = j
               /\ stopping'.stage # "no" => Listed(j, stopping'.left)
               /\ stopping'.stage = "closing" => connections'[j].stage = "open"
    <3>1. j \in DOMAIN connections /\ InTime(connections[j]) BY <2>2, <2>4, <2>6
    <3> QED BY <2>2, <2>4, <2>5, <3>1 DEF ConnectionsInv
  <2> QED BY <2>4, <2>5, <2>6 DEF ConnectionsInv
<1>7. ASSUME NEW k \in DOMAIN connections, Opcua!ConnectionFails(k) PROVE ConnectionsInv'
  BY <1>7, ConnectionFailsStep
<1>8. CASE Opcua!Stop
  <2> DEFINE S == Opcua!Range(cached) \ {None}
  <2>1. S \in SUBSET Nat /\ IsFiniteSet(S) BY CachedFinite
  <2>2. stopping' = [stage |-> "waiting", left |-> Opcua!SetToSeq(S)] BY <1>8 DEF Opcua!Stop
  <2>3. UNCHANGED <<connections, cached, opcuaCalls>> BY <1>8 DEF Opcua!Stop
  <2>4. ASSUME NEW k \in DOMAIN connections, InTime(connections[k]) PROVE k \in S
    <3>0. k \in Nat /\ connections[k] \in ConnectionType BY <2>4 DEF ConnectionsInv
    <3>1. PICK e \in Endpoints : e = connections[k].endpoint BY <3>0 DEF ConnectionType
    <3>2. cached[e] = k /\ DOMAIN cached = Endpoints BY <2>4, <3>1 DEF ConnectionsInv
    <3> QED BY <3>0, <3>2 DEF Opcua!Range
  <2> HIDE DEF S
  <2>5. Opcua!SetToSeq(S) \in Seq(Nat) /\ \A k \in S : Listed(k, Opcua!SetToSeq(S))
    BY <2>1, SetToSeqLists
  <2> QED BY <2>2, <2>3, <2>4, <2>5 DEF ConnectionsInv
<1>9. CASE Opcua!AllConnected
  <2>1. /\ stopping.stage = "waiting" /\ stopping'.stage = "closing"
        /\ stopping'.left = stopping.left
        /\ stopping' \in [stage : {"no", "waiting", "closing"}, left : Seq(Nat)]
        /\ UNCHANGED <<connections, cached, opcuaCalls>>
    BY <1>9 DEF Opcua!AllConnected, ConnectionsInv
  <2>2. ASSUME NEW k \in DOMAIN connections, InTime(connections[k])
        PROVE  Listed(k, stopping.left) /\ connections[k].stage = "open"
    <3>1. Listed(k, stopping.left) BY <2>1, <2>2 DEF ConnectionsInv
    <3>2. k \in Opcua!Range(stopping.left) BY <3>1 DEF Listed, Opcua!Range
    <3>3. connections[k].stage # "opening" BY <1>9, <3>2 DEF Opcua!AllConnected
    <3> QED BY <2>2, <3>1, <3>3 DEF InTime
  <2> QED BY <2>1, <2>2 DEF ConnectionsInv
<1>10. CASE Opcua!CloseNext BY <1>10, CloseNextStep
<1>11. CASE Opcua!Stopped
  <2>1. /\ stopping.stage = "closing" /\ stopping.left = <<>>
        /\ stopping' = [stage |-> "no", left |-> <<>>]
        /\ cached' = [e \in Endpoints |-> None]
        /\ UNCHANGED <<connections, opcuaCalls>>
    BY <1>11 DEF Opcua!Stopped, Opcua!Idle
  <2>2. \A k \in DOMAIN connections : ~InTime(connections[k])
    BY <2>1 DEF ConnectionsInv, Listed
  <2> QED BY <2>1, <2>2 DEF ConnectionsInv
<1> QED
  BY <1>1, <1>2, <1>3, <1>5, <1>6, <1>7, <1>8, <1>9, <1>10, <1>11 DEF Opcua!Next

(* An open connection is the one its endpoint has cached, unless it was    *)
(* asked for while stop() was under way or stop() failed to close it.      *)
THEOREM OpenCached == Opcua!Spec => []OpenIsCached
<1>1. ConnectionsInv => OpenIsCached
  BY DEF ConnectionsInv, ConnectionType, InTime, OpenIsCached, Opcua!OpenIsCached
<1> QED BY ConnectionsInit, ConnectionsStep, <1>1, PTL DEF Opcua!Spec

-----------------------------------------------------------------------------
(* The monitored items of the OPC UA client                                *)

ItemType ==
    [connection : Nat \cup {None}, live : BOOLEAN, handlers : SUBSET OpcuaCalls,
     cut : SUBSET OpcuaCalls, stray : BOOLEAN, stopped : BOOLEAN]

(* The item that a node has: its handlers are calls for that node, and it  *)
(* is live unless stop() ended it.                                         *)
MonitoredOK(n) ==
    monitored[n] # None =>
        /\ monitored[n] \in DOMAIN items
        /\ items[monitored[n]].handlers # {}
        /\ \A c \in items[monitored[n]].handlers : opcuaCalls[c].node = n
        /\ items[monitored[n]].live \/ items[monitored[n]].stopped

(* A live item whose termination has not failed is the one that the node   *)
(* has, so that the next to end a subscription terminates it.              *)
HandlerOK(i, c) ==
    /\ opcuaCalls[c].stage \in {"active", "ended"}
    /\ items[i].live /\ ~items[i].stray /\ opcuaCalls[c].node \notin raced =>
         opcuaCalls[c].stage = "active" /\ monitored[opcuaCalls[c].node] = i

Monitors(c, n) == opcuaCalls[c].stage = "monitoring" /\ opcuaCalls[c].node = n

AskedOnce(n) ==
    n \notin raced =>
        \A c, d \in OpcuaCalls : Monitors(c, n) /\ Monitors(d, n) => c = d /\ monitored[n] = None

(* A handler of the item hears, was cut off, or its item was ended.        *)
Hears(item, c) == c \in item.handlers /\ (item.live \/ c \in item.cut \/ item.stopped)

ActiveOK(c) == opcuaCalls[c].stage = "active" => \E i \in DOMAIN items : Hears(items[i], c)

ItemsInv ==
    /\ items \in Seq(ItemType) /\ monitored \in [Nodes -> Nat \cup {None}]
    /\ \A n \in Nodes : MonitoredOK(n) /\ AskedOnce(n)
    /\ \A i \in DOMAIN items : \A c \in items[i].handlers : HandlerOK(i, c)
    /\ \A c \in OpcuaCalls : ActiveOK(c)

LEMMA ItemsInit == Opcua!Init => ItemsInv
BY BindingsAssumption
   DEF Opcua!Init, Opcua!NewCall, Opcua!Idle, ItemsInv, MonitoredOK, AskedOnce, Monitors,
       HandlerOK, ActiveOK

LEMMA ItemTyped ==
    ASSUME ItemsInv, NEW i \in DOMAIN items
    PROVE  /\ items[i] \in ItemType /\ items[i].handlers \subseteq OpcuaCalls
           /\ \A c \in items[i].handlers : HandlerOK(i, c)
<1>1. items[i] \in ItemType BY DEF ItemsInv
<1> QED BY <1>1 DEF ItemsInv, ItemType

(* A call that has nothing to do with an item, before or after.            *)
Elsewhere(call, new) ==
    \/ new = call
    \/ /\ call.stage \notin {"active", "ended"}
       /\ new.stage \notin {"monitoring", "active", "ended"}

(* What happens to an item while nobody joins or terminates it.            *)
Ages(item, new) ==
    /\ new.handlers = item.handlers /\ new.cut = item.cut /\ new.stray = item.stray
    /\ new.live => item.live
    /\ item.live \/ item.stopped => new.live \/ new.stopped

(* Steps of such calls, of connections, and of stop(), after which items   *)
(* may be dead.                                                            *)
LEMMA ItemsElsewhere ==
    ASSUME ItemsInv,
           \A c \in OpcuaCalls : Elsewhere(opcuaCalls[c], opcuaCalls'[c]),
           monitored' = monitored, raced' = raced,
           items' \in Seq(ItemType), DOMAIN items' = DOMAIN items,
           \A i \in DOMAIN items : Ages(items[i], items'[i])
    PROVE  ItemsInv'
<1> USE BindingsAssumption
<1>1. ASSUME NEW i \in DOMAIN items, NEW c \in items[i].handlers
      PROVE  c \in OpcuaCalls /\ HandlerOK(i, c) /\ opcuaCalls'[c] = opcuaCalls[c]
  <2>1. c \in OpcuaCalls /\ HandlerOK(i, c) BY ItemTyped
  <2> QED BY <2>1 DEF HandlerOK, Elsewhere
<1>2. ASSUME NEW i \in DOMAIN items', NEW c \in items'[i].handlers
      PROVE  HandlerOK(i, c)'
  BY <1>1 DEF HandlerOK, Ages
<1>3. ASSUME NEW n \in Nodes PROVE MonitoredOK(n)'
  <2>1. MonitoredOK(n) BY DEF ItemsInv
  <2> QED BY <1>1, <2>1 DEF MonitoredOK, Ages
<1>4. ASSUME NEW c \in OpcuaCalls, NEW n \in Nodes, Monitors(c, n)'
      PROVE  Monitors(c, n)
  BY <1>4 DEF Monitors, Elsewhere
<1>5. ASSUME NEW n \in Nodes PROVE AskedOnce(n)'
  <2>1. AskedOnce(n) BY DEF ItemsInv
  <2> QED BY <1>4, <2>1 DEF AskedOnce
<1>6. ASSUME NEW c \in OpcuaCalls, opcuaCalls'[c].stage = "active"
      PROVE  \E i \in DOMAIN items' : Hears(items'[i], c)
  <2>1. opcuaCalls[c].stage = "active" BY <1>6 DEF Elsewhere
  <2>2. PICK i \in DOMAIN items : Hears(items[i], c) BY <2>1 DEF ItemsInv, ActiveOK
  <2> QED BY <2>2 DEF Hears, Ages
<1> QED BY <1>2, <1>3, <1>5, <1>6 DEF ItemsInv, ActiveOK

(* An item is forgotten and, unless that fails, terminated, by a call that *)
(* ends with it.                                                           *)
LEMMA UnmonitorStep ==
    ASSUME ItemsInv, ConnectionsInv, NEW c \in OpcuaCalls, NEW call, NEW done \in BOOLEAN,
           opcuaCalls[c].stage # "unused", Opcua!Unmonitor(opcuaCalls[c].node, done),
           call.node = opcuaCalls[c].node,
           \/ opcuaCalls[c].stage = "active" /\ call.stage = "ended"
           \/ opcuaCalls[c].stage = "resolving" /\ call.stage \in {"done", "thrown"},
           opcuaCalls'[c] = call, \A d \in OpcuaCalls : d # c => opcuaCalls'[d] = opcuaCalls[d],
           UNCHANGED raced
    PROVE  ItemsInv'
<1> USE BindingsAssumption
<1>0. \A d \in OpcuaCalls : OpcuaCallOK(opcuaCalls[d]) BY DEF ConnectionsInv
<1>1. PICK n \in Nodes : n = opcuaCalls[c].node BY <1>0 DEF OpcuaCallOK
<1>2. PICK m \in Nat \cup {None} : m = monitored[n] BY DEF ItemsInv
<1>3. /\ monitored' = [monitored EXCEPT ![n] = None]
      /\ m = None => items' = items
      /\ m # None => \E live \in {FALSE, ~done} :
            items' = [items EXCEPT ![m] = Opcua!Terminated(items[m], live)]
  BY <1>1, <1>2 DEF Opcua!Unmonitor, Opcua!Forgotten
<1>4. /\ items' \in Seq(ItemType) /\ DOMAIN items' = DOMAIN items
      /\ \A i \in DOMAIN items : items'[i].handlers = items[i].handlers
      /\ m \in DOMAIN items => /\ items'[m].live => items'[m].stray
                               /\ items'[m].cut = items[m].handlers
      /\ \A i \in DOMAIN items : i # m => items'[i] = items[i]
  <2>1. CASE m = None BY <1>3, <2>1 DEF ItemsInv
  <2>2. CASE m # None
    <3>1. PICK item : item = items[m] /\ m \in DOMAIN items /\ item \in ItemType
      BY <1>2, <2>2 DEF ItemsInv, MonitoredOK
    <3>2. PICK live \in BOOLEAN : items' = [items EXCEPT ![m] = Opcua!Terminated(item, live)]
      BY <1>3, <2>2, <3>1
    <3> DEFINE ended == Opcua!Terminated(item, live)
    <3>3. /\ ended \in ItemType /\ (ended.live => ended.stray)
          /\ ended.cut = item.handlers /\ ended.handlers = item.handlers
      BY <3>1 DEF ItemType, Opcua!Terminated
    <3>4. items' = [items EXCEPT ![m] = ended] BY <3>2
    <3> HIDE DEF ended
    <3> QED BY <3>1, <3>3, <3>4 DEF ItemsInv
  <2> QED BY <2>1, <2>2
<1>5. /\ monitored' \in [Nodes -> Nat \cup {None}] /\ monitored'[n] = None
      /\ \A o \in Nodes : o # n => monitored'[o] = monitored[o]
  BY <1>3 DEF ItemsInv
<1>6. ASSUME NEW d \in OpcuaCalls
      PROVE  /\ opcuaCalls'[d].node = opcuaCalls[d].node
             /\ opcuaCalls[d].stage = "ended" => opcuaCalls'[d].stage = "ended"
             /\ opcuaCalls'[d].stage \in {"monitoring", "active"} => d # c
  OBVIOUS
<1>7. ASSUME NEW i \in DOMAIN items, NEW d \in items[i].handlers
      PROVE  HandlerOK(i, d)'
  <2>1. d \in OpcuaCalls /\ HandlerOK(i, d) BY ItemTyped
  <2>2. opcuaCalls'[d].stage \in {"active", "ended"} BY <2>1 DEF HandlerOK
  <2>3. ASSUME items'[i].live, ~items'[i].stray, opcuaCalls'[d].node \notin raced
        PROVE  opcuaCalls'[d].stage = "active" /\ monitored'[opcuaCalls'[d].node] = i
    <3>1. items[i].live /\ ~items[i].stray /\ i # m BY <1>4, <2>3
    <3>2. opcuaCalls[d].stage = "active" /\ monitored[opcuaCalls[d].node] = i
      BY <1>6, <2>1, <2>3, <3>1 DEF HandlerOK
    <3>3. opcuaCalls[d].node # n /\ d # c BY <1>1, <1>2, <3>1, <3>2
    <3>4. opcuaCalls[d].node \in Nodes BY <1>0, <2>1, <3>2 DEF OpcuaCallOK
    <3> QED BY <1>5, <1>6, <2>1, <3>2, <3>3, <3>4
  <2> QED BY <2>2, <2>3 DEF HandlerOK
<1>8. ASSUME NEW o \in Nodes PROVE MonitoredOK(o)'
  <2>1. CASE o = n BY <1>5, <2>1 DEF MonitoredOK
  <2>2. CASE o # n /\ monitored[o] # None
    <3>1. PICK k : k = monitored[o] OBVIOUS
    <3>2. /\ k \in DOMAIN items /\ items[k].handlers # {}
          /\ \A d \in items[k].handlers : opcuaCalls[d].node = o
          /\ items[k].live \/ items[k].stopped
      BY <2>2, <3>1 DEF ItemsInv, MonitoredOK
    <3>3. k # m
      <4>1. ASSUME k = m PROVE FALSE
        <5>1. \A d \in items[k].handlers : opcuaCalls[d].node = n
          BY <1>2, <2>2, <3>1, <4>1 DEF ItemsInv, MonitoredOK
        <5> QED BY <2>2, <3>2, <5>1
      <4> QED BY <4>1
    <3>4. monitored'[o] = k BY <1>5, <2>2, <3>1
    <3>5. items[k].handlers \subseteq OpcuaCalls BY <3>2, ItemTyped
    <3>6. \A d \in items[k].handlers : opcuaCalls'[d].node = o BY <1>6, <3>2, <3>5
    <3>7. items'[k] = items[k] /\ k \in DOMAIN items' BY <1>4, <3>2, <3>3
    <3> QED BY <3>2, <3>4, <3>6, <3>7 DEF MonitoredOK
  <2>3. CASE o # n /\ monitored[o] = None BY <1>5, <2>3 DEF MonitoredOK
  <2> QED BY <2>1, <2>2, <2>3
<1>9. ASSUME NEW o \in Nodes PROVE AskedOnce(o)'
  <2>1. AskedOnce(o) BY DEF ItemsInv
  <2>2. monitored'[o] = monitored[o] \/ monitored'[o] = None BY <1>5
  <2>3. ASSUME NEW d \in OpcuaCalls, Monitors(d, o)' PROVE Monitors(d, o)
    BY <1>6, <2>3 DEF Monitors
  <2> QED BY <2>1, <2>2, <2>3 DEF AskedOnce
<1>10. ASSUME NEW d \in OpcuaCalls, opcuaCalls'[d].stage = "active"
       PROVE  \E i \in DOMAIN items' : Hears(items'[i], d)
  <2>1. opcuaCalls[d].stage = "active" BY <1>6, <1>10
  <2>2. PICK i \in DOMAIN items : Hears(items[i], d) BY <2>1 DEF ItemsInv, ActiveOK
  <2>3. Hears(items'[i], d) BY <1>4, <2>2 DEF Hears
  <2> QED BY <1>4, <2>3
<1>11. \A i \in DOMAIN items' : \A d \in items'[i].handlers : HandlerOK(i, d)' BY <1>4, <1>7
<1> QED BY <1>4, <1>5, <1>8, <1>9, <1>10, <1>11 DEF ItemsInv, ActiveOK

LEMMA Moved ==
    ASSUME ConnectionsInv, NEW c \in OpcuaCalls, opcuaCalls[c].stage # "unused",
           NEW stage \in {"monitoring", "active", "ended", "done", "thrown"},
           opcuaCalls' = [opcuaCalls EXCEPT ![c].stage = stage]
    PROVE  /\ opcuaCalls[c].node \in Nodes
           /\ opcuaCalls'[c].stage = stage
           /\ opcuaCalls'[c].node = opcuaCalls[c].node
           /\ \A d \in OpcuaCalls : d # c => opcuaCalls'[d] = opcuaCalls[d]
<1>1. PICK call : call = opcuaCalls[c] /\ OpcuaCallOK(call) /\ call.stage # "unused"
  BY DEF ConnectionsInv
<1> DEFINE new == [call EXCEPT !.stage = stage]
<1>2. OpcuaCallOK(new) /\ new.stage = stage /\ new.node = call.node
  BY <1>1 DEF OpcuaCallOK, OpcuaCallType
<1>3. opcuaCalls' = [opcuaCalls EXCEPT ![c] = new] BY <1>1 DEF ConnectionsInv
<1> HIDE DEF new
<1>4. call.node \in Nodes BY <1>1 DEF OpcuaCallOK
<1> QED BY <1>1, <1>2, <1>3, <1>4, OneCallTyped

(* A call shares the item that the node has.                               *)
LEMMA SharedStep ==
    ASSUME ItemsInv, ConnectionsInv, NEW c \in OpcuaCalls, Opcua!Subscribe(c),
           monitored[opcuaCalls[c].node] # None
    PROVE  ItemsInv'
<1> USE BindingsAssumption
<1>1. /\ opcuaCalls[c].stage = "resolving"
      /\ opcuaCalls' = [opcuaCalls EXCEPT ![c].stage = "active"]
      /\ UNCHANGED <<monitored, raced>>
  BY DEF Opcua!Subscribe, Opcua!Ready, Opcua!Others
<1>2. /\ opcuaCalls'[c].stage = "active" /\ opcuaCalls'[c].node = opcuaCalls[c].node
      /\ \A d \in OpcuaCalls : d # c => opcuaCalls'[d] = opcuaCalls[d]
  BY <1>1, Moved
<1>3. PICK n \in Nodes : n = opcuaCalls[c].node BY <1>1, Moved
<1>4. PICK m \in DOMAIN items : m = monitored[n] BY <1>3 DEF ItemsInv, MonitoredOK
<1> DEFINE shared == [items[m] EXCEPT !.handlers = @ \cup {c}]
<1>5. /\ shared \in ItemType /\ shared.live = items[m].live /\ shared.cut = items[m].cut
      /\ shared.stray = items[m].stray /\ shared.stopped = items[m].stopped
      /\ shared.handlers = items[m].handlers \cup {c}
  <2>1. items[m] \in ItemType BY ItemTyped
  <2> QED BY <2>1 DEF ItemType
<1>6. items' = [items EXCEPT ![m] = shared]
  <2>1. items' = [items EXCEPT ![m].handlers = @ \cup {c}]
    BY <1>3, <1>4 DEF Opcua!Subscribe
  <2> QED BY <2>1 DEF ItemsInv
<1> HIDE DEF shared
<1>7. /\ items' \in Seq(ItemType) /\ DOMAIN items' = DOMAIN items
      /\ \A i \in DOMAIN items :
            /\ items'[i].live = items[i].live /\ items'[i].cut = items[i].cut
            /\ items'[i].stray = items[i].stray /\ items'[i].stopped = items[i].stopped
            /\ i # m => items'[i].handlers = items[i].handlers
      /\ items'[m].handlers = items[m].handlers \cup {c}
  BY <1>5, <1>6 DEF ItemsInv
<1>8. ASSUME NEW i \in DOMAIN items, NEW d \in items[i].handlers
      PROVE  d \in OpcuaCalls /\ HandlerOK(i, d) /\ d # c /\ opcuaCalls'[d] = opcuaCalls[d]
  <2>1. d \in OpcuaCalls /\ HandlerOK(i, d) BY ItemTyped
  <2> QED BY <1>1, <1>2, <2>1 DEF HandlerOK
<1>9. ASSUME NEW i \in DOMAIN items', NEW d \in items'[i].handlers
      PROVE  HandlerOK(i, d)'
  <2>1. CASE d \in items[i].handlers BY <1>1, <1>7, <1>8, <2>1 DEF HandlerOK
  <2>2. CASE i = m /\ d = c BY <1>1, <1>2, <1>3, <1>4, <2>2 DEF HandlerOK
  <2> QED BY <1>7, <2>1, <2>2
<1>10. ASSUME NEW o \in Nodes PROVE MonitoredOK(o)'
  <2>1. CASE monitored[o] = None BY <1>1, <2>1 DEF MonitoredOK
  <2>2. CASE monitored[o] # None
    <3>1. PICK k : k = monitored[o] OBVIOUS
    <3>2. /\ k \in DOMAIN items /\ items[k].handlers # {}
          /\ \A d \in items[k].handlers : opcuaCalls[d].node = o
          /\ items[k].live \/ items[k].stopped
      BY <2>2, <3>1 DEF ItemsInv, MonitoredOK
    <3>3. k = m => o = n
      <4>1. \A d \in items[m].handlers : opcuaCalls[d].node = n
        BY <1>4 DEF ItemsInv, MonitoredOK
      <4> QED BY <3>2, <4>1
    <3>4. \A d \in items'[k].handlers : opcuaCalls'[d].node = o
      BY <1>2, <1>3, <1>7, <1>8, <3>2, <3>3
    <3>5. /\ items'[k].handlers # {} /\ k \in DOMAIN items'
          /\ items'[k].live \/ items'[k].stopped
      BY <1>7, <3>2
    <3> QED BY <1>1, <3>1, <3>4, <3>5 DEF MonitoredOK
  <2> QED BY <2>1, <2>2
<1>11. ASSUME NEW o \in Nodes PROVE AskedOnce(o)'
  <2>1. AskedOnce(o) BY DEF ItemsInv
  <2>2. ASSUME NEW d \in OpcuaCalls, Monitors(d, o)' PROVE Monitors(d, o)
    BY <1>2, <2>2 DEF Monitors
  <2> QED BY <1>1, <2>1, <2>2 DEF AskedOnce
<1>12. ASSUME NEW d \in OpcuaCalls, opcuaCalls'[d].stage = "active"
       PROVE  \E i \in DOMAIN items' : Hears(items'[i], d)
  <2>1. CASE d = c
    <3>1. items[m].live \/ items[m].stopped BY <1>4 DEF ItemsInv, MonitoredOK
    <3> QED BY <1>7, <2>1, <3>1 DEF Hears
  <2>2. CASE d # c
    <3>1. opcuaCalls[d].stage = "active" BY <1>2, <1>12, <2>2
    <3>2. PICK i \in DOMAIN items : Hears(items[i], d) BY <3>1 DEF ItemsInv, ActiveOK
    <3> QED BY <1>7, <3>2 DEF Hears
  <2> QED BY <2>1, <2>2
<1>13. monitored' \in [Nodes -> Nat \cup {None}] BY <1>1 DEF ItemsInv
<1> QED BY <1>7, <1>9, <1>10, <1>11, <1>12, <1>13 DEF ItemsInv, ActiveOK

(* A call asks for an item, as the node has none.                          *)
LEMMA AskedStep ==
    ASSUME ItemsInv, ConnectionsInv, NEW c \in OpcuaCalls, Opcua!Subscribe(c),
           monitored[opcuaCalls[c].node] = None
    PROVE  ItemsInv'
<1> USE BindingsAssumption
<1>1. /\ opcuaCalls[c].stage = "resolving"
      /\ opcuaCalls' = [opcuaCalls EXCEPT ![c].stage = "monitoring"]
      /\ UNCHANGED <<items, monitored>>
  BY DEF Opcua!Subscribe, Opcua!Ready, Opcua!Others
<1>2. /\ opcuaCalls'[c].stage = "monitoring"
      /\ opcuaCalls'[c].node = opcuaCalls[c].node
      /\ \A d \in OpcuaCalls : d # c => opcuaCalls'[d] = opcuaCalls[d]
  BY <1>1, Moved
<1>3. PICK n \in Nodes : n = opcuaCalls[c].node BY <1>1, Moved
<1>4. /\ raced \subseteq raced'
      /\ \A d \in OpcuaCalls : Monitors(d, n) => n \in raced'
  BY <1>3 DEF Opcua!Subscribe, Monitors
<1>5. ASSUME NEW i \in DOMAIN items, NEW d \in items[i].handlers
      PROVE  d \in OpcuaCalls /\ HandlerOK(i, d) /\ opcuaCalls'[d] = opcuaCalls[d]
  <2>1. d \in OpcuaCalls /\ HandlerOK(i, d) BY ItemTyped
  <2> QED BY <1>1, <1>2, <2>1 DEF HandlerOK
<1>6. ASSUME NEW i \in DOMAIN items', NEW d \in items'[i].handlers PROVE HandlerOK(i, d)'
  BY <1>1, <1>4, <1>5 DEF HandlerOK
<1>7. ASSUME NEW o \in Nodes PROVE MonitoredOK(o)'
  <2>1. MonitoredOK(o) BY DEF ItemsInv
  <2> QED BY <1>1, <1>5, <2>1 DEF MonitoredOK
<1>8. ASSUME NEW o \in Nodes PROVE AskedOnce(o)'
  <2>1. AskedOnce(o) BY DEF ItemsInv
  <2>2. ASSUME NEW d \in OpcuaCalls, Monitors(d, o)'
        PROVE  Monitors(d, o) \/ (d = c /\ o = n)
    <3>1. CASE d = c BY <1>2, <1>3, <2>2, <3>1 DEF Monitors
    <3>2. CASE d # c
      <4>1. opcuaCalls'[d] = opcuaCalls[d] BY <1>2, <3>2
      <4> QED BY <2>2, <4>1 DEF Monitors
    <3> QED BY <3>1, <3>2
  <2>3. CASE o = n
    <3>1. \A d \in OpcuaCalls : Monitors(d, o)' /\ n \notin raced' => d = c BY <1>4, <2>2, <2>3
    <3> QED BY <1>1, <1>3, <2>3, <3>1 DEF AskedOnce
  <2>4. CASE o # n BY <1>1, <1>4, <2>1, <2>2, <2>4 DEF AskedOnce
  <2> QED BY <2>3, <2>4
<1>9. ASSUME NEW d \in OpcuaCalls, opcuaCalls'[d].stage = "active"
      PROVE  \E i \in DOMAIN items' : Hears(items'[i], d)
  <2>1. opcuaCalls[d].stage = "active" BY <1>2, <1>9
  <2> QED BY <1>1, <2>1 DEF ItemsInv, ActiveOK
<1> QED BY <1>1, <1>6, <1>7, <1>8, <1>9 DEF ItemsInv, ActiveOK

LEMMA MonitoredStep ==
    ASSUME ItemsInv, ConnectionsInv, NEW c \in OpcuaCalls, Opcua!Monitored(c)
    PROVE  ItemsInv'
<1> USE BindingsAssumption
<1>1. /\ opcuaCalls[c].stage = "monitoring"
      /\ opcuaCalls' = [opcuaCalls EXCEPT ![c].stage = "active"]
      /\ UNCHANGED raced
  BY DEF Opcua!Monitored, Opcua!Others
<1>2. /\ opcuaCalls'[c].stage = "active"
      /\ opcuaCalls'[c].node = opcuaCalls[c].node
      /\ \A d \in OpcuaCalls : d # c => opcuaCalls'[d] = opcuaCalls[d]
  BY <1>1, Moved
<1>3. PICK n \in Nodes : n = opcuaCalls[c].node BY <1>1, Moved
<1> DEFINE item == Opcua!NewItem(opcuaCalls[c].on, c)
<1>4. item \in ItemType /\ item.live /\ item.handlers = {c}
  <2>1. opcuaCalls[c].on \in Nat \cup {None} BY DEF ConnectionsInv, OpcuaCallType
  <2> QED BY <2>1 DEF ItemType, Opcua!NewItem
<1>5. items' = Append(items, item) BY DEF Opcua!Monitored
<1> HIDE DEF item
<1>6. PICK m \in Nat : m = Len(items) + 1 BY DEF ItemsInv
<1>7. /\ items' \in Seq(ItemType) /\ DOMAIN items' = DOMAIN items \cup {m} /\ m \notin DOMAIN items
      /\ items'[m] = item /\ \A i \in DOMAIN items : items'[i] = items[i]
      /\ Len(items') = m
  BY <1>4, <1>5, <1>6 DEF ItemsInv
<1>8. /\ monitored' \in [Nodes -> Nat \cup {None}] /\ monitored'[n] = m
      /\ \A o \in Nodes : o # n => monitored'[o] = monitored[o]
  <2>1. monitored' = [monitored EXCEPT ![n] = m] BY <1>3, <1>7 DEF Opcua!Monitored
  <2> QED BY <2>1 DEF ItemsInv
<1>9. ASSUME NEW i \in DOMAIN items, NEW d \in items[i].handlers
      PROVE  d \in OpcuaCalls /\ HandlerOK(i, d) /\ opcuaCalls'[d] = opcuaCalls[d]
  <2>1. d \in OpcuaCalls /\ HandlerOK(i, d) BY ItemTyped
  <2> QED BY <1>1, <1>2, <2>1 DEF HandlerOK
<1>10. n \notin raced => monitored[n] = None /\ \A d \in OpcuaCalls : d # c => ~Monitors(d, n)
  <2>1. AskedOnce(n) /\ Monitors(c, n) BY <1>1, <1>3 DEF ItemsInv, Monitors
  <2> QED BY <2>1 DEF AskedOnce
<1>11. ASSUME NEW i \in DOMAIN items', NEW d \in items'[i].handlers PROVE HandlerOK(i, d)'
  <2>1. CASE i = m BY <1>2, <1>3, <1>4, <1>7, <1>8, <1>11, <2>1 DEF HandlerOK
  <2>2. CASE i \in DOMAIN items
    <3>1. /\ d \in OpcuaCalls /\ HandlerOK(i, d) /\ opcuaCalls'[d] = opcuaCalls[d]
          /\ items'[i] = items[i]
      BY <1>7, <1>9, <2>2
    <3>2. i \in Nat BY <2>2 DEF ItemsInv
    <3>3. CASE items[i].live /\ ~items[i].stray /\ opcuaCalls[d].node \notin raced
      <4>1. opcuaCalls[d].stage = "active" /\ monitored[opcuaCalls[d].node] = i
        BY <3>1, <3>3 DEF HandlerOK
      <4>2. opcuaCalls[d].node # n BY <1>10, <3>2, <3>3, <4>1
      <4>3. opcuaCalls[d].node \in Nodes BY <3>1, <4>1 DEF ConnectionsInv, OpcuaCallOK
      <4>4. monitored'[opcuaCalls[d].node] = i BY <1>8, <4>1, <4>2, <4>3
      <4> QED BY <3>1, <4>1, <4>4 DEF HandlerOK
    <3>4. CASE ~(items[i].live /\ ~items[i].stray /\ opcuaCalls[d].node \notin raced)
      BY <1>1, <3>1, <3>4 DEF HandlerOK
    <3> QED BY <3>3, <3>4
  <2> QED BY <1>7, <2>1, <2>2
<1>12. ASSUME NEW o \in Nodes PROVE MonitoredOK(o)'
  <2>1. CASE o = n BY <1>2, <1>3, <1>4, <1>7, <1>8, <2>1 DEF MonitoredOK
  <2>2. CASE o # n
    <3>1. MonitoredOK(o) BY DEF ItemsInv
    <3>2. monitored'[o] = monitored[o] BY <1>8, <2>2
    <3> QED BY <1>1, <1>7, <1>9, <3>1, <3>2 DEF MonitoredOK
  <2> QED BY <2>1, <2>2
<1>13. ASSUME NEW o \in Nodes PROVE AskedOnce(o)'
  <2>1. AskedOnce(o) BY DEF ItemsInv
  <2>2. ASSUME NEW d \in OpcuaCalls, Monitors(d, o)' PROVE d # c /\ Monitors(d, o)
    BY <1>2, <2>2 DEF Monitors
  <2>3. CASE o = n BY <1>1, <1>10, <2>2, <2>3 DEF AskedOnce
  <2>4. CASE o # n BY <1>1, <1>8, <2>1, <2>2, <2>4 DEF AskedOnce
  <2> QED BY <2>3, <2>4
<1>14. ASSUME NEW d \in OpcuaCalls, opcuaCalls'[d].stage = "active"
       PROVE  \E i \in DOMAIN items' : Hears(items'[i], d)
  <2>1. CASE d = c BY <1>4, <1>7, <2>1 DEF Hears
  <2>2. CASE d # c
    <3>1. opcuaCalls[d].stage = "active" BY <1>2, <1>14, <2>2
    <3>2. PICK i \in DOMAIN items : Hears(items[i], d) BY <3>1 DEF ItemsInv, ActiveOK
    <3> QED BY <1>7, <3>2
  <2> QED BY <2>1, <2>2
<1> QED BY <1>7, <1>8, <1>11, <1>12, <1>13, <1>14 DEF ItemsInv, ActiveOK

LEMMA ItemsStep ==
    ItemsInv /\ ConnectionsInv /\ [Opcua!Next]_(Opcua!vars) => ItemsInv'
<1> USE BindingsAssumption
<1> SUFFICES ASSUME ItemsInv, ConnectionsInv, [Opcua!Next]_(Opcua!vars)
             PROVE  ItemsInv'
  OBVIOUS
<1>0. /\ items \in Seq(ItemType)
      /\ \A c \in OpcuaCalls : OpcuaCallOK(opcuaCalls[c])
  BY DEF ItemsInv, ConnectionsInv
<1>1. ASSUME \A c \in OpcuaCalls : Elsewhere(opcuaCalls[c], opcuaCalls'[c]),
             UNCHANGED <<items, monitored, raced>>
      PROVE  ItemsInv'
  <2>1. \A i \in DOMAIN items : Ages(items[i], items'[i]) BY <1>1 DEF Ages
  <2> QED BY <1>0, <1>1, <2>1, ItemsElsewhere
<1>2. ASSUME UNCHANGED opcuaCalls PROVE \A c \in OpcuaCalls : Elsewhere(opcuaCalls[c], opcuaCalls'[c])
  BY <1>2 DEF Elsewhere
<1>3. CASE UNCHANGED Opcua!vars BY <1>1, <1>2, <1>3 DEF Opcua!vars
<1>4. ASSUME NEW c \in OpcuaCalls, NEW call, OpcuaCallOK(call),
             call.stage \in {"connecting", "resolving"}, Opcua!WithConnection(c, call),
             opcuaCalls[c].stage = "unused" \/
               /\ opcuaCalls[c].stage = "connecting"
               /\ call.node = opcuaCalls[c].node /\ call.kind = opcuaCalls[c].kind
      PROVE  ItemsInv'
  <2>1. PICK new : /\ OpcuaCallOK(new) /\ new.stage = call.stage
                   /\ new.node = call.node /\ new.kind = call.kind
                   /\ opcuaCalls' = [opcuaCalls EXCEPT ![c] = new]
    BY <1>4, WithConnectionStep
  <2>2. /\ opcuaCalls'[c] = new
        /\ \A d \in OpcuaCalls : d # c => opcuaCalls'[d] = opcuaCalls[d]
    BY <2>1, OneCallTyped
  <2>3. Elsewhere(opcuaCalls[c], new) BY <1>4, <2>1 DEF Elsewhere
  <2>4. \A d \in OpcuaCalls : Elsewhere(opcuaCalls[d], opcuaCalls'[d])
    BY <2>2, <2>3 DEF Elsewhere
  <2>5. UNCHANGED <<items, monitored, raced>> BY <1>4 DEF Opcua!WithConnection
  <2> QED BY <1>1, <2>4, <2>5
<1>5. ASSUME NEW c \in OpcuaCalls, NEW stage \in {"done", "thrown"},
             opcuaCalls[c].stage \in {"resolving", "monitoring"},
             opcuaCalls' = [opcuaCalls EXCEPT ![c].stage = stage],
             UNCHANGED <<Opcua!Others, items, monitored, raced>>
      PROVE  ItemsInv'
  <2>1. /\ opcuaCalls'[c].stage = stage
        /\ \A d \in OpcuaCalls : d # c => opcuaCalls'[d] = opcuaCalls[d]
    BY <1>5, Moved
  <2>2. \A d \in OpcuaCalls : Elsewhere(opcuaCalls[d], opcuaCalls'[d])
    BY <1>5, <2>1 DEF Elsewhere
  <2> QED BY <1>1, <1>5, <2>2 DEF Opcua!Others
<1>6. ASSUME NEW c \in OpcuaCalls, NEW kind \in {"use", "subscribe", "unlink"},
             NEW e \in Endpoints, NEW n \in Nodes, Opcua!Begin(c, kind, e, n)
      PROVE  ItemsInv'
  <2> DEFINE call == [Opcua!NewCall EXCEPT
                        !.stage = "connecting", !.kind = kind, !.endpoint = e, !.node = n]
  <2>1. OpcuaCallOK(call) /\ call.stage = "connecting"
    BY DEF Opcua!NewCall, OpcuaCallOK, OpcuaCallType
  <2>2. Opcua!WithConnection(c, call) /\ opcuaCalls[c].stage = "unused" BY <1>6 DEF Opcua!Begin
  <2> HIDE DEF call
  <2> QED BY <1>4, <2>1, <2>2
<1>7. ASSUME NEW c \in OpcuaCalls, Opcua!ResolveNodeId(c) PROVE ItemsInv'
  <2>1. PICK call : call = opcuaCalls[c] /\ OpcuaCallOK(call) /\ call.stage = "connecting"
    BY <1>0, <1>7 DEF Opcua!ResolveNodeId, Opcua!Ready
  <2> DEFINE new == [call EXCEPT !.stage = "resolving", !.on = call.waits]
  <2>2. OpcuaCallOK(new) /\ new.stage = "resolving"
    BY <2>1 DEF OpcuaCallOK, OpcuaCallType
  <2>3. new.node = call.node /\ new.kind = call.kind BY <2>1 DEF OpcuaCallOK, OpcuaCallType
  <2>4. Opcua!WithConnection(c, new) BY <1>7, <2>1 DEF Opcua!ResolveNodeId
  <2> HIDE DEF new
  <2> QED BY <1>4, <2>1, <2>2, <2>3, <2>4
<1>8. ASSUME NEW c \in OpcuaCalls, Opcua!CallFails(c) \/ Opcua!UseSession(c) PROVE ItemsInv'
  <2>1. CASE Opcua!CallFails(c) BY <1>5, <2>1 DEF Opcua!CallFails, Opcua!Ready
  <2>2. CASE Opcua!UseSession(c) BY <1>5, <2>2 DEF Opcua!UseSession, Opcua!Ready
  <2> QED BY <1>8, <2>1, <2>2
<1>9. ASSUME NEW c \in OpcuaCalls, Opcua!Subscribe(c) PROVE ItemsInv'
  BY <1>9, SharedStep, AskedStep
<1>10. ASSUME NEW c \in OpcuaCalls, Opcua!Monitored(c) PROVE ItemsInv'
  BY <1>10, MonitoredStep
<1>11. ASSUME NEW c \in OpcuaCalls, Opcua!Unsubscribe(c) \/ Opcua!UnlinkResource(c)
       PROVE  ItemsInv'
  <2>1. PICK stage \in {"ended", "done", "thrown"}, done \in BOOLEAN :
          /\ \/ opcuaCalls[c].stage = "active" /\ stage = "ended"
             \/ opcuaCalls[c].stage = "resolving" /\ stage # "ended"
          /\ Opcua!Unmonitor(opcuaCalls[c].node, done)
          /\ opcuaCalls' = [opcuaCalls EXCEPT ![c].stage = stage]
    BY <1>11 DEF Opcua!Unsubscribe, Opcua!UnlinkResource, Opcua!Ready
  <2>2. opcuaCalls[c].stage # "unused" BY <2>1
  <2>3. /\ opcuaCalls'[c].stage = stage /\ opcuaCalls'[c].node = opcuaCalls[c].node
        /\ \A d \in OpcuaCalls : d # c => opcuaCalls'[d] = opcuaCalls[d]
    BY <2>1, <2>2, Moved
  <2>4. UNCHANGED raced BY <1>11 DEF Opcua!Unsubscribe, Opcua!UnlinkResource
  <2>5. PICK call : call = opcuaCalls'[c] OBVIOUS
  <2> QED BY <2>1, <2>2, <2>3, <2>4, <2>5, UnmonitorStep
<1>12. ASSUME NEW k \in DOMAIN connections, Opcua!Opened(k) PROVE ItemsInv'
  BY <1>1, <1>2, <1>12 DEF Opcua!Opened
<1>13. ASSUME NEW k \in DOMAIN connections, Opcua!ConnectionFails(k) PROVE ItemsInv'
  <2>1. ASSUME NEW c \in OpcuaCalls PROVE Elsewhere(opcuaCalls[c], opcuaCalls'[c])
    <3>1. CASE Opcua!Waits(c, k)
      <4>1. PICK call : call = opcuaCalls[c] /\ OpcuaCallOK(call)
                        /\ call.stage \in {"connecting", "resolving"}
        BY <1>0, <3>1 DEF Opcua!Waits
      <4>2. opcuaCalls'[c] = [call EXCEPT !.stage = "thrown"]
        BY <1>13, <3>1, <4>1 DEF Opcua!ConnectionFails
      <4> QED BY <4>1, <4>2 DEF Elsewhere, OpcuaCallOK, OpcuaCallType
    <3>2. CASE ~Opcua!Waits(c, k) BY <1>13, <3>2 DEF Opcua!ConnectionFails, Elsewhere
    <3> QED BY <3>1, <3>2
  <2>2. UNCHANGED <<items, monitored, raced>> BY <1>13 DEF Opcua!ConnectionFails
  <2> QED BY <1>1, <2>1, <2>2
<1>14. CASE Opcua!Stop
  <2>1. UNCHANGED <<items, monitored, raced, opcuaCalls>> BY <1>14 DEF Opcua!Stop
  <2> QED BY <1>1, <1>2, <2>1
<1>15. CASE Opcua!AllConnected \/ Opcua!Stopped
  <2>1. UNCHANGED <<items, monitored, raced, opcuaCalls>>
    BY <1>15 DEF Opcua!AllConnected, Opcua!Stopped
  <2> QED BY <1>1, <1>2, <2>1
<1>16. CASE Opcua!CloseNext
  <2>1. UNCHANGED <<monitored, opcuaCalls, raced>> BY <1>16 DEF Opcua!CloseNext
  <2>2. /\ items' \in Seq(ItemType) /\ DOMAIN items' = DOMAIN items
        /\ \A i \in DOMAIN items : Ages(items[i], items'[i])
    <3>1. CASE UNCHANGED items BY <1>0, <3>1 DEF Ages
    <3>2. CASE ~UNCHANGED items
      <4>1. PICK k : items' = Opcua!WithoutItemsOf(k) BY <1>16, <3>2 DEF Opcua!CloseNext
      <4>2. ASSUME NEW i \in DOMAIN items
            PROVE  items'[i] \in ItemType /\ Ages(items[i], items'[i])
        <5>1. PICK item : item = items[i] /\ item \in ItemType BY ItemTyped
        <5>2. CASE item.connection = k
          <6>1. items'[i] = [item EXCEPT !.live = FALSE, !.stopped = @ \/ item.live]
            BY <4>1, <5>1, <5>2 DEF Opcua!WithoutItemsOf
          <6>2. PICK ended \in BOOLEAN : ended = (item.stopped \/ item.live) OBVIOUS
          <6>3. items'[i] = [item EXCEPT !.live = FALSE, !.stopped = ended]
            BY <5>1, <6>1, <6>2 DEF ItemType
          <6>4. /\ items'[i] \in ItemType /\ items'[i].handlers = item.handlers
                /\ items'[i].cut = item.cut /\ items'[i].stray = item.stray
                /\ ~items'[i].live /\ items'[i].stopped = ended
            BY <5>1, <6>3 DEF ItemType
          <6> QED BY <5>1, <6>2, <6>4 DEF Ages
        <5>3. CASE item.connection # k
          BY <4>1, <5>1, <5>3 DEF Opcua!WithoutItemsOf, Ages
        <5> QED BY <5>2, <5>3
      <4>3. DOMAIN items' = DOMAIN items BY <4>1 DEF Opcua!WithoutItemsOf
      <4>4. PICK n \in Nat : DOMAIN items = 1 .. n BY <1>0
      <4>5. items' \in [1 .. n -> ItemType]
        <5>1. items' = [i \in 1 .. n |-> items'[i]] BY <4>1, <4>4 DEF Opcua!WithoutItemsOf
        <5> QED BY <4>2, <4>4, <5>1
      <4> QED BY <4>2, <4>3, <4>5
    <3> QED BY <3>1, <3>2
  <2>3. \A c \in OpcuaCalls : Elsewhere(opcuaCalls[c], opcuaCalls'[c]) BY <1>2, <2>1
  <2> QED BY <2>1, <2>2, <2>3, ItemsElsewhere
<1> QED
  BY <1>3, <1>6, <1>7, <1>8, <1>9, <1>10, <1>11, <1>12, <1>13, <1>14, <1>15, <1>16
  DEF Opcua!Next

(* A subscription that has ended hears no more, and one that has not hears *)
(* its node or was ended with the item that it had joined, by another call *)
(* for the node or by stop(), but for an item whose termination failed or  *)
(* a node for which two were begun at once.                                *)
THEOREM HeardWhileActive == Opcua!Spec => []HearsWhileActive
<1>1. ConnectionsInv /\ ItemsInv => HearsWhileActive
  <2> SUFFICES ASSUME ConnectionsInv, ItemsInv PROVE Opcua!HearsWhileActive
    BY DEF HearsWhileActive
  <2>1. ASSUME NEW c \in OpcuaCalls, NEW i \in DOMAIN items, c \in items[i].handlers,
               opcuaCalls[c].node \notin raced, opcuaCalls[c].stage = "ended", items[i].live
        PROVE  items[i].stray
    BY <2>1, ItemTyped DEF HandlerOK
  <2>2. ASSUME NEW c \in OpcuaCalls, opcuaCalls[c].stage = "active"
        PROVE  \E i \in DOMAIN items : /\ c \in items[i].handlers
                                       /\ items[i].live \/ c \in items[i].cut \/ items[i].stopped
    BY <2>2 DEF ItemsInv, ActiveOK, Hears
  <2> QED BY <2>1, <2>2 DEF Opcua!HearsWhileActive
<1>2. Opcua!Spec => [](ConnectionsInv /\ ItemsInv)
  <2>1. ConnectionsInv /\ ItemsInv /\ [Opcua!Next]_(Opcua!vars) => (ConnectionsInv /\ ItemsInv)'
    BY ConnectionsStep, ItemsStep
  <2>2. Opcua!Init => ConnectionsInv /\ ItemsInv BY ConnectionsInit, ItemsInit
  <2> QED BY <2>1, <2>2, PTL DEF Opcua!Spec
<1> QED BY <1>1, <1>2, PTL
=============================================================================
