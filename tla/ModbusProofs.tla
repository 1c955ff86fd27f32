---------------------------- MODULE ModbusProofs ----------------------------
(***************************************************************************)
(* Theorems about ModbusConnection, for any number of requests of any      *)
(* form, of connection loops and of attempts.                              *)
(***************************************************************************)
EXTENDS ModbusConnection, WellFoundedInduction, TLAPS

(* A loop that waits has attempts left.                                     *)
LoopStates == {r \in LoopType : r.phase = "waiting" => r.retry < MaxRetries - 1}

TypeOK ==
    /\ state \in [Ops -> {"new", "pending", "done", "failed"}]
    /\ queue \in Seq(TransactionType)
    /\ current \in TransactionType \cup {None}
    /\ connecting \in BOOLEAN
    /\ open \in BOOLEAN
    /\ closing \in {"no", "port", "replaced"}
    /\ loops \in [Loops -> LoopStates]

(* The transactions in the order in which they are carried out: with       *)
(* cur, the one under way, each request is in one of them at most.         *)
Held(q, cur, o) ==
    \/ \E k \in DOMAIN q : o \in Range(q[k].ops)
    \/ cur # None /\ o \in Range(cur.ops)

Apart(q, cur) ==
    /\ \A j, k \in DOMAIN q : j # k => Range(q[j].ops) \cap Range(q[k].ops) = {}
    /\ cur # None => \A k \in DOMAIN q : Range(cur.ops) \cap Range(q[k].ops) = {}

Placed ==
    /\ Apart(queue, current)
    /\ \A o \in Ops : state[o] = "pending" <=> Held(queue, current, o)

IInv == TypeOK /\ Placed

-----------------------------------------------------------------------------
(* Lemmas about the operators                                              *)

LEMMA OpsFields ==
    ASSUME NEW t \in TransactionType
    PROVE  /\ t # None
           /\ t.ops \in Seq(Ops) /\ t.content \in Seq(Words)
           /\ t.base \in Addresses /\ t.quantity \in Nat
           /\ Range(t.ops) \subseteq Ops
<1>1. t # None BY MarkerAssumption
<1>2. t.ops \in Seq(Ops) BY DEF TransactionType
<1>3. Range(t.ops) \subseteq Ops BY <1>2 DEF Range
<1> QED BY <1>1, <1>2, <1>3 DEF TransactionType

LEMMA FormFields ==
    ASSUME NEW o \in Ops
    PROVE  /\ Form[o] \in FormType
           /\ Form[o].unit \in Units /\ Form[o].entity \in Entities
           /\ Form[o].function \in Functions
           /\ Form[o].base \in Nat /\ Form[o].base \in Addresses
           /\ Form[o].quantity \in Nat \ {0}
           /\ Form[o].base + Form[o].quantity <= MaxAddress + 1
  BY FormAssumption, NumbersAssumption DEF FormType, Addresses

LEMMA ContentTyped ==
    ASSUME NEW o \in Ops
    PROVE  /\ Content(o) \in Seq(Words)
           /\ Writes(o) => Len(Content(o)) = Form[o].quantity
           /\ Writes(o) => Content(o) # <<>>
           /\ ~Writes(o) => Content(o) = <<>>
<1> DEFINE q == Form[o].quantity
<1>1. q \in Nat \ {0} /\ q <= MaxAddress + 1 /\ MaxAddress \in Nat
  BY FormFields, NumbersAssumption
<1>2. \A k \in 1 .. q : <<o, k>> \in Words
  BY <1>1 DEF Words
<1>3. CASE Writes(o)
  <2>1. Content(o) = [k \in 1 .. q |-> <<o, k>>] BY <1>3 DEF Content
  <2>2. Content(o) \in [1 .. q -> Words] BY <2>1, <1>2
  <2>3. Content(o) \in Seq(Words) /\ Len(Content(o)) = q BY <2>2, <1>1
  <2> QED BY <2>3, <1>1, <1>3
<1>4. CASE ~Writes(o) BY <1>4 DEF Content
<1> QED BY <1>3, <1>4

LEMMA TransactionTyped ==
    ASSUME NEW o \in Ops
    PROVE  Transaction(o) \in TransactionType /\ Range(Transaction(o).ops) = {o}
<1>1. <<o>> \in Seq(Ops) /\ Range(<<o>>) = {o}
  BY DEF Range
<1> QED BY <1>1, FormFields, ContentTyped DEF Transaction, TransactionType

LEMMA RangeAppend ==
    ASSUME NEW S, NEW s \in Seq(S), NEW e \in S
    PROVE  Range(Append(s, e)) = Range(s) \cup {e}
<1>1. DOMAIN Append(s, e) = 1 .. Len(s) + 1 /\ DOMAIN s = 1 .. Len(s) OBVIOUS
<1>2. \A k \in 1 .. Len(s) : Append(s, e)[k] = s[k] OBVIOUS
<1>3. Append(s, e)[Len(s) + 1] = e OBVIOUS
<1> QED BY <1>1, <1>2, <1>3 DEF Range

LEMMA CombinedTyped ==
    ASSUME NEW t \in TransactionType, NEW o \in Ops, Combinable(t, o)
    PROVE  /\ Combined(t, o) \in TransactionType
           /\ Range(Combined(t, o).ops) = Range(t.ops) \cup {o}
<1> DEFINE s == Combined(t, o)
<1> USE FormFields, ContentTyped, OpsFields
<1>1. /\ s.unit = t.unit /\ s.entity = t.entity /\ s.function = t.function
      /\ s.quantity = t.quantity + Form[o].quantity /\ s.ops = Append(t.ops, o)
  BY DEF Combined, TransactionType
<1>2. s.base \in Addresses /\ s.content \in Seq(Words)
  <2>1. CASE Follows(t, o)
    BY <2>1 DEF Combined, TransactionType
  <2>2. CASE ~Follows(t, o)
    <3>1. Form[o].base + Form[o].quantity = t.base
      BY <2>2 DEF Combinable, Precedes
    <3>2. s.base = t.base - Form[o].quantity
      BY <2>2 DEF Combined, TransactionType
    <3>3. s.base = Form[o].base
      BY <3>1, <3>2
    <3>4. s.content = Content(o) \o t.content
      BY <2>2 DEF Combined, TransactionType
    <3> QED BY <3>3, <3>4
  <2> QED BY <2>1, <2>2
<1>3. s \in [unit : Units, entity : Entities, function : Functions,
             base : Addresses, quantity : Nat, content : Seq(Words), ops : Seq(Ops)]
  <2>1. s = [unit |-> s.unit, entity |-> s.entity, function |-> s.function,
             base |-> s.base, quantity |-> s.quantity, content |-> s.content, ops |-> s.ops]
    BY DEF Combined, TransactionType
  <2>2. s.unit \in Units /\ s.entity \in Entities /\ s.function \in Functions
    BY <1>1 DEF TransactionType
  <2>3. s.quantity \in Nat /\ s.ops \in Seq(Ops)
    BY <1>1
  <2> HIDE DEF s
  <2> QED BY <2>1, <2>2, <2>3, <1>2
<1>4. Range(s.ops) = Range(t.ops) \cup {o}
  BY <1>1, RangeAppend
<1> QED BY <1>3, <1>4 DEF TransactionType

LEMMA SmallestIn ==
    ASSUME NEW S, S \subseteq Nat, S # {}
    PROVE  \E m \in S : \A j \in S : m <= j
<1> DEFINE less == {p \in Nat \X Nat : p[1] < p[2]}
<1>1. IsWellFoundedOn(less, Nat)
  BY NatLessThanWellFounded DEF OpToRel
<1>2. PICK m \in S : \A j \in S : <<j, m>> \notin less
  BY <1>1, WFMin, Zenon
<1>3. ASSUME NEW j \in S PROVE m <= j
  <2>1. j \in Nat /\ m \in Nat OBVIOUS
  <2>2. ~ (j < m) BY <1>2, <2>1
  <2> QED BY <2>1, <2>2
<1> QED BY <1>3

LEMMA EnqueuedForms ==
    ASSUME TypeOK, NEW o \in Ops
    PROVE  \/ Enqueued(o) = Append(queue, Transaction(o))
           \/ \E k \in DOMAIN queue :
                /\ Combinable(queue[k], o)
                /\ Enqueued(o) = [queue EXCEPT ![k] = Combined(queue[k], o)]
<1> DEFINE fits == {k \in DOMAIN queue : Combinable(queue[k], o)}
<1>1. CASE fits = {}
  BY <1>1 DEF Enqueued
<1>2. CASE fits # {}
  <2> DEFINE k == CHOOSE k \in fits : \A j \in fits : k <= j
  <2>1. fits \subseteq Nat BY DEF TypeOK
  <2>2. \E m \in fits : \A j \in fits : m <= j
    BY <2>1, <1>2, SmallestIn
  <2>3. k \in fits BY <2>2
  <2>4. Enqueued(o) = [queue EXCEPT ![k] = Combined(queue[k], o)]
    BY <1>2 DEF Enqueued
  <2> QED BY <2>3, <2>4
<1> QED BY <1>1, <1>2

(* A request that is in no transaction yet is put in one, and the others   *)
(* stay where they are.                                                    *)
LEMMA EnqueuedEffect ==
    ASSUME TypeOK, Apart(queue, current), NEW o \in Ops,
           ~Held(queue, current, o)
    PROVE  /\ Enqueued(o) \in Seq(TransactionType)
           /\ Apart(Enqueued(o), current)
           /\ \A p \in Ops : Held(Enqueued(o), current, p)
                              <=> Held(queue, current, p) \/ p = o
<1> DEFINE q == Enqueued(o)
<1>0. queue \in Seq(TransactionType) /\ DOMAIN queue = 1 .. Len(queue)
  BY DEF TypeOK
<1>1. CASE q = Append(queue, Transaction(o))
  <2>1. q = Append(queue, Transaction(o))
    BY <1>1
  <2>2. Transaction(o) \in TransactionType /\ Range(Transaction(o).ops) = {o}
    BY TransactionTyped
  <2>3. /\ DOMAIN q = 1 .. Len(queue) + 1
        /\ \A k \in DOMAIN queue : q[k] = queue[k]
        /\ q[Len(queue) + 1] = Transaction(o)
    BY <2>1, <2>2, <1>0
  <2>4. \A k \in DOMAIN queue : o \notin Range(queue[k].ops)
    BY DEF Held
  <2>5. current # None => o \notin Range(current.ops)
    BY DEF Held
  <2>6. \A k \in DOMAIN q : k \in DOMAIN queue \/ k = Len(queue) + 1
    BY <2>3, <1>0
  <2>7. DOMAIN queue \subseteq DOMAIN q /\ Len(queue) + 1 \in DOMAIN q
    BY <2>3, <1>0
  <2>8. q \in Seq(TransactionType)
    BY <2>1, <2>2, <1>0
  <2> HIDE DEF q
  <2>9. Apart(q, current)
    <3>1. \A k \in DOMAIN q :
            \/ k \in DOMAIN queue /\ Range(q[k].ops) = Range(queue[k].ops)
            \/ k = Len(queue) + 1 /\ Range(q[k].ops) = {o}
      <4>1. ASSUME NEW k \in DOMAIN queue PROVE Range(q[k].ops) = Range(queue[k].ops)
        BY <2>3
      <4>2. Range(q[Len(queue) + 1].ops) = {o}
        BY <2>2, <2>3
      <4> QED BY <4>1, <4>2, <2>6
    <3>2. ASSUME NEW j \in DOMAIN q, NEW k \in DOMAIN q, j # k
          PROVE  Range(q[j].ops) \cap Range(q[k].ops) = {}
      <4>1. CASE j \in DOMAIN queue /\ k \in DOMAIN queue
        BY <4>1, <3>2, <2>3 DEF Apart
      <4>2. CASE ~ (j \in DOMAIN queue /\ k \in DOMAIN queue)
        BY <4>2, <3>1, <3>2, <2>3, <2>4
      <4> QED BY <4>1, <4>2
    <3>3. ASSUME current # None, NEW k \in DOMAIN q
          PROVE  Range(current.ops) \cap Range(q[k].ops) = {}
      BY <3>1, <3>3, <2>5 DEF Apart
    <3> QED BY <3>2, <3>3 DEF Apart
  <2>10. \A p \in Ops : Held(q, current, p) <=> Held(queue, current, p) \/ p = o
    BY <2>2, <2>3, <2>6, <2>7 DEF Held
  <2> QED BY <2>8, <2>9, <2>10 DEF q
<1>2. ASSUME NEW k \in DOMAIN queue, Combinable(queue[k], o),
             q = [queue EXCEPT ![k] = Combined(queue[k], o)]
      PROVE  /\ q \in Seq(TransactionType)
             /\ Apart(q, current)
             /\ \A p \in Ops : Held(q, current, p) <=> Held(queue, current, p) \/ p = o
  <2>3. k \in DOMAIN queue /\ Combinable(queue[k], o) /\ queue[k] \in TransactionType
    BY <1>2, <1>0
  <2>4. q = [queue EXCEPT ![k] = Combined(queue[k], o)]
    BY <1>2
  <2>5. /\ Combined(queue[k], o) \in TransactionType
        /\ Range(Combined(queue[k], o).ops) = Range(queue[k].ops) \cup {o}
    BY <2>3, CombinedTyped
  <2>6. /\ DOMAIN q = DOMAIN queue
        /\ q[k] = Combined(queue[k], o)
        /\ \A j \in DOMAIN queue : j # k => q[j] = queue[j]
    BY <2>3, <2>4
  <2>7. q \in Seq(TransactionType)
    BY <2>3, <2>4, <2>5, <1>0
  <2>8. \A j \in DOMAIN queue : o \notin Range(queue[j].ops)
    BY DEF Held
  <2>9. current # None => o \notin Range(current.ops)
    BY DEF Held
  <2> HIDE DEF q
  <2>10. \A j \in DOMAIN q : Range(q[j].ops)
                = IF j = k THEN Range(queue[k].ops) \cup {o} ELSE Range(queue[j].ops)
    BY <2>5, <2>6
  <2>11. Apart(q, current)
    BY <2>3, <2>6, <2>8, <2>9, <2>10 DEF Apart
  <2>12. \A p \in Ops : Held(q, current, p) <=> Held(queue, current, p) \/ p = o
    BY <2>3, <2>6, <2>10 DEF Held
  <2> QED BY <2>7, <2>11, <2>12 DEF q
<1> QED BY <1>1, <1>2, EnqueuedForms

LEMMA TailEntries ==
    ASSUME NEW S, NEW s \in Seq(S), s # <<>>
    PROVE  /\ Head(s) = s[1] /\ Head(s) \in S
           /\ 1 \in DOMAIN s
           /\ Tail(s) \in Seq(S)
           /\ DOMAIN Tail(s) = 1 .. Len(s) - 1
           /\ \A k \in DOMAIN Tail(s) :
                /\ Tail(s)[k] = s[k + 1]
                /\ k + 1 \in DOMAIN s /\ k + 1 # 1
           /\ \A k \in DOMAIN s : k # 1 => k - 1 \in DOMAIN Tail(s) /\ k = (k - 1) + 1
  OBVIOUS

(* trigger() moves a request at most from the queue to the transaction     *)
(* under way.                                                              *)
LEMMA TriggerEffect ==
    ASSUME NEW waiting \in Seq(TransactionType), NEW busy \in BOOLEAN,
           NEW isOpen \in BOOLEAN, NEW isConnecting \in BOOLEAN,
           NEW running \in [Loops -> LoopStates],
           current \in TransactionType \cup {None},
           Apart(waiting, IF busy THEN current ELSE None),
           Trigger(waiting, busy, isOpen, isConnecting, running)
    PROVE  /\ queue' \in Seq(TransactionType)
           /\ current' \in TransactionType \cup {None}
           /\ connecting' \in BOOLEAN
           /\ loops' \in [Loops -> LoopStates]
           /\ Apart(queue', current')
           /\ \A o \in Ops : Held(queue', current', o)
                <=> Held(waiting, IF busy THEN current ELSE None, o)
<1>1. CASE MayStart(waiting, busy, isOpen)
  <2>1. /\ current' = Head(waiting) /\ queue' = Tail(waiting)
        /\ connecting' = isConnecting /\ loops' = running
        /\ ~busy /\ waiting # <<>>
    BY <1>1 DEF Trigger, MayStart
  <2>2. current' = waiting[1] /\ current' \in TransactionType /\ current' # None
    BY <2>1, TailEntries, OpsFields
  <2>3. \A k \in DOMAIN queue' :
          queue'[k] = waiting[k + 1] /\ k + 1 \in DOMAIN waiting /\ k + 1 # 1
    BY <2>1, TailEntries
  <2>4. \A k \in DOMAIN waiting : k # 1 => k - 1 \in DOMAIN queue' /\ k = (k - 1) + 1
    BY <2>1, TailEntries
  <2>5. 1 \in DOMAIN waiting /\ queue' \in Seq(TransactionType)
    BY <2>1, TailEntries
  <2>6. \A j, k \in DOMAIN waiting :
          j # k => Range(waiting[j].ops) \cap Range(waiting[k].ops) = {}
    BY DEF Apart
  <2>7. Apart(queue', current')
    <3>1. ASSUME NEW j \in DOMAIN queue', NEW k \in DOMAIN queue', j # k
          PROVE  Range(queue'[j].ops) \cap Range(queue'[k].ops) = {}
      <4>1. j + 1 # k + 1 BY <3>1, <2>5
      <4> QED BY <4>1, <2>3, <2>6
    <3>2. ASSUME NEW k \in DOMAIN queue'
          PROVE  Range(current'.ops) \cap Range(queue'[k].ops) = {}
      BY <2>2, <2>3, <2>5, <2>6
    <3> QED BY <3>1, <3>2 DEF Apart
  <2>8. ASSUME NEW o \in Ops
        PROVE  Held(queue', current', o) <=> Held(waiting, None, o)
    <3>1. ASSUME Held(queue', current', o) PROVE Held(waiting, None, o)
      BY <3>1, <2>2, <2>3, <2>5 DEF Held
    <3>2. ASSUME Held(waiting, None, o) PROVE Held(queue', current', o)
      <4>1. PICK k \in DOMAIN waiting : o \in Range(waiting[k].ops)
        BY <3>2 DEF Held
      <4>2. CASE k = 1 BY <4>1, <4>2, <2>2 DEF Held
      <4>3. CASE k # 1
        <5>1. k - 1 \in DOMAIN queue' /\ queue'[k - 1] = waiting[k]
          BY <4>3, <2>3, <2>4
        <5> QED BY <5>1, <4>1 DEF Held
      <4> QED BY <4>2, <4>3
    <3> QED BY <3>1, <3>2
  <2> QED BY <2>1, <2>2, <2>5, <2>7, <2>8
<1>2. CASE ~MayStart(waiting, busy, isOpen)
  <2>1. /\ queue' = waiting
        /\ current' = IF busy THEN current ELSE None
        /\ \/ Connect(isOpen, isConnecting, running)
           \/ connecting' = isConnecting /\ loops' = running
    BY <1>2 DEF Trigger
  <2>2. connecting' \in BOOLEAN /\ loops' \in [Loops -> LoopStates]
    <3>1. [phase |-> "attempting", retry |-> 0] \in LoopStates
      BY NumbersAssumption DEF LoopStates, LoopType
    <3>2. CASE Connect(isOpen, isConnecting, running)
      BY <3>1, <3>2 DEF Connect
    <3> QED BY <2>1, <3>2
  <2> QED BY <2>1, <2>2
<1> QED BY <1>1, <1>2

LEMMA QueuedOpsHeld ==
    ASSUME NEW o
    PROVE  o \in QueuedOps <=> \E k \in DOMAIN queue : o \in Range(queue[k].ops)
  BY DEF QueuedOps

LEMMA StateSettled ==
    ASSUME TypeOK, NEW ops, NEW outcome \in {"done", "failed"}, Settle(ops, outcome)
    PROVE  /\ state' \in [Ops -> {"new", "pending", "done", "failed"}]
           /\ \A o \in Ops : state'[o] = "pending" <=> state[o] = "pending" /\ o \notin ops
<1>1. state' = [o \in Ops |-> IF o \in ops THEN outcome ELSE state[o]]
  BY DEF Settle
<1>2. \A o \in Ops : state[o] \in {"new", "pending", "done", "failed"}
  BY DEF TypeOK
<1> QED BY <1>1, <1>2

-----------------------------------------------------------------------------
(* The invariant                                                           *)

LEMMA InitPlaced == Init => IInv
<1> SUFFICES ASSUME Init PROVE IInv OBVIOUS
<1>1. state \in [Ops -> {"new", "pending", "done", "failed"}]
  BY DEF Init
<1>2. loops \in [Loops -> LoopStates]
  BY NumbersAssumption DEF Init, LoopStates, LoopType, NotConnecting
<1>3. TypeOK
  <2>1. queue \in Seq(TransactionType)
    BY DEF Init
  <2> QED BY <1>1, <1>2, <2>1 DEF Init, TypeOK
<1>4. DOMAIN queue = {} /\ current = None
  BY DEF Init
<1>5. \A o \in Ops : state[o] # "pending"
  BY DEF Init
<1>6. Placed
  BY <1>4, <1>5 DEF Placed, Apart, Held
<1> QED BY <1>3, <1>6 DEF IInv

(* A transaction that is over: its requests are settled and those in the   *)
(* queue are untouched.                                                    *)
LEMMA TransactionOver ==
    ASSUME IInv, current # None, NEW outcome \in {"done", "failed"},
           Settle(Range(current.ops), outcome),
           Trigger(queue, FALSE, open, connecting, loops),
           UNCHANGED <<open, closing>>
    PROVE  IInv'
<1> USE DEF IInv
<1>1. Apart(queue, None)
  BY DEF Placed, Apart
<1>2. /\ queue' \in Seq(TransactionType) /\ current' \in TransactionType \cup {None}
      /\ connecting' \in BOOLEAN /\ loops' \in [Loops -> LoopStates]
      /\ Apart(queue', current')
      /\ \A o \in Ops : Held(queue', current', o) <=> Held(queue, None, o)
  BY <1>1, TriggerEffect DEF TypeOK
<1>3. /\ state' \in [Ops -> {"new", "pending", "done", "failed"}]
      /\ \A o \in Ops : state'[o] = "pending"
           <=> state[o] = "pending" /\ o \notin Range(current.ops)
  BY StateSettled
<1>4. TypeOK'
  BY <1>2, <1>3 DEF TypeOK
<1>5. ASSUME NEW o \in Ops
      PROVE  state'[o] = "pending" <=> Held(queue', current', o)
  <2>1. state[o] = "pending" <=> Held(queue, current, o)
    BY DEF Placed
  <2>2. Held(queue, None, o) <=> Held(queue, current, o) /\ o \notin Range(current.ops)
    BY DEF Placed, Apart, Held
  <2> QED BY <2>1, <2>2, <1>2, <1>3
<1> QED BY <1>2, <1>4, <1>5 DEF Placed

LEMMA StepPlaced == IInv /\ [Next]_vars => IInv'
<1> SUFFICES ASSUME IInv, [Next]_vars PROVE IInv' OBVIOUS
<1> USE DEF IInv
<1>1. ASSUME NEW o \in Ops, Issue(o) PROVE IInv'
  <2> DEFINE q == Enqueued(o)
  <2>1. ~Held(queue, current, o)
    BY <1>1 DEF Issue, Placed
  <2>2. /\ q \in Seq(TransactionType) /\ Apart(q, current)
        /\ \A p \in Ops : Held(q, current, p) <=> Held(queue, current, p) \/ p = o
    BY <2>1, EnqueuedEffect DEF Placed
  <2> HIDE DEF q
  <2>3. Trigger(q, current # None, open, connecting, loops)
    BY <1>1 DEF Issue, q
  <2>4. current = IF current # None THEN current ELSE None
    OBVIOUS
  <2>5. /\ queue' \in Seq(TransactionType) /\ current' \in TransactionType \cup {None}
        /\ connecting' \in BOOLEAN /\ loops' \in [Loops -> LoopStates]
        /\ Apart(queue', current')
        /\ \A p \in Ops : Held(queue', current', p) <=> Held(q, current, p)
    <3>1. /\ current \in TransactionType \cup {None} /\ open \in BOOLEAN
          /\ connecting \in BOOLEAN /\ loops \in [Loops -> LoopStates]
      BY DEF TypeOK
    <3>2. (current # None) \in BOOLEAN OBVIOUS
    <3>3. Apart(q, IF current # None THEN current ELSE None) BY <2>2, <2>4
    <3>4. /\ queue' \in Seq(TransactionType) /\ current' \in TransactionType \cup {None}
          /\ connecting' \in BOOLEAN /\ loops' \in [Loops -> LoopStates]
          /\ Apart(queue', current')
          /\ \A p \in Ops : Held(queue', current', p)
               <=> Held(q, IF current # None THEN current ELSE None, p)
      BY ONLY <3>1, <3>2, <3>3, <2>2, <2>3, TriggerEffect
    <3> QED BY ONLY <3>4, <2>4
  <2>6. /\ state' \in [Ops -> {"new", "pending", "done", "failed"}]
        /\ \A p \in Ops : state'[p] = "pending" <=> state[p] = "pending" \/ p = o
    BY <1>1 DEF Issue, TypeOK
  <2>7. TypeOK'
    BY <1>1, <2>5, <2>6 DEF Issue, TypeOK
  <2>8. \A p \in Ops : state'[p] = "pending" <=> Held(queue', current', p)
    BY <2>2, <2>5, <2>6 DEF Placed
  <2> QED BY <2>5, <2>7, <2>8 DEF Placed
<1>2. ASSUME NEW l \in Loops, ConnectOk(l) PROVE IInv'
  <2> DEFINE running == [loops EXCEPT ![l] = NotConnecting]
  <2>1. running \in [Loops -> LoopStates]
    BY NumbersAssumption DEF TypeOK, LoopStates, LoopType, NotConnecting
  <2>2. Trigger(queue, current # None, TRUE, FALSE, running)
    BY <1>2 DEF ConnectOk
  <2> HIDE DEF running
  <2>3. current = IF current # None THEN current ELSE None
    OBVIOUS
  <2>4. /\ queue' \in Seq(TransactionType) /\ current' \in TransactionType \cup {None}
        /\ connecting' \in BOOLEAN /\ loops' \in [Loops -> LoopStates]
        /\ Apart(queue', current')
        /\ \A p \in Ops : Held(queue', current', p) <=> Held(queue, current, p)
    BY <2>1, <2>2, <2>3, TriggerEffect DEF TypeOK, Placed
  <2>5. TypeOK'
    BY <1>2, <2>4 DEF ConnectOk, TypeOK
  <2> QED BY <1>2, <2>4, <2>5 DEF Placed, ConnectOk
<1>3. ASSUME NEW l \in Loops, GivenUp(l) PROVE IInv'
  <2>1. /\ state' \in [Ops -> {"new", "pending", "done", "failed"}]
        /\ \A o \in Ops : state'[o] = "pending" <=> state[o] = "pending" /\ o \notin QueuedOps
    BY <1>3, StateSettled DEF GivenUp
  <2>2. loops' \in [Loops -> LoopStates]
    BY <1>3, NumbersAssumption DEF GivenUp, TypeOK, LoopStates, LoopType, NotConnecting
  <2>3. TypeOK'
    <3>1. queue' \in Seq(TransactionType)
      BY <1>3 DEF GivenUp
    <3> QED BY <1>3, <2>1, <2>2, <3>1 DEF GivenUp, TypeOK
  <2>4. DOMAIN queue' = {} /\ current' = current
    BY <1>3 DEF GivenUp
  <2>5. \A o \in Ops : Held(queue', current', o)
                      <=> Held(queue, current, o) /\ o \notin QueuedOps
    BY <2>4, QueuedOpsHeld DEF Placed, Apart, Held
  <2>6. Apart(queue', current')
    BY <2>4 DEF Apart
  <2> QED BY <2>1, <2>3, <2>5, <2>6 DEF Placed
<1>4. ASSUME NEW l \in Loops, AttemptFails(l) \/ Retry(l) PROVE IInv'
  <2>1. loops' \in [Loops -> LoopStates]
    <3>1. CASE AttemptFails(l)
      BY <3>1 DEF AttemptFails, TypeOK, LoopStates, LoopType, Attempting
    <3>2. CASE Retry(l)
      BY <3>2, NumbersAssumption DEF Retry, TypeOK, LoopStates, LoopType, Waiting
    <3> QED BY <1>4, <3>1, <3>2
  <2>2. TypeOK'
    BY <1>4, <2>1 DEF AttemptFails, Retry, TypeOK
  <2>3. UNCHANGED <<state, queue, current>>
    BY <1>4 DEF AttemptFails, Retry
  <2> QED BY <2>2, <2>3 DEF Placed
<1>5. CASE TransactionDone
  BY <1>5, TransactionOver DEF TransactionDone
<1>6. CASE TransactionFails
  BY <1>6, TransactionOver DEF TransactionFails
<1>7. CASE DeviceExecutes \/ ModbusStop \/ Closed \/ ConnectionLost \/ UNCHANGED vars
  <2>1. TypeOK'
    BY <1>7 DEF DeviceExecutes, ModbusStop, Closed, ConnectionLost, vars, TypeOK
  <2>2. UNCHANGED <<state, queue, current>>
    BY <1>7 DEF DeviceExecutes, ModbusStop, Closed, ConnectionLost, vars
  <2> QED BY <2>1, <2>2 DEF Placed
<1> QED
  BY <1>1, <1>2, <1>3, <1>4, <1>5, <1>6, <1>7 DEF Next, Attempted, TransactionEnds

LEMMA PlacedIsInvariant == Spec => []IInv
<1>1. Init => IInv BY InitPlaced
<1>2. IInv /\ [Next]_vars => IInv' BY StepPlaced
<1> QED BY <1>1, <1>2, PTL DEF Spec

-----------------------------------------------------------------------------
(* Theorems                                                                *)

(* The queue holds whole transactions of the connection's requests, and no *)
(* invocation of connect() attempts more often than maxRetries.            *)
THEOREM TypeCorrect == Spec => []TypeOK
<1>1. IInv => TypeOK BY DEF IInv
<1> QED BY <1>1, PlacedIsInvariant, PTL

(* A request is pending exactly while it waits in one transaction, and     *)
(* none that is settled is executed again: for any requests, combined in   *)
(* any order, and any number of overlapping invocations of connect().      *)
THEOREM RequestsPendingOnce == Spec => []PendingOnce
<1>1. IInv => PendingOnce
  <2> SUFFICES ASSUME IInv PROVE PendingOnce OBVIOUS
  <2>1. \A o \in Ops : state[o] = "pending" <=> Held(queue, current, o)
    BY DEF IInv, Placed
  <2>2. \A o \in Ops :
          Held(queue, current, o) <=> \E t \in Transactions : o \in Range(t.ops)
    BY DEF Held, Transactions
  <2>3. current # None => Range(current.ops) \cap QueuedOps = {}
    BY QueuedOpsHeld DEF IInv, Placed, Apart
  <2> QED BY <2>1, <2>2, <2>3 DEF PendingOnce, IInv, Placed, Apart
<1> QED BY <1>1, PlacedIsInvariant, PTL

-----------------------------------------------------------------------------
(* What a combined request gets                                            *)

(* Requests for registers, none with the function that writes only one.    *)
WholeRegisters ==
    \A o \in Ops : Form[o].entity \notin BitEntities /\ Form[o].function \notin SingleWrites

(* A transaction spans its requests, and has their words in their places.  *)
Spans(t, o) ==
    /\ t.unit = Form[o].unit /\ t.entity = Form[o].entity
    /\ t.base <= Form[o].base
    /\ Form[o].base + Form[o].quantity <= t.base + t.quantity

Covers(t, o) ==
    /\ Spans(t, o)
    /\ Writes(o) <=> t.content # <<>>
    /\ Writes(o) => \A k \in 1 .. Form[o].quantity :
                      t.content[(Form[o].base - t.base) + k] = <<o, k>>

Aligned(t) ==
    /\ t.entity \notin BitEntities /\ t.function \notin SingleWrites
    /\ t.content # <<>> => Len(t.content) = t.quantity
    /\ \A o \in Range(t.ops) : Covers(t, o)

AllAligned(q, cur) ==
    /\ \A k \in DOMAIN q : Aligned(q[k])
    /\ cur # None => Aligned(cur)

(* Once the device has carried out the transaction, it holds what was      *)
(* written, and the answer is what it holds.                               *)
Executed ==
    current # None /\ answer # None =>
      IF current.content = <<>>
      THEN answer = <<Read(current)>>
      ELSE \A k \in 1 .. current.quantity :
             Cell(current, k) \in Cells => device[Cell(current, k)] = current.content[k]

DataInv == AllAligned(queue, current) /\ Executed

LEMMA TransactionAligned ==
    ASSUME WholeRegisters, NEW o \in Ops
    PROVE  Aligned(Transaction(o))
<1> DEFINE t == Transaction(o)
<1>1. /\ t.unit = Form[o].unit /\ t.entity = Form[o].entity
      /\ t.function = Form[o].function /\ t.base = Form[o].base
      /\ t.quantity = Form[o].quantity /\ t.content = Content(o)
  BY DEF Transaction
<1>2. Range(t.ops) = {o} BY TransactionTyped
<1> HIDE DEF t
<1>3. \A k \in 1 .. Form[o].quantity : Writes(o) => Content(o)[k] = <<o, k>>
  BY DEF Content
<1>4. \A k \in 1 .. Form[o].quantity : (Form[o].base - t.base) + k = k
  BY <1>1, FormFields
<1>5. Covers(t, o)
  BY <1>1, <1>3, <1>4, FormFields, ContentTyped DEF Covers, Spans
<1>6. t.content # <<>> => Len(t.content) = t.quantity
  BY <1>1, ContentTyped
<1> QED BY <1>1, <1>2, <1>5, <1>6 DEF Aligned, WholeRegisters, t

LEMMA ConcatEntries ==
    ASSUME NEW S, NEW s \in Seq(S), NEW r \in Seq(S)
    PROVE  /\ Len(s \o r) = Len(s) + Len(r)
           /\ \A k \in 1 .. Len(s) : (s \o r)[k] = s[k]
           /\ \A k \in 1 .. Len(r) : (s \o r)[Len(s) + k] = r[k]
  OBVIOUS

LEMMA PlaceWithin ==
    ASSUME NEW base \in Nat, NEW quantity \in Nat, NEW b \in Nat, NEW q \in Nat,
           base <= b, b + q <= base + quantity, NEW k \in 1 .. q
    PROVE  /\ (b - base) + k \in 1 .. quantity
           /\ \A n \in Nat : (b - (base - n)) + k = n + ((b - base) + k)
  OBVIOUS

LEMMA CombinedAligned ==
    ASSUME WholeRegisters, NEW t \in TransactionType, Aligned(t),
           NEW o \in Ops, Combinable(t, o)
    PROVE  Aligned(Combined(t, o))
<1> DEFINE s == Combined(t, o)
<1>1. /\ s.unit = t.unit /\ s.entity = t.entity /\ s.function = t.function
      /\ s.quantity = t.quantity + Form[o].quantity
  BY DEF Combined, TransactionType
<1>2. Range(s.ops) = Range(t.ops) \cup {o}
  BY CombinedTyped
<1>3. /\ Form[o].unit = t.unit /\ Form[o].entity = t.entity
      /\ Writes(o) <=> t.content # <<>>
  BY DEF Combinable, Follows, Precedes, SameType
<1>4. /\ Content(o) \in Seq(Words) /\ t.content \in Seq(Words)
      /\ t.base \in Nat /\ t.quantity \in Nat
      /\ Form[o].base \in Nat /\ Form[o].quantity \in Nat
  BY ContentTyped, FormFields, OpsFields DEF Addresses
<1>5. /\ Writes(o) => Len(Content(o)) = Form[o].quantity /\ Content(o) # <<>>
      /\ ~Writes(o) => Content(o) = <<>>
      /\ \A k \in 1 .. Form[o].quantity : Writes(o) => Content(o)[k] = <<o, k>>
  BY ContentTyped DEF Content
<1>6. t.content # <<>> => Len(t.content) = t.quantity
  BY DEF Aligned
<1>7. ASSUME NEW p \in Range(t.ops) PROVE p \in Ops /\ Covers(t, p)
  BY <1>7, OpsFields DEF Aligned
<1>8. CASE Follows(t, o)
  <2>1. s.base = t.base /\ s.content = t.content \o Content(o)
    BY <1>8 DEF Combined, TransactionType
  <2> HIDE DEF s
  <2>2. Form[o].base = t.base + t.quantity
    BY <1>8 DEF Follows
  <2>3. Covers(s, o)
    <3>1. s.content # <<>> <=> Writes(o)
      BY <2>1, <1>3, <1>4, <1>5
    <3>2. ASSUME Writes(o), NEW k \in 1 .. Form[o].quantity
          PROVE  s.content[(Form[o].base - s.base) + k] = <<o, k>>
      <4>1. (Form[o].base - s.base) + k = Len(t.content) + k
        BY <3>2, <2>1, <2>2, <1>3, <1>4, <1>6
      <4>2. (t.content \o Content(o))[Len(t.content) + k] = Content(o)[k]
        BY <3>2, <1>4, <1>5, ConcatEntries
      <4> QED BY <4>1, <4>2, <3>2, <2>1, <1>5
    <3>3. Spans(s, o)
      BY <2>1, <2>2, <1>1, <1>3, <1>4 DEF Spans
    <3> QED BY <3>1, <3>2, <3>3 DEF Covers
  <2>4. ASSUME NEW p \in Range(t.ops) PROVE Covers(s, p)
    <3>1. /\ Covers(t, p) /\ Form[p].base \in Nat /\ Form[p].quantity \in Nat
          /\ t.unit = Form[p].unit /\ t.entity = Form[p].entity
          /\ t.base <= Form[p].base
          /\ Form[p].base + Form[p].quantity <= t.base + t.quantity
      BY <1>7, FormFields DEF Covers, Spans
    <3>2. s.content # <<>> <=> Writes(p)
      BY <3>1, <2>1, <1>3, <1>4, <1>5 DEF Covers
    <3>3. ASSUME Writes(p), NEW k \in 1 .. Form[p].quantity
          PROVE  s.content[(Form[p].base - s.base) + k] = <<p, k>>
      <4> DEFINE i == (Form[p].base - t.base) + k
      <4>1. t.content[i] = <<p, k>> /\ Len(t.content) = t.quantity
        BY <3>1, <3>3, <1>6 DEF Covers
      <4>2. i \in 1 .. Len(t.content)
        BY <4>1, <3>1, <1>4, PlaceWithin
      <4>3. (t.content \o Content(o))[i] = t.content[i]
        BY <4>2, <1>4, ConcatEntries
      <4> QED BY <4>1, <4>3, <2>1
    <3>4. Spans(s, p)
      <4>1. /\ s.base = t.base /\ s.quantity = t.quantity + Form[o].quantity
            /\ s.unit = t.unit /\ s.entity = t.entity
        BY <2>1, <1>1
      <4> QED BY <4>1, <3>1, <1>4 DEF Spans
    <3> QED BY <3>2, <3>3, <3>4 DEF Covers
  <2>5. s.content # <<>> => Len(s.content) = s.quantity
    BY <2>1, <1>1, <1>3, <1>4, <1>5, <1>6, ConcatEntries
  <2> QED BY <2>3, <2>4, <2>5, <1>1, <1>2 DEF Aligned, s
<1>9. CASE ~Follows(t, o)
  <2>1. s.base = t.base - Form[o].quantity /\ s.content = Content(o) \o t.content
    BY <1>9 DEF Combined, TransactionType
  <2> HIDE DEF s
  <2>2. Form[o].base + Form[o].quantity = t.base
    BY <1>9 DEF Combinable, Precedes
  <2>3. s.base = Form[o].base
    BY <2>1, <2>2, <1>4
  <2>4. Covers(s, o)
    <3>1. s.content # <<>> <=> Writes(o)
      BY <2>1, <1>3, <1>4, <1>5
    <3>2. ASSUME Writes(o), NEW k \in 1 .. Form[o].quantity
          PROVE  s.content[(Form[o].base - s.base) + k] = <<o, k>>
      <4>1. (Form[o].base - s.base) + k = k
        BY <3>2, <2>3, <1>4
      <4>2. (Content(o) \o t.content)[k] = Content(o)[k]
        BY <3>2, <1>4, <1>5, ConcatEntries
      <4> QED BY <4>1, <4>2, <3>2, <2>1, <1>5
    <3>3. Spans(s, o)
      BY <2>2, <2>3, <1>1, <1>3, <1>4 DEF Spans
    <3> QED BY <3>1, <3>2, <3>3 DEF Covers
  <2>5. ASSUME NEW p \in Range(t.ops) PROVE Covers(s, p)
    <3>1. /\ Covers(t, p) /\ Form[p].base \in Nat /\ Form[p].quantity \in Nat
          /\ t.unit = Form[p].unit /\ t.entity = Form[p].entity
          /\ t.base <= Form[p].base
          /\ Form[p].base + Form[p].quantity <= t.base + t.quantity
      BY <1>7, FormFields DEF Covers, Spans
    <3>2. s.content # <<>> <=> Writes(p)
      BY <3>1, <2>1, <1>3, <1>4, <1>5 DEF Covers
    <3>3. ASSUME Writes(p), NEW k \in 1 .. Form[p].quantity
          PROVE  s.content[(Form[p].base - s.base) + k] = <<p, k>>
      <4> DEFINE i == (Form[p].base - t.base) + k
      <4>1. t.content[i] = <<p, k>> /\ Len(t.content) = t.quantity
        BY <3>1, <3>3, <1>6 DEF Covers
      <4>2. i \in 1 .. Len(t.content)
        <5>1. t.base \in Nat /\ t.quantity \in Nat BY <1>4
        <5>2. i \in 1 .. t.quantity BY <5>1, <3>1, PlaceWithin
        <5> QED BY <4>1, <5>2
      <4>3. Writes(o) /\ Len(Content(o)) = Form[o].quantity
        BY <3>1, <3>3, <1>3, <1>5 DEF Covers
      <4>4. (Content(o) \o t.content)[Len(Content(o)) + i] = t.content[i]
        BY <4>2, <1>4, ConcatEntries, SMTT(20)
      <4>5. (Form[p].base - s.base) + k = Len(Content(o)) + i
        <5>1. t.base \in Nat /\ t.quantity \in Nat /\ Form[o].quantity \in Nat BY <1>4
        <5>2. (Form[p].base - (t.base - Form[o].quantity)) + k = Form[o].quantity + i
          BY <5>1, <3>1, PlaceWithin
        <5> QED BY <4>3, <5>2, <2>1
      <4> QED BY <4>1, <4>4, <4>5, <2>1
    <3>4. Spans(s, p)
      BY <3>1, <2>2, <2>3, <1>1, <1>4 DEF Spans
    <3> QED BY <3>2, <3>3, <3>4 DEF Covers
  <2>6. s.content # <<>> => Len(s.content) = s.quantity
    BY <2>1, <1>1, <1>3, <1>4, <1>5, <1>6, ConcatEntries
  <2> QED BY <2>4, <2>5, <2>6, <1>1, <1>2 DEF Aligned, s
<1> QED BY <1>8, <1>9

LEMMA EnqueuedAligned ==
    ASSUME WholeRegisters, TypeOK, AllAligned(queue, current), NEW o \in Ops
    PROVE  AllAligned(Enqueued(o), current)
<1>0. queue \in Seq(TransactionType) /\ DOMAIN queue = 1 .. Len(queue)
  BY DEF TypeOK
<1>1. CASE Enqueued(o) = Append(queue, Transaction(o))
  <2>1. \A k \in DOMAIN Append(queue, Transaction(o)) :
          \/ k \in DOMAIN queue /\ Append(queue, Transaction(o))[k] = queue[k]
          \/ Append(queue, Transaction(o))[k] = Transaction(o)
    BY <1>0, TransactionTyped
  <2> QED BY <1>1, <2>1, TransactionAligned DEF AllAligned
<1>2. ASSUME NEW k \in DOMAIN queue, Combinable(queue[k], o),
             Enqueued(o) = [queue EXCEPT ![k] = Combined(queue[k], o)]
      PROVE  AllAligned(Enqueued(o), current)
  <2>1. Aligned(Combined(queue[k], o))
    BY <1>0, <1>2, CombinedAligned DEF AllAligned
  <2> QED BY <1>2, <2>1 DEF AllAligned
<1> QED BY <1>1, <1>2, EnqueuedForms

LEMMA TriggerAligned ==
    ASSUME NEW waiting \in Seq(TransactionType), NEW busy \in BOOLEAN,
           NEW isOpen, NEW isConnecting, NEW running,
           busy => current # None,
           AllAligned(waiting, IF busy THEN current ELSE None),
           Trigger(waiting, busy, isOpen, isConnecting, running)
    PROVE  /\ AllAligned(queue', current')
           /\ answer' # None => current' = current /\ answer' = answer
<1>1. CASE MayStart(waiting, busy, isOpen)
  <2>1. current' = Head(waiting) /\ queue' = Tail(waiting) /\ answer' = None /\ waiting # <<>>
    BY <1>1 DEF Trigger, MayStart
  <2>2. current' = waiting[1] /\ 1 \in DOMAIN waiting
    BY <2>1, TailEntries
  <2>3. \A k \in DOMAIN queue' : queue'[k] = waiting[k + 1] /\ k + 1 \in DOMAIN waiting
    BY <2>1, TailEntries
  <2> QED BY <2>1, <2>2, <2>3 DEF AllAligned
<1>2. CASE ~MayStart(waiting, busy, isOpen)
  <2>1. /\ queue' = waiting
        /\ current' = IF busy THEN current ELSE None
        /\ answer' = IF busy THEN answer ELSE None
    BY <1>2 DEF Trigger
  <2> QED BY <2>1
<1> QED BY <1>1, <1>2

LEMMA ExecutedKept ==
    ASSUME Executed, answer' # None => current' = current /\ answer' = answer,
           UNCHANGED device
    PROVE  Executed'
  BY DEF Executed, Read, Bytes, Registers, Cell

LEMMA StepData ==
    ASSUME WholeRegisters, IInv, DataInv, [Next]_vars
    PROVE  DataInv'
<1> USE DEF IInv, DataInv
<1>1. ASSUME NEW o \in Ops, Issue(o) PROVE DataInv'
  <2> DEFINE q == Enqueued(o)
  <2>1. ~Held(queue, current, o)
    BY <1>1 DEF Issue, Placed
  <2>2. q \in Seq(TransactionType) /\ AllAligned(q, current)
    BY <2>1, EnqueuedEffect, EnqueuedAligned DEF Placed
  <2> HIDE DEF q
  <2>3. Trigger(q, current # None, open, connecting, loops)
    BY <1>1 DEF Issue, q
  <2>4. current = IF current # None THEN current ELSE None
    OBVIOUS
  <2>5. AllAligned(queue', current')
        /\ (answer' # None => current' = current /\ answer' = answer)
    BY <2>2, <2>3, <2>4, TriggerAligned
  <2> QED BY <1>1, <2>5, ExecutedKept DEF Issue
<1>2. ASSUME NEW l \in Loops, ConnectOk(l) PROVE DataInv'
  <2>1. current = IF current # None THEN current ELSE None
    OBVIOUS
  <2>2. Trigger(queue, current # None, TRUE, FALSE, [loops EXCEPT ![l] = NotConnecting])
    BY <1>2 DEF ConnectOk
  <2>3. AllAligned(queue', current')
        /\ (answer' # None => current' = current /\ answer' = answer)
    BY <2>1, <2>2, TriggerAligned DEF TypeOK
  <2> QED BY <1>2, <2>3, ExecutedKept DEF ConnectOk
<1>3. ASSUME NEW l \in Loops, GivenUp(l) PROVE DataInv'
  <2>1. DOMAIN queue' = {} /\ UNCHANGED <<current, answer, device>>
    BY <1>3 DEF GivenUp
  <2> QED BY <2>1, ExecutedKept DEF AllAligned
<1>4. CASE TransactionEnds
  <2>1. Trigger(queue, FALSE, open, connecting, loops) /\ UNCHANGED device
    BY <1>4 DEF TransactionEnds, TransactionDone, TransactionFails
  <2>2. AllAligned(queue, None)
    BY DEF AllAligned
  <2>3. AllAligned(queue', current')
        /\ (answer' # None => current' = current /\ answer' = answer)
    BY <2>1, <2>2, TriggerAligned DEF TypeOK
  <2> QED BY <2>1, <2>3, ExecutedKept
<1>5. CASE DeviceExecutes
  <2>1. UNCHANGED <<queue, current>> /\ current # None
    BY <1>5 DEF DeviceExecutes
  <2>2. AllAligned(queue', current')
    BY <2>1
  <2>3. CASE current.content = <<>>
    <3>1. answer' = <<Read(current)>> /\ UNCHANGED device
      BY <1>5, <2>3 DEF DeviceExecutes
    <3> QED BY <2>1, <2>2, <2>3, <3>1 DEF Executed, Read, Bytes, Registers, Cell
  <2>4. CASE current.content # <<>>
    <3>1. device' = Written(current)
      BY <1>5, <2>4 DEF DeviceExecutes
    <3>2. current.base \in Nat /\ current.quantity \in Nat
      BY <2>1, OpsFields DEF TypeOK, Addresses
    <3>3. ASSUME NEW k \in 1 .. current.quantity, Cell(current, k) \in Cells
          PROVE  device'[Cell(current, k)] = current.content[k]
      <4>1. Cell(current, k)[3] - current.base + 1 = k
        BY <3>2 DEF Cell
      <4>2. current.function \notin SingleWrites
        BY <2>1 DEF AllAligned, Aligned
      <4> QED BY <3>1, <3>3, <4>1, <4>2 DEF Written
    <3>4. Executed'
      BY <2>1, <2>4, <3>3 DEF Executed, Cell
    <3> QED BY <2>2, <3>4
  <2> QED BY <2>3, <2>4
<1>6. CASE (\E l \in Loops : AttemptFails(l) \/ Retry(l))
             \/ ModbusStop \/ Closed \/ ConnectionLost \/ UNCHANGED vars
  <2>1. UNCHANGED <<queue, current, answer, device>>
    BY <1>6 DEF AttemptFails, Retry, ModbusStop, Closed, ConnectionLost, vars
  <2> QED BY <2>1, ExecutedKept
<1> QED
  BY <1>1, <1>2, <1>3, <1>4, <1>5, <1>6 DEF Next, Attempted

LEMMA OwnWords ==
    ASSUME IInv, DataInv, TransactionDone, NEW o \in Range(current.ops), Writes(o),
           NEW k \in 1 .. Form[o].quantity
    PROVE  device[Cell(Transaction(o), k)] = <<o, k>>
<1> DEFINE i == (Form[o].base - current.base) + k
<1>1. current \in TransactionType /\ current # None /\ answer # None /\ o \in Ops
  BY OpsFields DEF TransactionDone, IInv, TypeOK
<1>2. /\ Form[o].base \in Nat /\ Form[o].quantity \in Nat /\ Form[o].base \in Addresses
      /\ Form[o].base + Form[o].quantity <= MaxAddress + 1
      /\ current.base \in Nat /\ current.quantity \in Nat
  BY <1>1, FormFields, OpsFields DEF Addresses
<1>3. Covers(current, o)
  BY <1>1 DEF DataInv, AllAligned, Aligned
<1>4. /\ current.unit = Form[o].unit /\ current.entity = Form[o].entity
      /\ current.base <= Form[o].base
      /\ Form[o].base + Form[o].quantity <= current.base + current.quantity
      /\ current.content # <<>> /\ current.content[i] = <<o, k>>
  BY <1>3 DEF Covers, Spans
<1>5. i \in 1 .. current.quantity
  BY <1>2, <1>4, PlaceWithin
<1>6. Cell(current, i) = Cell(Transaction(o), k)
  <2>1. current.base + i - 1 = Form[o].base + k - 1
    BY <1>2
  <2> QED BY <2>1, <1>4 DEF Cell, Transaction
<1>7. Cell(Transaction(o), k) \in Cells
  <2>1. Form[o].base + k - 1 \in Addresses
    BY <1>2, NumbersAssumption DEF Addresses
  <2> QED BY <2>1, <1>1 DEF Cell, Cells, Transaction
<1>8. device[Cell(current, i)] = current.content[i]
  BY <1>1, <1>4, <1>5, <1>6, <1>7 DEF DataInv, Executed
<1> QED BY <1>4, <1>6, <1>8

LEMMA OwnPart ==
    ASSUME WholeRegisters, IInv, DataInv, TransactionDone,
           NEW o \in Range(current.ops), ~Writes(o)
    PROVE  Part(o, current.base, answer[1]) = Alone(o)
<1> DEFINE b == Form[o].base
           n == Form[o].quantity
           all == [k \in 1 .. current.quantity |-> device[Cell(current, k)]]
           own == [k \in 1 .. n |-> device[Cell(Transaction(o), k)]]
           at == b - current.base
<1>1. current \in TransactionType /\ current # None /\ answer # None /\ o \in Ops
  BY OpsFields DEF TransactionDone, IInv, TypeOK
<1>2. b \in Nat /\ n \in Nat /\ current.base \in Nat /\ current.quantity \in Nat
  BY <1>1, FormFields, OpsFields DEF Addresses
<1>3. Covers(current, o) /\ current.entity \notin BitEntities
  BY <1>1 DEF DataInv, AllAligned, Aligned
<1>4. /\ current.unit = Form[o].unit /\ current.entity = Form[o].entity
      /\ current.base <= b /\ b + n <= current.base + current.quantity
      /\ current.content = <<>>
  BY <1>3 DEF Covers, Spans
<1>5. answer[1] = all
  <2>1. answer = <<Read(current)>>
    BY <1>1, <1>4 DEF DataInv, Executed
  <2> QED BY <2>1, <1>3 DEF Read, Registers
<1>6. Read(Transaction(o)) = own
  BY <1>3, <1>4 DEF Read, Registers, Transaction
<1>7. at \in Nat /\ at + n <= current.quantity
  BY <1>2, <1>4
<1>8. Part(o, current.base, answer[1]) = SubSeq(all, at + 1, at + n)
  <2>1. Len(all) = current.quantity BY <1>2
  <2>2. Part(o, current.base, all) = Slice(all, at, at + n)
    BY <1>3, <1>4 DEF Part
  <2>3. (IF at + n < Len(all) THEN at + n ELSE Len(all)) = at + n
    BY <2>1, <1>2, <1>7
  <2> QED BY <1>5, <2>2, <2>3 DEF Slice
<1>9. Alone(o) = SubSeq(own, 1, n)
  <2>1. Len(own) = n BY <1>2
  <2>2. b - b = 0 BY <1>2
  <2>3. Part(o, b, own) = Slice(own, 0, 0 + n)
    BY <2>2, <1>3, <1>4 DEF Part
  <2>4. 0 + n = n /\ 0 + 1 = 1 BY <1>2
  <2> QED BY <1>6, <2>1, <2>3, <2>4 DEF Slice, Alone
<1>10. SubSeq(all, at + 1, at + n) = [k \in 1 .. n |-> all[at + k]]
  BY <1>2, <1>7, SMTT(20)
<1>11. SubSeq(own, 1, n) = [k \in 1 .. n |-> own[k]]
  BY <1>2
<1>12. ASSUME NEW k \in 1 .. n PROVE all[at + k] = own[k]
  <2>1. at + k \in 1 .. current.quantity
    BY <1>2, <1>7
  <2>2. current.base + (at + k) - 1 = b + k - 1
    BY <1>2
  <2>3. Cell(current, at + k) = Cell(Transaction(o), k)
    BY <2>2, <1>4 DEF Cell, Transaction
  <2> QED BY <2>1, <2>3
<1> HIDE DEF all, own, at, n
<1>13. [k \in 1 .. n |-> all[at + k]] = [k \in 1 .. n |-> own[k]]
  BY <1>12
<1> QED BY <1>8, <1>9, <1>10, <1>11, <1>13

(* Requests for whole registers that neighbours are combined with: when    *)
(* one completes, its own words are in the device, or it resolves with     *)
(* what the device holds for it, as if it had been alone.  Coils and       *)
(* writes with function 6 are the cases in which the code does not keep    *)
(* this.                                                                   *)
THEOREM RegistersAsAlone ==
    ASSUME WholeRegisters
    PROVE  Spec => CombinedAsAlone
<1> DEFINE own == \A o \in Ops :
             state[o] = "pending" /\ state'[o] = "done" =>
               IF Writes(o)
               THEN \A k \in 1 .. Form[o].quantity :
                      device[Cell(Transaction(o), k)] = <<o, k>>
               ELSE result'[o] = Alone(o)
<1>1. Init => DataInv
  BY DEF Init, DataInv, AllAligned, Executed
<1>2. IInv /\ DataInv /\ [Next]_vars => DataInv'
  BY StepData
<1>3. IInv /\ DataInv /\ [Next]_vars => own
  <2> SUFFICES ASSUME IInv, DataInv, [Next]_vars, NEW o \in Ops,
                      state[o] = "pending", state'[o] = "done"
               PROVE  IF Writes(o)
                      THEN \A k \in 1 .. Form[o].quantity :
                             device[Cell(Transaction(o), k)] = <<o, k>>
                      ELSE result'[o] = Alone(o)
    OBVIOUS
  <2>1. TransactionDone
    BY DEF Next, Attempted, TransactionEnds, Issue, ConnectOk, GivenUp, AttemptFails,
           Retry, DeviceExecutes, TransactionFails, ModbusStop, Closed, ConnectionLost,
           Settle, vars, IInv, TypeOK
  <2>2. o \in Range(current.ops)
    BY <2>1 DEF TransactionDone, Settle
  <2>3. CASE Writes(o)
    BY <2>1, <2>2, <2>3, OwnWords
  <2>4. CASE ~Writes(o)
    <3>1. result'[o] = Part(o, current.base, answer[1])
      BY <2>1, <2>2, <2>4 DEF TransactionDone
    <3> QED BY <2>1, <2>2, <2>4, <3>1, OwnPart
  <2> QED BY <2>3, <2>4
<1>4. Spec => [][own]_vars
  BY <1>1, <1>2, <1>3, PlacedIsInvariant, PTL DEF Spec
<1> QED BY <1>4 DEF CombinedAsAlone

=============================================================================
