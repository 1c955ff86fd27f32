-------------------------- MODULE ModbusConnection --------------------------
(***************************************************************************)
(* One connection of the Modbus client: binding-modbus/modbus-connection.ts *)
(* with the device behind it.  Requests for neighbouring registers are     *)
(* combined into transactions, transactions wait in a queue, one at a time *)
(* is under way, and a closed connection is opened again by a loop of      *)
(* attempts.                                                               *)
(*                                                                         *)
(* A step is the code between two awaits that wait for the network or a    *)
(* timer.  A value is the word a request wrote: <<request, position>>.     *)
(* The byte order inside a word is left out.                               *)
(***************************************************************************)
EXTENDS Integers, Sequences, FiniteSets, Functions

CONSTANTS
    Ops,            (* requests: PropertyOperations, each issued once      *)
    Units,          (* unit ids                                            *)
    Form,           (* what each request asks for, see FormType            *)
    Loops,          (* invocations of connect() that can be under way      *)
    MaxRetries,     (* config.maxRetries                                   *)
    MaxIssued,      (* bound: how many of the requests are issued          *)
    MaxAddress,     (* bound: the device's addresses are 0..MaxAddress     *)
    None

Entities == {"Coil", "DiscreteInput", "HoldingRegister", "InputRegister"}
BitEntities == {"Coil", "DiscreteInput"}

ReadFunctions == {1, 2, 3, 4}
SingleWrites == {5, 6}
MultipleWrites == {15, 16}
Functions == ReadFunctions \cup SingleWrites \cup MultipleWrites

Addresses == 0 .. MaxAddress

FormType ==
    [unit : Units, entity : Entities, function : Functions,
     base : Addresses, quantity : Nat \ {0}]

ASSUME FormAssumption ==
    /\ Form \in [Ops -> FormType]
    /\ \A o \in Ops : Form[o].base + Form[o].quantity <= MaxAddress + 1
    /\ \A o \in Ops : Form[o].function \in SingleWrites => Form[o].quantity = 1

ASSUME NumbersAssumption ==
    /\ MaxRetries \in Nat \ {0}
    /\ MaxAddress \in Nat
    /\ MaxIssued \in Nat
    /\ None \notin Ops

(* The content of a request is defined for writes only.                    *)
Writes(o) == Form[o].function \notin ReadFunctions
Span(o) == Form[o].base .. Form[o].base + Form[o].quantity - 1
Content(o) ==
    IF Writes(o) THEN [k \in 1 .. Form[o].quantity |-> <<o, k>>] ELSE <<>>

Words == (Ops \X (1 .. MaxAddress + 1)) \cup {<<None, 0>>}
Initially == <<None, 0>>

(* The registers and coils the requests can reach.                         *)
Cells == {<<Form[o].unit, Form[o].entity, a>> : o \in Ops, a \in Addresses}

VARIABLES
    state,      (* of each request's promise                               *)
    result,     (* what a completed read resolved with                     *)
    queue,      (* transactions that wait                                  *)
    current,    (* currentTransaction                                      *)
    answer,     (* the device's answer to it, on its way back              *)
    connecting, (* the flag of that name                                   *)
    open,       (* client.isOpen                                           *)
    closing,    (* client.close() has been called: for the port in use, or
                   for one that connectTCP has replaced meanwhile          *)
    loops,      (* the invocations of connect()                            *)
    device      (* what the device's registers and coils hold              *)

vars == <<state, result, queue, current, answer, connecting, open, closing,
          loops, device>>

TransactionType ==
    [unit : Units, entity : Entities, function : Functions,
     base : Addresses, quantity : Nat, content : Seq(Words), ops : Seq(Ops)]

(* No transaction is the marker for none.                                   *)
ASSUME MarkerAssumption == None \notin TransactionType

NotConnecting == [phase |-> "off", retry |-> 0]
LoopType == [phase : {"off", "attempting", "waiting"}, retry : 0 .. MaxRetries - 1]

Init ==
    /\ state = [o \in Ops |-> "new"]
    /\ result = [o \in Ops |-> <<>>]
    /\ queue = <<>>
    /\ current = None
    /\ answer = None
    /\ connecting = FALSE
    /\ open = FALSE
    /\ closing = "no"
    /\ loops = [l \in Loops |-> NotConnecting]
    /\ device = [c \in Cells |-> Initially]

-----------------------------------------------------------------------------
(* Combining requests                                                      *)

Transaction(o) ==
    [unit |-> Form[o].unit, entity |-> Form[o].entity,
     function |-> Form[o].function, base |-> Form[o].base,
     quantity |-> Form[o].quantity, content |-> Content(o), ops |-> <<o>>]

SameType(t, o) ==
    /\ Form[o].unit = t.unit
    /\ Form[o].entity = t.entity
    /\ Writes(o) <=> t.content # <<>>

Follows(t, o) == SameType(t, o) /\ Form[o].base = t.base + t.quantity
Precedes(t, o) == SameType(t, o) /\ Form[o].base + Form[o].quantity = t.base
Combinable(t, o) == Follows(t, o) \/ Precedes(t, o)

Combined(t, o) ==
    IF Follows(t, o)
    THEN [t EXCEPT !.quantity = @ + Form[o].quantity,
                   !.content = @ \o Content(o), !.ops = Append(@, o)]
    ELSE [t EXCEPT !.base = @ - Form[o].quantity,
                   !.quantity = @ + Form[o].quantity,
                   !.content = Content(o) \o @, !.ops = Append(@, o)]

(* enqueue: the first transaction in the queue that the request extends,   *)
(* or a new one at its end.                                                *)
Enqueued(o) ==
    LET fits == {k \in DOMAIN queue : Combinable(queue[k], o)} IN
    IF fits = {}
    THEN Append(queue, Transaction(o))
    ELSE LET k == CHOOSE k \in fits : \A j \in fits : k <= j
         IN  [queue EXCEPT ![k] = Combined(queue[k], o)]

-----------------------------------------------------------------------------
(* trigger()                                                               *)

Attempting(l) == loops[l].phase = "attempting"
Waiting(l) == loops[l].phase = "waiting"

FreeLoops(running) == {l \in Loops : running[l].phase = "off"}

(* No connection: an invocation of connect() begins its first attempt.     *)
Connect(isOpen, isConnecting, running) ==
    /\ ~isOpen /\ ~isConnecting
    /\ FreeLoops(running) # {}
    /\ loops' = [running EXCEPT ![CHOOSE l \in FreeLoops(running) : TRUE] =
                   [phase |-> "attempting", retry |-> 0]]
    /\ connecting' = TRUE

(* Mutant: a transaction starts although one is under way.                 *)
MayStartUnserialized(waiting, busy, isOpen) == isOpen /\ waiting # <<>>

MayStart(waiting, busy, isOpen) == isOpen /\ ~busy /\ waiting # <<>>

(* busy: a transaction is under way.                                       *)
Trigger(waiting, busy, isOpen, isConnecting, running) ==
    IF MayStart(waiting, busy, isOpen)
    THEN /\ current' = Head(waiting)
         /\ queue' = Tail(waiting)
         /\ answer' = None
         /\ connecting' = isConnecting
         /\ loops' = running
    ELSE /\ queue' = waiting
         /\ current' = (IF busy THEN current ELSE None)
         /\ answer' = (IF busy THEN answer ELSE None)
         /\ \/ Connect(isOpen, isConnecting, running)
            \/ /\ isOpen \/ isConnecting
               /\ connecting' = isConnecting
               /\ loops' = running

(* enqueue() and execute() of a request                                    *)
Issue(o) ==
    /\ state[o] = "new"
    /\ Cardinality({q \in Ops : state[q] # "new"}) < MaxIssued
    /\ state' = [state EXCEPT ![o] = "pending"]
    /\ Trigger(Enqueued(o), current # None, open, connecting, loops)
    /\ UNCHANGED <<result, open, closing, device>>

-----------------------------------------------------------------------------
(* connect()                                                               *)

Settle(ops, outcome) ==
    state' = [o \in Ops |-> IF o \in ops THEN outcome ELSE state[o]]

(* connectTCP resolves, and the trigger() that waited goes on.             *)
ConnectOk(l) ==
    /\ Attempting(l)
    /\ open' = TRUE
    /\ closing' = (IF closing = "no" THEN "no" ELSE "replaced")
    /\ Trigger(queue, current # None, TRUE, FALSE,
               [loops EXCEPT ![l] = NotConnecting])
    /\ UNCHANGED <<state, result, device>>

QueuedOps == UNION {Range(queue[k].ops) : k \in DOMAIN queue}

(* The last attempt fails: every request in the queue is rejected.         *)
GivenUp(l) ==
    /\ Attempting(l) /\ loops[l].retry = MaxRetries - 1
    /\ loops' = [loops EXCEPT ![l] = NotConnecting]
    /\ connecting' = FALSE
    /\ Settle(QueuedOps, "failed")
    /\ queue' = <<>>
    /\ UNCHANGED <<result, current, answer, open, closing, device>>

(* Another attempt follows after connectionRetryTime; connecting is FALSE  *)
(* meanwhile, and stays so during the later attempts.                      *)
AttemptFails(l) ==
    /\ Attempting(l) /\ loops[l].retry < MaxRetries - 1
    /\ loops' = [loops EXCEPT ![l].phase = "waiting"]
    /\ connecting' = FALSE
    /\ UNCHANGED <<state, result, queue, current, answer, open, closing,
                   device>>

(* connectTCP replaces a port that another loop has opened meanwhile: that *)
(* isOpen may turn FALSE then is the step ConnectionLost.                  *)
Retry(l) ==
    /\ Waiting(l)
    /\ loops' = [loops EXCEPT ![l] = [phase |-> "attempting", retry |-> @.retry + 1]]
    /\ UNCHANGED <<state, result, queue, current, answer, connecting, open,
                   closing, device>>

-----------------------------------------------------------------------------
(* A transaction under way                                                 *)

Cell(t, k) == <<t.unit, t.entity, t.base + k - 1>>

(* readModbus: what the device answers.  Coils and discrete inputs come    *)
(* eight to a byte.                                                        *)
Registers(t) == [k \in 1 .. t.quantity |-> device[Cell(t, k)]]
Bytes(t) ==
    [b \in 1 .. (t.quantity + 7) \div 8 |->
       [k \in 1 .. 8 |-> IF 8 * (b - 1) + k <= t.quantity
                         THEN device[Cell(t, 8 * (b - 1) + k)] ELSE None]]
Read(t) == IF t.entity \in BitEntities THEN Bytes(t) ELSE Registers(t)

(* writeModbus: functions 5 and 6 write the first word of the content.     *)
Written(t) ==
    LET count == IF t.function \in SingleWrites THEN 1 ELSE t.quantity IN
    [c \in Cells |->
       IF \E k \in 1 .. count : c = Cell(t, k)
       THEN t.content[c[3] - t.base + 1]
       ELSE device[c]]

DeviceExecutes ==
    /\ current # None /\ answer = None
    /\ open
    /\ IF current.content = <<>>
       THEN /\ answer' = <<Read(current)>>
            /\ UNCHANGED device
       ELSE /\ answer' = <<>>
            /\ device' = Written(current)
    /\ UNCHANGED <<state, result, queue, current, connecting, open, closing,
                   loops>>

(* done(): the part of the answer that is a request's own.                 *)
Slice(data, from, to) == SubSeq(data, from + 1, IF to < Len(data) THEN to ELSE Len(data))

(* Mutant: every request of a combined read gets its beginning.            *)
PartAtStart(o, base, data) == Slice(data, 0, Form[o].quantity)

Part(o, base, data) ==
    LET address == Form[o].base - base IN
    IF Form[o].entity \in BitEntities
    THEN Slice(data, address, Form[o].quantity)
    ELSE Slice(data, address, address + Form[o].quantity)

TransactionDone ==
    /\ current # None /\ answer # None
    /\ Settle(Range(current.ops), "done")
    /\ result' = [o \in Ops |->
                    IF o \in Range(current.ops) /\ ~Writes(o)
                    THEN Part(o, current.base, answer[1]) ELSE result[o]]
    /\ Trigger(queue, FALSE, open, connecting, loops)
    /\ UNCHANGED <<open, closing, device>>

(* Mutant: no trigger() after a failure.                                   *)
TransactionFailsSilently ==
    /\ current # None
    /\ Settle(Range(current.ops), "failed")
    /\ current' = None
    /\ answer' = None
    /\ UNCHANGED <<result, queue, connecting, open, closing, loops, device>>

(* No answer in time, an exception, or the connection is gone.             *)
TransactionFails ==
    /\ current # None
    /\ Settle(Range(current.ops), "failed")
    /\ Trigger(queue, FALSE, open, connecting, loops)
    /\ UNCHANGED <<result, open, closing, device>>

-----------------------------------------------------------------------------
(* Closing                                                                 *)

(* modbusstop: ModbusClient.stop(), or the idle timer, which runs from the *)
(* start of a transaction and is not cleared at its end.                   *)
ModbusStop ==
    /\ closing = "no"
    /\ closing' = "port"
    /\ UNCHANGED <<state, result, queue, current, answer, connecting, open,
                   loops, device>>

(* The callback clears the flag, whichever attempt had set it.             *)
Closed ==
    /\ closing # "no"
    /\ closing' = "no"
    /\ open' = (open /\ closing = "replaced")
    /\ connecting' = FALSE
    /\ UNCHANGED <<state, result, queue, current, answer, loops, device>>

(* The device or the network ends the connection.                          *)
ConnectionLost ==
    /\ open
    /\ open' = FALSE
    /\ UNCHANGED <<state, result, queue, current, answer, connecting, closing,
                   loops, device>>

-----------------------------------------------------------------------------
Attempted(l) == ConnectOk(l) \/ AttemptFails(l) \/ GivenUp(l)
TransactionEnds == TransactionDone \/ TransactionFails

Next ==
    \/ \E o \in Ops : Issue(o)
    \/ \E l \in Loops : Attempted(l) \/ Retry(l)
    \/ DeviceExecutes \/ TransactionEnds
    \/ ModbusStop \/ Closed \/ ConnectionLost

Spec == Init /\ [][Next]_vars

(* connectTCP and the calls of the Modbus client settle, and the timer of   *)
(* connectionRetryTime fires.                                              *)
Fairness ==
    /\ \A l \in Loops : WF_vars(Attempted(l)) /\ WF_vars(Retry(l))
    /\ WF_vars(TransactionEnds)

FairSpec == Spec /\ Fairness

-----------------------------------------------------------------------------
(* Properties                                                              *)

Transactions ==
    {queue[k] : k \in DOMAIN queue} \cup (IF current = None THEN {} ELSE {current})

(* However requests are combined, connections fail and loops overlap: a    *)
(* request is pending exactly while it waits in one transaction, and no    *)
(* request that is settled is executed again.                              *)
PendingOnce ==
    /\ \A o \in Ops :
         state[o] = "pending" <=> \E t \in Transactions : o \in Range(t.ops)
    /\ \A j, k \in DOMAIN queue :
         j # k => Range(queue[j].ops) \cap Range(queue[k].ops) = {}
    /\ current # None => Range(current.ops) \cap QueuedOps = {}

(* What a read resolves with when it is not combined with others.          *)
Alone(o) == Part(o, Form[o].base, Read(Transaction(o)))

(* When a request completes, its own words are in the device, or what it   *)
(* read is what the device holds for it, as if it had been alone.          *)
CombinedAsAlone ==
    [][\A o \in Ops :
         state[o] = "pending" /\ state'[o] = "done" =>
           IF Writes(o)
           THEN \A k \in 1 .. Form[o].quantity :
                  device[Cell(Transaction(o), k)] = <<o, k>>
           ELSE result'[o] = Alone(o)]_vars

(* Every request is settled: no trigger() is lost.                         *)
Settled == \A o \in Ops : state[o] = "pending" ~> state[o] \in {"done", "failed"}
=============================================================================
