--------------------------- MODULE MbusConnection ---------------------------
(***************************************************************************)
(* The connection to an M-Bus gateway (binding-mbus/src/mbus-connection.ts *)
(* and mbus-client.ts): operations on one unit are joined in a transaction *)
(* and read one transaction after the other, over a connection that is     *)
(* made when there is something to do and closed when it has been idle.    *)
(*                                                                         *)
(* client.connect() of the library says at once whether it succeeded, so   *)
(* that `connecting` is never set when other code runs; only between two   *)
(* attempts does connect() wait.                                           *)
(***************************************************************************)
EXTENDS Naturals, SequencesExt

CONSTANTS
    Ops,        \* the operations of one behaviour
    Unit,       \* the unit of each of them
    MaxRetries, \* config.maxRetries
    None

VARIABLES
    queue,      \* transactions: [unit, ops]
    current,    \* currentTransaction, or None
    connected,
    timer,      \* the idle timer runs
    waiting,    \* how many connect() wait after so many attempts
    op          \* the promise of each operation

vars == <<queue, current, connected, timer, waiting, op>>

Init ==
    /\ queue = <<>> /\ current = None
    /\ connected = FALSE /\ timer = FALSE
    /\ waiting = [n \in 1..(MaxRetries - 1) |-> 0]
    /\ op = [o \in Ops |-> "unused"]

\* The part of the state that trigger() works on.
Here == [queue |-> queue, current |-> current, connected |-> connected, timer |-> timer,
         waiting |-> waiting, op |-> op]

Becomes(s) ==
    /\ queue' = s.queue /\ current' = s.current /\ connected' = s.connected
    /\ timer' = s.timer /\ waiting' = s.waiting /\ op' = s.op

Settle(promises, ops, outcome) ==
    [o \in Ops |-> IF o \in Range(ops) /\ promises[o] = "pending" THEN outcome ELSE promises[o]]

\* trigger() when connected: readMBus() starts the idle timer.
Take(s) ==
    IF ~s.connected \/ s.current # None \/ s.queue = <<>> THEN s
    ELSE [s EXCEPT !.current = Head(s.queue), !.queue = Tail(s.queue), !.timer = TRUE]

\* All operations in the queue fail, and stay there.
GiveUp(s) ==
    [s EXCEPT !.op = FoldLeft(LAMBDA p, t : Settle(p, t.ops, "failed"), @, s.queue)]

\* connect() once it has made so many attempts; succeeds: what the next one says.
Attempt(s, made, succeeds) ==
    IF succeeds THEN Take([s EXCEPT !.connected = TRUE])
    ELSE IF made + 1 >= MaxRetries THEN GiveUp(s)
    ELSE [s EXCEPT !.waiting[made + 1] = @ + 1]

Trigger(s, succeeds) == IF s.connected THEN Take(s) ELSE Attempt(s, 0, succeeds)

\* Mutant: nothing is started after a transaction that failed.
TriggerIfDone(s, outcome, succeeds) == IF outcome = "done" THEN Trigger(s, succeeds) ELSE s
TriggerAfter(s, outcome, succeeds) == Trigger(s, succeeds)

\* enqueue: joined with the first transaction in the queue for the unit.
Enqueued(o) ==
    LET fits == {i \in DOMAIN queue : queue[i].unit = Unit[o]}
    IN  IF fits = {} THEN Append(queue, [unit |-> Unit[o], ops |-> <<o>>])
        ELSE [queue EXCEPT ![CHOOSE i \in fits : \A j \in fits : i <= j].ops = Append(@, o)]

\* readResource of the client, up to execute() of the connection.
Execute(o, succeeds) ==
    /\ op[o] = "unused"
    /\ Becomes(Trigger([Here EXCEPT !.queue = Enqueued(o), !.op[o] = "pending"], succeeds))

Retry(made, succeeds) ==
    /\ waiting[made] > 0
    /\ Becomes(Attempt([Here EXCEPT !.waiting[made] = @ - 1], made, succeeds))

\* The callback of getData(): an error, or data that done() cannot make sense
\* of, fails all operations of the transaction.
Finish(outcome, succeeds) ==
    /\ current # None
    /\ Becomes(TriggerAfter([Here EXCEPT !.op = Settle(op, current.ops, outcome), !.current = None],
                            outcome, succeeds))

\* mbusstop(), by the timer or by stop() of the client; close() may fail.
MbusStop ==
    /\ timer \/ connected
    /\ connected' \in {FALSE, connected}
    /\ timer' = FALSE
    /\ UNCHANGED <<queue, current, waiting, op>>

Next ==
    \/ \E succeeds \in BOOLEAN :
          \/ \E o \in Ops : Execute(o, succeeds)
          \/ \E made \in 1..(MaxRetries - 1) : Retry(made, succeeds)
          \/ \E outcome \in {"done", "failed"} : Finish(outcome, succeeds)
    \/ MbusStop

\* A wait ends, and the library answers each getData().
Fairness ==
    /\ \A made \in 1..(MaxRetries - 1) : WF_vars(\E succeeds \in BOOLEAN : Retry(made, succeeds))
    /\ WF_vars(\E outcome \in {"done", "failed"}, succeeds \in BOOLEAN : Finish(outcome, succeeds))

Spec == Init /\ [][Next]_vars /\ Fairness

-----------------------------------------------------------------------------
(* Properties                                                              *)

\* Each operation is answered, however often the connection is closed, given
\* up or made by two at once, also one that has been joined to a transaction
\* that was left in the queue when the connection was given up.  This is about
\* trigger(), which nobody calls but a new operation and the end of the last
\* transaction.
OperationsSettle == \A o \in Ops : op[o] = "pending" ~> op[o] # "pending"
=============================================================================
