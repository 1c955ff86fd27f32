--------------------------- MODULE ServientProofs ---------------------------
(***************************************************************************)
(* Proofs about the Servient, for every set of servers, Things and calls:  *)
(* first its life cycle (calls of start(), shutdown() and removeServer()   *)
(* that overlap, servers that join late), then the names its servers give  *)
(* to Things that come and go.                                             *)
(***************************************************************************)
EXTENDS Servient, FiniteSetTheorems, SequenceTheorems, WellFoundedInduction, TLAPS

CallType ==
    [kind : {None, "start", "shutdown", "remove"},
     stage : {"idle", "waiting", "done", "threw"}, waiting : SUBSET Servers]

HistoryType ==
    [late : SUBSET Servers, overlap : BOOLEAN, early : SUBSET Servers,
     exposed : [Servers \X Things -> Nat], titled : [Servers \X Range(Title) -> Nat],
     stray : SUBSET Things, destroyed : SUBSET Things]

LifeTyped ==
    /\ servers \subseteq Servers /\ sharing \subseteq Servers
    /\ wot \in BOOLEAN /\ shut \in BOOLEAN
    /\ socket \in [Servers -> {"new", "open", "closing", "closed"}]
    /\ attempts \in [Servers -> SUBSET (Calls \cup {None})]
    /\ client \subseteq Servers
    /\ calls \in [Calls -> CallType]
    /\ history \in HistoryType

(* Only calls of start() and the application start servers, and only those *)
(* of the Servient unless they were removed early.                         *)
AttemptsOK ==
    \A s \in Servers :
        /\ \A c \in attempts[s] \ {None} : calls[c].kind = "start" /\ calls[c].stage # "idle"
        /\ attempts[s] # {} => s \in servers \cup history.early

Listens(s) == socket[s] \in {"open", "closing"}

Removing(s) == \E c \in Under("remove") : s \in calls[c].waiting

ClosingOK == \A s \in Servers : socket[s] = "closing" => Kind[s] # "mqtt" /\ s \notin sharing

(* What is no server any longer and listens was removed early or is still  *)
(* waited for.                                                             *)
RemovedOK == \A s \in Servers \ servers : Listens(s) => s \in history.early \/ Removing(s)

ShutsWhileUp == Under("shutdown") # {} => wot \/ shut

(* Without overlaps there is one start(), and then shutdowns, none of      *)
(* which finds a server under way and each of which waits for all servers  *)
(* that are closing.                                                       *)
OneStart == \A c, d \in Under("start") : c = d

StartsBefore == Under("start") # {} => ~wot /\ ~shut

Ended == shut => ~wot /\ \A s \in servers : ~Listens(s)

NoneUnderWay == Under("shutdown") # {} \/ shut => \A s \in Servers : attempts[s] = {}

AllAwaited ==
    \A c \in Under("shutdown"), s \in servers :
        socket[s] # "open" /\ (socket[s] = "closing" => s \in calls[c].waiting)

InOrder == OneStart /\ StartsBefore /\ Ended /\ NoneUnderWay /\ AllAwaited

LifeInv ==
    /\ LifeTyped /\ AttemptsOK /\ ClosingOK /\ RemovedOK /\ ShutsWhileUp
    /\ ~history.overlap => InOrder

-----------------------------------------------------------------------------
LEMMA LifeInit == Init => LifeInv
<1> SUFFICES ASSUME Init PROVE LifeInv OBVIOUS
<1>1. \A c \in Calls : calls[c] = Idle BY DEF Init
<1>2. \A kind : Under(kind) = {} BY <1>1 DEF Under, Idle
<1>3. /\ LifeTyped /\ ~wot /\ ~shut
  BY ServientAssumption DEF Init, LifeTyped, CallType, Idle, HistoryType, NoHistory
<1>4. \A s \in Servers : attempts[s] = {} /\ socket[s] = "new" BY DEF Init
<1> QED
  BY <1>2, <1>3, <1>4
  DEF LifeInv, AttemptsOK, ClosingOK, RemovedOK, Listens, ShutsWhileUp, InOrder, OneStart,
      StartsBefore, Ended, NoneUnderWay, AllAwaited

(* Steps about Things and about clients.                                   *)
LEMMA LifeKept ==
    ASSUME LifeInv, UNCHANGED <<servers, sharing, wot, shut, socket, attempts, calls>>,
           client' \subseteq Servers, history' \in HistoryType,
           history'.early = history.early, history'.overlap = history.overlap
    PROVE  LifeInv'
<1>1. LifeTyped' BY DEF LifeInv, LifeTyped
<1>2. \A kind : Under(kind)' = Under(kind) BY DEF Under
<1>3. AttemptsOK' /\ ClosingOK' /\ RemovedOK' /\ ShutsWhileUp'
  BY <1>2 DEF LifeInv, AttemptsOK, ClosingOK, RemovedOK, Listens, Removing, ShutsWhileUp
<1>4. ~history'.overlap => InOrder'
  BY <1>2 DEF LifeInv, InOrder, OneStart, StartsBefore, Ended, NoneUnderWay, AllAwaited, Listens
<1> QED BY <1>1, <1>3, <1>4 DEF LifeInv

LEMMA ThingsStep ==
    ASSUME LifeInv, NEW t \in Things, Produce(t) \/ Expose(t) \/ DestroyThing(t)
    PROVE  LifeInv'
<1>0. history \in HistoryType /\ client \subseteq Servers BY DEF LifeInv, LifeTyped
<1>1. CASE Produce(t)
  <2>1. history' = [history EXCEPT !.stray = @ \ {t}] /\ UNCHANGED LifeCycle BY <1>1 DEF Produce
  <2>2. /\ history' \in HistoryType
        /\ history'.early = history.early /\ history'.overlap = history.overlap
    BY <1>0, <2>1 DEF HistoryType
  <2> QED BY <1>0, <2>1, <2>2, LifeKept DEF LifeCycle
<1>2. CASE Expose(t)
  <2>1. PICK on \in SUBSET Servers : Exposures(t, on)
    BY <1>2 DEF Expose, LifeInv, LifeTyped
  <2> DEFINE exposed == [x \in Servers \X Things |->
                           IF x[1] \in on /\ x[2] = t THEN history.exposed[x] + 1
                           ELSE history.exposed[x]]
             titled == [x \in Servers \X Range(Title) |->
                          IF x[1] \in on /\ x[2] = Title[t] THEN history.titled[x] + 1
                          ELSE history.titled[x]]
             stray == IF t \in Range(things) THEN history.stray ELSE history.stray \cup {t}
  <2>2. history' = [history EXCEPT !.exposed = exposed, !.titled = titled, !.stray = stray]
    BY <2>1 DEF Exposures
  <2>3. /\ exposed \in [Servers \X Things -> Nat] /\ titled \in [Servers \X Range(Title) -> Nat]
        /\ stray \in SUBSET Things
    BY <1>0 DEF HistoryType
  <2> HIDE DEF exposed, titled, stray
  <2>4. /\ history' \in HistoryType
        /\ history'.early = history.early /\ history'.overlap = history.overlap
    BY <1>0, <2>2, <2>3 DEF HistoryType
  <2> QED BY <1>0, <1>2, <2>4, LifeKept DEF Expose, LifeCycle
<1>3. CASE DestroyThing(t)
  <2>1. history' = [history EXCEPT !.destroyed = @ \cup {t}] /\ UNCHANGED LifeCycle
    BY <1>3 DEF DestroyThing
  <2>2. /\ history' \in HistoryType
        /\ history'.early = history.early /\ history'.overlap = history.overlap
    BY <1>0, <2>1 DEF HistoryType
  <2> QED BY <1>0, <2>1, <2>2, LifeKept DEF LifeCycle
<1> QED BY <1>1, <1>2, <1>3

LEMMA ClientStep ==
    ASSUME LifeInv, NEW s \in Servers, Connect(s) \/ Disconnect(s)
    PROVE  LifeInv'
<1>1. /\ UNCHANGED <<servers, sharing, wot, shut, socket, attempts, calls, history>>
      /\ client' \subseteq Servers
  BY DEF LifeInv, LifeTyped, Connect, Disconnect
<1> QED BY <1>1, LifeKept DEF LifeInv, LifeTyped

-----------------------------------------------------------------------------
(* One call changes.                                                       *)
LEMMA OneCallChanged ==
    ASSUME LifeInv, NEW c \in Calls, NEW call \in CallType, calls' = [calls EXCEPT ![c] = call]
    PROVE  /\ calls' \in [Calls -> CallType] /\ calls'[c] = call
           /\ \A d \in Calls : d # c => calls'[d] = calls[d]
BY DEF LifeInv, LifeTyped

LEMMA OneCallUnder ==
    ASSUME LifeInv, NEW c \in Calls, NEW call \in CallType, calls' = [calls EXCEPT ![c] = call],
           NEW kind
    PROVE  Under(kind)' = IF call.kind = kind /\ call.stage = "waiting"
                          THEN Under(kind) \cup {c} ELSE Under(kind) \ {c}
<1>1. /\ calls'[c] = call /\ \A d \in Calls : d # c => calls'[d] = calls[d]
  BY OneCallChanged
<1> QED BY <1>1 DEF Under

(* A call that has been idle is not waited for, nor starts it a server.    *)
LEMMA IdleCall ==
    ASSUME LifeInv, NEW c \in Calls, calls[c] = Idle
    PROVE  /\ \A kind : c \notin Under(kind)
           /\ \A s \in Servers : c \notin attempts[s]
<1> USE ServientAssumption
<1>1. calls[c].stage = "idle" BY DEF Idle
<1> QED BY <1>1 DEF Under, LifeInv, AttemptsOK

LEMMA AddServerStep ==
    ASSUME LifeInv, NEW s \in Servers, AddServer(s)
    PROVE  LifeInv'
<1>0. history \in HistoryType /\ LifeTyped BY DEF LifeInv, LifeTyped
<1>1. /\ servers' = servers \cup {s} /\ socket[s] = "new" /\ s \notin history.early
      /\ UNCHANGED <<sharing, wot, shut, socket, attempts, client, calls>>
  BY DEF AddServer
<1> DEFINE late == IF \E c \in Calls : calls[c].kind = "start" THEN history.late \cup {s} ELSE history.late
           exposed == [x \in Servers \X Things |->
                         IF Up(s) /\ x[1] = s /\ x[2] \in Range(things) THEN history.exposed[x] + 1
                         ELSE history.exposed[x]]
<1>2. history' = [history EXCEPT !.late = late, !.exposed = exposed] BY DEF AddServer
<1>3. late \in SUBSET Servers /\ exposed \in [Servers \X Things -> Nat]
  BY <1>0 DEF HistoryType
<1> HIDE DEF late, exposed
<1>4. /\ history' \in HistoryType
      /\ history'.early = history.early /\ history'.overlap = history.overlap
  BY <1>0, <1>2, <1>3 DEF HistoryType
<1>5. \A kind : Under(kind)' = Under(kind) BY <1>1 DEF Under
<1>6. LifeTyped' BY <1>0, <1>1, <1>4 DEF LifeTyped
<1>7. AttemptsOK' /\ ClosingOK' /\ RemovedOK' /\ ShutsWhileUp'
  BY <1>1, <1>4, <1>5
  DEF LifeInv, AttemptsOK, ClosingOK, RemovedOK, Listens, Removing, ShutsWhileUp
<1>8. ~history'.overlap => InOrder'
  BY <1>1, <1>4, <1>5
  DEF LifeInv, InOrder, OneStart, StartsBefore, Ended, NoneUnderWay, AllAwaited, Listens
<1> QED BY <1>6, <1>7, <1>8 DEF LifeInv

(* stop() of some servers: what has been open is not any longer.           *)
LEMMA StoppedEffect ==
    ASSUME LifeInv, NEW on \in SUBSET Servers, socket' = StoppedServers(on)
    PROVE  /\ socket' \in [Servers -> {"new", "open", "closing", "closed"}]
           /\ \A s \in Servers \ on : socket'[s] = socket[s]
           /\ \A s \in on : socket'[s] # "open"
           /\ \A s \in on : socket[s] # "open" => socket'[s] = socket[s]
           /\ \A s \in Servers : socket'[s] = "closing" => Kind[s] # "mqtt" /\ s \notin sharing
           /\ \A s \in on : socket'[s] = "closing" => s \in StopsLater(on)
<1>1. \A s \in Servers : socket[s] \in {"new", "open", "closing", "closed"}
  BY DEF LifeInv, LifeTyped
<1>2. ASSUME NEW s \in Servers
      PROVE  /\ socket'[s] \in {"new", "open", "closing", "closed"}
             /\ s \notin on => socket'[s] = socket[s]
             /\ s \in on => socket'[s] # "open"
             /\ socket[s] # "open" => socket'[s] = socket[s]
             /\ socket'[s] = "closing" => Kind[s] # "mqtt" /\ s \notin sharing
             /\ s \in on /\ socket'[s] = "closing" => socket[s] \in {"open", "closing"}
  BY <1>1 DEF StoppedServers, LifeInv, ClosingOK
<1>3. socket' = [s \in Servers |-> socket'[s]] BY DEF StoppedServers
<1> QED BY <1>2, <1>3 DEF StopsLater

LEMMA RemoveServerStep ==
    ASSUME LifeInv, NEW c \in Calls, NEW s \in Servers, RemoveServer(c, s)
    PROVE  LifeInv'
<1> USE ServientAssumption
<1>0. history \in HistoryType /\ LifeTyped BY DEF LifeInv, LifeTyped
<1>1. /\ calls[c] = Idle /\ s \in servers /\ servers' = servers \ {s}
      /\ UNCHANGED <<sharing, wot, shut, attempts>>
  BY DEF RemoveServer
<1>2. PICK waiting \in SUBSET Servers :
        /\ calls' = [calls EXCEPT ![c] = [kind |-> "remove", waiting |-> waiting, stage |-> "waiting"]]
        /\ wot => waiting = StopsLater({s})
  BY DEF RemoveServer, StopsLater
<1> DEFINE call == [kind |-> "remove", waiting |-> waiting, stage |-> "waiting"]
<1>3. call \in CallType /\ call.kind = "remove" /\ call.stage = "waiting" /\ call.waiting = waiting
  BY DEF CallType
<1>4. calls' = [calls EXCEPT ![c] = call] BY <1>2
<1> HIDE DEF call
<1>5. /\ calls' \in [Calls -> CallType] /\ calls'[c] = call
      /\ \A d \in Calls : d # c => calls'[d] = calls[d]
  BY <1>3, <1>4, OneCallChanged
<1>6. (\A kind : c \notin Under(kind)) /\ \A o \in Servers : c \notin attempts[o]
  BY <1>1, IdleCall
<1>7. /\ Under("start")' = Under("start") /\ Under("shutdown")' = Under("shutdown")
      /\ Under("remove")' = Under("remove") \cup {c}
      /\ \A d \in Under("remove") : calls'[d] = calls[d]
      /\ \A d \in Under("shutdown") : calls'[d] = calls[d]
  <2>1. Under("start")' = Under("start") \ {c} BY <1>3, <1>4, OneCallUnder
  <2>2. Under("shutdown")' = Under("shutdown") \ {c} BY <1>3, <1>4, OneCallUnder
  <2>3. Under("remove")' = Under("remove") \cup {c} BY <1>3, <1>4, OneCallUnder
  <2>4. /\ c \notin Under("start") /\ Under("start") \subseteq Calls
        /\ c \notin Under("shutdown") /\ Under("shutdown") \subseteq Calls
        /\ c \notin Under("remove") /\ Under("remove") \subseteq Calls
    BY <1>1 DEF Under, Idle
  <2>5. /\ Under("start") \ {c} = Under("start")
        /\ Under("shutdown") \ {c} = Under("shutdown")
        /\ Under("remove") \ {c} = Under("remove")
    BY <2>4
  <2>6. \A d \in Under("remove") \cup Under("shutdown") : calls'[d] = calls[d]
    BY <1>5, <2>4
  <2> QED BY ONLY <2>1, <2>2, <2>3, <2>5, <2>6
<1>8. PICK early : early = IF wot /\ attempts[s] = {} THEN history.early ELSE history.early \cup {s}
  OBVIOUS
<1>9. /\ history' \in HistoryType /\ history'.overlap = history.overlap
      /\ history'.early = early /\ history.early \subseteq early /\ early \subseteq Servers
  <2>1. history' = [history EXCEPT !.early = early] BY <1>8 DEF RemoveServer
  <2>2. early \in SUBSET Servers /\ history.early \subseteq early
    BY <1>0, <1>8 DEF HistoryType
  <2> QED BY <1>0, <2>1, <2>2 DEF HistoryType
<1>10. /\ socket' \in [Servers -> {"new", "open", "closing", "closed"}]
       /\ \A o \in Servers : o # s => socket'[o] = socket[o]
       /\ \A o \in Servers : socket'[o] = "closing" => Kind[o] # "mqtt" /\ o \notin sharing
       /\ wot => socket'[s] # "open" /\ (socket'[s] = "closing" => s \in waiting)
  <2>1. CASE wot
    <3>1. socket' = StoppedServers({s}) BY <2>1 DEF RemoveServer
    <3> QED BY <1>2, <2>1, <3>1, StoppedEffect
  <2>2. CASE ~wot
    <3>1. socket' = socket BY <2>2 DEF RemoveServer
    <3> QED BY <1>0, <2>2, <3>1 DEF LifeInv, LifeTyped, ClosingOK
  <2> QED BY <2>1, <2>2
<1>11. client' \subseteq Servers BY <1>0 DEF RemoveServer, ClientsAfter, LifeTyped
<1>12. LifeTyped' BY <1>0, <1>1, <1>5, <1>9, <1>10, <1>11 DEF LifeTyped
<1>13. ASSUME NEW o \in Servers
       PROVE  /\ \A d \in attempts[o] \ {None} : calls'[d].kind = "start" /\ calls'[d].stage # "idle"
              /\ attempts[o] # {} => o \in servers' \cup early
  <2>1. /\ \A d \in attempts[o] \ {None} : calls[d].kind = "start" /\ calls[d].stage # "idle"
        /\ attempts[o] # {} => o \in servers \cup history.early
        /\ attempts[o] \subseteq Calls \cup {None}
    BY DEF LifeInv, AttemptsOK, LifeTyped
  <2>2. \A d \in attempts[o] \ {None} : calls'[d] = calls[d] BY <1>5, <1>6, <2>1
  <2>3. o = s /\ attempts[o] # {} => o \in early BY <1>8
  <2> QED BY <1>1, <1>9, <2>1, <2>2, <2>3
<1>14. AttemptsOK' BY <1>1, <1>9, <1>13 DEF AttemptsOK
<1>15. ASSUME NEW o \in Servers \ servers', Listens(o)' PROVE o \in early \/ Removing(o)'
  <2>1. CASE o = s
    <3>1. CASE wot BY <1>3, <1>5, <1>7, <1>10, <1>15, <2>1, <3>1 DEF Listens, Removing
    <3>2. CASE ~wot BY <1>8, <2>1, <3>2
    <3> QED BY <3>1, <3>2
  <2>2. CASE o # s
    <3>1. o \in Servers \ servers /\ Listens(o) BY <1>1, <1>10, <1>15, <2>2 DEF Listens
    <3>2. o \in history.early \/ Removing(o) BY <3>1 DEF LifeInv, RemovedOK
    <3> QED BY <1>7, <1>9, <3>2 DEF Removing
  <2> QED BY <2>1, <2>2
<1>16. RemovedOK' BY <1>9, <1>15 DEF RemovedOK
<1>17. ClosingOK' /\ ShutsWhileUp'
  BY <1>1, <1>7, <1>10 DEF LifeInv, ClosingOK, ShutsWhileUp
<1>18. ~history'.overlap => InOrder'
  <2>1. SUFFICES ASSUME InOrder PROVE InOrder' BY <1>9 DEF LifeInv
  <2>2. OneStart' /\ StartsBefore' /\ NoneUnderWay'
    BY <1>1, <1>7, <2>1 DEF InOrder, OneStart, StartsBefore, NoneUnderWay
  <2>3. \A o \in servers' : o \in servers /\ socket'[o] = socket[o] BY <1>0, <1>1, <1>10 DEF LifeTyped
  <2>4. Ended' BY <1>1, <2>1, <2>3 DEF InOrder, Ended, Listens
  <2>5. AllAwaited' BY <1>7, <2>1, <2>3 DEF InOrder, AllAwaited
  <2> QED BY <2>2, <2>4, <2>5 DEF InOrder
<1> QED BY <1>12, <1>14, <1>16, <1>17, <1>18 DEF LifeInv

LEMMA StartCallStep ==
    ASSUME LifeInv, NEW c \in Calls, StartCall(c)
    PROVE  LifeInv'
<1> USE ServientAssumption
<1>0. history \in HistoryType /\ LifeTyped BY DEF LifeInv, LifeTyped
<1>1. /\ calls[c] = Idle /\ UNCHANGED <<servers, sharing, wot, shut, client>> BY DEF StartCall
<1>2. PICK call \in CallType :
        /\ call.kind = "start" /\ call.stage # "idle" /\ calls' = [calls EXCEPT ![c] = call]
        /\ wot \/ shut => call.stage # "waiting"
  <2>1. CASE wot \/ shut
    <3> DEFINE call == [kind |-> "start", stage |-> IF wot THEN "done" ELSE "threw", waiting |-> {}]
    <3>1. call \in CallType /\ call.kind = "start" /\ call.stage \notin {"idle", "waiting"}
      BY DEF CallType
    <3>2. calls' = [calls EXCEPT ![c] = call] BY <2>1 DEF StartCall
    <3> QED BY <3>1, <3>2
  <2>2. CASE ~(wot \/ shut)
    <3> DEFINE call == [kind |-> "start", stage |-> IF Again = {} THEN "waiting" ELSE "threw",
                        waiting |-> IF Again = {} THEN Awaited ELSE {}]
    <3>1. call \in CallType /\ call.kind = "start" /\ call.stage # "idle"
      BY <1>0 DEF CallType, Awaited, LifeTyped
    <3>2. calls' = [calls EXCEPT ![c] = call] BY <2>2 DEF StartCall
    <3> QED BY <2>2, <3>1, <3>2
  <2> QED BY <2>1, <2>2
<1>3. /\ calls' \in [Calls -> CallType] /\ calls'[c] = call
      /\ \A d \in Calls : d # c => calls'[d] = calls[d]
  BY <1>2, OneCallChanged
<1>4. (\A kind : c \notin Under(kind)) /\ \A o \in Servers : c \notin attempts[o]
  BY <1>1, IdleCall
<1>5. /\ Under("start")' = IF call.stage = "waiting" THEN Under("start") \cup {c} ELSE Under("start")
      /\ Under("remove")' = Under("remove") /\ Under("shutdown")' = Under("shutdown")
      /\ \A d \in Under("remove") \cup Under("shutdown") : calls'[d] = calls[d]
  <2>1. Under("start")' = IF call.stage = "waiting" THEN Under("start") \cup {c}
                          ELSE Under("start") \ {c}
    BY <1>2, OneCallUnder
  <2>2. Under("shutdown")' = Under("shutdown") \ {c} BY <1>2, OneCallUnder
  <2>3. Under("remove")' = Under("remove") \ {c} BY <1>2, OneCallUnder
  <2>4. /\ c \notin Under("start") /\ Under("start") \subseteq Calls
        /\ c \notin Under("shutdown") /\ Under("shutdown") \subseteq Calls
        /\ c \notin Under("remove") /\ Under("remove") \subseteq Calls
    BY <1>1 DEF Under, Idle
  <2>5. /\ Under("start") \ {c} = Under("start")
        /\ Under("shutdown") \ {c} = Under("shutdown")
        /\ Under("remove") \ {c} = Under("remove")
    BY <2>4
  <2>6. \A d \in Under("remove") \cup Under("shutdown") : calls'[d] = calls[d]
    BY <1>3, <2>4
  <2> QED BY ONLY <2>1, <2>2, <2>3, <2>5, <2>6
<1>6. CASE wot \/ shut
  <2>1. UNCHANGED <<socket, attempts, history>> BY <1>6 DEF StartCall
  <2>2. Under("start")' = Under("start") BY <1>2, <1>3, <1>5, <1>6
  <2>3. LifeTyped' BY <1>0, <1>1, <1>3, <2>1 DEF LifeTyped
  <2>4. AttemptsOK'
    <3>1. \A o \in Servers : \A d \in attempts[o] \ {None} : calls'[d] = calls[d]
      BY <1>0, <1>3, <1>4 DEF LifeTyped
    <3> QED BY <1>1, <2>1, <3>1 DEF LifeInv, AttemptsOK
  <2>5. ClosingOK' /\ RemovedOK' /\ ShutsWhileUp'
    BY <1>1, <1>5, <2>1 DEF LifeInv, ClosingOK, RemovedOK, Listens, Removing, ShutsWhileUp
  <2>6. ~history'.overlap => InOrder'
    BY <1>1, <1>5, <2>1, <2>2
    DEF LifeInv, InOrder, OneStart, StartsBefore, Ended, NoneUnderWay, AllAwaited, Listens
  <2> QED BY <2>3, <2>4, <2>5, <2>6 DEF LifeInv
<1>7. CASE ~wot /\ ~shut
  <2>1. /\ attempts' = [s \in Servers |-> IF s \in servers \ (sharing \cup Again)
                                          THEN attempts[s] \cup {c} ELSE attempts[s]]
        /\ socket' = [s \in Servers |-> IF s \in servers \cap sharing THEN "open" ELSE socket[s]]
    BY <1>7 DEF StartCall
  <2>2. PICK overlap \in BOOLEAN :
           /\ history' = [history EXCEPT !.overlap = overlap]
           /\ ~overlap => ~history.overlap /\ Under("start") = {}
    <3> DEFINE overlap == \/ history.overlap \/ Under("start") # {}
                          \/ \E s \in servers : attempts[s] # {} \/ socket[s] # "new"
    <3>1. history' = [history EXCEPT !.overlap = overlap] BY <1>7 DEF StartCall
    <3>2. overlap \in BOOLEAN BY <1>0 DEF HistoryType
    <3> QED BY <3>1, <3>2
  <2>3. /\ history' \in HistoryType /\ history'.overlap = overlap /\ history'.early = history.early
    BY <1>0, <2>2 DEF HistoryType
  <2>4. /\ attempts' \in [Servers -> SUBSET (Calls \cup {None})]
        /\ socket' \in [Servers -> {"new", "open", "closing", "closed"}]
    BY <1>0, <2>1 DEF LifeTyped
  <2>5. LifeTyped' BY <1>0, <1>1, <1>3, <2>3, <2>4 DEF LifeTyped
  <2>6. ASSUME NEW o \in Servers
        PROVE  /\ \A d \in attempts'[o] \ {None} : calls'[d].kind = "start" /\ calls'[d].stage # "idle"
               /\ attempts'[o] # {} => o \in servers \cup history.early
    <3>1. /\ \A d \in attempts[o] \ {None} : calls[d].kind = "start" /\ calls[d].stage # "idle"
          /\ attempts[o] # {} => o \in servers \cup history.early
          /\ attempts[o] \subseteq Calls \cup {None}
      BY DEF LifeInv, AttemptsOK, LifeTyped
    <3>2. /\ attempts'[o] \subseteq attempts[o] \cup {c}
          /\ attempts'[o] # {} => attempts[o] # {} \/ o \in servers
      BY <2>1
    <3> QED BY <1>2, <1>3, <3>1, <3>2
  <2>7. AttemptsOK' BY <1>1, <2>3, <2>6 DEF AttemptsOK
  <2>8. ClosingOK' /\ RemovedOK' /\ ShutsWhileUp'
    BY <1>1, <1>5, <2>1, <2>3
    DEF LifeInv, ClosingOK, RemovedOK, Listens, Removing, ShutsWhileUp
  <2>9. ~history'.overlap => InOrder'
    <3>1. Under("shutdown")' = {} /\ ~wot' /\ ~shut'
      BY <1>1, <1>5, <1>7 DEF LifeInv, ShutsWhileUp
    <3>2. ~overlap => \A d, e \in Under("start")' : d = e BY <1>5, <2>2
    <3> QED BY <2>3, <3>1, <3>2
        DEF InOrder, OneStart, StartsBefore, Ended, NoneUnderWay, AllAwaited
  <2> QED BY <2>5, <2>7, <2>8, <2>9 DEF LifeInv
<1> QED BY <1>6, <1>7

LEMMA StartAloneStep ==
    ASSUME LifeInv, NEW s \in Servers, StartAlone(s)
    PROVE  LifeInv'
<1> USE ServientAssumption
<1>0. history \in HistoryType /\ LifeTyped BY DEF LifeInv, LifeTyped
<1>1. /\ wot /\ s \in servers /\ socket[s] = "new"
      /\ UNCHANGED <<servers, sharing, wot, shut, client, calls>>
  BY DEF StartAlone
<1>2. \/ socket' = [socket EXCEPT ![s] = "open"] /\ attempts' = attempts
      \/ attempts' = [attempts EXCEPT ![s] = {None}] /\ socket' = socket
  BY DEF StartAlone
<1>3. PICK overlap \in BOOLEAN : overlap = (history.overlap \/ Under("shutdown") # {})
  BY <1>0 DEF HistoryType
<1>4. /\ history' \in HistoryType /\ history'.overlap = overlap /\ history'.early = history.early
  <2>1. history' = [history EXCEPT !.overlap = overlap] BY <1>3 DEF StartAlone
  <2> QED BY <1>0, <2>1 DEF HistoryType
<1>5. \A kind : Under(kind)' = Under(kind) BY <1>1 DEF Under
<1>6. /\ socket' \in [Servers -> {"new", "open", "closing", "closed"}]
      /\ attempts' \in [Servers -> SUBSET (Calls \cup {None})]
      /\ \A o \in Servers : o # s => socket'[o] = socket[o] /\ attempts'[o] = attempts[o]
      /\ socket'[s] \in {"new", "open"}
      /\ attempts'[s] = attempts[s] \/ attempts'[s] = {None}
  BY <1>0, <1>1, <1>2 DEF LifeTyped
<1>7. LifeTyped' BY <1>0, <1>1, <1>4, <1>6 DEF LifeTyped
<1>8. AttemptsOK' BY <1>1, <1>4, <1>6 DEF LifeInv, AttemptsOK
<1>9. ClosingOK' BY <1>1, <1>6 DEF LifeInv, ClosingOK
<1>10. RemovedOK' /\ ShutsWhileUp'
  BY <1>1, <1>4, <1>5, <1>6 DEF LifeInv, RemovedOK, Listens, Removing, ShutsWhileUp
<1>11. ~history'.overlap => InOrder'
  <2>1. SUFFICES ASSUME InOrder, Under("shutdown") = {} PROVE InOrder'
    BY <1>3, <1>4 DEF LifeInv
  <2>2. ~shut BY <1>1, <2>1 DEF InOrder, Ended
  <2> QED BY <1>1, <1>5, <2>1, <2>2
      DEF InOrder, OneStart, StartsBefore, Ended, NoneUnderWay, AllAwaited
<1> QED BY <1>7, <1>8, <1>9, <1>10, <1>11 DEF LifeInv

LEMMA OpensStep ==
    ASSUME LifeInv, NEW s \in Servers, Opens(s) \/ OpenFails(s)
    PROVE  LifeInv'
<1> USE ServientAssumption
<1>0. history \in HistoryType /\ LifeTyped BY DEF LifeInv, LifeTyped
<1>1. PICK c \in attempts[s] :
        /\ attempts' = [attempts EXCEPT ![s] = @ \ {c}]
        /\ UNCHANGED <<servers, sharing, wot, shut, client, history>>
        /\ \/ /\ socket' = [socket EXCEPT ![s] = "open"]
              /\ calls' = IF c = None THEN calls ELSE [calls EXCEPT ![c].waiting = @ \ {s}]
           \/ /\ socket' = socket
              /\ calls' = IF c = None THEN calls
                          ELSE [calls EXCEPT ![c] = [kind |-> @.kind, stage |-> "threw", waiting |-> {}]]
  BY DEF Opens, OpenFails, Settle
<1>2. /\ s \in servers \cup history.early /\ attempts[s] # {} /\ attempts[s] \subseteq Calls \cup {None}
      /\ c # None => c \in Calls /\ calls[c].kind = "start" /\ calls[c].stage # "idle"
  BY <1>0 DEF LifeInv, AttemptsOK, LifeTyped
<1>3. /\ calls' \in [Calls -> CallType]
      /\ \A d \in Calls : d # c => calls'[d] = calls[d]
      /\ c # None => /\ calls'[c].kind = "start" /\ calls'[c].stage # "idle"
                     /\ calls'[c].stage = "waiting" => calls[c].stage = "waiting"
  <2>1. CASE c = None BY <1>0, <1>1, <2>1 DEF LifeTyped
  <2>2. CASE c # None
    <3>1. c \in Calls /\ calls[c] \in CallType BY <1>0, <1>2, <2>2 DEF LifeTyped
    <3> DEFINE less == [calls[c] EXCEPT !.waiting = @ \ {s}]
               threw == [kind |-> calls[c].kind, stage |-> "threw", waiting |-> {}]
    <3>2. /\ less \in CallType /\ threw \in CallType
          /\ less.kind = calls[c].kind /\ less.stage = calls[c].stage
          /\ threw.kind = calls[c].kind /\ threw.stage = "threw"
      BY <3>1 DEF CallType
    <3>3. calls' = [calls EXCEPT ![c] = less] \/ calls' = [calls EXCEPT ![c] = threw]
      BY <1>0, <1>1, <2>2, <3>1 DEF LifeTyped
    <3> HIDE DEF less, threw
    <3> QED BY <1>2, <2>2, <3>1, <3>2, <3>3, OneCallChanged
  <2> QED BY <2>1, <2>2
<1>4. /\ Under("start")' \subseteq Under("start")
      /\ Under("shutdown")' = Under("shutdown") /\ Under("remove")' = Under("remove")
      /\ \A d \in Under("shutdown") \cup Under("remove") : calls'[d] = calls[d]
  <2>1. \A d \in Calls : \/ calls'[d] = calls[d]
                         \/ /\ calls'[d].kind = "start" /\ calls[d].kind = "start"
                            /\ calls'[d].stage = "waiting" => calls[d].stage = "waiting"
    BY <1>2, <1>3
  <2> QED BY <2>1 DEF Under
<1>5. /\ socket' \in [Servers -> {"new", "open", "closing", "closed"}]
      /\ attempts' \in [Servers -> SUBSET (Calls \cup {None})]
      /\ \A o \in Servers : o # s => socket'[o] = socket[o] /\ attempts'[o] = attempts[o]
      /\ socket'[s] = socket[s] \/ socket'[s] = "open"
      /\ attempts'[s] \subseteq attempts[s]
  BY <1>0, <1>1 DEF LifeTyped
<1>6. LifeTyped' BY <1>0, <1>1, <1>3, <1>5 DEF LifeTyped
<1>7. ASSUME NEW o \in Servers
      PROVE  /\ \A d \in attempts'[o] \ {None} : calls'[d].kind = "start" /\ calls'[d].stage # "idle"
             /\ attempts'[o] # {} => o \in servers \cup history.early
  <2>1. attempts'[o] \subseteq attempts[o] BY <1>5
  <2>2. /\ \A d \in attempts[o] \ {None} : calls[d].kind = "start" /\ calls[d].stage # "idle"
        /\ attempts[o] # {} => o \in servers \cup history.early
        /\ attempts[o] \subseteq Calls \cup {None}
    BY DEF LifeInv, AttemptsOK, LifeTyped
  <2>3. \A d \in attempts[o] \ {None} : calls'[d] = calls[d] \/ d = c BY <1>3, <2>2
  <2> QED BY <1>3, <2>1, <2>2, <2>3
<1>8. AttemptsOK' BY <1>1, <1>7 DEF AttemptsOK
<1>9. ClosingOK' BY <1>1, <1>5 DEF LifeInv, ClosingOK
<1>10. RemovedOK' /\ ShutsWhileUp'
  BY <1>1, <1>2, <1>4, <1>5 DEF LifeInv, RemovedOK, Listens, Removing, ShutsWhileUp
<1>11. ~history'.overlap => InOrder'
  <2>1. SUFFICES ASSUME InOrder PROVE InOrder' BY <1>1 DEF LifeInv
  <2>2. Under("shutdown") = {} /\ ~shut BY <1>2, <2>1 DEF InOrder, NoneUnderWay
  <2>3. ~shut' /\ Under("shutdown")' = {} BY <1>1, <1>4, <2>2
  <2>4. OneStart' /\ StartsBefore' BY <1>1, <1>4, <2>1 DEF InOrder, OneStart, StartsBefore
  <2> QED BY <2>3, <2>4 DEF InOrder, Ended, NoneUnderWay, AllAwaited
<1> QED BY <1>6, <1>8, <1>9, <1>10, <1>11 DEF LifeInv

(* A call settles, which removes it from what is awaited.                  *)
LEMMA SettleEffect ==
    ASSUME LifeInv, NEW c \in Calls, calls[c].stage = "waiting", Settle(c, "done")
    PROVE  /\ calls' \in [Calls -> CallType]
           /\ calls'[c].kind = calls[c].kind /\ calls'[c].stage = "done"
           /\ \A d \in Calls : d # c => calls'[d] = calls[d]
           /\ \A kind : Under(kind)' = Under(kind) \ {c}
<1>1. calls \in [Calls -> CallType] /\ calls[c] \in CallType BY DEF LifeInv, LifeTyped
<1> DEFINE done == [kind |-> calls[c].kind, stage |-> "done", waiting |-> {}]
<1>2. done \in CallType /\ done.kind = calls[c].kind /\ done.stage = "done"
  BY <1>1 DEF CallType
<1>3. calls' = [calls EXCEPT ![c] = done] BY <1>1 DEF Settle
<1> HIDE DEF done
<1>4. /\ calls' \in [Calls -> CallType] /\ calls'[c] = done
      /\ \A d \in Calls : d # c => calls'[d] = calls[d]
  BY <1>2, <1>3, OneCallChanged
<1>5. ASSUME NEW kind PROVE Under(kind)' = Under(kind) \ {c} BY <1>2, <1>4 DEF Under
<1> QED BY <1>2, <1>4, <1>5

LEMMA AttemptsSettled ==
    ASSUME LifeInv, NEW c \in Calls, UNCHANGED <<servers, attempts, history>>,
           calls'[c].kind = calls[c].kind, calls'[c].stage = "done",
           \A d \in Calls : d # c => calls'[d] = calls[d]
    PROVE  AttemptsOK'
<1>1. ASSUME NEW o \in Servers, NEW d \in attempts[o] \ {None}
      PROVE  calls'[d].kind = "start" /\ calls'[d].stage # "idle"
  <2>1. d \in Calls /\ calls[d].kind = "start" /\ calls[d].stage # "idle"
    BY DEF LifeInv, LifeTyped, AttemptsOK
  <2> QED BY <2>1
<1> QED BY <1>1 DEF LifeInv, AttemptsOK

LEMMA StartedStep ==
    ASSUME LifeInv, NEW c \in Calls, Started(c)
    PROVE  LifeInv'
<1> USE ServientAssumption
<1>0. LifeTyped BY DEF LifeInv
<1>1. /\ c \in Under("start") /\ wot' = TRUE /\ Settle(c, "done")
      /\ calls[c].stage = "waiting" /\ calls[c].kind = "start"
      /\ UNCHANGED <<servers, sharing, shut, socket, attempts, client, history>>
  BY DEF Started, Under
<1>2. /\ calls' \in [Calls -> CallType]
      /\ calls'[c].kind = calls[c].kind /\ calls'[c].stage = "done"
      /\ \A d \in Calls : d # c => calls'[d] = calls[d]
      /\ Under("start")' = Under("start") \ {c}
      /\ Under("shutdown")' = Under("shutdown") \ {c} /\ Under("remove")' = Under("remove") \ {c}
  BY <1>1, SettleEffect
<1>3. /\ Under("shutdown")' = Under("shutdown") /\ Under("remove")' = Under("remove")
      /\ \A d \in Under("shutdown") \cup Under("remove") : calls'[d] = calls[d]
  <2>1. c \notin Under("shutdown") /\ c \notin Under("remove") BY <1>1 DEF Under
  <2>2. Under("shutdown") \subseteq Calls /\ Under("remove") \subseteq Calls BY DEF Under
  <2> QED BY <1>2, <2>1, <2>2
<1>4. LifeTyped' BY <1>0, <1>1, <1>2 DEF LifeTyped
<1>5. AttemptsOK' BY <1>1, <1>2, AttemptsSettled
<1>6. ClosingOK' /\ RemovedOK' /\ ShutsWhileUp'
  BY <1>1, <1>3 DEF LifeInv, ClosingOK, RemovedOK, Listens, Removing, ShutsWhileUp
<1>7. ~history'.overlap => InOrder'
  <2>1. SUFFICES ASSUME InOrder PROVE InOrder' BY <1>1 DEF LifeInv
  <2>2. ~shut' /\ Under("start")' = {}
    BY <1>1, <1>2, <2>1 DEF InOrder, OneStart, StartsBefore
  <2>3. AllAwaited' /\ NoneUnderWay'
    BY <1>1, <1>3, <2>1 DEF InOrder, AllAwaited, NoneUnderWay
  <2> QED BY <2>2, <2>3 DEF InOrder, OneStart, StartsBefore, Ended
<1> QED BY <1>4, <1>5, <1>6, <1>7 DEF LifeInv

LEMMA StoppedStep ==
    ASSUME LifeInv, NEW c \in Calls, Stopped(c)
    PROVE  LifeInv'
<1> USE ServientAssumption
<1>0. LifeTyped BY DEF LifeInv
<1>1. /\ calls[c].stage = "waiting" /\ calls[c].waiting = {} /\ Settle(c, "done")
      /\ calls[c].kind \in {"shutdown", "remove"}
      /\ calls[c].kind = "shutdown" => c \in Under("shutdown") /\ shut' = TRUE /\ wot' = FALSE
      /\ calls[c].kind = "remove" => UNCHANGED <<shut, wot>> /\ c \notin Under("shutdown")
      /\ UNCHANGED <<servers, sharing, socket, attempts, client, history>>
  BY DEF Stopped, Under
<1>2. /\ calls' \in [Calls -> CallType]
      /\ calls'[c].kind = calls[c].kind /\ calls'[c].stage = "done"
      /\ \A d \in Calls : d # c => calls'[d] = calls[d]
      /\ Under("start")' = Under("start") \ {c}
      /\ Under("shutdown")' = Under("shutdown") \ {c} /\ Under("remove")' = Under("remove") \ {c}
  BY <1>1, SettleEffect
<1>3. /\ Under("start")' = Under("start")
      /\ \A d \in Under("shutdown") \cup Under("remove") : d # c => calls'[d] = calls[d]
  <2>1. c \notin Under("start") BY <1>1 DEF Under
  <2>2. Under("shutdown") \subseteq Calls /\ Under("remove") \subseteq Calls BY DEF Under
  <2> QED BY <1>2, <2>1, <2>2
<1>4. wot' \in BOOLEAN /\ shut' \in BOOLEAN BY <1>0, <1>1 DEF LifeTyped
<1>5. LifeTyped' BY <1>0, <1>1, <1>2, <1>4 DEF LifeTyped
<1>6. AttemptsOK' BY <1>1, <1>2, AttemptsSettled
<1>7. ClosingOK' BY <1>1 DEF LifeInv, ClosingOK
<1>8. RemovedOK'
  <2>1. ASSUME NEW s \in Servers, Removing(s) PROVE Removing(s)'
    <3>1. PICK d \in Under("remove") : s \in calls[d].waiting BY <2>1 DEF Removing
    <3>2. d # c BY <1>1, <3>1
    <3> QED BY <1>2, <1>3, <3>1, <3>2 DEF Removing
  <2> QED BY <1>1, <2>1 DEF LifeInv, RemovedOK, Listens
<1>9. ShutsWhileUp' BY <1>1, <1>2 DEF LifeInv, ShutsWhileUp
<1>10. ~history'.overlap => InOrder'
  <2>1. SUFFICES ASSUME InOrder PROVE InOrder' BY <1>1 DEF LifeInv
  <2>2. OneStart' BY <1>3, <2>1 DEF InOrder, OneStart
  <2>3. AllAwaited' BY <1>1, <1>2, <1>3, <2>1 DEF InOrder, AllAwaited
  <2>4. CASE calls[c].kind = "shutdown"
    <3>1. /\ Under("start") = {} /\ \A s \in Servers : attempts[s] = {}
      BY <1>1, <2>1, <2>4 DEF LifeInv, ShutsWhileUp, InOrder, StartsBefore, NoneUnderWay
    <3>2. \A s \in servers : ~Listens(s)
      BY <1>1, <2>1, <2>4 DEF InOrder, AllAwaited, Listens
    <3>3. Ended' BY <1>1, <2>4, <3>2 DEF Ended, Listens
    <3> QED BY <1>1, <1>3, <2>2, <2>3, <3>1, <3>3 DEF InOrder, StartsBefore, NoneUnderWay
  <2>5. CASE calls[c].kind = "remove"
    <3>1. StartsBefore' /\ NoneUnderWay' /\ Ended'
      BY <1>1, <1>2, <1>3, <2>1, <2>5 DEF InOrder, StartsBefore, NoneUnderWay, Ended, Listens
    <3> QED BY <2>2, <2>3, <3>1 DEF InOrder
  <2> QED BY <1>1, <2>4, <2>5
<1> QED BY <1>5, <1>6, <1>7, <1>8, <1>9, <1>10 DEF LifeInv

LEMMA ShutdownCallStep ==
    ASSUME LifeInv, NEW c \in Calls, ShutdownCall(c)
    PROVE  LifeInv'
<1> USE ServientAssumption
<1>0. history \in HistoryType /\ LifeTyped BY DEF LifeInv, LifeTyped
<1>1. /\ calls[c] = Idle /\ UNCHANGED <<servers, sharing, wot, shut, attempts>>
  BY DEF ShutdownCall
<1>2. \A s \in Servers : c \notin attempts[s] BY <1>1, IdleCall
<1>3. PICK call \in CallType :
        /\ call.kind = "shutdown" /\ call.stage # "idle" /\ calls' = [calls EXCEPT ![c] = call]
        /\ wot => call.stage = "waiting" /\ call.waiting = StopsLater(servers)
        /\ ~wot => call.stage = "threw"
  <2>1. CASE wot
    <3> DEFINE call == [kind |-> "shutdown", stage |-> "waiting", waiting |-> StopsLater(servers)]
    <3>1. StopsLater(servers) \in SUBSET Servers BY <1>0 DEF StopsLater, LifeTyped
    <3>2. /\ call \in CallType /\ call.kind = "shutdown" /\ call.stage = "waiting"
          /\ call.waiting = StopsLater(servers)
      BY <3>1 DEF CallType
    <3>3. calls' = [calls EXCEPT ![c] = call] BY <2>1 DEF ShutdownCall
    <3> QED BY <2>1, <3>2, <3>3
  <2>2. CASE ~wot
    <3> DEFINE call == [kind |-> "shutdown", stage |-> "threw", waiting |-> {}]
    <3>1. call \in CallType /\ call.kind = "shutdown" /\ call.stage = "threw" BY DEF CallType
    <3>2. calls' = [calls EXCEPT ![c] = call] BY <2>2 DEF ShutdownCall
    <3> QED BY <2>2, <3>1, <3>2
  <2> QED BY <2>1, <2>2
<1>4. /\ calls' \in [Calls -> CallType] /\ calls'[c] = call
      /\ \A d \in Calls : d # c => calls'[d] = calls[d]
  BY <1>3, OneCallChanged
<1>5. /\ Under("start")' = Under("start") /\ Under("remove")' = Under("remove")
      /\ Under("shutdown")' = IF call.stage = "waiting" THEN Under("shutdown") \cup {c}
                              ELSE Under("shutdown")
      /\ \A d \in Under("shutdown") \cup Under("remove") : calls'[d] = calls[d]
  <2>1. Under("shutdown")' = IF call.stage = "waiting" THEN Under("shutdown") \cup {c}
                             ELSE Under("shutdown") \ {c}
    BY <1>3, OneCallUnder
  <2>2. Under("start")' = Under("start") \ {c} BY <1>3, OneCallUnder
  <2>3. Under("remove")' = Under("remove") \ {c} BY <1>3, OneCallUnder
  <2>4. /\ c \notin Under("start") /\ Under("start") \subseteq Calls
        /\ c \notin Under("shutdown") /\ Under("shutdown") \subseteq Calls
        /\ c \notin Under("remove") /\ Under("remove") \subseteq Calls
    BY <1>1 DEF Under, Idle
  <2>5. /\ Under("start") \ {c} = Under("start")
        /\ Under("shutdown") \ {c} = Under("shutdown")
        /\ Under("remove") \ {c} = Under("remove")
    BY <2>4
  <2>6. \A d \in Under("remove") \cup Under("shutdown") : calls'[d] = calls[d]
    BY <1>4, <2>4
  <2> QED BY ONLY <2>1, <2>2, <2>3, <2>5, <2>6
<1>6. AttemptsOK'
  <2>1. history'.early = history.early BY <1>0 DEF ShutdownCall, HistoryType
  <2>2. \A o \in Servers : \A d \in attempts[o] \ {None} : calls'[d] = calls[d]
    BY <1>0, <1>2, <1>4 DEF LifeTyped
  <2> QED BY <1>1, <2>1, <2>2 DEF LifeInv, AttemptsOK
<1>7. CASE ~wot
  <2>1. UNCHANGED <<socket, client, history>> BY <1>7 DEF ShutdownCall
  <2>2. Under("shutdown")' = Under("shutdown") BY <1>3, <1>5, <1>7
  <2>3. LifeTyped' BY <1>0, <1>1, <1>4, <2>1 DEF LifeTyped
  <2>4. ClosingOK' /\ RemovedOK' /\ ShutsWhileUp'
    BY <1>1, <1>5, <2>1, <2>2
    DEF LifeInv, ClosingOK, RemovedOK, Listens, Removing, ShutsWhileUp
  <2>5. ~history'.overlap => InOrder'
    BY <1>1, <1>5, <2>1, <2>2
    DEF LifeInv, InOrder, OneStart, StartsBefore, Ended, NoneUnderWay, AllAwaited, Listens
  <2> QED BY <1>6, <2>3, <2>4, <2>5 DEF LifeInv
<1>8. CASE wot
  <2>1. /\ socket' = StoppedServers(servers) /\ client' = ClientsAfter(servers)
    BY <1>8 DEF ShutdownCall
  <2>2. servers \in SUBSET Servers BY <1>0 DEF LifeTyped
  <2>3. /\ socket' \in [Servers -> {"new", "open", "closing", "closed"}]
        /\ \A s \in Servers \ servers : socket'[s] = socket[s]
        /\ \A s \in servers : socket'[s] # "open"
        /\ \A s \in servers : socket[s] # "open" => socket'[s] = socket[s]
        /\ \A s \in Servers : socket'[s] = "closing" => Kind[s] # "mqtt" /\ s \notin sharing
        /\ \A s \in servers : socket'[s] = "closing" => s \in StopsLater(servers)
    BY <2>1, <2>2, StoppedEffect
  <2>4. PICK overlap \in BOOLEAN : overlap = (history.overlap \/ \E s \in Servers : attempts[s] # {})
    BY <1>0 DEF HistoryType
  <2>5. /\ history' \in HistoryType /\ history'.overlap = overlap /\ history'.early = history.early
    <3>1. history' = [history EXCEPT !.overlap = overlap] BY <1>8, <2>4 DEF ShutdownCall
    <3> QED BY <1>0, <3>1 DEF HistoryType
  <2>6. client' \subseteq Servers BY <1>0, <2>1 DEF ClientsAfter, LifeTyped
  <2>7. LifeTyped' BY <1>0, <1>1, <1>4, <2>3, <2>5, <2>6 DEF LifeTyped
  <2>8. ClosingOK' BY <1>1, <2>3 DEF ClosingOK
  <2>9. RemovedOK' /\ ShutsWhileUp'
    BY <1>1, <1>5, <1>8, <2>3, <2>5 DEF LifeInv, RemovedOK, Listens, Removing, ShutsWhileUp
  <2>10. ~history'.overlap => InOrder'
    <3>1. SUFFICES ASSUME InOrder, \A s \in Servers : attempts[s] = {} PROVE InOrder'
      BY <2>4, <2>5 DEF LifeInv
    <3>2. OneStart' BY <1>5, <3>1 DEF InOrder, OneStart
    <3>3. StartsBefore' BY <1>1, <1>5, <3>1 DEF InOrder, StartsBefore
    <3>4. ~shut' /\ NoneUnderWay' BY <1>1, <1>8, <3>1 DEF InOrder, Ended, NoneUnderWay
    <3>5. ASSUME NEW d \in Under("shutdown")', NEW s \in servers
          PROVE  socket'[s] # "open" /\ (socket'[s] = "closing" => s \in calls'[d].waiting)
      <4>1. CASE d = c BY <1>3, <1>4, <1>8, <2>3, <4>1
      <4>2. CASE d # c
        <5>1. d \in Under("shutdown") /\ calls'[d] = calls[d] BY <1>5, <3>5, <4>2
        <5>2. socket[s] # "open" /\ (socket[s] = "closing" => s \in calls[d].waiting)
          BY <3>1, <5>1 DEF InOrder, AllAwaited
        <5> QED BY <2>3, <5>1, <5>2
      <4> QED BY <4>1, <4>2
    <3>6. AllAwaited' BY <1>1, <3>5 DEF AllAwaited
    <3> QED BY <3>2, <3>3, <3>4, <3>6 DEF InOrder, Ended
  <2> QED BY <1>6, <2>7, <2>8, <2>9, <2>10 DEF LifeInv
<1> QED BY <1>7, <1>8

LEMMA ClosesStep ==
    ASSUME LifeInv, NEW s \in Servers, Closes(s)
    PROVE  LifeInv'
<1> USE ServientAssumption
<1>0. LifeTyped BY DEF LifeInv
<1>1. /\ socket' = [socket EXCEPT ![s] = "closed"]
      /\ calls' = [c \in Calls |-> IF calls[c].kind = "start" THEN calls[c]
                                   ELSE [calls[c] EXCEPT !.waiting = @ \ {s}]]
      /\ UNCHANGED <<servers, sharing, wot, shut, attempts, client, history>>
  BY DEF Closes
<1>2. ASSUME NEW c \in Calls
      PROVE  /\ calls'[c] \in CallType /\ calls'[c].kind = calls[c].kind
             /\ calls'[c].stage = calls[c].stage
             /\ \A o \in Servers : o # s => (o \in calls'[c].waiting <=> o \in calls[c].waiting)
  <2>1. calls[c] \in CallType BY <1>0 DEF LifeTyped
  <2>2. calls'[c] = calls[c] \/ calls'[c] = [calls[c] EXCEPT !.waiting = @ \ {s}] BY <1>1
  <2> QED BY <2>1, <2>2 DEF CallType
<1>3. calls' \in [Calls -> CallType] BY <1>1, <1>2
<1>4. \A kind : Under(kind)' = Under(kind) BY <1>2 DEF Under
<1>5. \A kind : Under(kind) \subseteq Calls BY DEF Under
<1>6. /\ socket' \in [Servers -> {"new", "open", "closing", "closed"}]
      /\ socket'[s] = "closed" /\ \A o \in Servers : o # s => socket'[o] = socket[o]
  BY <1>0, <1>1 DEF LifeTyped
<1>7. LifeTyped' BY <1>0, <1>1, <1>3, <1>6 DEF LifeTyped
<1>8. AttemptsOK'
  <2>1. ASSUME NEW o \in Servers, NEW d \in attempts[o] \ {None}
        PROVE  calls'[d].kind = "start" /\ calls'[d].stage # "idle"
    <3>1. d \in Calls /\ calls[d].kind = "start" /\ calls[d].stage # "idle"
      BY DEF LifeInv, LifeTyped, AttemptsOK
    <3> QED BY <1>2, <3>1
  <2> QED BY <1>1, <2>1 DEF LifeInv, AttemptsOK
<1>9. ClosingOK' BY <1>1, <1>6 DEF LifeInv, ClosingOK
<1>10. RemovedOK'
  <2>1. ASSUME NEW o \in Servers \ servers, Listens(o)' PROVE o \in history.early \/ Removing(o)'
    <3>1. o # s /\ Listens(o) BY <1>6, <2>1 DEF Listens
    <3>2. o \in history.early \/ Removing(o) BY <3>1 DEF LifeInv, RemovedOK
    <3> QED BY <1>2, <1>4, <1>5, <3>1, <3>2 DEF Removing
  <2> QED BY <1>1, <2>1 DEF RemovedOK
<1>11. ShutsWhileUp' BY <1>1, <1>4 DEF LifeInv, ShutsWhileUp
<1>12. ~history'.overlap => InOrder'
  <2>1. SUFFICES ASSUME InOrder PROVE InOrder' BY <1>1 DEF LifeInv
  <2>2. OneStart' /\ StartsBefore' /\ NoneUnderWay'
    BY <1>1, <1>4, <2>1 DEF InOrder, OneStart, StartsBefore, NoneUnderWay
  <2>3. \A o \in servers : Listens(o)' => Listens(o) /\ o # s
    BY <1>0, <1>6 DEF Listens, LifeTyped
  <2>4. Ended' BY <1>1, <2>1, <2>3 DEF InOrder, Ended
  <2>5. ASSUME NEW d \in Under("shutdown"), NEW o \in servers
        PROVE  socket'[o] # "open" /\ (socket'[o] = "closing" => o \in calls'[d].waiting)
    <3>1. d \in Calls /\ o \in Servers BY <1>0, <1>5 DEF LifeTyped
    <3>2. socket[o] # "open" /\ (socket[o] = "closing" => o \in calls[d].waiting)
      BY <2>1 DEF InOrder, AllAwaited
    <3> QED BY <1>2, <1>6, <3>1, <3>2
  <2>6. AllAwaited' BY <1>1, <1>4, <2>5 DEF AllAwaited
  <2> QED BY <2>2, <2>4, <2>6 DEF InOrder
<1> QED BY <1>7, <1>8, <1>9, <1>10, <1>11, <1>12 DEF LifeInv

LEMMA LifeStep == LifeInv /\ [Next]_vars => LifeInv'
<1> SUFFICES ASSUME LifeInv, [Next]_vars PROVE LifeInv' OBVIOUS
<1>1. CASE UNCHANGED vars
  BY <1>1, LifeKept DEF vars, LifeInv, LifeTyped
<1>2. CASE Next
  BY <1>2, ThingsStep, ClientStep, AddServerStep, RemoveServerStep, StartCallStep, StartAloneStep,
     OpensStep, StartedStep, ShutdownCallStep, ClosesStep, StoppedStep
  DEF Next
<1> QED BY <1>1, <1>2

-----------------------------------------------------------------------------
(* When the Servient has been shut down nothing of it listens, but for the *)
(* cases that are named.                                                   *)
THEOREM SilentAfterShutdown == Spec => []NothingListensOn
<1>1. LifeInv => NothingListensOn
  BY DEF LifeInv, LifeTyped, RemovedOK, Removing, Listens, InOrder, Ended, NothingListensOn
<1> QED BY LifeInit, LifeStep, <1>1, PTL DEF Spec

(* Without such overlaps a Servient that has been shut down is never       *)
(* started again, and nothing of it is under way.                          *)
ShutForGood ==
    shut /\ ~history.overlap => ~wot /\ \A s \in Servers : attempts[s] = {}

THEOREM NeverStartedAgain == Spec => []ShutForGood
<1>1. LifeInv => ShutForGood
  BY DEF LifeInv, InOrder, Ended, NoneUnderWay, ShutForGood
<1> QED BY LifeInit, LifeStep, <1>1, PTL DEF Spec

-----------------------------------------------------------------------------
(* The names: an inductive invariant of registries and forms               *)

(* A name is a title or the id of the Thing it stands for, and stands once *)
(* in the registry.                                                        *)
NamedFor(name, t) == name = IdName(t) \/ name = <<name[1], name[2]>>

IsReg(r) ==
    /\ r = [names |-> r.names, last |-> r.last, paths |-> r.paths, sockets |-> r.sockets,
            topics |-> r.topics, handlers |-> r.handlers]
    /\ r.last \in Nat /\ r.handlers \in Nat
    /\ DOMAIN r.names \subseteq 1 .. r.last
    /\ \A k \in DOMAIN r.names :
         /\ r.names[k].thing \in Things /\ NamedFor(r.names[k].name, r.names[k].thing)
         /\ r.names[k] = [name |-> r.names[k].name, thing |-> r.names[k].thing]
    /\ \A j, k \in DOMAIN r.names : r.names[j].name = r.names[k].name => j = k

Has(r, name, t) == \E k \in DOMAIN r.names : r.names[k] = [name |-> name, thing |-> t]

(* Each socket server has the name of an entry, until a Thing is destroyed.*)
SocketsNamed(r) == \A x \in DOMAIN r.sockets : x[1] \in Keys(r)

(* No other title, of which Things were exposed, has a name in common.     *)
Unrivalled(titled, s, title) ==
    \A other \in Range(Title) \ {title} :
        titled[<<s, other>>] # 0 => BrokerNames(other) \cap BrokerNames(title) = {}

(* The first two names of a title that a broker server gives are new.      *)
TitlesCounted(s, r) ==
    \A title \in Range(Title) : Unrivalled(history.titled, s, title) =>
        /\ history.titled[<<s, title>>] = 0 => Keys(r) \cap BrokerNames(title) = {}
        /\ history.titled[<<s, title>>] = 1 => Keys(r) \cap BrokerNames(title) \subseteq {title}

WellServed(s, r, f, t) ==
    /\ Kind[s] = "http" => Has(r, f.name, t)
    /\ Kind[s] = "ws" /\ f.aff \notin Actions /\ history.destroyed = {} =>
         <<f.name, f.aff>> \in DOMAIN r.sockets /\ r.sockets[<<f.name, f.aff>>] = t
    /\ Kind[s] = "mqtt" =>
         /\ f.name \in BrokerNames(Title[t])
         /\ history.titled[<<s, Title[t]>>] <= 2 /\ Unrivalled(history.titled, s, Title[t])
              => Has(r, f.name, t)
         /\ ~history.overlap =>
              /\ socket[s] # "new"
              /\ f.op \cap {"writeproperty", "invokeaction"} # {} =>
                   <<f.name, f.aff>> \in r.topics /\ r.handlers > 0

FormsServed ==
    \A t \in Range(things) : \A f \in forms[t] :
        f.server \in Servers /\ WellServed(f.server, reg[f.server], f, t)

RegsOK ==
    \A s \in Servers :
        /\ IsReg(reg[s])
        /\ Kind[s] = "ws" /\ history.destroyed = {} => SocketsNamed(reg[s])
        /\ Kind[s] = "mqtt" => TitlesCounted(s, reg[s])

ThingsOK ==
    /\ things \in Seq(Things) /\ \A i, j \in DOMAIN things : things[i] = things[j] => i = j
    /\ DOMAIN forms = Things /\ DOMAIN reg = Servers

SharingOK == \A s \in sharing : Kind[s] = "ws"

(* Without overlaps a server is started once.                              *)
StartedOnce ==
    \A s \in Servers :
        /\ s \in sharing => attempts[s] = {}
        /\ ~history.overlap => \A c \in attempts[s] : socket[s] = "new" /\ attempts[s] = {c}

(* What has never listened serves nothing, but for those that use the HTTP *)
(* server of another.                                                      *)
Untouched == \A s \in Servers \ sharing : socket[s] = "new" => Keys(reg[s]) = {}

(* HTTP servers: a Thing that has been exposed once has two entries at     *)
(* most, the second of which is its id.                                    *)
IdsLast ==
    \A s \in Servers, t \in Things : Kind[s] = "http" =>
        /\ history.exposed[<<s, t>>] = 0 => Mine(reg[s], t) = {}
        /\ history.exposed[<<s, t>>] = 1 =>
             \A j, k \in Mine(reg[s], t) : j < k => reg[s].names[k].name = IdName(t)

Gone ==
    \A t \in history.destroyed \ (Range(things) \cup history.stray), s \in servers :
        Kind[s] = "mqtt" \/ (Kind[s] = "http" /\ history.exposed[<<s, t>>] <= 1)
          => Mine(reg[s], t) = {}

ServesInv ==
    /\ RegsOK /\ ThingsOK /\ SharingOK /\ StartedOnce /\ FormsServed
    /\ Untouched /\ IdsLast /\ Gone

-----------------------------------------------------------------------------
(* Operations on a registry                                                *)

LEMMA SmallestOf ==
    ASSUME NEW S, S \subseteq Nat, S # {}
    PROVE  Min(S) \in S /\ \A j \in S : Min(S) <= j
<1> DEFINE less == {p \in Nat \X Nat : p[1] < p[2]}
<1>1. IsWellFoundedOn(less, Nat) BY NatLessThanWellFounded DEF OpToRel
<1>2. PICK m \in S : \A j \in S : <<j, m>> \notin less BY <1>1, WFMin, Zenon
<1>3. ASSUME NEW j \in S PROVE m <= j
  <2>1. j \in Nat /\ m \in Nat OBVIOUS
  <2>2. ~ (j < m) BY <1>2, <2>1
  <2> QED BY <2>1, <2>2
<1> QED BY <1>3 DEF Min

(* A name of an entry is found.                                            *)
LEMMA OwnerFound ==
    ASSUME NEW r, IsReg(r), NEW name, NEW t, Has(r, name, t)
    PROVE  name \in Keys(r) /\ Owner(r, name) = t
<1>1. PICK k \in DOMAIN r.names : r.names[k].name = name /\ r.names[k].thing = t BY DEF Has
<1>2. Place(r, name) \in DOMAIN r.names /\ r.names[Place(r, name)].name = name
  BY <1>1 DEF Place
<1>3. Place(r, name) = k BY <1>1, <1>2 DEF IsReg
<1> QED BY <1>1, <1>3 DEF Owner, Keys

(* Whom a name is for who says.                                            *)
LEMMA OwnerNamed ==
    ASSUME NEW r, IsReg(r), NEW name \in Keys(r)
    PROVE  NamedFor(name, Owner(r, name)) /\ Has(r, name, Owner(r, name)) /\ Owner(r, name) \in Things
<1>1. Place(r, name) \in DOMAIN r.names /\ r.names[Place(r, name)].name = name
  BY DEF Place, Keys
<1> QED BY <1>1 DEF IsReg, Owner, Has

LEMMA SetNameEffect ==
    ASSUME NEW r, IsReg(r), NEW name, NEW t \in Things, NamedFor(name, t)
    PROVE  LET q == SetName(r, name, t) IN
           /\ IsReg(q)
           /\ q.paths = r.paths /\ q.sockets = r.sockets /\ q.topics = r.topics
           /\ q.handlers = r.handlers
           /\ Keys(q) = Keys(r) \cup {name} /\ Has(q, name, t)
           /\ \A n, x : n # name /\ Has(r, n, x) => Has(q, n, x)
           /\ \A x : x # t => Mine(q, x) \subseteq Mine(r, x)
<1> DEFINE k == IF name \in Keys(r) THEN Place(r, name) ELSE r.last + 1
           names == [j \in DOMAIN r.names \cup {k} |->
                       IF j = k THEN [name |-> name, thing |-> t] ELSE r.names[j]]
           last == IF name \in Keys(r) THEN r.last ELSE k
           q == [names |-> names, last |-> last, paths |-> r.paths, sockets |-> r.sockets,
                 topics |-> r.topics, handlers |-> r.handlers]
<1>1. SetName(r, name, t) = q
  <2>1. SetName(r, name, t) = [r EXCEPT !.names = names, !.last = last] BY DEF SetName
  <2>2. r = [names |-> r.names, last |-> r.last, paths |-> r.paths, sockets |-> r.sockets,
             topics |-> r.topics, handlers |-> r.handlers]
    BY DEF IsReg
  <2> HIDE DEF names, last
  <2> QED BY <2>1, <2>2
<1>2. /\ r.last \in Nat /\ r.handlers \in Nat /\ DOMAIN r.names \subseteq 1 .. r.last
      /\ \A i, j \in DOMAIN r.names : r.names[j].name = r.names[i].name => j = i
  BY DEF IsReg
<1>3. /\ name \in Keys(r) => k \in DOMAIN r.names /\ r.names[k].name = name
      /\ name \notin Keys(r) => k \notin DOMAIN r.names
  <2>1. name \in Keys(r) => Place(r, name) \in DOMAIN r.names /\ r.names[Place(r, name)].name = name
    BY DEF Place, Keys
  <2> QED BY <1>2, <2>1
<1>4. /\ k \in 1 .. last /\ last \in Nat /\ r.last <= last
      /\ \A j \in DOMAIN r.names : j # k => r.names[j].name # name
  BY <1>2, <1>3 DEF Keys
<1>5. /\ DOMAIN names = DOMAIN r.names \cup {k}
      /\ names[k] = [name |-> name, thing |-> t]
      /\ \A j \in DOMAIN r.names : j # k => names[j] = r.names[j]
  OBVIOUS
<1> HIDE DEF k, names, last
<1>6. IsReg(q)
  <2>1. DOMAIN names \subseteq 1 .. last BY <1>2, <1>4, <1>5
  <2>2. ASSUME NEW j \in DOMAIN names
        PROVE  /\ names[j].thing \in Things /\ NamedFor(names[j].name, names[j].thing)
               /\ names[j] = [name |-> names[j].name, thing |-> names[j].thing]
    BY <1>5 DEF IsReg
  <2>3. ASSUME NEW i \in DOMAIN names, NEW j \in DOMAIN names, names[i].name = names[j].name
        PROVE  i = j
    BY <1>2, <1>4, <1>5, <2>3
  <2> QED BY <1>2, <1>4, <2>1, <2>2, <2>3 DEF IsReg
<1>7. Keys(q) = Keys(r) \cup {name}
  <2>1. ASSUME NEW j \in DOMAIN r.names PROVE r.names[j].name \in Keys(q)
    <3>1. CASE j = k BY <1>3, <1>5, <2>1, <3>1 DEF Keys
    <3>2. CASE j # k BY <1>5, <3>2 DEF Keys
    <3> QED BY <3>1, <3>2
  <2>2. name \in Keys(q) BY <1>5 DEF Keys
  <2>3. ASSUME NEW j \in DOMAIN names PROVE names[j].name \in Keys(r) \cup {name}
    BY <1>5 DEF Keys
  <2> QED BY <2>1, <2>2, <2>3 DEF Keys
<1>8. Has(q, name, t) BY <1>5 DEF Has
<1>9. ASSUME NEW n, NEW x, n # name, Has(r, n, x) PROVE Has(q, n, x)
  <2>1. PICK j \in DOMAIN r.names : r.names[j] = [name |-> n, thing |-> x] BY <1>9 DEF Has
  <2>2. j # k BY <1>3, <1>9, <2>1, <1>2, <1>4
  <2> QED BY <1>5, <2>1, <2>2 DEF Has
<1>10. \A x : x # t => Mine(q, x) \subseteq Mine(r, x) BY <1>5 DEF Mine
<1> QED BY <1>1, <1>6, <1>7, <1>8, <1>9, <1>10

(* A name that is new comes behind all others.                             *)
LEMMA NewNameLast ==
    ASSUME NEW r, IsReg(r), NEW name, name \notin Keys(r), NEW t
    PROVE  LET q == SetName(r, name, t) IN
           /\ q.last = r.last + 1 /\ Mine(q, t) = Mine(r, t) \cup {q.last}
           /\ q.names[q.last].name = name
           /\ \A k \in DOMAIN r.names : k < q.last /\ q.names[k] = r.names[k]
<1> DEFINE k == r.last + 1
           names == [j \in DOMAIN r.names \cup {k} |->
                       IF j = k THEN [name |-> name, thing |-> t] ELSE r.names[j]]
           q == [names |-> names, last |-> k, paths |-> r.paths, sockets |-> r.sockets,
                 topics |-> r.topics, handlers |-> r.handlers]
<1>1. SetName(r, name, t) = q
  <2>1. SetName(r, name, t) = [r EXCEPT !.names = names, !.last = k] BY DEF SetName
  <2>2. r = [names |-> r.names, last |-> r.last, paths |-> r.paths, sockets |-> r.sockets,
             topics |-> r.topics, handlers |-> r.handlers]
    BY DEF IsReg
  <2> HIDE DEF names, k
  <2> QED BY <2>1, <2>2
<1>2. r.last \in Nat /\ DOMAIN r.names \subseteq 1 .. r.last BY DEF IsReg
<1>3. \A j \in DOMAIN r.names : j < k /\ j # k BY <1>2
<1>4. /\ DOMAIN names = DOMAIN r.names \cup {k}
      /\ names[k] = [name |-> name, thing |-> t]
      /\ \A j \in DOMAIN r.names : names[j] = r.names[j]
  BY <1>3
<1> HIDE DEF names
<1>5. Mine(q, t) = Mine(r, t) \cup {k} BY <1>4 DEF Mine
<1> QED BY <1>1, <1>3, <1>4, <1>5

LEMMA DeleteEffect ==
    ASSUME NEW r, IsReg(r), NEW gone
    PROVE  LET q == Delete(r, gone) IN
           /\ IsReg(q)
           /\ q.paths = r.paths /\ q.sockets = r.sockets /\ q.topics = r.topics
           /\ q.handlers = r.handlers
           /\ Keys(q) \subseteq Keys(r)
           /\ \A x : Mine(q, x) = Mine(r, x) \ gone
           /\ \A k \in DOMAIN q.names : k \in DOMAIN r.names /\ q.names[k] = r.names[k]
           /\ \A n, x : Has(r, n, x) /\ (\A k \in gone : r.names[k].name # n) => Has(q, n, x)
<1> DEFINE names == [k \in DOMAIN r.names \ gone |-> r.names[k]]
           q == [names |-> names, last |-> r.last, paths |-> r.paths, sockets |-> r.sockets,
                 topics |-> r.topics, handlers |-> r.handlers]
<1>1. Delete(r, gone) = q BY DEF Delete, IsReg
<1>2. /\ DOMAIN names = DOMAIN r.names \ gone
      /\ \A k \in DOMAIN names : names[k] = r.names[k]
  OBVIOUS
<1> HIDE DEF names
<1>3. IsReg(q) BY <1>2 DEF IsReg
<1>4. Keys(q) \subseteq Keys(r) BY <1>2 DEF Keys
<1>5. \A x : Mine(q, x) = Mine(r, x) \ gone BY <1>2 DEF Mine
<1>6. ASSUME NEW n, NEW x, Has(r, n, x), \A k \in gone : r.names[k].name # n PROVE Has(q, n, x)
  BY <1>2, <1>6 DEF Has
<1> QED BY <1>1, <1>2, <1>3, <1>4, <1>5, <1>6

(* A title is a pair, of which the second part differs in what a suffix    *)
(* or counting up makes of it.                                             *)
LEMMA TitlePairs ==
    ASSUME NEW t \in Things
    PROVE  /\ Title[t] = <<Title[t][1], Title[t][2]>> /\ Title[t][2] \in Seq(Nat)
           /\ Slug[t] = <<Slug[t][1], Slug[t][2]>> /\ Slug[t][2] \in Seq(Nat)
<1>1. Title[t] \in STRING \X Seq(Nat) /\ Slug[t] \in STRING \X Seq(Nat)
  BY ThingServersAssumption
<1> QED BY <1>1

LEMMA SuffixesDiffer ==
    ASSUME NEW t \in Things, NEW i \in Nat, NEW j \in Nat,
           Suffixed(Slug[t], i) = Suffixed(Slug[t], j)
    PROVE  i = j
<1> DEFINE title == Slug[t]
           end(k) == Append(title[2], k)
           name(k) == Suffixed(title, k)
<1>1. title = <<title[1], title[2]>> /\ title[2] \in Seq(Nat) BY TitlePairs
<1>2. ASSUME NEW k \in Nat
      PROVE  /\ end(k) \in Seq(Nat) /\ Len(end(k)) = Len(title[2]) + 1
             /\ end(k)[Len(title[2]) + 1] = k
  BY <1>1, AppendProperties
<1>3. \A k \in Nat : name(k) = IF k = 1 THEN title ELSE <<title[1], end(k)>> BY DEF Suffixed
<1>4. name(i) = name(j) OBVIOUS
<1> HIDE DEF title, name, end
<1>5. \A k \in Nat : k # 1 => name(k)[2] = end(k) BY <1>3
<1>6. name(1) = title BY <1>3
<1>7. CASE i = 1 /\ j # 1
  <2>1. title[2] = end(j) BY <1>4, <1>5, <1>6, <1>7
  <2> QED BY <1>1, <1>2, <2>1
<1>8. CASE i # 1 /\ j = 1
  <2>1. title[2] = end(i) BY <1>4, <1>5, <1>6, <1>8
  <2> QED BY <1>1, <1>2, <2>1
<1>9. CASE i # 1 /\ j # 1
  <2>1. end(i) = end(j) BY <1>4, <1>5, <1>9
  <2> QED BY <1>2, <2>1
<1> QED BY <1>7, <1>8, <1>9

LEMMA SecondDiffers ==
    ASSUME NEW t \in Things
    PROVE  /\ Second(Title[t]) = <<Second(Title[t])[1], Second(Title[t])[2]>>
           /\ Second(Title[t])[1] = Title[t][1] /\ Second(Title[t]) # Title[t]
<1> DEFINE title == Title[t]
           last == Len(title[2])
           end == IF last = 0 THEN <<2>> ELSE [title[2] EXCEPT ![last] = @ + 1]
<1>1. title = <<title[1], title[2]>> /\ title[2] \in Seq(Nat) BY TitlePairs
<1>2. Second(title) = <<title[1], end>> BY DEF Second
<1>3. end # title[2]
  <2>1. CASE last = 0
    <3>1. end = <<2>> BY <2>1
    <3> HIDE DEF end, title
    <3> QED BY <1>1, <2>1, <3>1
  <2>2. CASE last # 0
    <3>1. last \in DOMAIN title[2] /\ title[2][last] \in Nat BY <1>1, <2>2
    <3>2. end = [title[2] EXCEPT ![last] = title[2][last] + 1] BY <2>2
    <3>3. end[last] = title[2][last] + 1 BY <3>1, <3>2
    <3> HIDE DEF end, title, last
    <3> QED BY <3>1, <3>3
  <2> QED BY <2>1, <2>2
<1> HIDE DEF end, title
<1>4. Second(title)[2] = end /\ Second(title)[1] = title[1] BY <1>2
<1> QED BY <1>2, <1>3, <1>4 DEF title

(* There is always a suffix that is free: one more is tried than there are *)
(* entries.                                                                *)
LEMMA UniqueFree ==
    ASSUME NEW r, IsReg(r), NEW t \in Things
    PROVE  \E n \in Nat \ {0} : Unique(r, t) = Suffixed(Slug[t], n) /\ Unique(r, t) \notin Keys(r)
<1> DEFINE taken == DOMAIN r.names
           name(i) == Suffixed(Slug[t], i)
<1>1. IsFiniteSet(taken)
  <2>1. r.last \in Int /\ 1 \in Int BY DEF IsReg
  <2>2. IsFiniteSet(1 .. r.last) BY <2>1, FS_Interval
  <2> QED BY <2>2, FS_Subset DEF IsReg
<1>2. PICK n \in Nat : n = Cardinality(taken) BY <1>1, FS_CardinalityType
<1>3. \A i, j \in 1 .. (n + 1) : name(i) = name(j) => i = j BY SuffixesDiffer
<1> DEFINE free == {i \in 1 .. (n + 1) : name(i) \notin Keys(r)}
<1>4. Unique(r, t) = name(Min(free)) BY <1>2 DEF Unique
<1> HIDE DEF name
<1>5. free # {}
  <2>1. SUFFICES ASSUME free = {} PROVE FALSE OBVIOUS
  <2>2. \A i \in 1 .. (n + 1) : \E k \in taken : r.names[k].name = name(i)
    BY <2>1 DEF Keys
  <2> DEFINE entry == [i \in 1 .. (n + 1) |-> CHOOSE k \in taken : r.names[k].name = name(i)]
  <2>3. \A i \in 1 .. (n + 1) : entry[i] \in taken /\ r.names[entry[i]].name = name(i)
    BY <2>2
  <2>4. entry \in [1 .. (n + 1) -> taken] BY <2>3
  <2>5. /\ IsFiniteSet(1 .. (n + 1)) /\ Cardinality(taken) < Cardinality(1 .. (n + 1))
    <3>1. 1 \in Int /\ n + 1 \in Int OBVIOUS
    <3>2. /\ IsFiniteSet(1 .. (n + 1))
          /\ Cardinality(1 .. (n + 1)) = IF 1 > n + 1 THEN 0 ELSE (n + 1) - 1 + 1
      BY <3>1, FS_Interval
    <3> QED BY <1>2, <3>2
  <2> HIDE DEF entry, taken
  <2>6. \E i, j \in 1 .. (n + 1) : i # j /\ entry[i] = entry[j]
    BY <1>1, <2>4, <2>5, FS_PigeonHole
  <2> QED BY <1>3, <2>3, <2>6
<1>6. Min(free) \in free
  <2>1. free \subseteq Nat OBVIOUS
  <2> HIDE DEF free
  <2> QED BY <1>5, <2>1, SmallestOf
<1>7. free \subseteq Nat \ {0} OBVIOUS
<1> HIDE DEF free
<1>8. name(Min(free)) \notin Keys(r) BY <1>6 DEF free
<1> QED BY <1>4, <1>6, <1>7, <1>8 DEF name

LEMMA IdsNamed == \A t : NamedFor(IdName(t), t)
BY DEF NamedFor

(* An id is no title.                                                      *)
LEMMA IdNoPair == \A t, a, b : IdName(t) # <<a, b>>
<1> SUFFICES ASSUME NEW t, NEW a, NEW b, <<t>> = <<a, b>> PROVE FALSE BY DEF IdName
<1>1. Len(<<t>>) = 1 /\ Len(<<a, b>>) = 2 OBVIOUS
<1> QED BY <1>1

LEMMA UniqueNamed ==
    ASSUME NEW r, IsReg(r), NEW t \in Things
    PROVE  /\ NamedFor(Unique(r, t), t) /\ Unique(r, t) \notin Keys(r)
           /\ \A x : Unique(r, t) # IdName(x)
<1>1. PICK n \in Nat \ {0} : Unique(r, t) = Suffixed(Slug[t], n) /\ Unique(r, t) \notin Keys(r)
  BY UniqueFree
<1>2. PICK a, b : Suffixed(Slug[t], n) = <<a, b>> BY TitlePairs DEF Suffixed
<1>3. Unique(r, t) = <<a, b>> BY <1>1, <1>2
<1> QED BY <1>1, <1>3, IdNoPair DEF NamedFor

(* A name that is an id is that of its Thing.                              *)
LEMMA IdOwned ==
    ASSUME NEW r, IsReg(r), NEW t, NEW x, Has(r, IdName(t), x)
    PROVE  x = t
<1>1. NamedFor(IdName(t), x) BY DEF Has, IsReg
<1>2. IdName(t) = IdName(x) BY <1>1, IdNoPair DEF NamedFor
<1> QED BY <1>2 DEF IdName

(* Setting the id of a Thing that is there already changes nothing.        *)
LEMMA IdAgain ==
    ASSUME NEW r, IsReg(r), NEW t \in Things, IdName(t) \in Keys(r)
    PROVE  LET q == SetName(r, IdName(t), t) IN
           DOMAIN q.names = DOMAIN r.names /\ \A k \in DOMAIN r.names : q.names[k] = r.names[k]
<1> DEFINE k == Place(r, IdName(t))
           names == [j \in DOMAIN r.names \cup {k} |->
                       IF j = k THEN [name |-> IdName(t), thing |-> t] ELSE r.names[j]]
<1>1. SetName(r, IdName(t), t).names = names BY DEF SetName, IsReg
<1>2. k \in DOMAIN r.names /\ r.names[k].name = IdName(t) BY DEF Place, Keys
<1>3. r.names[k] = [name |-> IdName(t), thing |-> t]
  <2>1. Has(r, IdName(t), r.names[k].thing) BY <1>2 DEF IsReg, Has
  <2>2. r.names[k].thing = t BY <2>1, IdOwned
  <2> QED BY <1>2, <2>2 DEF IsReg
<1> HIDE DEF k
<1> QED BY <1>1, <1>2, <1>3

(* What a broker server gives is one of two names of the title.            *)
LEMMA BrokerNamed ==
    ASSUME NEW r, NEW t \in Things
    PROVE  BrokerName(r, t) \in BrokerNames(Title[t]) /\ NamedFor(BrokerName(r, t), t)
<1>1. \A name \in BrokerNames(Title[t]) : NamedFor(name, t)
  BY TitlePairs, SecondDiffers DEF BrokerNames, NamedFor
<1> QED BY <1>1 DEF BrokerName, BrokerNames

LEMMA HttpExposeEffect ==
    ASSUME NEW s, NEW r, IsReg(r), NEW t \in Things
    PROVE  LET q == HttpExpose(s, r, t) IN
           /\ IsReg(q)
           /\ \A n \in HttpNames(s, r, t) : Has(q, n, t)
           /\ \A n, x : Has(r, n, x) => Has(q, n, x)
           /\ \A x : x # t => Mine(q, x) \subseteq Mine(r, x)
           /\ Mine(r, t) = {} =>
                \A j, k \in Mine(q, t) : j < k => q.names[k].name = IdName(t)
<1> DEFINE u == Unique(r, t)
           p == IF DevFriendly[s] THEN SetName(r, u, t) ELSE r
           q == SetName(p, IdName(t), t)
<1>1. HttpExpose(s, r, t) = q BY DEF HttpExpose
<1>2. HttpNames(s, r, t) = (IF DevFriendly[s] THEN {u} ELSE {}) \cup {IdName(t)} BY DEF HttpNames
<1>3. NamedFor(u, t) /\ u \notin Keys(r) /\ u # IdName(t)
  BY UniqueNamed
<1>4. NamedFor(IdName(t), t) BY IdsNamed
<1> HIDE DEF u
<1>5. /\ IsReg(p) /\ (DevFriendly[s] => Has(p, u, t))
      /\ \A n, x : Has(r, n, x) => Has(p, n, x)
      /\ \A x : x # t => Mine(p, x) \subseteq Mine(r, x)
  <2>1. CASE DevFriendly[s]
    <3>1. p = SetName(r, u, t) BY <2>1
    <3>2. \A n, x : Has(r, n, x) => n # u BY <1>3 DEF Has, Keys
    <3> HIDE DEF p
    <3> QED BY <1>3, <3>1, <3>2, SetNameEffect
  <2>2. CASE ~DevFriendly[s] BY <2>2
  <2> QED BY <2>1, <2>2
<1>6. Mine(r, t) = {} => \A j, k \in Mine(p, t) : j = k
  <2>1. CASE DevFriendly[s]
    <3>1. p = SetName(r, u, t) BY <2>1
    <3> HIDE DEF p
    <3>2. Mine(p, t) = Mine(r, t) \cup {p.last} BY <1>3, <3>1, NewNameLast
    <3> QED BY <3>2
  <2>2. CASE ~DevFriendly[s] BY <2>2
  <2> QED BY <2>1, <2>2
<1> HIDE DEF p
<1>7. /\ IsReg(q) /\ Has(q, IdName(t), t)
      /\ \A n, x : n # IdName(t) /\ Has(p, n, x) => Has(q, n, x)
      /\ \A x : x # t => Mine(q, x) \subseteq Mine(p, x)
  BY <1>4, <1>5, SetNameEffect
<1>8. ASSUME NEW n, NEW x, Has(p, n, x) PROVE Has(q, n, x)
  <2>1. n = IdName(t) => x = t BY <1>5, <1>8, IdOwned
  <2> QED BY <1>7, <1>8, <2>1
<1>9. ASSUME Mine(r, t) = {}, NEW j \in Mine(q, t), NEW k \in Mine(q, t), j < k
      PROVE  q.names[k].name = IdName(t)
  <2>1. CASE IdName(t) \in Keys(p)
    <3>1. /\ DOMAIN q.names = DOMAIN p.names
          /\ \A i \in DOMAIN p.names : q.names[i] = p.names[i]
      BY <1>5, <2>1, IdAgain
    <3>2. j \in Mine(p, t) /\ k \in Mine(p, t) BY <1>9, <3>1 DEF Mine
    <3>3. j \in Nat /\ k \in Nat BY <3>2, <1>5 DEF Mine, IsReg
    <3>4. j = k BY <1>6, <1>9, <3>2
    <3> QED BY <1>9, <3>3, <3>4
  <2>2. CASE IdName(t) \notin Keys(p)
    <3>1. /\ Mine(q, t) = Mine(p, t) \cup {q.last} /\ q.names[q.last].name = IdName(t)
          /\ \A i \in DOMAIN p.names : i < q.last
          /\ q.last = p.last + 1
      BY <1>5, <2>2, NewNameLast
    <3>2. CASE k = q.last BY <3>1, <3>2
    <3>3. CASE k # q.last
      <4>1. k \in Mine(p, t) BY <1>9, <3>1, <3>3
      <4>2. k \in DOMAIN p.names /\ k \in Nat /\ q.last \in Nat /\ k < q.last
        BY <1>5, <3>1, <4>1 DEF Mine, IsReg
      <4>3. j # q.last BY <1>9, <4>2
      <4>4. j \in Mine(p, t) BY <1>9, <3>1, <4>3
      <4>5. j = k BY <1>6, <1>9, <4>1, <4>4
      <4> QED BY <1>9, <4>2, <4>5
    <3> QED BY <3>2, <3>3
  <2> QED BY <2>1, <2>2
<1> HIDE DEF q
<1> QED BY <1>1, <1>2, <1>5, <1>7, <1>8, <1>9

LEMMA WsExposeEffect ==
    ASSUME NEW r, IsReg(r), NEW t \in Things
    PROVE  LET q == WsExpose(r, t) IN
           /\ IsReg(q)
           /\ SocketsNamed(r) =>
                /\ SocketsNamed(q)
                /\ \A x \in DOMAIN r.sockets : x \in DOMAIN q.sockets /\ q.sockets[x] = r.sockets[x]
           /\ \A a \in Properties \cup Events :
                <<Unique(r, t), a>> \in DOMAIN q.sockets /\ q.sockets[<<Unique(r, t), a>>] = t
<1> DEFINE u == Unique(r, t)
           here == {u} \X (Properties \cup Events)
           p == SetName(r, u, t)
           paths == [x \in DOMAIN p.paths \cup {t} |-> IF x = t THEN u ELSE p.paths[x]]
           sockets == [x \in DOMAIN p.sockets \cup here |-> IF x \in here THEN t ELSE p.sockets[x]]
           q == [names |-> p.names, last |-> p.last, paths |-> paths, sockets |-> sockets,
                 topics |-> p.topics, handlers |-> p.handlers]
<1>1. NamedFor(u, t) /\ u \notin Keys(r) BY UniqueNamed
<1>2. WsExpose(r, t) = [p EXCEPT !.paths = paths, !.sockets = sockets] BY DEF WsExpose
<1> HIDE DEF u
<1>3. IsReg(p) /\ p.sockets = r.sockets /\ Keys(p) = Keys(r) \cup {u} BY <1>1, SetNameEffect
<1>4. DOMAIN sockets = DOMAIN r.sockets \cup here
  BY <1>3
<1>5. \A x \in DOMAIN sockets : sockets[x] = IF x \in here THEN t ELSE r.sockets[x]
  BY <1>3
<1> HIDE DEF p, sockets, paths
<1>6. WsExpose(r, t) = q BY <1>2, <1>3 DEF IsReg
<1>7. IsReg(q) BY <1>3 DEF IsReg
<1>8. Keys(q) = Keys(p) BY DEF Keys
<1>9. SocketsNamed(r) => SocketsNamed(q)
  BY <1>3, <1>4, <1>8 DEF SocketsNamed
<1>10. ASSUME SocketsNamed(r), NEW x \in DOMAIN r.sockets
       PROVE  x \in DOMAIN sockets /\ sockets[x] = r.sockets[x]
  <2>1. x[1] # u BY <1>1, <1>10 DEF SocketsNamed
  <2>2. x \notin here BY <2>1
  <2> QED BY <1>4, <1>5, <2>2
<1>11. \A a \in Properties \cup Events : <<u, a>> \in here OBVIOUS
<1> QED BY <1>4, <1>5, <1>6, <1>7, <1>9, <1>10, <1>11 DEF u

LEMMA MqttExposeEffect ==
    ASSUME NEW r, IsReg(r), NEW t \in Things
    PROVE  LET q == MqttExpose(r, t)
               u == BrokerName(r, t) IN
           /\ IsReg(q)
           /\ Keys(q) = Keys(r) \cup {u} /\ Has(q, u, t)
           /\ \A n, x : n # u /\ Has(r, n, x) => Has(q, n, x)
           /\ \A x : x # t => Mine(q, x) \subseteq Mine(r, x)
           /\ r.topics \subseteq q.topics /\ q.handlers > 0
           /\ \A a \in (Properties \ ReadOnly) \cup Actions : <<u, a>> \in q.topics
<1> DEFINE u == BrokerName(r, t)
           p == SetName(r, u, t)
           topics == p.topics \cup ({u} \X ((Properties \ ReadOnly) \cup Actions))
           q == [names |-> p.names, last |-> p.last, paths |-> p.paths, sockets |-> p.sockets,
                 topics |-> topics, handlers |-> p.handlers + 1]
<1>1. NamedFor(u, t) BY BrokerNamed
<1>2. MqttExpose(r, t) = [p EXCEPT !.topics = topics, !.handlers = p.handlers + 1] BY DEF MqttExpose
<1> HIDE DEF u
<1>3. /\ IsReg(p) /\ p.topics = r.topics /\ Keys(p) = Keys(r) \cup {u} /\ Has(p, u, t)
      /\ \A n, x : n # u /\ Has(r, n, x) => Has(p, n, x)
      /\ \A x : x # t => Mine(p, x) \subseteq Mine(r, x)
  BY <1>1, SetNameEffect
<1>4. r.topics \subseteq topics /\ \A a \in (Properties \ ReadOnly) \cup Actions : <<u, a>> \in topics
  BY <1>3
<1> HIDE DEF p, topics
<1>5. MqttExpose(r, t) = q BY <1>2, <1>3 DEF IsReg
<1>6. IsReg(q) /\ q.handlers > 0 BY <1>3 DEF IsReg
<1>7. Keys(q) = Keys(p) /\ Has(q, u, t) BY <1>3 DEF Keys, Has
<1>8. \A n, x : Has(q, n, x) <=> Has(p, n, x) BY DEF Has
<1>9. \A x : Mine(q, x) = Mine(p, x) BY DEF Mine
<1> HIDE DEF q
<1>10. q.topics = topics BY DEF q
<1> QED BY <1>3, <1>4, <1>5, <1>6, <1>7, <1>8, <1>9, <1>10 DEF u

LEMMA WithoutEffect ==
    ASSUME NEW r, IsReg(r), NEW gone
    PROVE  LET q == Without(r, gone) IN
           /\ IsReg(q) /\ Keys(q) \subseteq Keys(r)
           /\ \A x : Mine(q, x) \subseteq Mine(r, x)
           /\ \A k \in DOMAIN q.names : k \in DOMAIN r.names /\ q.names[k] = r.names[k]
           /\ \A k \in DOMAIN q.names : q.names[k].name \notin gone
           /\ \A n, x : Has(r, n, x) /\ n \notin gone => Has(q, n, x)
<1> DEFINE places == {k \in DOMAIN r.names : r.names[k].name \in gone}
           q == Delete(r, places)
<1>1. Without(r, gone) = q BY DEF Without
<1>2. /\ IsReg(q) /\ Keys(q) \subseteq Keys(r)
      /\ \A x : Mine(q, x) = Mine(r, x) \ places
      /\ \A k \in DOMAIN q.names : k \in DOMAIN r.names /\ q.names[k] = r.names[k]
      /\ \A n, x : Has(r, n, x) /\ (\A k \in places : r.names[k].name # n) => Has(q, n, x)
  BY DeleteEffect
<1>3. DOMAIN q.names = DOMAIN r.names \ places BY DEF Delete, IsReg
<1> HIDE DEF q
<1> QED BY <1>1, <1>2, <1>3

(* The first entry of a Thing is one of its own.                           *)
LEMMA FirstMine ==
    ASSUME NEW r, IsReg(r), NEW t, Mine(r, t) # {}
    PROVE  /\ Min(Mine(r, t)) \in Mine(r, t)
           /\ \A k \in Mine(r, t) : k = Min(Mine(r, t)) \/ Min(Mine(r, t)) < k
<1>1. Mine(r, t) \subseteq Nat BY DEF Mine, IsReg
<1>2. /\ Min(Mine(r, t)) \in Mine(r, t)
      /\ \A k \in Mine(r, t) : Min(Mine(r, t)) <= k
  BY <1>1, SmallestOf
<1> QED BY <1>1, <1>2

LEMMA HttpDestroyEffect ==
    ASSUME NEW r, IsReg(r), NEW t
    PROVE  LET q == HttpDestroy(r, t) IN
           /\ IsReg(q) /\ Keys(q) \subseteq Keys(r)
           /\ \A x : Mine(q, x) \subseteq Mine(r, x)
           /\ \A k \in DOMAIN q.names : k \in DOMAIN r.names /\ q.names[k] = r.names[k]
           /\ \A n, x : x # t /\ Has(r, n, x) => Has(q, n, x)
           /\ (\A j, k \in Mine(r, t) : j < k => r.names[k].name = IdName(t)) => Mine(q, t) = {}
<1>1. CASE Mine(r, t) = {}
  <2>1. HttpDestroy(r, t) = r BY <1>1 DEF HttpDestroy
  <2> QED BY <1>1, <2>1
<1>2. CASE Mine(r, t) # {}
  <2> DEFINE first == Min(Mine(r, t))
             q == Without(r, {r.names[first].name, IdName(t)})
  <2>1. HttpDestroy(r, t) = q BY <1>2 DEF HttpDestroy
  <2>2. /\ first \in DOMAIN r.names /\ r.names[first].thing = t
        /\ \A k \in Mine(r, t) : k = first \/ first < k
    <3> HIDE DEF first
    <3>1. first \in Mine(r, t) /\ \A k \in Mine(r, t) : k = first \/ first < k
      BY <1>2, FirstMine DEF first
    <3> QED BY <3>1 DEF Mine
  <2> HIDE DEF first
  <2>3. /\ IsReg(q) /\ Keys(q) \subseteq Keys(r)
        /\ \A x : Mine(q, x) \subseteq Mine(r, x)
        /\ \A k \in DOMAIN q.names : k \in DOMAIN r.names /\ q.names[k] = r.names[k]
        /\ \A k \in DOMAIN q.names : q.names[k].name \notin {r.names[first].name, IdName(t)}
        /\ \A n, x : Has(r, n, x) /\ n \notin {r.names[first].name, IdName(t)} => Has(q, n, x)
    BY WithoutEffect
  <2> HIDE DEF q
  <2>4. ASSUME NEW n, NEW x, x # t, Has(r, n, x) PROVE n \notin {r.names[first].name, IdName(t)}
    <3>1. n # IdName(t) BY <2>4, IdOwned
    <3>2. PICK k \in DOMAIN r.names : r.names[k] = [name |-> n, thing |-> x] BY <2>4 DEF Has
    <3>3. k # first BY <2>2, <2>4, <3>2
    <3>4. n # r.names[first].name BY <2>2, <3>2, <3>3 DEF IsReg
    <3> QED BY <3>1, <3>4
  <2>5. ASSUME \A j, k \in Mine(r, t) : j < k => r.names[k].name = IdName(t),
               NEW k \in Mine(q, t)
        PROVE  FALSE
    <3>1. /\ k \in Mine(r, t) /\ k \in DOMAIN q.names /\ q.names[k] = r.names[k]
      BY <2>3, <2>5 DEF Mine
    <3>2. first \in Mine(r, t) BY <2>2 DEF Mine
    <3>3. k = first \/ r.names[k].name = IdName(t) BY <2>2, <2>5, <3>1, <3>2
    <3> QED BY <2>3, <3>1, <3>3
  <2> QED BY <2>1, <2>3, <2>4, <2>5
<1> QED BY <1>1, <1>2

LEMMA MqttDestroyEffect ==
    ASSUME NEW r, IsReg(r), NEW t
    PROVE  LET q == Delete(r, Mine(r, t)) IN
           /\ IsReg(q) /\ Keys(q) \subseteq Keys(r)
           /\ q.topics = r.topics /\ q.handlers = r.handlers
           /\ \A x : Mine(q, x) \subseteq Mine(r, x)
           /\ \A n, x : x # t /\ Has(r, n, x) => Has(q, n, x)
           /\ Mine(q, t) = {}
<1> DEFINE q == Delete(r, Mine(r, t))
<1>1. /\ IsReg(q) /\ Keys(q) \subseteq Keys(r)
      /\ q.topics = r.topics /\ q.handlers = r.handlers
      /\ \A x : Mine(q, x) = Mine(r, x) \ Mine(r, t)
      /\ \A n, x : Has(r, n, x) /\ (\A k \in Mine(r, t) : r.names[k].name # n) => Has(q, n, x)
  BY DeleteEffect
<1> HIDE DEF q
<1>2. ASSUME NEW n, NEW x, x # t, Has(r, n, x) PROVE \A k \in Mine(r, t) : r.names[k].name # n
  BY <1>2 DEF Has, Mine, IsReg
<1> QED BY <1>1, <1>2 DEF q

-----------------------------------------------------------------------------
(* A server that joins                                                     *)

LEMMA UpTo ==
    ASSUME NEW n \in Nat, NEW S, 0 \in S, \A k \in 1 .. n : k - 1 \in S => k \in S
    PROVE  \A k \in 0 .. n : k \in S
<1> DEFINE out == {k \in 0 .. n : k \notin S}
<1> SUFFICES ASSUME out # {} PROVE FALSE OBVIOUS
<1>1. out \subseteq Nat OBVIOUS
<1> PICK m : m = Min(out) OBVIOUS
<1>2. m \in out /\ \A j \in out : m <= j
  <2> HIDE DEF out
  <2> QED BY <1>1, SmallestOf
<1>3. m \in 1 .. n BY <1>2
<1>4. m - 1 \in 0 .. n /\ ~(m <= m - 1) BY <1>3
<1>5. m - 1 \in S BY <1>2, <1>4
<1> QED BY <1>2, <1>3, <1>5

LEMMA JoiningIs ==
    ASSUME NEW s, things \in Seq(Things)
    PROVE  Joining(s) =
             [k \in 0 .. Len(things) |->
                IF k = 0 THEN [reg |-> reg[s], forms |-> forms]
                ELSE With(s, Joining(s)[k - 1], things[k])]
<1> DEFINE Whole(g) ==
             g = [k \in 0 .. Len(things) |->
                    IF k = 0 THEN [reg |-> reg[s], forms |-> forms]
                    ELSE With(s, g[k - 1], things[k])]
<1>1. \E g : Whole(g)
  <2>0. PICK n \in Nat : n = Len(things) OBVIOUS
  <2>1. PICK list : list = things OBVIOUS
  <2>2. PICK first : first = [reg |-> reg[s], forms |-> forms] OBVIOUS
  <2> DEFINE Step(r, k) == With(s, r, list[k])
             Loop(g, m) == g = [k \in 0 .. m |-> IF k = 0 THEN first ELSE Step(g[k - 1], k)]
             S == {m \in Nat : \E g : Loop(g, m)}
  <2> HIDE DEF Step
  <2>3. 0 \in S
    <3>1. PICK g : g = [k \in 0 .. 0 |-> first] OBVIOUS
    <3>2. Loop(g, 0) BY <3>1
    <3> QED BY <3>2
  <2>4. ASSUME NEW m \in 1 .. n, m - 1 \in S PROVE m \in S
    <3>1. PICK g : Loop(g, m - 1) BY <2>4
    <3>2. g[0] = first /\ \A k \in 1 .. (m - 1) : g[k] = Step(g[k - 1], k) BY <3>1
    <3>3. PICK end : end = Step(g[m - 1], m) OBVIOUS
    <3>4. PICK h : h = [k \in 0 .. m |-> IF k = m THEN end ELSE g[k]] OBVIOUS
    <3>5. ASSUME NEW k \in 0 .. m
          PROVE  h[k] = IF k = 0 THEN first ELSE Step(h[k - 1], k)
      <4>1. CASE k = 0 BY <3>2, <3>4, <4>1
      <4>2. CASE k = m
        <5>1. h[k] = end /\ h[k - 1] = g[m - 1] /\ k # 0 BY <3>4, <4>2
        <5> QED BY <3>3, <4>2, <5>1
      <4>3. CASE k # 0 /\ k # m
        <5>1. k \in 1 .. (m - 1) /\ h[k] = g[k] /\ h[k - 1] = g[k - 1] BY <3>4, <4>3
        <5> QED BY <3>2, <5>1
      <4> QED BY <4>1, <4>2, <4>3
    <3>6. h = [k \in 0 .. m |-> h[k]] BY <3>4
    <3>7. Loop(h, m) BY <3>5, <3>6
    <3> HIDE DEF Loop
    <3> QED BY <3>7
  <2>5. n \in S
    <3> HIDE DEF S
    <3>1. \A k \in 0 .. n : k \in S BY <2>3, <2>4, UpTo
    <3> QED BY <3>1
  <2>6. PICK g : Loop(g, n) BY <2>5
  <2>7. Whole(g) BY <2>0, <2>1, <2>2, <2>6 DEF Step
  <2> QED BY <2>7
<1>2. Joining(s) = CHOOSE g : Whole(g) BY DEF Joining
<1>3. Whole(Joining(s))
  <2> HIDE DEF Whole
  <2> QED BY <1>1, <1>2
<1> QED BY <1>3

(* What a WebSocket server that joins has of the sockets it had, and of    *)
(* the forms it appends.                                                   *)
Grown(s, old, done) ==
    /\ IsReg(done.reg) /\ DOMAIN done.forms = Things
    /\ SocketsNamed(old) =>
         /\ SocketsNamed(done.reg)
         /\ \A x \in DOMAIN old.sockets :
              x \in DOMAIN done.reg.sockets /\ done.reg.sockets[x] = old.sockets[x]
    /\ \A t \in Things : \A f \in done.forms[t] \ forms[t] :
         /\ f.server = s
         /\ SocketsNamed(old) /\ f.aff \notin Actions =>
              /\ <<f.name, f.aff>> \in DOMAIN done.reg.sockets
              /\ done.reg.sockets[<<f.name, f.aff>>] = t

LEMMA WithGrows ==
    ASSUME NEW s \in Servers, Kind[s] = "ws", NEW old, NEW done, Grown(s, old, done), NEW t \in Things
    PROVE  Grown(s, old, With(s, done, t))
<1> DEFINE u == Unique(done.reg, t)
<1>1. PICK q : q = WsExpose(done.reg, t) OBVIOUS
<1>2. PICK fs : fs = WsForms(s, u) OBVIOUS
<1>3. PICK all : all = [done.forms EXCEPT ![t] = @ \cup fs] OBVIOUS
<1>4. With(s, done, t) = [reg |-> q, forms |-> all]
  BY <1>1, <1>2, <1>3 DEF With, Exposed, FormsFrom
<1>5. \A f \in fs : f.server = s /\ f.name = u /\ f.aff \in Properties \cup Actions \cup Events
  BY <1>2 DEF WsForms, Form
<1>6. /\ IsReg(q)
      /\ SocketsNamed(done.reg) =>
           /\ SocketsNamed(q)
           /\ \A x \in DOMAIN done.reg.sockets : x \in DOMAIN q.sockets /\ q.sockets[x] = done.reg.sockets[x]
      /\ \A a \in Properties \cup Events : <<u, a>> \in DOMAIN q.sockets /\ q.sockets[<<u, a>>] = t
  BY <1>1, WsExposeEffect DEF Grown
<1> HIDE DEF u
<1>7. DOMAIN all = Things /\ all[t] = done.forms[t] \cup fs /\ \A x \in Things : x # t => all[x] = done.forms[x]
  BY <1>3 DEF Grown
<1>8. ASSUME NEW x \in Things, NEW f \in all[x] \ forms[x]
      PROVE  /\ f.server = s
             /\ SocketsNamed(old) /\ f.aff \notin Actions =>
                  <<f.name, f.aff>> \in DOMAIN q.sockets /\ q.sockets[<<f.name, f.aff>>] = x
  <2>1. CASE f \in done.forms[x] BY <1>6, <1>8, <2>1 DEF Grown
  <2>2. CASE f \notin done.forms[x]
    <3>1. x = t /\ f \in fs BY <1>7, <1>8, <2>2
    <3> QED BY <1>5, <1>6, <3>1
  <2> QED BY <2>1, <2>2
<1>9. SocketsNamed(old) =>
        /\ SocketsNamed(q)
        /\ \A x \in DOMAIN old.sockets : x \in DOMAIN q.sockets /\ q.sockets[x] = old.sockets[x]
  BY <1>6 DEF Grown
<1> QED BY <1>4, <1>6, <1>7, <1>8, <1>9 DEF Grown

LEMMA AllOnGrows ==
    ASSUME NEW s \in Servers, Kind[s] = "ws", IsReg(reg[s]), ThingsOK
    PROVE  Grown(s, reg[s], AllOn(s))
<1>1. PICK list \in Seq(Things), n \in Nat : list = things /\ n = Len(list) /\ DOMAIN list = 1 .. n
  BY DEF ThingsOK
<1>2. PICK first : first = [reg |-> reg[s], forms |-> forms] OBVIOUS
<1>3. PICK g : g = Joining(s) OBVIOUS
<1>4. g = [k \in 0 .. n |-> IF k = 0 THEN first ELSE With(s, g[k - 1], list[k])]
  BY <1>1, <1>2, <1>3, JoiningIs
<1> DEFINE S == {k \in 0 .. n : Grown(s, reg[s], g[k])}
<1>5. 0 \in S
  <2>1. g[0] = first BY <1>4
  <2>2. Grown(s, reg[s], first) BY <1>2 DEF Grown, ThingsOK
  <2> QED BY <2>1, <2>2
<1>6. ASSUME NEW k \in 1 .. n, k - 1 \in S PROVE k \in S
  <2>1. g[k] = With(s, g[k - 1], list[k]) BY <1>4
  <2>2. Grown(s, reg[s], g[k - 1]) BY <1>6
  <2>3. list[k] \in Things BY <1>1
  <2>4. Grown(s, reg[s], g[k]) BY <2>1, <2>2, <2>3, WithGrows
  <2> QED BY <2>4
<1> HIDE DEF S
<1>7. \A k \in 0 .. n : k \in S BY <1>5, <1>6, UpTo
<1> QED BY <1>1, <1>3, <1>7 DEF S, AllOn

-----------------------------------------------------------------------------
(* The steps of the Servient                                               *)

LEMMA ServesInit == Init => ServesInv
<1> SUFFICES ASSUME Init PROVE ServesInv OBVIOUS
<1>1. /\ things = <<>> /\ forms = [t \in Things |-> {}] /\ reg = [s \in Servers |-> Nothing]
      /\ history = NoHistory /\ \A s \in Servers : attempts[s] = {}
      /\ \A s \in sharing : Kind[s] = "ws"
  BY DEF Init
<1>2. /\ DOMAIN Nothing.names = {} /\ DOMAIN Nothing.sockets = {} /\ Nothing.last = 0
      /\ Nothing.handlers = 0
      /\ Nothing = [names |-> Nothing.names, last |-> Nothing.last, paths |-> Nothing.paths,
                    sockets |-> Nothing.sockets, topics |-> Nothing.topics,
                    handlers |-> Nothing.handlers]
  BY DEF Nothing
<1>3. Keys(Nothing) = {} /\ (\A t : Mine(Nothing, t) = {}) /\ IsReg(Nothing) /\ SocketsNamed(Nothing)
  BY <1>2 DEF Keys, Mine, IsReg, SocketsNamed
<1>4. \A s \in Servers : TitlesCounted(s, Nothing)
  BY <1>3 DEF TitlesCounted
<1>5. Range(things) = {} /\ history.destroyed = {} BY <1>1 DEF NoHistory, Range
<1>6. RegsOK BY <1>1, <1>3, <1>4 DEF RegsOK
<1>7. ThingsOK BY <1>1 DEF ThingsOK
<1>8. Untouched /\ IdsLast /\ Gone
  BY <1>1, <1>3, <1>5 DEF Untouched, IdsLast, Gone
<1> QED BY <1>1, <1>5, <1>6, <1>7, <1>8 DEF ServesInv, SharingOK, StartedOnce, FormsServed

-----------------------------------------------------------------------------
(* Steps that expose and destroy nothing                                   *)

SameThings == UNCHANGED <<things, forms, reg, sharing>>
SameHistory ==
    /\ history'.destroyed = history.destroyed /\ history'.stray = history.stray
    /\ history'.exposed = history.exposed /\ history'.titled = history.titled

LEMMA ServesKept ==
    ASSUME ServesInv, StartedOnce', SameThings, SameHistory,
           history.overlap => history'.overlap,
           \A s \in servers' \ servers : s \in Servers /\ socket[s] = "new",
           \A s \in Servers : socket'[s] = "new" => socket[s] = "new"
    PROVE  ServesInv'
<1>1. \A s \in Servers : TitlesCounted(s, reg[s])' <=> TitlesCounted(s, reg[s])
  BY DEF TitlesCounted, SameThings, SameHistory
<1>2. RegsOK' BY <1>1 DEF ServesInv, RegsOK, SameThings, SameHistory
<1>3. ThingsOK' /\ SharingOK' BY DEF ServesInv, ThingsOK, SharingOK, SameThings
<1>4. FormsServed'
  <2>1. ASSUME NEW t \in Range(things), NEW f \in forms[t]
        PROVE  f.server \in Servers /\ WellServed(f.server, reg[f.server], f, t)'
    <3>1. f.server \in Servers /\ WellServed(f.server, reg[f.server], f, t)
      BY DEF ServesInv, FormsServed
    <3> QED BY <3>1 DEF WellServed, SameThings, SameHistory
  <2> QED BY <2>1 DEF FormsServed, SameThings
<1>5. Untouched' /\ IdsLast'
  BY DEF ServesInv, Untouched, IdsLast, SameThings, SameHistory
<1>6. Gone'
  <2>1. ASSUME NEW t \in history.destroyed \ (Range(things) \cup history.stray), NEW s \in servers',
               Kind[s] = "mqtt" \/ (Kind[s] = "http" /\ history.exposed[<<s, t>>] <= 1)
        PROVE  Mine(reg[s], t) = {}
    <3>1. CASE s \in servers BY <2>1, <3>1 DEF ServesInv, Gone
    <3>2. CASE s \notin servers
      <4>1. s \in Servers \ sharing BY <2>1, <3>2 DEF ServesInv, SharingOK
      <4>2. Keys(reg[s]) = {} BY <3>2, <4>1 DEF ServesInv, Untouched
      <4> QED BY <4>2 DEF Keys, Mine
    <3> QED BY <3>1, <3>2
  <2> QED BY <2>1 DEF Gone, SameThings, SameHistory
<1> QED BY <1>2, <1>3, <1>4, <1>5, <1>6 DEF ServesInv

(* No server is started.                                                   *)
LEMMA NoneStarts ==
    ASSUME ServesInv, sharing' = sharing, history.overlap => history'.overlap,
           \A s \in Servers : /\ attempts'[s] \subseteq attempts[s]
                              /\ socket[s] = "new" => socket'[s] = "new"
    PROVE  StartedOnce'
<1> QED BY DEF ServesInv, StartedOnce

Quiet ==
    /\ SameThings /\ SameHistory /\ (history.overlap => history'.overlap)
    /\ servers' \subseteq servers
    /\ \A s \in Servers : attempts'[s] \subseteq attempts[s]
    /\ \A s \in Servers : (socket'[s] = "new") = (socket[s] = "new")

LEMMA QuietStep ==
    ASSUME LifeInv, ServesInv,
           \/ \E c \in Calls : Started(c) \/ ShutdownCall(c) \/ Stopped(c)
           \/ \E c \in Calls, s \in Servers : RemoveServer(c, s)
           \/ \E s \in Servers : OpenFails(s) \/ Closes(s) \/ Connect(s) \/ Disconnect(s)
           \/ UNCHANGED vars
    PROVE  ServesInv'
<1>0. history \in HistoryType /\ LifeTyped BY DEF LifeInv, LifeTyped
<1>1. SUFFICES Quiet
  <2> SUFFICES ASSUME Quiet PROVE ServesInv' OBVIOUS
  <2>1. SameThings /\ SameHistory /\ (history.overlap => history'.overlap) /\ servers' \subseteq servers
    BY DEF Quiet
  <2>2. ASSUME NEW s \in Servers
        PROVE  attempts'[s] \subseteq attempts[s] /\ (socket[s] = "new" => socket'[s] = "new")
    BY SMT DEF Quiet
  <2>3. ASSUME NEW s \in Servers PROVE socket'[s] = "new" => socket[s] = "new"
    BY SMT DEF Quiet
  <2>4. sharing' = sharing BY <2>1 DEF SameThings
  <2>5. StartedOnce' BY ONLY ServesInv, <2>1, <2>2, <2>4, NoneStarts
  <2> QED BY ONLY ServesInv, <2>1, <2>3, <2>5, ServesKept
<1>2. \A on : socket' = StoppedServers(on) =>
        \A s \in Servers : socket'[s] = "new" <=> socket[s] = "new"
  BY DEF StoppedServers
<1>3. ASSUME NEW c \in Calls, Started(c) \/ Stopped(c)
      PROVE  Quiet
  BY <1>3 DEF Quiet, Started, Stopped, SameThings, SameHistory, Registry
<1>4. ASSUME NEW c \in Calls, ShutdownCall(c) PROVE Quiet
  <2>1. PICK o : history' = history \/ history' = [history EXCEPT !.overlap = history.overlap \/ o]
    BY <1>4 DEF Quiet, ShutdownCall
  <2>2. SameHistory /\ (history.overlap => history'.overlap)
    BY <1>0, <2>1 DEF HistoryType, SameHistory
  <2> QED BY <1>2, <1>4, <2>2 DEF Quiet, ShutdownCall, SameThings, Registry
<1>5. ASSUME NEW c \in Calls, NEW s \in Servers, RemoveServer(c, s) PROVE Quiet
  <2>1. PICK early : history' = [history EXCEPT !.early = early]
    BY <1>5 DEF Quiet, RemoveServer
  <2>2. SameHistory /\ (history.overlap => history'.overlap)
    BY <1>0, <2>1 DEF HistoryType, SameHistory
  <2> QED BY <1>2, <1>5, <2>2 DEF Quiet, RemoveServer, SameThings, Registry
<1>6. ASSUME NEW s \in Servers, OpenFails(s) PROVE Quiet
  <2>1. \A x \in Servers : attempts'[x] \subseteq attempts[x]
    BY <1>0, <1>6 DEF Quiet, OpenFails, LifeTyped
  <2> QED BY <1>6, <2>1 DEF Quiet, OpenFails, SameThings, SameHistory, Registry
<1>7. ASSUME NEW s \in Servers, Closes(s) PROVE Quiet
  <2>1. \A x \in Servers : socket'[x] = "new" <=> socket[x] = "new"
    BY <1>0, <1>7 DEF Quiet, Closes, LifeTyped
  <2> QED BY <1>7, <2>1 DEF Quiet, Closes, SameThings, SameHistory, Registry
<1>8. ASSUME NEW s \in Servers, Connect(s) \/ Disconnect(s) PROVE Quiet
  BY <1>8 DEF Quiet, Connect, Disconnect, SameThings, SameHistory, Registry
<1>9. CASE UNCHANGED vars BY <1>9 DEF Quiet, vars, SameThings, SameHistory
<1> QED BY <1>3, <1>4, <1>5, <1>6, <1>7, <1>8, <1>9

LEMMA StartsServe ==
    ASSUME LifeInv, ServesInv, NEW c \in Calls, StartCall(c)
    PROVE  ServesInv'
<1>0. history \in HistoryType /\ LifeTyped BY DEF LifeInv, LifeTyped
<1>1. SameThings /\ servers' = servers BY DEF StartCall, SameThings, Registry
<1>2. CASE wot \/ shut
  <2>1. UNCHANGED <<socket, attempts, history>> BY <1>2 DEF StartCall
  <2>2. StartedOnce' BY <1>1, <2>1, NoneStarts DEF SameThings
  <2> QED BY <1>1, <2>1, <2>2, ServesKept DEF SameHistory
<1>3. CASE ~(wot \/ shut)
  <2>1. /\ attempts' = [s \in Servers |-> IF s \in servers \ (sharing \cup Again)
                                          THEN attempts[s] \cup {c} ELSE attempts[s]]
        /\ socket' = [s \in Servers |-> IF s \in servers \cap sharing THEN "open" ELSE socket[s]]
    BY <1>3 DEF StartCall
  <2>2. PICK overlap \in BOOLEAN :
          /\ history' = [history EXCEPT !.overlap = overlap]
          /\ history.overlap => overlap
          /\ ~overlap => \A s \in servers : attempts[s] = {} /\ socket[s] = "new"
    <3> DEFINE overlap == \/ history.overlap \/ Under("start") # {}
                          \/ \E s \in servers : attempts[s] # {} \/ socket[s] # "new"
    <3>1. history' = [history EXCEPT !.overlap = overlap] BY <1>3 DEF StartCall
    <3>2. overlap \in BOOLEAN BY <1>0 DEF HistoryType
    <3> QED BY <3>1, <3>2
  <2>3. SameHistory /\ history'.overlap = overlap BY <1>0, <2>2 DEF HistoryType, SameHistory
  <2>4. StartedOnce'
    <3>1. ASSUME NEW s \in Servers, s \in sharing PROVE attempts'[s] = {}
      BY <2>1, <3>1 DEF ServesInv, StartedOnce
    <3>2. ASSUME NEW s \in Servers, ~overlap, NEW d \in attempts'[s]
          PROVE  socket'[s] = "new" /\ attempts'[s] = {d}
      <4>1. s \notin sharing BY <3>1, <3>2
      <4>2. CASE s \in servers \ (sharing \cup Again) BY <2>1, <2>2, <3>2, <4>1, <4>2
      <4>3. CASE s \notin servers \ (sharing \cup Again)
        BY <2>1, <2>2, <3>2, <4>1, <4>3 DEF ServesInv, StartedOnce
      <4> QED BY <4>2, <4>3
    <3> QED BY <1>1, <2>3, <3>1, <3>2 DEF StartedOnce, SameThings
  <2>5. \A s \in Servers : socket'[s] = "new" => socket[s] = "new" BY <2>1
  <2> QED BY <1>1, <2>2, <2>3, <2>4, <2>5, ServesKept
<1> QED BY <1>2, <1>3

LEMMA StartAloneServes ==
    ASSUME LifeInv, ServesInv, NEW s \in Servers, StartAlone(s)
    PROVE  ServesInv'
<1>0. history \in HistoryType /\ LifeTyped BY DEF LifeInv, LifeTyped
<1>1. /\ SameThings /\ servers' = servers /\ socket[s] = "new" /\ attempts[s] = {}
      /\ IF s \in sharing THEN socket' = [socket EXCEPT ![s] = "open"] /\ attempts' = attempts
         ELSE attempts' = [attempts EXCEPT ![s] = {None}] /\ socket' = socket
  BY DEF StartAlone, SameThings, Registry
<1>2. PICK o : history' = [history EXCEPT !.overlap = history.overlap \/ o] BY DEF StartAlone
<1>3. SameHistory /\ (history.overlap => history'.overlap) BY <1>0, <1>2 DEF HistoryType, SameHistory
<1>4. \A x \in Servers : x # s => attempts'[x] = attempts[x] /\ socket'[x] = socket[x]
  BY <1>0, <1>1 DEF LifeTyped
<1>5. /\ s \in sharing => attempts'[s] = {}
      /\ s \notin sharing => attempts'[s] = {None} /\ socket'[s] = "new"
  BY <1>0, <1>1 DEF LifeTyped
<1>6. StartedOnce' BY <1>1, <1>3, <1>4, <1>5 DEF ServesInv, StartedOnce, SameThings
<1> QED BY <1>0, <1>1, <1>3, <1>4, <1>6, ServesKept

(* A broker server that connects for the first time has nothing to serve.  *)
LEMMA OpensServes ==
    ASSUME LifeInv, ServesInv, NEW s \in Servers, Opens(s)
    PROVE  ServesInv'
<1>0. history \in HistoryType /\ LifeTyped BY DEF LifeInv, LifeTyped
<1>1. PICK c \in attempts[s] :
        /\ attempts' = [attempts EXCEPT ![s] = @ \ {c}]
        /\ socket' = [socket EXCEPT ![s] = "open"]
        /\ reg' = IF Kind[s] = "mqtt" THEN [reg EXCEPT ![s].topics = {}, ![s].handlers = 0] ELSE reg
        /\ UNCHANGED <<servers, sharing, things, forms, history>>
  BY DEF Opens
<1>2. /\ attempts'[s] = attempts[s] \ {c} /\ socket'[s] = "open"
      /\ \A x \in Servers : x # s => attempts'[x] = attempts[x] /\ socket'[x] = socket[x]
  BY <1>0, <1>1 DEF LifeTyped
<1>3. StartedOnce' BY <1>1, <1>2 DEF ServesInv, StartedOnce
<1>4. CASE Kind[s] # "mqtt"
  <2>1. SameThings /\ SameHistory BY <1>1, <1>4 DEF SameThings, SameHistory
  <2> QED BY <1>0, <1>1, <1>2, <1>3, <2>1, ServesKept
<1>5. CASE Kind[s] = "mqtt"
  <2>1. PICK r : r = reg[s] OBVIOUS
  <2>2. IsReg(r) /\ TitlesCounted(s, r)
    BY <1>5, <2>1 DEF ServesInv, RegsOK
  <2>3. PICK q : q = [r EXCEPT !.topics = {}, !.handlers = 0] OBVIOUS
  <2>4. q = [names |-> r.names, last |-> r.last, paths |-> r.paths, sockets |-> r.sockets,
             topics |-> {}, handlers |-> 0]
    BY <2>2, <2>3 DEF IsReg
  <2>5. reg' = [reg EXCEPT ![s] = q]
    <3>1. reg' = [reg EXCEPT ![s].topics = {}, ![s].handlers = 0] BY <1>1, <1>5
    <3> QED BY <2>1, <2>3, <3>1 DEF ServesInv, ThingsOK
  <2>6. reg'[s] = q /\ DOMAIN reg' = Servers /\ \A x \in Servers : x # s => reg'[x] = reg[x]
    BY <2>5 DEF ServesInv, ThingsOK
  <2>7. IsReg(q) /\ Keys(q) = Keys(r) /\ (\A t : Mine(q, t) = Mine(r, t)) /\ q.names = r.names
    BY <2>2, <2>4 DEF IsReg, Keys, Mine
  <2>8. \A n, x : Has(q, n, x) <=> Has(r, n, x) BY <2>4 DEF Has
  <2>9. \A x \in Servers : /\ Keys(reg'[x]) = Keys(reg[x]) /\ reg'[x].names = reg[x].names
                           /\ \A t : Mine(reg'[x], t) = Mine(reg[x], t)
    BY <2>1, <2>6, <2>7
  <2>10. RegsOK'
    <3>1. ASSUME NEW x \in Servers
          PROVE  /\ IsReg(reg'[x])
                 /\ Kind[x] = "ws" /\ history.destroyed = {} => SocketsNamed(reg'[x])
                 /\ Kind[x] = "mqtt" => TitlesCounted(x, reg[x])
      BY <1>5, <2>6, <2>7 DEF ServesInv, RegsOK
    <3>2. \A x \in Servers : TitlesCounted(x, reg[x])' <=> TitlesCounted(x, reg[x])
      BY <1>1, <2>9 DEF TitlesCounted
    <3> QED BY <1>1, <2>9, <3>1, <3>2 DEF RegsOK
  <2>11. ThingsOK' /\ SharingOK' BY <1>1, <2>6 DEF ServesInv, ThingsOK, SharingOK
  <2>12. FormsServed'
    <3>1. ASSUME NEW t \in Range(things), NEW f \in forms[t]
          PROVE  f.server \in Servers /\ WellServed(f.server, reg[f.server], f, t)'
      <4>1. f.server \in Servers /\ WellServed(f.server, reg[f.server], f, t)
        BY DEF ServesInv, FormsServed
      <4>2. CASE f.server # s BY <1>1, <1>2, <2>6, <4>1, <4>2 DEF WellServed
      <4>3. CASE f.server = s
        <5>1. history.overlap
          BY <1>2, <1>5, <4>1, <4>3 DEF WellServed, ServesInv, StartedOnce
        <5> QED BY <1>1, <1>5, <2>1, <2>6, <2>8, <4>1, <4>3, <5>1 DEF WellServed
      <4> QED BY <4>2, <4>3
    <3> QED BY <1>1, <3>1 DEF FormsServed
  <2>13. /\ Untouched /\ IdsLast /\ Gone /\ servers' = servers /\ sharing' = sharing
         /\ history' = history /\ Range(things)' = Range(things)
    BY <1>1 DEF ServesInv
  <2>14. Untouched' BY <1>2, <2>9, <2>13 DEF Untouched
  <2>15. IdsLast' BY <2>9, <2>13 DEF IdsLast
  <2>16. Gone'
    <3>1. \A x \in servers : \A t : Mine(reg'[x], t) = Mine(reg[x], t)
      BY <1>0, <2>9 DEF LifeTyped
    <3> QED BY <2>13, <3>1 DEF Gone
  <2> QED BY <1>3, <2>10, <2>11, <2>12, <2>14, <2>15, <2>16 DEF ServesInv
<1> QED BY <1>4, <1>5

(* What the counts of titles say of a registry depends on its names.       *)
LEMMA TitlesKept ==
    ASSUME NEW s, NEW r, NEW q, TitlesCounted(s, r), Keys(q) \subseteq Keys(r),
           history'.titled = history.titled
    PROVE  TitlesCounted(s, q)'
<1> QED BY DEF TitlesCounted

-----------------------------------------------------------------------------
LEMMA ProduceServes ==
    ASSUME LifeInv, ServesInv, NEW t \in Things, Produce(t)
    PROVE  ServesInv'
<1>0. history \in HistoryType BY DEF LifeInv, LifeTyped
<1>1. /\ t \notin Range(things) /\ things' = Append(things, t)
      /\ forms' = [forms EXCEPT ![t] = {}] /\ reg' = reg
      /\ history' = [history EXCEPT !.stray = @ \ {t}]
      /\ UNCHANGED <<servers, sharing, socket, attempts>>
  BY DEF Produce, LifeCycle
<1>2. /\ history'.stray = history.stray \ {t} /\ history'.destroyed = history.destroyed
      /\ history'.exposed = history.exposed /\ history'.titled = history.titled
      /\ history'.overlap = history.overlap
  BY <1>0, <1>1 DEF HistoryType
<1>3. /\ things \in Seq(Things) /\ DOMAIN forms = Things /\ DOMAIN reg = Servers
      /\ \A i, j \in DOMAIN things : things[i] = things[j] => i = j
  BY DEF ServesInv, ThingsOK
<1>4. PICK n \in Nat : n = Len(things) /\ DOMAIN things = 1 .. n BY <1>3
<1>5. /\ things' \in Seq(Things) /\ DOMAIN things' = 1 .. n + 1 /\ things'[n + 1] = t
      /\ \A i \in 1 .. n : things'[i] = things[i]
  BY <1>1, <1>3, <1>4
<1>6. \A i \in 1 .. n : things[i] # t BY <1>1, <1>4 DEF Range
<1>7. ASSUME NEW i \in 1 .. n + 1, NEW j \in 1 .. n + 1, things'[i] = things'[j] PROVE i = j
  <2>1. CASE i \in 1 .. n /\ j \in 1 .. n BY <1>3, <1>4, <1>5, <1>7, <2>1
  <2>2. CASE i = n + 1 \/ j = n + 1 BY <1>4, <1>5, <1>6, <1>7, <2>2
  <2> QED BY <2>1, <2>2
<1>8. ThingsOK' BY <1>1, <1>3, <1>5, <1>7 DEF ThingsOK
<1>9. Range(things)' = Range(things) \cup {t} BY <1>4, <1>5 DEF Range
<1>10. RegsOK'
  <2>1. \A s \in Servers : TitlesCounted(s, reg[s]) => TitlesCounted(s, reg[s])'
    BY <1>1, <1>2, TitlesKept
  <2> QED BY <1>1, <1>2, <2>1 DEF ServesInv, RegsOK
<1>11. FormsServed'
  <2>1. ASSUME NEW x \in Range(things)', NEW f \in forms'[x]
        PROVE  f.server \in Servers /\ WellServed(f.server, reg[f.server], f, x)'
    <3>1. x # t /\ x \in Range(things) /\ f \in forms[x] BY <1>1, <1>3, <1>9, <2>1
    <3>2. f.server \in Servers /\ WellServed(f.server, reg[f.server], f, x)
      BY <3>1 DEF ServesInv, FormsServed
    <3> QED BY <1>1, <1>2, <3>2 DEF WellServed
  <2> QED BY <2>1 DEF FormsServed
<1>12. SharingOK' /\ StartedOnce' /\ Untouched' /\ IdsLast'
  <2>1. SharingOK' /\ StartedOnce' BY <1>1, <1>2 DEF ServesInv, SharingOK, StartedOnce
  <2>2. Untouched' BY <1>1 DEF ServesInv, Untouched
  <2>3. IdsLast' BY <1>1, <1>2 DEF ServesInv, IdsLast
  <2> QED BY <2>1, <2>2, <2>3
<1>13. Gone' BY <1>1, <1>2, <1>9 DEF ServesInv, Gone
<1> QED BY <1>8, <1>10, <1>11, <1>12, <1>13 DEF ServesInv

-----------------------------------------------------------------------------
(* Taking an element out of a list moves those behind it.                  *)
LEMMA RemoveAtEffect ==
    ASSUME NEW S, NEW list \in Seq(S), NEW k \in DOMAIN list
    PROVE  /\ RemoveAt(list, k) \in Seq(S)
           /\ DOMAIN RemoveAt(list, k) = 1 .. (Len(list) - 1)
           /\ \A j \in 1 .. (Len(list) - 1) :
                RemoveAt(list, k)[j] = list[IF j < k THEN j ELSE j + 1]
<1>1. PICK n \in Nat : n = Len(list) /\ DOMAIN list = 1 .. n OBVIOUS
<1>2. k \in 1 .. n /\ \A i \in 1 .. n : list[i] \in S BY <1>1
<1> DEFINE head == SubSeq(list, 1, k - 1)
           tail == SubSeq(list, k + 1, n)
<1>3. /\ head \in Seq(S) /\ Len(head) = k - 1
      /\ \A i \in 1 .. (k - 1) : head[i] = list[i]
  <2>1. \A i \in 1 .. (k - 1) : list[i] \in S BY <1>2
  <2>2. k - 1 \in Int /\ 1 \in Int BY <1>2
  <2>3. /\ head \in Seq(S)
        /\ Len(head) = IF 1 <= k - 1 THEN (k - 1) - 1 + 1 ELSE 0
        /\ \A i \in 1 .. (k - 1) - 1 + 1 : head[i] = list[1 + i - 1]
    BY <2>1, <2>2, SubSeqProperties
  <2> HIDE DEF head
  <2> QED BY <1>2, <2>3
<1>4. /\ tail \in Seq(S) /\ Len(tail) = n - k
      /\ \A i \in 1 .. (n - k) : tail[i] = list[k + i]
  <2>1. \A i \in (k + 1) .. n : list[i] \in S BY <1>2
  <2>2. k + 1 \in Int /\ n \in Int BY <1>2
  <2>3. /\ tail \in Seq(S)
        /\ Len(tail) = IF k + 1 <= n THEN n - (k + 1) + 1 ELSE 0
        /\ \A i \in 1 .. n - (k + 1) + 1 : tail[i] = list[(k + 1) + i - 1]
    BY <2>1, <2>2, SubSeqProperties
  <2> HIDE DEF tail
  <2> QED BY <1>2, <2>3
<1>5. RemoveAt(list, k) = head \o tail BY <1>1 DEF RemoveAt
<1> HIDE DEF head, tail
<1>6. /\ head \o tail \in Seq(S) /\ Len(head \o tail) = n - 1
      /\ \A i \in 1 .. n - 1 :
           (head \o tail)[i] = IF i <= k - 1 THEN head[i] ELSE tail[i - (k - 1)]
  <2>1. /\ head \o tail \in Seq(S) /\ Len(head \o tail) = Len(head) + Len(tail)
        /\ \A i \in 1 .. Len(head) + Len(tail) :
             (head \o tail)[i] = IF i <= Len(head) THEN head[i] ELSE tail[i - Len(head)]
    BY <1>3, <1>4, ConcatProperties
  <2>2. Len(head) + Len(tail) = n - 1 BY <1>2, <1>3, <1>4
  <2> QED BY <1>3, <2>1, <2>2
<1>7. ASSUME NEW j \in 1 .. n - 1
      PROVE  (head \o tail)[j] = list[IF j < k THEN j ELSE j + 1]
  <2>1. CASE j < k
    <3>1. j \in 1 .. (k - 1) /\ j <= k - 1 BY <1>2, <2>1
    <3> QED BY <1>3, <1>6, <2>1, <3>1
  <2>2. CASE ~(j < k)
    <3>1. /\ ~(j <= k - 1) /\ j - (k - 1) \in 1 .. (n - k) /\ k + (j - (k - 1)) = j + 1
      BY <1>2, <2>2
    <3> QED BY <1>4, <1>6, <2>2, <3>1
  <2> QED BY <2>1, <2>2
<1>8. PICK q : q = head \o tail OBVIOUS
<1>9. q \in Seq(S) /\ Len(q) = n - 1 BY <1>6, <1>8
<1>10. DOMAIN q = 1 .. n - 1 BY <1>9
<1>11. \A j \in 1 .. n - 1 : q[j] = list[IF j < k THEN j ELSE j + 1] BY <1>7, <1>8, Zenon
<1> QED BY <1>1, <1>5, <1>8, <1>9, <1>10, <1>11

(* A list without one of its elements.                                     *)
LEMMA TakenOut ==
    ASSUME ThingsOK, NEW t \in Range(things),
           things' = RemoveAt(things, CHOOSE k \in DOMAIN things : things[k] = t)
    PROVE  /\ things' \in Seq(Things) /\ Range(things)' = Range(things) \ {t}
           /\ \A i, j \in DOMAIN things' : things'[i] = things'[j] => i = j
<1>1. things \in Seq(Things) /\ \A i, j \in DOMAIN things : things[i] = things[j] => i = j
  BY DEF ThingsOK
<1>2. PICK n \in Nat : n = Len(things) /\ DOMAIN things = 1 .. n BY <1>1
<1>3. PICK m \in 1 .. n : things[m] = t /\ things' = RemoveAt(things, m)
  <2>1. \E k \in DOMAIN things : things[k] = t BY DEF Range
  <2> QED BY <1>2, <2>1
<1>4. /\ things' \in Seq(Things) /\ DOMAIN things' = 1 .. (n - 1)
      /\ \A j \in 1 .. (n - 1) : things'[j] = things[IF j < m THEN j ELSE j + 1]
  <2>1. m \in DOMAIN things BY <1>2
  <2>2. /\ RemoveAt(things, m) \in Seq(Things)
        /\ DOMAIN RemoveAt(things, m) = 1 .. (Len(things) - 1)
        /\ \A j \in 1 .. (Len(things) - 1) :
             RemoveAt(things, m)[j] = things[IF j < m THEN j ELSE j + 1]
    BY <1>1, <2>1, RemoveAtEffect
  <2> QED BY <1>2, <1>3, <2>2
<1> DEFINE old(j) == IF j < m THEN j ELSE j + 1
           new(i) == IF i < m THEN i ELSE i - 1
<1>5. ASSUME NEW j \in 1 .. (n - 1)
      PROVE  old(j) \in 1 .. n /\ old(j) # m /\ things'[j] = things[old(j)] /\ new(old(j)) = j
  BY <1>4
<1>6. ASSUME NEW i \in 1 .. n, i # m
      PROVE  new(i) \in 1 .. (n - 1) /\ things'[new(i)] = things[i]
  <2>1. new(i) \in 1 .. (n - 1) /\ old(new(i)) = i BY <1>6
  <2> HIDE DEF new
  <2>2. things'[new(i)] = things[old(new(i))] BY <1>5, <2>1
  <2> QED BY <2>1, <2>2
<1> HIDE DEF old, new
<1>7. ASSUME NEW i \in 1 .. (n - 1), NEW j \in 1 .. (n - 1), things'[i] = things'[j] PROVE i = j
  <2>1. things[old(i)] = things[old(j)] BY <1>5, <1>7
  <2>2. old(i) = old(j) BY <1>1, <1>2, <1>5, <2>1
  <2>3. new(old(i)) = i /\ new(old(j)) = j BY <1>5
  <2> QED BY <2>2, <2>3
<1>8. \A i \in 1 .. n : things[i] = t <=> i = m BY <1>1, <1>2, <1>3
<1>9. ASSUME NEW x \in Range(things)' PROVE x \in Range(things) /\ x # t
  <2>1. PICK j \in 1 .. (n - 1) : x = things'[j] BY <1>4, <1>9 DEF Range
  <2> QED BY <1>2, <1>5, <1>8, <2>1 DEF Range
<1>10. ASSUME NEW x \in Range(things), x # t PROVE x \in Range(things)'
  <2>1. PICK i \in 1 .. n : x = things[i] BY <1>2, <1>10 DEF Range
  <2>2. i # m BY <1>3, <1>10, <2>1
  <2> QED BY <1>4, <1>6, <2>1, <2>2 DEF Range
<1>11. Range(things)' = Range(things) \ {t} BY <1>9, <1>10
<1>12. \A i, j \in DOMAIN things' : things'[i] = things'[j] => i = j BY <1>4, <1>7
<1> QED BY <1>4, <1>11, <1>12

(* destroy() of each kind of server.                                       *)
LEMMA DestroyedEffect ==
    ASSUME NEW s \in Servers, NEW r, IsReg(r), NEW t
    PROVE  LET q == Destroyed(s, r, t) IN
           /\ IsReg(q) /\ Keys(q) \subseteq Keys(r)
           /\ \A x : Mine(q, x) \subseteq Mine(r, x)
           /\ Kind[s] = "http" =>
                /\ \A k \in DOMAIN q.names : q.names[k] = r.names[k]
                /\ (\A j, k \in Mine(r, t) : j < k => r.names[k].name = IdName(t)) => Mine(q, t) = {}
           /\ Kind[s] = "mqtt" =>
                q.topics = r.topics /\ q.handlers = r.handlers /\ Mine(q, t) = {}
           /\ \A n, x : Kind[s] # "ws" /\ x # t /\ Has(r, n, x) => Has(q, n, x)
<1>1. CASE Kind[s] = "http"
  <2>1. Destroyed(s, r, t) = HttpDestroy(r, t) BY <1>1 DEF Destroyed
  <2> QED BY <1>1, <2>1, HttpDestroyEffect
<1>2. CASE Kind[s] = "ws"
  <2>1. Destroyed(s, r, t) = Without(r, Range(r.paths)) BY <1>2 DEF Destroyed
  <2> QED BY <1>2, <2>1, WithoutEffect
<1>3. CASE Kind[s] = "mqtt"
  <2>1. Destroyed(s, r, t) = Delete(r, Mine(r, t)) BY <1>3 DEF Destroyed
  <2> QED BY <1>3, <2>1, MqttDestroyEffect
<1> QED BY <1>1, <1>2, <1>3, ThingServersAssumption

LEMMA DestroyServes ==
    ASSUME LifeInv, ServesInv, NEW t \in Things, DestroyThing(t)
    PROVE  ServesInv'
<1>0. history \in HistoryType BY DEF LifeInv, LifeTyped
<1>1. /\ t \in Range(things)
      /\ things' = RemoveAt(things, CHOOSE k \in DOMAIN things : things[k] = t)
      /\ reg' = [s \in Servers |-> IF s \in servers THEN Destroyed(s, reg[s], t) ELSE reg[s]]
      /\ history' = [history EXCEPT !.destroyed = @ \cup {t}]
      /\ UNCHANGED <<servers, sharing, socket, attempts, forms>>
  BY DEF DestroyThing, LifeCycle
<1>2. /\ history'.destroyed = history.destroyed \cup {t} /\ history'.stray = history.stray
      /\ history'.exposed = history.exposed /\ history'.titled = history.titled
      /\ history'.overlap = history.overlap
  BY <1>0, <1>1 DEF HistoryType
<1>3. ThingsOK BY DEF ServesInv
<1>4. /\ things' \in Seq(Things) /\ Range(things)' = Range(things) \ {t}
      /\ \A i, j \in DOMAIN things' : things'[i] = things'[j] => i = j
  BY <1>1, <1>3, TakenOut
<1>5. ThingsOK' BY <1>1, <1>3, <1>4 DEF ThingsOK
<1>6. ASSUME NEW s \in Servers
      PROVE  /\ IsReg(reg'[s]) /\ Keys(reg'[s]) \subseteq Keys(reg[s])
             /\ \A x : Mine(reg'[s], x) \subseteq Mine(reg[s], x)
             /\ Kind[s] = "http" => \A k \in DOMAIN reg'[s].names : reg'[s].names[k] = reg[s].names[k]
             /\ Kind[s] = "mqtt" =>
                  reg'[s].topics = reg[s].topics /\ reg'[s].handlers = reg[s].handlers
             /\ \A n, x : Kind[s] # "ws" /\ x # t /\ Has(reg[s], n, x) => Has(reg'[s], n, x)
  <2>1. PICK r : r = reg[s] OBVIOUS
  <2>2. IsReg(r) BY <2>1 DEF ServesInv, RegsOK
  <2>3. CASE s \notin servers
    <3>1. reg'[s] = r BY <1>1, <2>1, <2>3
    <3> QED BY <2>1, <2>2, <3>1
  <2>4. CASE s \in servers
    <3>1. reg'[s] = Destroyed(s, r, t) BY <1>1, <2>1, <2>4
    <3> QED BY <2>1, <2>2, <3>1, DestroyedEffect
  <2> QED BY <2>3, <2>4
<1>7. RegsOK'
  <2>1. ASSUME NEW s \in Servers, Kind[s] = "mqtt"
        PROVE  TitlesCounted(s, reg[s])'
    <3>1. TitlesCounted(s, reg[s])
      BY <2>1 DEF ServesInv, RegsOK
    <3> QED BY <1>2, <1>6, <3>1 DEF TitlesCounted
  <2> QED BY <1>2, <1>6, <2>1 DEF RegsOK
<1>8. FormsServed'
  <2>1. ASSUME NEW x \in Range(things)', NEW f \in forms'[x]
        PROVE  f.server \in Servers /\ WellServed(f.server, reg[f.server], f, x)'
    <3>1. x # t /\ x \in Range(things) /\ f \in forms[x] BY <1>1, <1>4, <2>1
    <3>2. f.server \in Servers /\ WellServed(f.server, reg[f.server], f, x)
      BY <3>1 DEF ServesInv, FormsServed
    <3>3. PICK s \in Servers : s = f.server BY <3>2
    <3>4. PICK r, q : r = reg[s] /\ q = reg'[s] OBVIOUS
    <3>5. /\ Kind[s] = "mqtt" => q.topics = r.topics /\ q.handlers = r.handlers
          /\ Kind[s] # "ws" /\ Has(r, f.name, x) => Has(q, f.name, x)
      BY <1>6, <3>1, <3>4
    <3>6. /\ WellServed(s, r, f, x) /\ history'.destroyed # {} /\ socket' = socket
          /\ history'.titled = history.titled /\ history'.overlap = history.overlap
      BY <1>1, <1>2, <3>2, <3>3, <3>4
    <3>7. WellServed(s, reg[s], f, x)'
      BY <3>4, <3>5, <3>6 DEF WellServed
    <3> QED BY <3>3, <3>7
  <2> QED BY <2>1 DEF FormsServed
<1>9. SharingOK' /\ StartedOnce' BY <1>1, <1>2 DEF ServesInv, SharingOK, StartedOnce
<1>10. Untouched' BY <1>1, <1>6 DEF ServesInv, Untouched
<1>11. IdsLast'
  <2>1. ASSUME NEW s \in Servers, NEW x \in Things, Kind[s] = "http"
        PROVE  /\ history.exposed[<<s, x>>] = 0 => Mine(reg'[s], x) = {}
               /\ history.exposed[<<s, x>>] = 1 =>
                    \A j, k \in Mine(reg'[s], x) : j < k => reg'[s].names[k].name = IdName(x)
    <3>1. /\ history.exposed[<<s, x>>] = 0 => Mine(reg[s], x) = {}
          /\ history.exposed[<<s, x>>] = 1 =>
               \A j, k \in Mine(reg[s], x) : j < k => reg[s].names[k].name = IdName(x)
      BY <2>1 DEF ServesInv, IdsLast
    <3>2. /\ Mine(reg'[s], x) \subseteq Mine(reg[s], x)
          /\ \A k \in Mine(reg'[s], x) : reg'[s].names[k] = reg[s].names[k]
      BY <1>6, <2>1 DEF Mine
    <3> QED BY <3>1, <3>2
  <2> QED BY <1>2, <2>1 DEF IdsLast
<1>12. Gone'
  <2>1. ASSUME NEW x \in history'.destroyed \ (Range(things)' \cup history'.stray), NEW s \in servers,
               Kind[s] = "mqtt" \/ (Kind[s] = "http" /\ history.exposed[<<s, x>>] <= 1)
        PROVE  Mine(reg'[s], x) = {}
    <3>1. s \in Servers BY DEF LifeInv, LifeTyped
    <3>2. CASE x # t
      <4>1. x \in history.destroyed \ (Range(things) \cup history.stray) BY <1>2, <1>4, <2>1, <3>2
      <4>2. Mine(reg[s], x) = {} BY <2>1, <4>1 DEF ServesInv, Gone
      <4> QED BY <1>6, <3>1, <4>2
    <3>3. CASE x = t
      <4>1. PICK r : r = reg[s] OBVIOUS
      <4>2. IsReg(r) /\ reg'[s] = Destroyed(s, r, t)
        BY <1>1, <3>1, <4>1 DEF ServesInv, RegsOK
      <4>3. CASE Kind[s] = "mqtt" BY <3>1, <3>3, <4>2, <4>3, DestroyedEffect
      <4>4. CASE Kind[s] = "http" /\ history.exposed[<<s, t>>] <= 1
        <5>1. history.exposed[<<s, t>>] \in Nat BY <1>0, <3>1 DEF HistoryType
        <5>2. \A j, k \in Mine(r, t) : j < k => r.names[k].name = IdName(t)
          BY <3>1, <4>1, <4>4, <5>1 DEF ServesInv, IdsLast
        <5> QED BY <3>1, <3>3, <4>2, <4>4, <5>2, DestroyedEffect
      <4> QED BY <2>1, <3>3, <4>3, <4>4
    <3> QED BY <3>2, <3>3
  <2> QED BY <1>1, <1>2, <2>1 DEF Gone
<1> QED BY <1>5, <1>7, <1>8, <1>9, <1>10, <1>11, <1>12 DEF ServesInv

(* The entries of other Things stay as they are.                           *)
LEMMA OthersKept ==
    ASSUME NEW r, IsReg(r), NEW name, NEW t \in Things, NamedFor(name, t)
    PROVE  LET q == SetName(r, name, t) IN
           \A x : x # t => \A k \in Mine(q, x) : k \in Mine(r, x) /\ q.names[k] = r.names[k]
<1> DEFINE k == IF name \in Keys(r) THEN Place(r, name) ELSE r.last + 1
           names == [j \in DOMAIN r.names \cup {k} |->
                       IF j = k THEN [name |-> name, thing |-> t] ELSE r.names[j]]
           last == IF name \in Keys(r) THEN r.last ELSE k
<1>1. SetName(r, name, t) = [r EXCEPT !.names = names, !.last = last] BY DEF SetName
<1>2. r = [names |-> r.names, last |-> r.last, paths |-> r.paths, sockets |-> r.sockets,
           topics |-> r.topics, handlers |-> r.handlers]
  BY DEF IsReg
<1> HIDE DEF last
<1>3. PICK q : q = SetName(r, name, t) OBVIOUS
<1>4. q.names = names
  <2> HIDE DEF names
  <2> QED BY <1>1, <1>2, <1>3
<1> HIDE DEF k
<1>5. ASSUME NEW x, x # t, NEW j \in Mine(q, x) PROVE j \in Mine(r, x) /\ q.names[j] = r.names[j]
  BY <1>4, <1>5 DEF Mine
<1> QED BY <1>3, <1>5

LEMMA HttpOthersKept ==
    ASSUME NEW s, NEW r, IsReg(r), NEW t \in Things
    PROVE  LET q == HttpExpose(s, r, t) IN
           \A x : x # t => \A k \in Mine(q, x) : k \in Mine(r, x) /\ q.names[k] = r.names[k]
<1>1. PICK p : p = IF DevFriendly[s] THEN SetName(r, Unique(r, t), t) ELSE r OBVIOUS
<1>2. NamedFor(Unique(r, t), t) /\ NamedFor(IdName(t), t) BY UniqueNamed, IdsNamed
<1>3. /\ IsReg(p)
      /\ \A x : x # t => \A k \in Mine(p, x) : k \in Mine(r, x) /\ p.names[k] = r.names[k]
  <2>1. CASE DevFriendly[s]
    <3>1. p = SetName(r, Unique(r, t), t) BY <1>1, <2>1
    <3> QED BY <1>2, <3>1, SetNameEffect, OthersKept
  <2>2. CASE ~DevFriendly[s] BY <1>1, <2>2
  <2> QED BY <2>1, <2>2
<1>4. PICK q : q = SetName(p, IdName(t), t) OBVIOUS
<1>5. \A x : x # t => \A k \in Mine(q, x) : k \in Mine(p, x) /\ q.names[k] = p.names[k]
  BY <1>2, <1>3, <1>4, OthersKept
<1>6. HttpExpose(s, r, t) = q BY <1>1, <1>4 DEF HttpExpose
<1> QED BY <1>3, <1>5, <1>6

-----------------------------------------------------------------------------
LEMMA AddServerServes ==
    ASSUME LifeInv, ServesInv, NEW s \in Servers, AddServer(s)
    PROVE  ServesInv'
<1>0. history \in HistoryType /\ LifeTyped BY DEF LifeInv, LifeTyped
<1>1. /\ s \notin servers /\ socket[s] = "new" /\ servers' = servers \cup {s}
      /\ UNCHANGED <<sharing, socket, attempts, things>>
  BY DEF AddServer
<1> DEFINE late == IF \E c \in Calls : calls[c].kind = "start" THEN history.late \cup {s}
                   ELSE history.late
           exposed == [x \in Servers \X Things |->
                         IF Up(s) /\ x[1] = s /\ x[2] \in Range(things)
                         THEN history.exposed[x] + 1 ELSE history.exposed[x]]
<1>2. history' = [history EXCEPT !.late = late, !.exposed = exposed] BY DEF AddServer
<1>3. /\ history'.exposed = exposed /\ history'.titled = history.titled
      /\ history'.overlap = history.overlap /\ history'.stray = history.stray
      /\ history'.destroyed = history.destroyed
  <2> HIDE DEF late, exposed
  <2> QED BY <1>0, <1>2 DEF HistoryType
<1>4. StartedOnce' BY <1>1, <1>3 DEF ServesInv, StartedOnce
<1>5. CASE ~Up(s)
  <2>1. UNCHANGED <<reg, forms>> BY <1>5 DEF AddServer
  <2>2. exposed = history.exposed
    <3>1. exposed = [x \in Servers \X Things |-> history.exposed[x]] BY <1>5
    <3> HIDE DEF exposed
    <3> QED BY <1>0, <3>1 DEF HistoryType
  <2> HIDE DEF exposed
  <2>3. SameThings /\ SameHistory BY <1>1, <1>3, <2>1, <2>2 DEF SameThings, SameHistory
  <2> QED BY <1>1, <1>3, <1>4, <2>3, ServesKept
<1>6. CASE Up(s)
  <2>1. s \in sharing /\ Kind[s] = "ws" BY <1>1, <1>6 DEF Up, ServesInv, SharingOK
  <2>2. reg' = [reg EXCEPT ![s] = AllOn(s).reg] /\ forms' = AllOn(s).forms
    BY <1>6 DEF AddServer
  <2>3. PICK done : done = AllOn(s) OBVIOUS
  <2>4. PICK r : r = reg[s] OBVIOUS
  <2>5. ThingsOK /\ IsReg(reg[s]) BY DEF ServesInv, RegsOK
  <2>6. Grown(s, r, done) BY <2>1, <2>3, <2>4, <2>5, AllOnGrows
  <2>7. /\ reg'[s] = done.reg /\ forms' = done.forms /\ DOMAIN reg' = Servers
        /\ \A x \in Servers : x # s => reg'[x] = reg[x]
    BY <2>2, <2>3, <2>5 DEF ThingsOK
  <2>8. \A x \in Servers, t \in Things : x # s =>
           history'.exposed[<<x, t>>] = history.exposed[<<x, t>>]
    BY <1>3
  <2> HIDE DEF exposed
  <2>9. ThingsOK' BY <1>1, <2>5, <2>6, <2>7 DEF ThingsOK, Grown
  <2>10. RegsOK'
    <3>1. ASSUME NEW x \in Servers
          PROVE  /\ IsReg(reg'[x])
                 /\ Kind[x] = "ws" /\ history.destroyed = {} => SocketsNamed(reg'[x])
                 /\ Kind[x] = "mqtt" => reg'[x] = reg[x]
      <4>1. CASE x = s
        BY <2>1, <2>4, <2>6, <2>7, <4>1 DEF Grown, ServesInv, RegsOK
      <4>2. CASE x # s BY <2>7, <4>2 DEF ServesInv, RegsOK
      <4> QED BY <4>1, <4>2
    <3>2. ASSUME NEW x \in Servers, Kind[x] = "mqtt"
          PROVE  TitlesCounted(x, reg[x])'
      BY <1>3, <3>1, <3>2 DEF ServesInv, RegsOK, TitlesCounted
    <3> QED BY <1>3, <3>1, <3>2 DEF RegsOK
  <2>11. FormsServed'
    <3>1. ASSUME NEW t \in Range(things), NEW f \in forms'[t]
          PROVE  f.server \in Servers /\ WellServed(f.server, reg[f.server], f, t)'
      <4>0. t \in Things BY <2>5 DEF ThingsOK, Range
      <4>1. history.destroyed = {} => SocketsNamed(r) BY <2>1, <2>4 DEF ServesInv, RegsOK
      <4>2. CASE f \in forms[t]
        <5>1. f.server \in Servers /\ WellServed(f.server, reg[f.server], f, t)
          BY <4>2 DEF ServesInv, FormsServed
        <5>2. CASE f.server # s BY <1>1, <1>3, <2>7, <5>1, <5>2 DEF WellServed
        <5>3. CASE f.server = s
          BY <1>1, <1>3, <2>1, <2>4, <2>6, <2>7, <4>1, <5>1, <5>3 DEF WellServed, Grown
        <5> QED BY <5>2, <5>3
      <4>3. CASE f \notin forms[t]
        <5>1. /\ f.server = s
              /\ SocketsNamed(r) /\ f.aff \notin Actions =>
                   /\ <<f.name, f.aff>> \in DOMAIN done.reg.sockets
                   /\ done.reg.sockets[<<f.name, f.aff>>] = t
          BY <2>6, <2>7, <3>1, <4>0, <4>3 DEF Grown
        <5> QED BY <1>3, <2>1, <2>7, <4>1, <5>1 DEF WellServed
      <4> QED BY <4>2, <4>3
    <3> QED BY <1>1, <3>1 DEF FormsServed
  <2>12. SharingOK' BY <1>1 DEF ServesInv, SharingOK
  <2>13. Untouched' BY <1>1, <2>1, <2>7 DEF ServesInv, Untouched
  <2>14. IdsLast' BY <2>1, <2>7, <2>8 DEF ServesInv, IdsLast
  <2>15. Gone'
    <3>1. ASSUME NEW t \in history.destroyed \ (Range(things) \cup history.stray), NEW x \in servers',
                 Kind[x] = "mqtt" \/ (Kind[x] = "http" /\ history'.exposed[<<x, t>>] <= 1)
          PROVE  Mine(reg'[x], t) = {}
      <4>1. x # s /\ x \in servers /\ x \in Servers BY <1>0, <1>1, <2>1, <3>1 DEF LifeTyped
      <4>2. t \in Things BY <1>0 DEF HistoryType
      <4>3. history'.exposed[<<x, t>>] = history.exposed[<<x, t>>] BY <2>8, <4>1, <4>2
      <4>4. Mine(reg[x], t) = {} BY <3>1, <4>1, <4>3 DEF ServesInv, Gone
      <4> QED BY <2>7, <4>1, <4>4
    <3> QED BY <1>1, <1>3, <3>1 DEF Gone
  <2> QED BY <1>4, <2>9, <2>10, <2>11, <2>12, <2>13, <2>14, <2>15 DEF ServesInv
<1> QED BY <1>5, <1>6

-----------------------------------------------------------------------------
(* What expose() of a server appends                                       *)

(* The forms of a new exposure lead to names that are served.              *)
LEMMA FormsNamed ==
    ASSUME NEW s \in Servers, NEW r, NEW t, NEW f \in FormsFrom(s, r, t)
    PROVE  /\ f.server = s
           /\ Kind[s] = "http" => f.name \in HttpNames(s, r, t)
           /\ Kind[s] = "ws" => f.name = Unique(r, t) /\ f.aff \in Affordances
           /\ Kind[s] = "mqtt" =>
                /\ f.name = BrokerName(r, t)
                /\ f.op \cap {"writeproperty", "invokeaction"} # {} =>
                     f.aff \in (Properties \ ReadOnly) \cup Actions
<1>1. CASE Kind[s] = "http"
  <2>1. PICK n \in HttpNames(s, r, t) : f \in HttpForms(s, n) BY <1>1 DEF FormsFrom
  <2> QED BY <1>1, <2>1 DEF HttpForms, Form
<1>2. CASE Kind[s] = "ws"
  <2>1. f \in WsForms(s, Unique(r, t)) BY <1>2 DEF FormsFrom
  <2> QED BY <1>2, <2>1 DEF WsForms, Form, Affordances
<1>3. CASE Kind[s] = "mqtt"
  <2>1. PICK n : n = BrokerName(r, t) /\ f \in MqttForms(s, n) BY <1>3 DEF FormsFrom
  <2>2. f.server = s /\ f.name = n BY <2>1 DEF MqttForms, Form
  <2>3. \/ f.op = {"readproperty"} \cup Observing
        \/ f.op = {"writeproperty"} /\ f.aff \in Properties \ ReadOnly
        \/ f.op = {"invokeaction"} /\ f.aff \in Actions
        \/ f.op = {"subscribeevent", "unsubscribeevent"}
    BY <2>1 DEF MqttForms, Form
  <2>4. f.op \cap {"writeproperty", "invokeaction"} # {} =>
          f.aff \in (Properties \ ReadOnly) \cup Actions
    BY <2>3 DEF Observing
  <2> QED BY <1>3, <2>1, <2>2, <2>4
<1> QED BY <1>1, <1>2, <1>3, ThingServersAssumption

(* The first and the second name of a title that a broker server gives are *)
(* new.                                                                    *)
LEMMA BrokerNameNew ==
    ASSUME NEW r, NEW t \in Things, Keys(r) \cap BrokerNames(Title[t]) \subseteq {Title[t]}
    PROVE  BrokerName(r, t) \notin Keys(r)
BY SecondDiffers DEF BrokerName, BrokerNames

LEMMA HasKey ==
    ASSUME NEW r, NEW n, NEW x, Has(r, n, x)
    PROVE  n \in Keys(r)
<1> QED BY DEF Has, Keys

-----------------------------------------------------------------------------
(* expose() on a server that is up                                         *)

LEMMA ExposeServes ==
    ASSUME LifeInv, ServesInv, NEW t \in Things, Expose(t)
    PROVE  ServesInv'
<1>0. history \in HistoryType /\ servers \subseteq Servers /\ sharing \subseteq Servers
  BY DEF LifeInv, LifeTyped
<1>1. PICK on : on = {s \in servers : Up(s)} OBVIOUS
<1>2. /\ forms' = [forms EXCEPT ![t] = UNION {FormsFrom(s, reg[s], t) : s \in on}]
      /\ Exposures(t, on)
      /\ UNCHANGED <<servers, sharing, socket, attempts, things>>
  BY <1>1 DEF Expose, LifeCycle
<1> DEFINE exposed == [x \in Servers \X Things |->
                         IF x[1] \in on /\ x[2] = t THEN history.exposed[x] + 1 ELSE history.exposed[x]]
           titled == [x \in Servers \X Range(Title) |->
                        IF x[1] \in on /\ x[2] = Title[t] THEN history.titled[x] + 1
                        ELSE history.titled[x]]
           stray == IF t \in Range(things) THEN history.stray ELSE history.stray \cup {t}
<1>3. history' = [history EXCEPT !.exposed = exposed, !.titled = titled, !.stray = stray]
  BY <1>2 DEF Exposures
<1>4. /\ history'.exposed = exposed /\ history'.titled = titled /\ history'.stray = stray
      /\ history'.overlap = history.overlap /\ history'.destroyed = history.destroyed
  <2> HIDE DEF exposed, titled, stray
  <2> QED BY <1>0, <1>3 DEF HistoryType
<1>5. ASSUME NEW s \in Servers, NEW x \in Things
      PROVE  /\ history.exposed[<<s, x>>] \in Nat
             /\ history'.exposed[<<s, x>>] =
                  history.exposed[<<s, x>>] + (IF s \in on /\ x = t THEN 1 ELSE 0)
  <2>1. history.exposed[<<s, x>>] \in Nat BY <1>0 DEF HistoryType
  <2> QED BY <1>4, <2>1
<1>6. ASSUME NEW s \in Servers, NEW title \in Range(Title)
      PROVE  /\ history.titled[<<s, title>>] \in Nat
             /\ history'.titled[<<s, title>>] =
                  history.titled[<<s, title>>] + (IF s \in on /\ title = Title[t] THEN 1 ELSE 0)
  <2>1. history.titled[<<s, title>>] \in Nat BY <1>0 DEF HistoryType
  <2> QED BY <1>4, <2>1
<1> HIDE DEF exposed, titled
<1>7. \A x \in Things : Title[x] \in Range(Title) BY ThingServersAssumption DEF Range
<1>unrivalled. ASSUME NEW s \in Servers, NEW title \in Range(Title), Unrivalled(history'.titled, s, title)
       PROVE  /\ Unrivalled(history.titled, s, title)
              /\ s \in on /\ title # Title[t] =>
                   BrokerNames(Title[t]) \cap BrokerNames(title) = {}
  <2>1. \A other \in Range(Title) : history.titled[<<s, other>>] # 0 => history'.titled[<<s, other>>] # 0
    BY <1>6
  <2>2. s \in on => history'.titled[<<s, Title[t]>>] # 0 BY <1>6, <1>7
  <2> QED BY <1>7, <1>unrivalled, <2>1, <2>2 DEF Unrivalled
<1>8. /\ \A s \in Servers \ on : reg'[s] = reg[s]
      /\ \A s \in on : reg'[s] = Exposed(s, reg[s], t)
      /\ DOMAIN reg' = Servers /\ on \subseteq Servers
  BY <1>0, <1>1, <1>2 DEF Exposures
<1>9. ASSUME NEW s \in Servers PROVE IsReg(reg[s])
  BY DEF ServesInv, RegsOK
<1>10. ASSUME NEW s \in on, Kind[s] = "http"
       PROVE  /\ IsReg(reg'[s])
              /\ \A n \in HttpNames(s, reg[s], t) : Has(reg'[s], n, t)
              /\ \A n, x : Has(reg[s], n, x) => Has(reg'[s], n, x)
              /\ \A x : x # t => \A k \in Mine(reg'[s], x) :
                   k \in Mine(reg[s], x) /\ reg'[s].names[k] = reg[s].names[k]
              /\ Mine(reg[s], t) = {} =>
                   \A j, k \in Mine(reg'[s], t) : j < k => reg'[s].names[k].name = IdName(t)
  <2>1. PICK r : r = reg[s] OBVIOUS
  <2>2. IsReg(r) BY <1>8, <1>9, <2>1
  <2>3. PICK q : q = HttpExpose(s, r, t) OBVIOUS
  <2>4. reg'[s] = q BY <1>8, <1>10, <2>1, <2>3 DEF Exposed
  <2>5. /\ IsReg(q)
        /\ \A n \in HttpNames(s, r, t) : Has(q, n, t)
        /\ \A n, x : Has(r, n, x) => Has(q, n, x)
        /\ Mine(r, t) = {} => \A j, k \in Mine(q, t) : j < k => q.names[k].name = IdName(t)
    BY <2>2, <2>3, HttpExposeEffect
  <2>6. \A x : x # t => \A k \in Mine(q, x) : k \in Mine(r, x) /\ q.names[k] = r.names[k]
    BY <2>2, <2>3, HttpOthersKept
  <2> QED BY <2>1, <2>4, <2>5, <2>6
<1>11. ASSUME NEW s \in on, Kind[s] = "ws"
       PROVE  /\ IsReg(reg'[s])
              /\ SocketsNamed(reg[s]) =>
                   /\ SocketsNamed(reg'[s])
                   /\ \A x \in DOMAIN reg[s].sockets :
                        x \in DOMAIN reg'[s].sockets /\ reg'[s].sockets[x] = reg[s].sockets[x]
              /\ \A a \in Properties \cup Events :
                   /\ <<Unique(reg[s], t), a>> \in DOMAIN reg'[s].sockets
                   /\ reg'[s].sockets[<<Unique(reg[s], t), a>>] = t
  <2>1. PICK r : r = reg[s] OBVIOUS
  <2>2. IsReg(r) BY <1>8, <1>9, <2>1
  <2>3. reg'[s] = WsExpose(r, t) BY <1>8, <1>11, <2>1 DEF Exposed
  <2> QED BY <2>1, <2>2, <2>3, WsExposeEffect
<1>12. ASSUME NEW s \in on, Kind[s] = "mqtt"
       PROVE  LET u == BrokerName(reg[s], t) IN
              /\ IsReg(reg'[s])
              /\ Keys(reg'[s]) = Keys(reg[s]) \cup {u} /\ Has(reg'[s], u, t)
              /\ \A n, x : n # u /\ Has(reg[s], n, x) => Has(reg'[s], n, x)
              /\ \A x : x # t => Mine(reg'[s], x) \subseteq Mine(reg[s], x)
              /\ reg[s].topics \subseteq reg'[s].topics /\ reg'[s].handlers > 0
              /\ \A a \in (Properties \ ReadOnly) \cup Actions : <<u, a>> \in reg'[s].topics
  <2>1. PICK r : r = reg[s] OBVIOUS
  <2>2. IsReg(r) BY <1>8, <1>9, <2>1
  <2>3. reg'[s] = MqttExpose(r, t) BY <1>8, <1>12, <2>1 DEF Exposed
  <2> QED BY <2>1, <2>2, <2>3, MqttExposeEffect
<1>13. ThingsOK' BY <1>2, <1>8 DEF ServesInv, ThingsOK
<1>14. ASSUME NEW s \in Servers, Kind[s] = "mqtt"
       PROVE  TitlesCounted(s, reg[s])'
  <2>1. TitlesCounted(s, reg[s]) BY <1>14 DEF ServesInv, RegsOK
  <2>2. ASSUME NEW title \in Range(Title), Unrivalled(history'.titled, s, title)
        PROVE  LET names == Keys(reg'[s]) \cap BrokerNames(title) IN
               /\ history'.titled[<<s, title>>] = 0 => names = {}
               /\ history'.titled[<<s, title>>] = 1 => names \subseteq {title}
    <3>1. LET names == Keys(reg[s]) \cap BrokerNames(title) IN
          /\ history.titled[<<s, title>>] = 0 => names = {}
          /\ history.titled[<<s, title>>] = 1 => names \subseteq {title}
      BY <1>unrivalled, <2>1, <2>2 DEF TitlesCounted
    <3>2. CASE s \notin on
      <4>1. history'.titled[<<s, title>>] = history.titled[<<s, title>>] BY <1>6, <3>2
      <4> QED BY <1>8, <3>1, <3>2, <4>1
    <3>3. CASE s \in on
      <4>1. PICK u : u = BrokerName(reg[s], t) OBVIOUS
      <4>2. Keys(reg'[s]) = Keys(reg[s]) \cup {u} BY <1>12, <1>14, <3>3, <4>1
      <4>3. u \in BrokerNames(Title[t]) BY <4>1, BrokerNamed
      <4>4. CASE title # Title[t]
        <5>1. history'.titled[<<s, title>>] = history.titled[<<s, title>>] BY <1>6, <4>4
        <5>2. u \notin BrokerNames(title) BY <1>unrivalled, <2>2, <3>3, <4>3, <4>4
        <5> QED BY <3>1, <4>2, <5>1, <5>2
      <4>5. CASE title = Title[t]
        <5>1. PICK n \in Nat : n = history.titled[<<s, title>>] /\ history'.titled[<<s, title>>] = n + 1
          BY <1>6, <3>3, <4>5
        <5>2. CASE n = 0
          <6>1. Keys(reg[s]) \cap BrokerNames(title) = {} BY <3>1, <5>1, <5>2
          <6>2. title \notin Keys(reg[s]) BY <6>1 DEF BrokerNames
          <6>3. u = title BY <4>1, <4>5, <6>2 DEF BrokerName
          <6> QED BY <4>2, <5>1, <5>2, <6>1, <6>3
        <5>3. CASE n # 0 BY <5>1, <5>3
        <5> QED BY <5>2, <5>3
      <4> QED BY <4>4, <4>5
    <3> QED BY <3>2, <3>3
  <2> QED BY <2>2 DEF TitlesCounted
<1>15. RegsOK'
  <2>1. ASSUME NEW s \in Servers
        PROVE  IsReg(reg'[s]) /\ (Kind[s] = "ws" /\ history.destroyed = {} => SocketsNamed(reg'[s]))
    <3>1. CASE s \notin on BY <1>8, <3>1 DEF ServesInv, RegsOK
    <3>2. CASE s \in on
      BY <1>10, <1>11, <1>12, <3>2, ThingServersAssumption DEF ServesInv, RegsOK
    <3> QED BY <3>1, <3>2
  <2> QED BY <1>4, <1>14, <2>1 DEF RegsOK
<1>16. ASSUME NEW x \in Range(things), x # t, NEW f \in forms[x]
       PROVE  f.server \in Servers /\ WellServed(f.server, reg[f.server], f, x)'
  <2>1. f.server \in Servers /\ WellServed(f.server, reg[f.server], f, x)
    BY <1>16 DEF ServesInv, FormsServed
  <2>2. PICK s \in Servers : s = f.server BY <2>1
  <2>3. x \in Things /\ Title[x] \in Range(Title) BY <1>7 DEF ServesInv, ThingsOK, Range
  <2>4. /\ history.titled[<<s, Title[x]>>] \in Nat
        /\ history'.titled[<<s, Title[x]>>] =
             history.titled[<<s, Title[x]>>] + (IF s \in on /\ Title[x] = Title[t] THEN 1 ELSE 0)
    BY <1>6, <2>3
  <2>unrivalled. Unrivalled(history'.titled, s, Title[x]) => Unrivalled(history.titled, s, Title[x])
    BY <1>unrivalled, <2>3
  <2>5. CASE s \notin on
    BY <1>2, <1>4, <1>8, <2>1, <2>2, <2>4, <2>5, <2>unrivalled DEF WellServed
  <2>6. CASE s \in on /\ Kind[s] = "http"
    BY <1>10, <2>1, <2>2, <2>6 DEF WellServed
  <2>7. CASE s \in on /\ Kind[s] = "ws"
    <3>1. history.destroyed = {} => SocketsNamed(reg[s]) BY <2>7 DEF ServesInv, RegsOK
    <3> QED BY <1>4, <1>11, <2>1, <2>2, <2>7, <3>1 DEF WellServed
  <2>8. CASE s \in on /\ Kind[s] = "mqtt"
    <3>1. PICK u : u = BrokerName(reg[s], t) OBVIOUS
    <3>2. /\ \A n, y : n # u /\ Has(reg[s], n, y) => Has(reg'[s], n, y)
          /\ reg[s].topics \subseteq reg'[s].topics /\ reg'[s].handlers > 0
      BY <1>12, <2>8, <3>1
    <3>3. /\ f.name \in BrokerNames(Title[x])
          /\ history.titled[<<s, Title[x]>>] <= 2 /\ Unrivalled(history.titled, s, Title[x])
               => Has(reg[s], f.name, x)
          /\ ~history.overlap =>
               /\ socket[s] # "new"
               /\ f.op \cap {"writeproperty", "invokeaction"} # {} =>
                    <<f.name, f.aff>> \in reg[s].topics /\ reg[s].handlers > 0
      BY <2>1, <2>2, <2>8 DEF WellServed
    <3>4. ASSUME history'.titled[<<s, Title[x]>>] <= 2, Unrivalled(history'.titled, s, Title[x])
          PROVE  Has(reg'[s], f.name, x)
      <4>1. Has(reg[s], f.name, x) BY <2>4, <2>unrivalled, <3>3, <3>4
      <4>2. f.name \in Keys(reg[s]) BY <4>1, HasKey
      <4>3. CASE Title[x] # Title[t]
        <5>1. u \in BrokerNames(Title[t]) BY <3>1, BrokerNamed
        <5>2. BrokerNames(Title[t]) \cap BrokerNames(Title[x]) = {} BY <1>unrivalled, <2>3, <2>8, <3>4, <4>3
        <5> QED BY <3>2, <3>3, <4>1, <5>1, <5>2
      <4>4. CASE Title[x] = Title[t]
        <5>1. history.titled[<<s, Title[t]>>] = 0 \/ history.titled[<<s, Title[t]>>] = 1
          BY <2>4, <2>8, <3>4, <4>4
        <5>2. TitlesCounted(s, reg[s]) BY <2>8 DEF ServesInv, RegsOK
        <5>3. Unrivalled(history.titled, s, Title[t]) BY <2>unrivalled, <3>4, <4>4
        <5>4. Keys(reg[s]) \cap BrokerNames(Title[t]) \subseteq {Title[t]}
          BY <1>7, <5>1, <5>2, <5>3 DEF TitlesCounted
        <5>5. u \notin Keys(reg[s]) BY <3>1, <5>4, BrokerNameNew
        <5> QED BY <3>2, <4>1, <4>2, <5>5
      <4> QED BY <4>3, <4>4
    <3>5. /\ history'.overlap = history.overlap /\ socket' = socket BY <1>2, <1>4
    <3>6. WellServed(s, reg[s], f, x)'
      BY <2>8, <3>2, <3>3, <3>4, <3>5 DEF WellServed
    <3> QED BY <2>2, <3>6
  <2> QED BY <2>5, <2>6, <2>7, <2>8, ThingServersAssumption
<1>17. ASSUME NEW s \in on, NEW f \in FormsFrom(s, reg[s], t)
       PROVE  f.server \in Servers /\ WellServed(f.server, reg[f.server], f, t)'
  <2>1. s \in Servers /\ f.server = s BY <1>8, FormsNamed
  <2>2. CASE Kind[s] = "http"
    <3>1. f.name \in HttpNames(s, reg[s], t) BY <2>1, <2>2, FormsNamed
    <3> QED BY <1>10, <2>1, <2>2, <3>1 DEF WellServed
  <2>3. CASE Kind[s] = "ws"
    <3>1. f.name = Unique(reg[s], t) /\ f.aff \in Affordances BY <2>1, <2>3, FormsNamed
    <3>2. f.aff \notin Actions => f.aff \in Properties \cup Events BY <3>1 DEF Affordances
    <3> QED BY <1>11, <2>1, <2>3, <3>1, <3>2 DEF WellServed
  <2>4. CASE Kind[s] = "mqtt"
    <3>1. PICK u : u = BrokerName(reg[s], t) OBVIOUS
    <3>2. /\ f.name = u
          /\ f.op \cap {"writeproperty", "invokeaction"} # {} =>
               f.aff \in (Properties \ ReadOnly) \cup Actions
      BY <2>1, <2>4, <3>1, FormsNamed
    <3>3. u \in BrokerNames(Title[t]) BY <3>1, BrokerNamed
    <3>4. /\ Has(reg'[s], u, t) /\ reg'[s].handlers > 0
          /\ \A a \in (Properties \ ReadOnly) \cup Actions : <<u, a>> \in reg'[s].topics
      BY <1>12, <2>4, <3>1
    <3>5. socket'[s] = "open"
      <4>1. s \notin sharing BY <2>4 DEF ServesInv, SharingOK
      <4> QED BY <1>1, <1>2, <4>1 DEF Up
    <3>6. WellServed(s, reg[s], f, t)'
      BY <2>4, <3>2, <3>3, <3>4, <3>5 DEF WellServed
    <3> QED BY <2>1, <3>6
  <2> QED BY <2>1, <2>2, <2>3, <2>4, ThingServersAssumption
<1>18. FormsServed'
  <2>1. ASSUME NEW x \in Range(things), NEW f \in forms'[x]
        PROVE  f.server \in Servers /\ WellServed(f.server, reg[f.server], f, x)'
    <3>1. DOMAIN forms = Things /\ x \in Things BY DEF ServesInv, ThingsOK, Range
    <3>2. CASE x # t
      <4>1. f \in forms[x] BY <1>2, <3>1, <3>2
      <4> QED BY <1>16, <3>2, <4>1
    <3>3. CASE x = t
      <4>1. \E s \in on : f \in FormsFrom(s, reg[s], t) BY <1>2, <3>1, <3>3
      <4> QED BY <1>17, <3>3, <4>1
    <3> QED BY <3>2, <3>3
  <2> QED BY <1>2, <2>1 DEF FormsServed
<1>19. SharingOK' /\ StartedOnce' BY <1>2, <1>4 DEF ServesInv, SharingOK, StartedOnce
<1>20. Untouched'
  <2>1. ASSUME NEW s \in Servers \ sharing, socket[s] = "new" PROVE Keys(reg'[s]) = {}
    <3>1. s \notin on BY <1>1, <2>1 DEF Up
    <3> QED BY <1>8, <2>1, <3>1 DEF ServesInv, Untouched
  <2> QED BY <1>2, <2>1 DEF Untouched
<1>21. IdsLast'
  <2>1. ASSUME NEW s \in Servers, NEW x \in Things, Kind[s] = "http"
        PROVE  /\ history'.exposed[<<s, x>>] = 0 => Mine(reg'[s], x) = {}
               /\ history'.exposed[<<s, x>>] = 1 =>
                    \A j, k \in Mine(reg'[s], x) : j < k => reg'[s].names[k].name = IdName(x)
    <3>1. PICK r, q : r = reg[s] /\ q = reg'[s] OBVIOUS
    <3>2. /\ history.exposed[<<s, x>>] = 0 => Mine(r, x) = {}
          /\ history.exposed[<<s, x>>] = 1 =>
               \A j, k \in Mine(r, x) : j < k => r.names[k].name = IdName(x)
      BY <2>1, <3>1 DEF ServesInv, IdsLast
    <3>3. PICK n \in Nat : /\ n = history.exposed[<<s, x>>]
                           /\ history'.exposed[<<s, x>>] = n + (IF s \in on /\ x = t THEN 1 ELSE 0)
      BY <1>5
    <3>4. CASE s \notin on BY <1>8, <3>1, <3>2, <3>3, <3>4
    <3>5. CASE s \in on /\ x # t
      <4>1. \A k \in Mine(q, x) : k \in Mine(r, x) /\ q.names[k] = r.names[k]
        BY <1>10, <2>1, <3>1, <3>5
      <4> QED BY <3>1, <3>2, <3>3, <3>5, <4>1
    <3>6. CASE s \in on /\ x = t
      <4>1. Mine(r, t) = {} => \A j, k \in Mine(q, t) : j < k => q.names[k].name = IdName(t)
        BY <1>10, <2>1, <3>1, <3>6
      <4> QED BY <3>1, <3>2, <3>3, <3>6, <4>1
    <3> QED BY <3>4, <3>5, <3>6
  <2> QED BY <2>1 DEF IdsLast
<1>22. Gone'
  <2>1. ASSUME NEW x \in history'.destroyed \ (Range(things) \cup history'.stray), NEW s \in servers,
               Kind[s] = "mqtt" \/ (Kind[s] = "http" /\ history'.exposed[<<s, x>>] <= 1)
        PROVE  Mine(reg'[s], x) = {}
    <3>1. x # t /\ x \in history.destroyed \ (Range(things) \cup history.stray) /\ s \in Servers
      BY <1>0, <1>4, <2>1
    <3>2. x \in Things BY <1>0, <3>1 DEF HistoryType
    <3>3. history'.exposed[<<s, x>>] = history.exposed[<<s, x>>] BY <1>5, <3>1, <3>2
    <3>4. Mine(reg[s], x) = {} BY <2>1, <3>1, <3>3 DEF ServesInv, Gone
    <3>5. Mine(reg'[s], x) \subseteq Mine(reg[s], x)
      <4>1. CASE s \notin on BY <1>8, <3>1, <4>1
      <4>2. CASE s \in on /\ Kind[s] = "http" BY <1>10, <3>1, <4>2
      <4>3. CASE s \in on /\ Kind[s] = "mqtt" BY <1>12, <3>1, <4>3
      <4> QED BY <2>1, <4>1, <4>2, <4>3
    <3> QED BY <3>4, <3>5
  <2> QED BY <1>2, <2>1 DEF Gone
<1> QED BY <1>13, <1>15, <1>18, <1>19, <1>20, <1>21, <1>22 DEF ServesInv

-----------------------------------------------------------------------------
LEMMA ServesStep == LifeInv /\ ServesInv /\ [Next]_vars => ServesInv'
<1> SUFFICES ASSUME LifeInv, ServesInv, [Next]_vars PROVE ServesInv' OBVIOUS
<1>1. ASSUME NEW t \in Things, Produce(t) \/ Expose(t) \/ DestroyThing(t) PROVE ServesInv'
  BY <1>1, ProduceServes, ExposeServes, DestroyServes
<1>2. ASSUME NEW c \in Calls, StartCall(c) PROVE ServesInv'
  BY <1>2, StartsServe
<1>3. ASSUME NEW s \in Servers, AddServer(s) \/ StartAlone(s) \/ Opens(s) PROVE ServesInv'
  BY <1>3, AddServerServes, StartAloneServes, OpensServes
<1>4. CASE \/ \E c \in Calls : Started(c) \/ ShutdownCall(c) \/ Stopped(c)
           \/ \E c \in Calls, s \in Servers : RemoveServer(c, s)
           \/ \E s \in Servers : OpenFails(s) \/ Closes(s) \/ Connect(s) \/ Disconnect(s)
           \/ UNCHANGED vars
  BY <1>4, QuietStep
<1> QED BY <1>1, <1>2, <1>3, <1>4 DEF Next

(* What is served arrives where it should.                                 *)
LEMMA ServedLeads == LifeInv /\ ServesInv => FormsLead
<1> SUFFICES ASSUME LifeInv, ServesInv, NEW t \in Range(things), NEW f \in forms[t],
                    ~Unreliable(f, t)
             PROVE  LeadsTo(f.server, reg[f.server], f.name, f.aff, f.op) = t
  BY DEF FormsLead
<1>1. PICK s \in Servers : s = f.server /\ WellServed(s, reg[s], f, t)
  BY DEF ServesInv, FormsServed
<1>2. PICK r : r = reg[s] /\ IsReg(r) BY DEF ServesInv, RegsOK
<1>3. CASE Kind[s] = "http"
  <2>1. Has(r, f.name, t) BY <1>1, <1>2, <1>3 DEF WellServed
  <2>2. Owner(r, f.name) = t BY <1>2, <2>1, OwnerFound
  <2> QED BY <1>1, <1>2, <1>3, <2>2 DEF LeadsTo
<1>4. CASE Kind[s] = "ws"
  <2>1. f.aff \notin Actions /\ history.destroyed = {} BY <1>1, <1>4 DEF Unreliable
  <2>2. <<f.name, f.aff>> \in DOMAIN r.sockets /\ r.sockets[<<f.name, f.aff>>] = t
    BY <1>1, <1>2, <1>4, <2>1 DEF WellServed
  <2> QED BY <1>1, <1>2, <1>4, <2>2 DEF LeadsTo
<1>5. CASE Kind[s] = "mqtt"
  <2>1. /\ ~history.overlap
        /\ Title[t][1] \in Escaped \/ f.aff \in Escaped
             => f.op \cap {"writeproperty", "invokeaction"} = {}
        /\ ~(2 < history.titled[<<s, Title[t]>>]) /\ Rivals(s, Title[t]) = {}
    BY <1>1, <1>5 DEF Unreliable
  <2>2. t \in Things BY DEF ServesInv, ThingsOK, Range
  <2>3. history.titled[<<s, Title[t]>>] \in Nat
    <3>1. Title[t] \in Range(Title) BY <2>2, ThingServersAssumption DEF Range
    <3> QED BY <3>1 DEF LifeInv, LifeTyped, HistoryType
  <2>4. Unrivalled(history.titled, s, Title[t]) BY <2>1 DEF Rivals, Unrivalled
  <2>5. /\ Has(r, f.name, t) /\ f.name \in BrokerNames(Title[t])
        /\ f.op \cap {"writeproperty", "invokeaction"} # {} =>
             <<f.name, f.aff>> \in r.topics /\ r.handlers > 0
    BY <1>1, <1>2, <1>5, <2>1, <2>3, <2>4 DEF WellServed
  <2>6. Owner(r, f.name) = t BY <1>2, <2>5, OwnerFound
  <2>7. f.name[1] = Title[t][1]
    BY <2>2, <2>5, SecondDiffers DEF BrokerNames
  <2> QED BY <1>1, <1>2, <1>5, <2>1, <2>5, <2>6, <2>7 DEF LeadsTo
<1> QED BY <1>3, <1>4, <1>5, ThingServersAssumption

(* What owns no entry owns no name.                                        *)
LEMMA GoneUnnamed == LifeInv /\ ServesInv => DestroyedIsGone
<1> SUFFICES ASSUME LifeInv, ServesInv,
                    NEW t \in history.destroyed \ (Range(things) \cup history.stray),
                    NEW s \in servers,
                    Kind[s] = "mqtt" \/ (Kind[s] = "http" /\ history.exposed[<<s, t>>] <= 1),
                    NEW name \in Keys(reg[s])
             PROVE  Owner(reg[s], name) # t
  BY DEF DestroyedIsGone
<1>1. s \in Servers BY DEF LifeInv, LifeTyped
<1>2. IsReg(reg[s]) BY <1>1 DEF ServesInv, RegsOK
<1>3. Has(reg[s], name, Owner(reg[s], name)) BY <1>2, OwnerNamed
<1>4. Mine(reg[s], t) = {} BY DEF ServesInv, Gone
<1> QED BY <1>3, <1>4 DEF Has, Mine

(* A client that uses a form of a Thing reaches that Thing: whatever       *)
(* Things and servers there are, the names that expose() of the three      *)
(* servers gives stay with the Thing, but for what Unreliable lists.       *)
THEOREM FormsLeadBack == Spec => []FormsLead
<1>1. Init => LifeInv /\ ServesInv BY LifeInit, ServesInit
<1>2. (LifeInv /\ ServesInv) /\ [Next]_vars => (LifeInv /\ ServesInv)' BY LifeStep, ServesStep
<1>3. LifeInv /\ ServesInv => FormsLead BY ServedLeads
<1> QED BY <1>1, <1>2, <1>3, PTL DEF Spec

(* destroy() of the HTTP and broker servers takes every name of a Thing    *)
(* away (of an HTTP server: if it has been exposed once).                  *)
THEOREM DestroyedGone == Spec => []DestroyedIsGone
<1>1. Init => LifeInv /\ ServesInv BY LifeInit, ServesInit
<1>2. (LifeInv /\ ServesInv) /\ [Next]_vars => (LifeInv /\ ServesInv)' BY LifeStep, ServesStep
<1>3. LifeInv /\ ServesInv => DestroyedIsGone BY GoneUnnamed
<1> QED BY <1>1, <1>2, <1>3, PTL DEF Spec
=============================================================================
