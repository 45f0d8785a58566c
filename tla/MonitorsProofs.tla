--------------------------- MODULE MonitorsProofs ---------------------------
(***************************************************************************)
(* An input never has two processes, and a monitor that was stopped has    *)
(* none; and the responses of an object detection server reach the calls   *)
(* they are about: for every number of monitors, inputs, callers and       *)
(* connections.                                                            *)
(***************************************************************************)
EXTENDS Monitors, DoodsClient, FiniteSetTheorems, TLAPS

Requested == {"free", "start", "restart", "restarted", "delete", "stop"}
LoopStates == {"none", "check", "start", "wait", "sleep"}

ManagerTypeOK ==
    /\ raw \in [Ids -> Configs \union {None}]
    /\ running \in [Ids -> Configs \union {None}]
    /\ mgr \in [op : Requested, todo : SUBSET Ids]

\* A loop has its process while it waits for it, and at no other time.
LoopOwnsProcess ==
    /\ loop \in [Keys -> LoopStates]
    /\ alive = [k \in Keys |-> IF loop[k] = "wait" THEN 1 ELSE 0]

\* The loops of a monitor that is not running have ended.
LoopsOfRunning == \A m \in Ids, i \in Inputs : loop[<<m, i>>] # "none" => running[m] # None

\* A monitor that a request is about to start has been stopped before, and has a
\* configuration: no other request comes between.
StartsStopped ==
    /\ mgr.op \in {"start", "restarted"} => \A m \in mgr.todo : running[m] = None
    /\ mgr.op \in {"start", "restarted", "restart"} => \A m \in mgr.todo : raw[m] # None

MonitorsInv == ManagerTypeOK /\ LoopOwnsProcess /\ LoopsOfRunning /\ StartsStopped

LEMMA MonitorsInitInv == MonitorsInit => MonitorsInv
BY DEF MonitorsInit, MonitorsStart, MonitorsInv, ManagerTypeOK, LoopOwnsProcess, LoopsOfRunning,
       StartsStopped, Keys, Requested, LoopStates

LEMMA InvImpliesOneProcess == MonitorsInv => OneProcess
<1> SUFFICES ASSUME MonitorsInv, NEW k \in Keys
             PROVE  alive[k] <= 1 /\ (running[k[1]] = None => alive[k] = 0 /\ loop[k] = "none")
  BY Zenon DEF OneProcess
<1>1. PICK m \in Ids, i \in Inputs : k = <<m, i>>
  BY DEF Keys
<1>2. running[k[1]] = None => loop[k] = "none"
  BY Zenon, <1>1 DEF MonitorsInv, LoopsOfRunning
<1> QED
  BY <1>2 DEF MonitorsInv, LoopOwnsProcess

\* A monitor is started: it had no loop, and gets those of its configuration.
LEMMA StartKeeps ==
    ASSUME MonitorsInv, NEW m \in Ids, StartMonitor(m)
    PROVE  MonitorsInv'
<1> USE DEF MonitorsInv
<1>1. running[m] = None /\ raw[m] \in Configs /\ raw[m] # None
  BY Zenon DEF StartMonitor, StartsStopped, ManagerTypeOK
<1>2. \A i \in Inputs : loop[<<m, i>>] = "none"
  BY Zenon, <1>1 DEF LoopsOfRunning
<1>3. ManagerTypeOK' /\ StartsStopped'
  BY Zenon, <1>1 DEF StartMonitor, ManagerTypeOK, StartsStopped, Free, Requested
<1>4. LoopOwnsProcess'
  <2>1. loop' \in [Keys -> LoopStates]
    BY Zenon DEF StartMonitor, LoopOwnsProcess, LoopStates
  <2>2. \A k \in Keys : loop[k] = "wait" <=> loop'[k] = "wait"
    BY <1>2 DEF StartMonitor, LoopOwnsProcess, Keys
  <2> QED
    BY Zenon, <2>1, <2>2 DEF StartMonitor, LoopOwnsProcess
<1>5. LoopsOfRunning'
  BY Zenon, <1>1, <1>2 DEF StartMonitor, LoopsOfRunning, ManagerTypeOK, Keys
<1> QED
  BY Zenon, <1>3, <1>4, <1>5

\* A monitor has stopped: its loops were waited for.
LEMMA StoppedKeeps ==
    ASSUME MonitorsInv, NEW m \in Ids, Stopped(m)
    PROVE  MonitorsInv'
<1> USE DEF MonitorsInv
<1>1. ManagerTypeOK'
  BY Zenon DEF Stopped, ManagerTypeOK, Free, Requested
<1>2. LoopOwnsProcess'
  BY Zenon DEF Stopped, LoopOwnsProcess, inputVars
<1>3. LoopsOfRunning'
  BY Zenon DEF Stopped, Waited, LoopsOfRunning, ManagerTypeOK, inputVars
<1>4. StartsStopped'
  BY ZenonT(30) DEF Stopped, StartsStopped, ManagerTypeOK, Free, Requested
<1> QED
  BY Zenon, <1>1, <1>2, <1>3, <1>4

\* The other steps of requests leave the loops and what runs alone.
LEMMA RequestKeeps ==
    ASSUME MonitorsInv,
           NothingToStart \/ StopMonitors
             \/ \E m \in Ids : RestartMonitor(m) \/ MonitorSet(m) \/ MonitorDelete(m) \/ StopMonitor(m) \/ RecorderEnds(m)
    PROVE  MonitorsInv'
<1> USE DEF MonitorsInv
<1>1. UNCHANGED <<loop, alive, running>>
  BY Zenon DEF NothingToStart, StopMonitors, RestartMonitor, MonitorSet, MonitorDelete, StopMonitor, RecorderEnds, inputVars
<1>2. LoopOwnsProcess' /\ LoopsOfRunning'
  BY Zenon, <1>1 DEF LoopOwnsProcess, LoopsOfRunning
<1>3. ManagerTypeOK' /\ StartsStopped'
  <2>1. CASE NothingToStart \/ StopMonitors
    BY <1>1, <2>1 DEF NothingToStart, StopMonitors, ManagerTypeOK, StartsStopped, Free, Requested
  <2>2. ASSUME NEW m \in Ids, RestartMonitor(m) \/ MonitorDelete(m) \/ StopMonitor(m) \/ RecorderEnds(m)
        PROVE  ManagerTypeOK' /\ StartsStopped'
    BY <1>1, <2>2 DEF RestartMonitor, MonitorDelete, StopMonitor, RecorderEnds, ManagerTypeOK, StartsStopped, Free, Requested
  <2>3. ASSUME NEW m \in Ids, MonitorSet(m)
        PROVE  ManagerTypeOK' /\ StartsStopped'
    BY <1>1, <2>3 DEF MonitorSet, ManagerTypeOK, StartsStopped, Free, Requested
  <2> QED
    BY Zenon, <2>1, <2>2, <2>3
<1> QED
  BY Zenon, <1>2, <1>3

\* A loop goes on: it starts a process only when it has none.
LEMMA LoopKeeps ==
    ASSUME MonitorsInv, NEW k \in Keys, LoopStep(k)
    PROVE  MonitorsInv'
<1> USE DEF MonitorsInv
<1>1. UNCHANGED managerVars
  BY Zenon DEF LoopStep, CheckStopped, NewPath, NewPathFails, ProcessStart, ProcessStartFails, WaitReturns, SleepEnds
<1>2. ManagerTypeOK' /\ StartsStopped'
  BY Zenon, <1>1 DEF ManagerTypeOK, StartsStopped, managerVars
<1>3. loop[k] # "none" /\ \E to \in LoopStates : loop' = [loop EXCEPT ![k] = to]
  BY Zenon DEF LoopStep, CheckStopped, NewPath, NewPathFails, ProcessStart, ProcessStartFails, WaitReturns, SleepEnds,
         EndRun, LoopStates
<1>4. LoopsOfRunning'
  BY Zenon, <1>1, <1>3 DEF LoopsOfRunning, LoopOwnsProcess, managerVars, Keys
<1>5. LoopOwnsProcess'
  <2>1. CASE ProcessStart(k)
    BY <2>1 DEF ProcessStart, LoopOwnsProcess, LoopStates
  <2>2. CASE WaitReturns(k)
    BY <2>2 DEF WaitReturns, EndRun, LoopOwnsProcess, LoopStates
  <2>3. CASE CheckStopped(k) \/ NewPath(k) \/ NewPathFails(k) \/ ProcessStartFails(k) \/ SleepEnds(k)
    BY <2>3 DEF CheckStopped, NewPath, NewPathFails, ProcessStartFails, SleepEnds, EndRun, LoopOwnsProcess, LoopStates
  <2> QED
    BY Zenon, <2>1, <2>2, <2>3 DEF LoopStep
<1> QED
  BY Zenon, <1>2, <1>4, <1>5

\* An input never has two processes, and a monitor that was stopped has none and
\* will not start one (Monitor.stop, InputProcess.start, process.Start).
THEOREM AlwaysOneProcess == MonitorsSpec => []OneProcess
<1>1. MonitorsInv /\ [MonitorsNext]_monitorVars => MonitorsInv'
  <2> SUFFICES ASSUME MonitorsInv, [MonitorsNext]_monitorVars
               PROVE  MonitorsInv'
    OBVIOUS
  <2>1. ASSUME UNCHANGED <<managerVars, loop, alive>>
        PROVE  MonitorsInv'
    BY Zenon, <2>1 DEF MonitorsInv, ManagerTypeOK, LoopOwnsProcess, LoopsOfRunning, StartsStopped, managerVars
  <2>2. ASSUME NEW k \in Keys,
               \/ PathRemoved(k) \/ Freeze(k) \/ ExitsItself(k) \/ Interrupt(k) \/ Kill(k) \/ ExitsOnSignal(k)
               \/ WarmupEnds(k) \/ MuxerStarts(k) \/ MuxerEnds(k) \/ FeedAsks(k) \/ SegFinalized(k) \/ KeepAlive(k)
               \/ WatchdogFires(k) \/ WatchdogEnds(k) \/ LateWatchdogFires(k) \/ LateWatchdogEnds(k)
               \/ DetectorSends(k) \/ EventTaken(k) \/ DetectorEnds(k) \/ LaggingEnds(k)
        PROVE  MonitorsInv'
    BY Zenon, <2>1, <2>2 DEF PathRemoved, Freeze, ExitsItself, Interrupt, Kill, ExitsOnSignal, procOnly,
                      WarmupEnds, MuxerStarts, MuxerEnds, FeedAsks, SegFinalized, KeepAlive, WatchdogFires, WatchdogEnds,
                      LateWatchdogFires, LateWatchdogEnds, watchOnly,
                      DetectorSends, EventTaken, DetectorEnds, LaggingEnds, detectOnly
  <2>3. CASE UNCHANGED monitorVars
    BY Zenon, <2>1, <2>3 DEF monitorVars, inputVars
  <2> QED
    BY Zenon, <2>2, <2>3, StartKeeps, StoppedKeeps, RequestKeeps, LoopKeeps DEF MonitorsNext, ManagerStep
<1> QED
  BY <1>1, MonitorsInitInv, InvImpliesOneProcess, PTL DEF MonitorsSpec

-----------------------------------------------------------------------------
(* The DOODS client.                                                       *)

OptRequest == Requests \union {0}

DoodsTypeOK ==
    /\ client \in [pc : {"dial", "sleep", "loop", "deliver", "cleanup", "stopped"}, id : Nat, of : Nat, conn : Nat, todo : SUBSET Requests]
    /\ pending \in [Requests -> OptRequest]
    /\ count \in Nat /\ conns \in Nat /\ conns <= MaxConns /\ requests \in Nat /\ requests <= MaxRequests
    /\ reader \in [Conns -> [pc : {"none", "read", "offer", "error"}, id : OptRequest, of : OptRequest]]
    /\ wire \subseteq Requests \X Requests
    /\ sender \in [Senders -> [pc : {"idle", "offer", "wait"}, req : OptRequest]]
    /\ receiver \in [Requests -> {"none", "sender", "drain"}]
    /\ madeAt \in [Requests -> Nat]

Connected == client.pc \in {"loop", "deliver"}

\* Connections are numbered as they are made.
ConnsInOrder ==
    /\ conns = 0 => client.pc \in {"dial", "sleep", "stopped"}
    /\ \A c \in Conns : c > conns => reader[c] = NoReader
    /\ \A r \in Requests : madeAt[r] <= conns
    /\ client.pc = "deliver" => client.id \in Requests /\ client.conn \in Conns /\ client.conn <= conns
    /\ client.pc = "cleanup" =>
           client.id \in client.todo \union {0} /\ \A i \in client.todo : pending[i] # 0

\* A request has one sender, and is written to a connection and entered among
\* the pending ones once.
RequestsOnce ==
    /\ \A s \in Senders : sender[s].pc # "idle" => sender[s].req \in Requests /\ sender[s].req <= requests
    /\ \A s, t \in Senders :
           sender[s].pc # "idle" /\ sender[t].pc # "idle" /\ sender[s].req = sender[t].req => s = t
    /\ \A s \in Senders : sender[s].pc = "offer" => madeAt[sender[s].req] = 0
    /\ \A r \in Requests : r > requests => madeAt[r] = 0
    /\ \A i \in Requests : pending[i] # 0 => madeAt[pending[i]] # 0
    /\ \A i, j \in Requests : pending[i] # 0 /\ pending[i] = pending[j] => i = j

\* The IDs of a connection are as many as the requests that were written to it,
\* so that they stay within those that pending has.
Written == {r \in 1..requests : madeAt[r] = conns}
IDsCounted == Connected => count = Cardinality(Written)

\* A pending request of this connection is waited for, until cleanup answers it.
PendingHeld ==
    \A i \in Requests :
        /\ pending[i] # 0 /\ madeAt[pending[i]] = conns
        /\ Connected \/ (client.pc = "cleanup" /\ i \in client.todo)
        => receiver[pending[i]] # "none"

\* Request r is pending at this connection, with this ID.
Awaits(i, r) == i \in Requests /\ i <= count /\ r # 0 /\ pending[i] = r /\ madeAt[r] = conns

\* An ID is with the server, or in the reader, or being delivered, one at a time;
\* and after that it is pending no more.
OneResponse ==
    LET d == reader[conns]
        offers == d.pc = "offer" /\ d.of # 0
        delivers == client.pc = "deliver" /\ client.of # 0
    IN  ~mixed /\ Connected =>
            /\ client.pc = "deliver" => client.conn = conns
            /\ \A w \in wire : Awaits(w[1], w[2])
            /\ offers => Awaits(d.id, d.of) /\ <<d.id, d.of>> \notin wire
            /\ delivers => /\ Awaits(client.id, client.of) /\ <<client.id, client.of>> \notin wire
                           /\ offers => d.id # client.id
            /\ d.id # 0 /\ ~offers =>
                   /\ d.id <= count
                   /\ pending[d.id] = 0 \/ (delivers /\ client.id = d.id)
            /\ client.pc = "deliver" /\ client.of = 0 => pending[client.id] = 0

DoodsInv ==
    DoodsTypeOK /\ ConnsInOrder /\ RequestsOnce /\ IDsCounted /\ PendingHeld /\ OneResponse

\* The response about request r has detections that are r's, or those of a frame
\* that came later over the connection of r.
Own(r) ==
    /\ r \in Requests /\ madeAt[r] # 0
    /\ detections[r].of \in Requests /\ madeAt[detections[r].of] = madeAt[r]
    /\ reader[madeAt[r]].of = r => detections[r].of = r

\* A response has its detections from the time it is read until the call has
\* parsed it; the array of a reader is that of responses of its connection.
DetectionsOwn ==
    ~mixed =>
        /\ \A q \in Requests : detections[q].conn # 0 => Own(q) /\ detections[q].conn = madeAt[q]
        /\ Connected /\ reader[conns].pc = "offer" /\ reader[conns].of # 0 => Own(reader[conns].of)
        /\ client.pc = "deliver" /\ client.of # 0 => Own(client.of)
        /\ \A s \in Senders : call[s] # NoCall => call[s].got = call[s].req /\ Own(call[s].req)

\* Between connections no answer is on its way.
NoWire == ~Connected => wire = {}

DetectionsInv == DetectionsOwn /\ NoWire

CallsTypeOK == call \in [Senders -> [req : Nat, got : Nat]]

LEMMA RequestNumbers ==
    /\ \A r \in Requests : r \in Nat /\ r # 0 /\ r >= 1 /\ r <= MaxRequests
    /\ \A r \in OptRequest : r \in Nat
    /\ \A c \in Conns : c \in Nat /\ c # 0 /\ c <= MaxConns
    /\ \A n \in Nat : n # 0 => (n \in Requests <=> n <= MaxRequests) /\ (n \in Conns <=> n <= MaxConns)
BY DoodsAssumption DEF Requests, Conns, OptRequest

LEMMA DoodsInitInv == DoodsInit => DoodsInv
<1> SUFFICES ASSUME DoodsInit PROVE DoodsInv
  OBVIOUS
<1>1. DoodsTypeOK
  BY DoodsAssumption DEF DoodsInit, DoodsStart, DoodsTypeOK, At, NoReader, Idle, OptRequest
<1>2. ConnsInOrder /\ RequestsOnce
  BY DoodsAssumption DEF DoodsInit, DoodsStart, ConnsInOrder, RequestsOnce, At, Idle, Requests, Conns
<1>3. ~Connected
  BY Zenon DEF DoodsInit, At, Connected
<1> QED
  BY ZenonT(30), <1>1, <1>2, <1>3 DEF DoodsInit, At, DoodsInv, IDsCounted, PendingHeld, OneResponse

\* A response is handed to the call it is about, and the client waits for nobody
\* who is not there, because of what is pending.
LEMMA InvImpliesReach == DoodsInv /\ DetectionsInv => ResponsesReachCalls
<1> SUFFICES ASSUME DoodsInv, DetectionsInv, ~mixed PROVE ResponsesReachCalls
  BY Zenon DEF ResponsesReachCalls
<1>1. ASSUME client.pc = "deliver", client.of # 0
      PROVE  pending[client.id] = client.of /\ receiver[client.of] # "none"
  BY Zenon, <1>1 DEF DoodsInv, OneResponse, PendingHeld, Connected, Awaits
<1>2. ASSUME client.pc = "cleanup", client.id # 0
      PROVE  receiver[pending[client.id]] # "none" \/ madeAt[pending[client.id]] < conns
  <2>1. client.id \in client.todo /\ client.id \in Requests /\ pending[client.id] # 0
    BY ZenonT(30), <1>2 DEF DoodsInv, DoodsTypeOK, ConnsInOrder
  <2>2. pending[client.id] \in Requests
    BY ZenonT(30), <2>1 DEF DoodsInv, DoodsTypeOK, OptRequest
  <2>3. madeAt[pending[client.id]] = conns \/ madeAt[pending[client.id]] < conns
    BY <2>2 DEF DoodsInv, DoodsTypeOK, ConnsInOrder, Conns
  <2> QED
    BY Zenon, <1>2, <2>1, <2>3 DEF DoodsInv, PendingHeld
<1>3. ASSUME NEW s \in Senders, call[s] # NoCall
      PROVE  HasOwn(s)
  BY Zenon, <1>3 DEF DetectionsInv, DetectionsOwn, Own, HasOwn
<1> QED
  BY Zenon, <1>1, <1>2, <1>3 DEF ResponsesReachCalls

-----------------------------------------------------------------------------

\* The calls: what is pending does not depend on whether the sender still waits.
LEMMA SenderKeeps ==
    ASSUME DoodsInv, NEW s \in Senders, SendRequest(s) \/ OfferCanceled(s) \/ WaitCanceled(s)
    PROVE  DoodsInv'
<1>1. UNCHANGED <<client, pending, count, conns, reader, wire, madeAt, mixed>>
  BY Zenon DEF SendRequest, OfferCanceled, WaitCanceled
<1>2. CASE SendRequest(s)
  <2>1. /\ sender[s] = Idle /\ requests' = requests + 1 /\ requests' \in Requests /\ receiver' = receiver
        /\ sender' = [sender EXCEPT ![s] = [pc |-> "offer", req |-> requests']]
    BY <1>2, RequestNumbers, DoodsAssumption DEF SendRequest, DoodsInv, DoodsTypeOK
  <2>2. requests' \in Nat /\ requests' <= MaxRequests
    BY Zenon, <2>1, RequestNumbers
  <2>3. DoodsTypeOK'
    BY Zenon, <1>1, <2>1, <2>2 DEF DoodsInv, DoodsTypeOK, OptRequest
  <2>4. RequestsOnce'
    <3>1. requests \in Nat /\ \A t \in Senders : sender[t].req \in Nat
      BY Zenon, RequestNumbers DEF DoodsInv, DoodsTypeOK
    <3>2. /\ sender'[s].pc = "offer" /\ sender'[s].req = requests + 1 /\ madeAt[requests + 1] = 0
          /\ \A t \in Senders : t # s => sender'[t] = sender[t]
      BY <2>1, <3>1 DEF DoodsInv, DoodsTypeOK, RequestsOnce
    <3>3. /\ \A t \in Senders : sender'[t].pc # "idle" => sender'[t].req \in Requests /\ sender'[t].req <= requests'
          /\ \A t, u \in Senders :
                 sender'[t].pc # "idle" /\ sender'[u].pc # "idle" /\ sender'[t].req = sender'[u].req => t = u
      BY <2>1, <3>1, <3>2 DEF DoodsInv, RequestsOnce
    <3>4. /\ \A t \in Senders : sender'[t].pc = "offer" => madeAt'[sender'[t].req] = 0
          /\ \A r \in Requests : r > requests' => madeAt'[r] = 0
      BY <1>1, <2>1, <3>1, <3>2, RequestNumbers DEF DoodsInv, RequestsOnce
    <3> QED
      BY Zenon, <1>1, <3>3, <3>4 DEF DoodsInv, RequestsOnce
  <2>5. Connected => Written' = Written
    <3>1. Connected => conns # 0 /\ madeAt[requests + 1] = 0 /\ requests \in Nat
      BY <2>1 DEF DoodsInv, DoodsTypeOK, ConnsInOrder, RequestsOnce, Connected
    <3> QED
      BY <1>1, <2>1, <3>1 DEF Written
  <2>6. IDsCounted' /\ PendingHeld'
    BY Zenon, <1>1, <2>1, <2>5 DEF DoodsInv, IDsCounted, PendingHeld, Connected
  <2> QED
    BY ZenonT(30), <1>1, <2>3, <2>4, <2>6 DEF DoodsInv, ConnsInOrder, OneResponse, Connected, Awaits
<1>3. CASE OfferCanceled(s) \/ WaitCanceled(s)
  <2>1. /\ sender' = [sender EXCEPT ![s] = Idle] /\ requests' = requests
        /\ receiver' = receiver \/ receiver' = [receiver EXCEPT ![sender[s].req] = "drain"]
    BY Zenon, <1>3 DEF OfferCanceled, WaitCanceled
  <2>2. DoodsTypeOK'
    BY Zenon, <1>1, <2>1 DEF DoodsInv, DoodsTypeOK, OptRequest, Idle
  <2>3. sender'[s].pc = "idle" /\ \A t \in Senders : t # s => sender'[t] = sender[t]
    BY Zenon, <2>1 DEF DoodsInv, DoodsTypeOK, Idle
  <2>4. RequestsOnce'
    BY <1>1, <2>1, <2>3 DEF DoodsInv, RequestsOnce
  <2>5. \A r \in Requests : receiver[r] # "none" => receiver'[r] # "none"
    BY Zenon, <2>1 DEF DoodsInv, DoodsTypeOK
  <2>6. \A i \in Requests : pending[i] # 0 => pending[i] \in Requests
    BY Zenon DEF DoodsInv, DoodsTypeOK, OptRequest
  <2>7. IDsCounted' /\ PendingHeld'
    BY Zenon, <1>1, <2>1, <2>5, <2>6 DEF DoodsInv, IDsCounted, PendingHeld, Connected, Written
  <2> QED
    BY Zenon, <1>1, <2>2, <2>4, <2>7 DEF DoodsInv, ConnsInOrder, OneResponse, Connected, Awaits
<1> QED
  BY Zenon, <1>2, <1>3

\* What a reader does after its value was taken.
LEMMA ResponseStays ==
    ASSUME UNCHANGED <<client, pending, count, conns, madeAt, mixed, wire>>, reader'[conns] = reader[conns],
           OneResponse
    PROVE  OneResponse'
<1> DEFINE d == reader[conns]
<1>1. d' = d
  OBVIOUS
<1> HIDE DEF d
<1> QED
  BY ZenonT(30), <1>1 DEF OneResponse, Awaits, Connected, d

LEMMA TakenReader ==
    ASSUME DoodsInv, NEW c \in Conns, Taken(c)
    PROVE  /\ reader' \in [Conns -> [pc : {"none", "read", "offer", "error"}, id : OptRequest, of : OptRequest]]
           /\ \A d \in Conns : d # c => reader'[d] = reader[d]
           /\ reader'[c] = IF reader[c].pc = "error" THEN NoReader ELSE [reader[c] EXCEPT !.pc = "read"]
BY DEF DoodsInv, DoodsTypeOK, Taken, NoReader, OptRequest

\* A connection ends: cleanup begins, with everything of this connection held.
LEMMA ConnectionEnds ==
    ASSUME DoodsInv, TakeError \/ ClientStops \/ \E s \in Senders : AcceptFails(s)
    PROVE  DoodsInv'
<1>1. /\ client.pc = "loop" /\ client'.pc = "cleanup" /\ client'.id = 0 /\ wire' = {}
      /\ client'.todo = {i \in Requests : pending[i] # 0}
      /\ client' \in [pc : {"cleanup"}, id : {0}, of : {0, 1}, conn : {0}, todo : SUBSET Requests]
      /\ UNCHANGED <<pending, conns, madeAt, requests, mixed>>
  BY ZenonT(30) DEF TakeError, ClientStops, AcceptFails, ToCleanup, At, clientOnly
<1>2. /\ reader' \in [Conns -> [pc : {"none", "read", "offer", "error"}, id : OptRequest, of : OptRequest]]
      /\ \A c \in Conns : c > conns => reader'[c] = NoReader
  <2>1. CASE reader' = reader
    BY Zenon, <2>1 DEF DoodsInv, DoodsTypeOK, ConnsInOrder
  <2>2. ASSUME NEW c \in Conns, reader[c].pc = "error", Taken(c)
        PROVE  <1>2
    BY ZenonT(30), <2>2, TakenReader DEF DoodsInv, ConnsInOrder
  <2> QED
    BY Zenon, <2>1, <2>2 DEF TakeError, ClientStops, AcceptFails
<1>3. \/ UNCHANGED <<count, sender, receiver>>
      \/ \E s \in Senders : /\ sender[s].pc = "offer" /\ count' = count + 1
                             /\ sender' = [sender EXCEPT ![s].pc = "wait"]
                             /\ receiver' = [receiver EXCEPT ![sender[s].req] = "sender"]
  BY Zenon DEF TakeError, ClientStops, AcceptFails
<1>4. DoodsTypeOK'
  <2>1. /\ count' \in Nat /\ receiver' \in [Requests -> {"none", "sender", "drain"}]
        /\ sender' \in [Senders -> [pc : {"idle", "offer", "wait"}, req : OptRequest]]
    BY <1>3 DEF DoodsInv, DoodsTypeOK
  <2>2. client' \in [pc : {"dial", "sleep", "loop", "deliver", "cleanup", "stopped"}, id : Nat, of : Nat, conn : Nat, todo : SUBSET Requests]
    BY <1>1
  <2> QED
    BY Zenon, <1>1, <1>2, <2>1, <2>2 DEF DoodsInv, DoodsTypeOK
<1>5. ConnsInOrder'
  BY <1>1, <1>2 DEF DoodsInv, ConnsInOrder
<1>6. RequestsOnce'
  <2>1. ASSUME NEW t \in Senders
        PROVE  /\ sender'[t].req = sender[t].req
               /\ sender'[t].pc # "idle" => sender[t].pc # "idle"
               /\ sender'[t].pc = "offer" => sender[t].pc = "offer"
    BY <1>3 DEF DoodsInv, DoodsTypeOK
  <2> QED
    BY <1>1, <2>1 DEF DoodsInv, RequestsOnce
<1>7. ~Connected'
  BY Zenon, <1>1 DEF Connected
<1>8. PendingHeld'
  <2>1. \A r \in Requests : receiver[r] # "none" => receiver'[r] # "none"
    BY ZenonT(30), <1>3 DEF DoodsInv, DoodsTypeOK
  <2>2. \A i \in Requests : pending[i] # 0 => pending[i] \in Requests
    BY Zenon DEF DoodsInv, DoodsTypeOK, OptRequest
  <2>3. Connected
    BY Zenon, <1>1 DEF Connected
  <2> QED
    BY Zenon, <1>1, <2>1, <2>2, <2>3 DEF DoodsInv, PendingHeld
<1> QED
  BY Zenon, <1>4, <1>5, <1>6, <1>7, <1>8 DEF DoodsInv, IDsCounted, OneResponse

\* A request is written: it gets the next ID, which no response has.
LEMMA AcceptKeeps ==
    ASSUME DoodsInv, NEW s \in Senders, Accept(s)
    PROVE  DoodsInv'
<1> DEFINE r == sender[s].req
           n == count + 1
<1>1. /\ client.pc = "loop" /\ sender[s].pc = "offer" /\ count' = n
      /\ sender' = [sender EXCEPT ![s].pc = "wait"]
      /\ receiver' = [receiver EXCEPT ![r] = "sender"]
      /\ pending' = [pending EXCEPT ![n] = r]
      /\ wire' = wire \union {<<n, r>>}
      /\ madeAt' = [madeAt EXCEPT ![r] = conns]
      /\ UNCHANGED <<client, conns, reader, requests, mixed>>
  BY Zenon DEF Accept, clientOnly
<1>2. /\ r \in Requests /\ r <= requests /\ r # 0 /\ r \in Nat /\ madeAt[r] = 0 /\ count \in Nat /\ requests \in Nat
      /\ conns \in Nat /\ conns # 0 /\ Connected
  BY Zenon, <1>1, RequestNumbers DEF DoodsInv, DoodsTypeOK, ConnsInOrder, RequestsOnce, Connected
<1>3. n = Cardinality(Written') /\ n \in Requests
  <2>1. r \notin Written /\ Written' = Written \union {r}
    <3>1. r \in 1..requests
      BY <1>2, RequestNumbers
    <3>2. \A q \in 1..requests : q \in Requests
      BY <1>2, DoodsAssumption DEF DoodsInv, DoodsTypeOK, Requests
    <3>3. \A q \in 1..requests : madeAt'[q] = IF q = r THEN conns ELSE madeAt[q]
      BY Zenon, <1>1, <3>2 DEF DoodsInv, DoodsTypeOK
    <3> QED
      BY <1>1, <1>2, <3>1, <3>3 DEF Written
  <2>2. IsFiniteSet(1..requests) /\ Cardinality(1..requests) = requests
    BY <1>2, FS_Interval
  <2>3. Written \subseteq 1..requests /\ Written' \subseteq 1..requests
    BY Zenon, <1>1 DEF Written
  <2>4. IsFiniteSet(Written) /\ Cardinality(Written') <= requests
    BY ZenonT(30), <2>2, <2>3, FS_Subset
  <2>5. Cardinality(Written') = Cardinality(Written) + 1
    BY ZenonT(30), <2>1, <2>4, FS_AddElement
  <2>6. count = Cardinality(Written)
    BY Zenon, <1>2 DEF DoodsInv, IDsCounted
  <2>7. n <= requests /\ requests <= MaxRequests /\ n \in Nat /\ n # 0
    BY <1>2, <2>4, <2>5, <2>6 DEF DoodsInv, DoodsTypeOK
  <2> QED
    BY <1>2, <2>5, <2>6, <2>7, RequestNumbers, DoodsAssumption
<1>4. /\ pending'[n] = r /\ madeAt'[r] = conns /\ receiver'[r] = "sender"
      /\ \A i \in Requests : i # n => pending'[i] = pending[i]
      /\ \A q \in Requests : q # r => madeAt'[q] = madeAt[q] /\ receiver'[q] = receiver[q]
      /\ \A i \in Requests : pending[i] # r
      /\ \A i \in Requests : pending[i] # 0 => pending[i] \in Requests
  BY <1>1, <1>2, <1>3 DEF DoodsInv, DoodsTypeOK, RequestsOnce, OptRequest
<1> HIDE DEF n
<1>5. DoodsTypeOK'
  <2>1. n \in Nat
    BY Zenon, <1>3, RequestNumbers
  <2> QED
    BY <1>1, <1>2, <1>3, <2>1 DEF DoodsInv, DoodsTypeOK, OptRequest
<1>6. ConnsInOrder'
  BY <1>1, <1>2, <1>4 DEF DoodsInv, ConnsInOrder
<1>7. RequestsOnce'
  <2>1. /\ \A t \in Senders : t # s => sender'[t] = sender[t]
        /\ sender'[s].pc = "wait" /\ sender'[s].req = r
    BY ZenonT(30), <1>1 DEF DoodsInv, DoodsTypeOK
  <2>2. \A t \in Senders : sender'[t].pc = "offer" => t # s /\ sender[t].req # r /\ sender[t].req \in Requests
    BY ZenonT(30), <1>1, <1>2, <2>1 DEF DoodsInv, RequestsOnce
  <2>3. /\ \A t \in Senders : sender'[t].pc # "idle" => sender'[t].req \in Requests /\ sender'[t].req <= requests'
        /\ \A t, u \in Senders :
               sender'[t].pc # "idle" /\ sender'[u].pc # "idle" /\ sender'[t].req = sender'[u].req => t = u
    BY <1>1, <1>2, <2>1 DEF DoodsInv, RequestsOnce
  <2>4. \A t \in Senders : sender'[t].pc = "offer" => madeAt'[sender'[t].req] = 0
    BY <1>1, <1>4, <2>1, <2>2 DEF DoodsInv, RequestsOnce
  <2>5. \A q \in Requests : q > requests' => madeAt'[q] = 0
    BY <1>1, <1>2, <1>4, RequestNumbers DEF DoodsInv, RequestsOnce
  <2>6. /\ \A i \in Requests : pending'[i] # 0 => madeAt'[pending'[i]] # 0
        /\ \A i, j \in Requests : pending'[i] # 0 /\ pending'[i] = pending'[j] => i = j
    BY <1>2, <1>4 DEF DoodsInv, RequestsOnce
  <2> QED
    BY Zenon, <2>3, <2>4, <2>5, <2>6 DEF RequestsOnce
<1>8. IDsCounted'
  BY ZenonT(30), <1>1, <1>3 DEF IDsCounted
<1>9. PendingHeld'
  BY <1>1, <1>2, <1>4 DEF DoodsInv, PendingHeld, Connected
<1>10. OneResponse'
  <2>1. n \in Nat /\ n > count /\ \A i \in Requests : i <= count => i # n /\ i <= n
    BY <1>2, RequestNumbers DEF n
  <2>2. ASSUME NEW i, NEW q, Awaits(i, q)
        PROVE  Awaits(i, q)' /\ i # n
    BY <1>1, <1>2, <1>4, <2>1, <2>2 DEF Awaits
  <2>3. \A i, q : i = n /\ q = r => Awaits(i, q)'
    BY <1>1, <1>2, <1>3, <1>4, <2>1 DEF Awaits
  <2> DEFINE d == reader[conns]
             offers == d.pc = "offer" /\ d.of # 0
  <2> SUFFICES ASSUME ~mixed
               PROVE  /\ \A w \in wire' : Awaits(w[1], w[2])'
                      /\ offers => Awaits(d.id, d.of)' /\ <<d.id, d.of>> \notin wire'
                      /\ d.id # 0 /\ ~offers => d.id <= count' /\ pending'[d.id] = 0
    BY Zenon, <1>1 DEF OneResponse, Connected
  <2>4. \A w \in wire' : Awaits(w[1], w[2])'
    <3> SUFFICES ASSUME NEW w \in wire' PROVE Awaits(w[1], w[2])'
      OBVIOUS
    <3>1. CASE w \in wire
      BY Zenon, <1>2, <2>2, <3>1 DEF DoodsInv, OneResponse
    <3>2. CASE w = <<n, r>>
      BY ZenonT(30), <2>3, <3>2
    <3> QED
      BY Zenon, <1>1, <3>1, <3>2
  <2>5. offers => Awaits(d.id, d.of)' /\ <<d.id, d.of>> \notin wire'
    BY ZenonT(30), <1>1, <1>2, <2>2 DEF DoodsInv, OneResponse
  <2>6. d.id # 0 /\ ~offers => d.id <= count' /\ pending'[d.id] = 0
    <3>1. conns \in Conns
      BY ZenonT(30), <1>2, RequestNumbers, DoodsAssumption DEF DoodsInv, DoodsTypeOK
    <3>2. d.id # 0 => d.id \in Requests
      BY Zenon, <3>1 DEF DoodsInv, DoodsTypeOK, OptRequest
    <3> QED
      BY ZenonT(30), <1>1, <1>2, <1>4, <2>1, <3>2 DEF DoodsInv, OneResponse
  <2> QED
    BY Zenon, <2>4, <2>5, <2>6
<1> QED
  BY Zenon, <1>5, <1>6, <1>7, <1>8, <1>9, <1>10 DEF DoodsInv

\* Between connections nothing is expected; a new one begins with nothing.
LEMMA DialKeeps ==
    ASSUME DoodsInv, Dial \/ RetrySleep
    PROVE  DoodsInv'
<1>1. UNCHANGED <<pending, sender, receiver, madeAt, requests, mixed>>
  BY Zenon DEF Dial, RetrySleep, clientOnly
<1>2. RequestsOnce'
  BY ZenonT(30), <1>1 DEF DoodsInv, RequestsOnce
<1>3. CASE client'.pc \in {"sleep", "dial", "stopped"} /\ UNCHANGED <<count, conns, reader, wire>>
  <2>1. \E pc \in {"sleep", "dial", "stopped"} : client' = At(pc)
    BY <1>3 DEF Dial, RetrySleep, At
  <2>2. DoodsTypeOK' /\ ConnsInOrder'
    BY <1>1, <1>3, <2>1 DEF DoodsInv, DoodsTypeOK, ConnsInOrder, At
  <2>3. ~Connected' /\ client'.pc # "cleanup"
    BY ZenonT(30), <1>3 DEF Connected
  <2> QED
    BY ZenonT(30), <1>2, <2>2, <2>3 DEF DoodsInv, IDsCounted, PendingHeld, OneResponse
<1>4. CASE /\ client' = At("loop") /\ conns < MaxConns /\ conns' = conns + 1 /\ count' = 0 /\ wire' = {}
           /\ reader' = [reader EXCEPT ![conns'] = [NoReader EXCEPT !.pc = "read"]]
  <2>1. conns \in Nat /\ conns' \in Nat /\ conns' \in Conns /\ conns' <= MaxConns /\ conns' > conns
    <3>1. conns \in Nat /\ conns < MaxConns /\ conns' = conns + 1
      BY Zenon, <1>4 DEF DoodsInv, DoodsTypeOK
    <3> QED
      BY <3>1, DoodsAssumption DEF Conns
  <2>2. \A r \in Requests : madeAt'[r] \in Nat /\ madeAt'[r] < conns'
    BY <1>1, <1>4, <2>1 DEF DoodsInv, DoodsTypeOK, ConnsInOrder
  <2>3. /\ reader' \in [Conns -> [pc : {"none", "read", "offer", "error"}, id : OptRequest, of : OptRequest]]
        /\ reader'[conns'] = [pc |-> "read", id |-> 0, of |-> 0]
        /\ \A c \in Conns : c # conns' => reader'[c] = reader[c]
    BY ZenonT(30), <1>4, <2>1 DEF DoodsInv, DoodsTypeOK, NoReader, OptRequest
  <2>4. DoodsTypeOK'
    BY ZenonT(30), <1>1, <1>4, <2>1, <2>3 DEF DoodsInv, DoodsTypeOK, At
  <2>5. \A c \in Conns : c > conns' => reader'[c] = NoReader
    BY <2>1, <2>3, RequestNumbers DEF DoodsInv, ConnsInOrder
  <2>6. ConnsInOrder'
    BY <1>4, <2>1, <2>2, <2>5 DEF ConnsInOrder, At
  <2>7. Written' = {}
    <3>1. \A r \in 1..requests : r \in Requests
      BY DoodsAssumption DEF DoodsInv, DoodsTypeOK, Requests
    <3> QED
      BY <1>1, <2>1, <2>2, <3>1 DEF Written
  <2>8. IDsCounted'
    BY Zenon, <1>4, <2>7, FS_EmptySet DEF IDsCounted
  <2>9. \A i \in Requests : pending'[i] # 0 => pending'[i] \in Requests
    BY ZenonT(30), <2>4 DEF DoodsTypeOK, OptRequest
  <2>10. PendingHeld'
    BY <2>1, <2>2, <2>9 DEF PendingHeld
  <2>11. OneResponse'
    BY <1>4, <2>3 DEF OneResponse, At
  <2> QED
    BY ZenonT(30), <1>2, <2>4, <2>6, <2>8, <2>10, <2>11 DEF DoodsInv
<1> QED
  BY <1>3, <1>4 DEF Dial, RetrySleep, At

\* A response goes from the reader to the client.
LEMMA TakeKeeps ==
    ASSUME DoodsInv, TakeResponse
    PROVE  DoodsInv'
<1>1. PICK c \in Conns :
         /\ reader[c].pc = "offer" /\ Taken(c)
         /\ client' = IF reader[c].id = 0 THEN client
                      ELSE [pc |-> "deliver", id |-> reader[c].id, of |-> reader[c].of, conn |-> c, todo |-> {}]
  BY Zenon DEF TakeResponse
<1>2. /\ client.pc = "loop" /\ Connected /\ Connected'
      /\ mixed' = (mixed \/ (client'.pc = "deliver" /\ client'.conn < conns))
      /\ UNCHANGED <<pending, count, conns, wire, sender, receiver, madeAt, requests>>
  BY ZenonT(30), <1>1 DEF TakeResponse, Connected
<1>3. /\ reader' \in [Conns -> [pc : {"none", "read", "offer", "error"}, id : OptRequest, of : OptRequest]]
      /\ \A d \in Conns : d # c => reader'[d] = reader[d]
      /\ reader'[c].pc = "read" /\ reader'[c].id = reader[c].id
      /\ reader[c].id \in OptRequest /\ reader[c].of \in OptRequest
  <2>1. /\ reader' \in [Conns -> [pc : {"none", "read", "offer", "error"}, id : OptRequest, of : OptRequest]]
        /\ \A d \in Conns : d # c => reader'[d] = reader[d]
        /\ reader'[c] = [reader[c] EXCEPT !.pc = "read"]
    BY ZenonT(30), <1>1, TakenReader
  <2>2. reader[c] \in [pc : {"none", "read", "offer", "error"}, id : OptRequest, of : OptRequest]
    BY Zenon DEF DoodsInv, DoodsTypeOK
  <2> QED
    BY ZenonT(30), <2>1, <2>2
<1>4. c \in Nat /\ c # 0 /\ conns \in Nat /\ c <= conns /\ conns \in Conns
  <2>1. c <= conns
    BY <1>1, RequestNumbers DEF DoodsInv, DoodsTypeOK, ConnsInOrder, NoReader
  <2> QED
    BY <2>1, RequestNumbers, DoodsAssumption DEF DoodsInv, DoodsTypeOK
<1>5. DoodsTypeOK'
  <2>1. client' \in [pc : {"dial", "sleep", "loop", "deliver", "cleanup", "stopped"}, id : Nat, of : Nat, conn : Nat, todo : SUBSET Requests]
    BY ZenonT(30), <1>1, <1>3, <1>4, RequestNumbers DEF DoodsInv, DoodsTypeOK
  <2> QED
    BY ZenonT(30), <1>2, <1>3, <2>1 DEF DoodsInv, DoodsTypeOK
<1>6. ConnsInOrder'
  <2>1. client'.pc = "deliver" => client'.id \in Requests /\ client'.conn = c
    BY Zenon, <1>1, <1>2, <1>3 DEF OptRequest
  <2>2. client'.pc # "cleanup" /\ conns' # 0
    BY <1>1, <1>2, <1>4
  <2>3. ConnsInOrder /\ conns' = conns /\ madeAt' = madeAt
    BY Zenon, <1>2 DEF DoodsInv
  <2>4. \A d \in Conns : d > conns' => reader'[d] = NoReader
    BY <1>3, <1>4, <2>3 DEF ConnsInOrder
  <2> QED
    BY Zenon, <1>4, <2>1, <2>2, <2>3, <2>4 DEF ConnsInOrder
<1>7. RequestsOnce' /\ IDsCounted' /\ PendingHeld'
  BY ZenonT(30), <1>2 DEF DoodsInv, RequestsOnce, IDsCounted, PendingHeld, Written
<1>8. OneResponse'
  <2> SUFFICES ASSUME ~mixed' PROVE OneResponse'
    BY Zenon DEF OneResponse
  <2>1. \A i, q : Awaits(i, q)' <=> Awaits(i, q)
    BY Zenon, <1>2 DEF Awaits
  <2>2. CASE reader[c].id = 0
    <3>1. client' = client /\ ~mixed
      BY ZenonT(30), <1>1, <1>2, <2>2
    <3>2. reader'[conns].id = reader[conns].id /\ (reader'[conns].pc = "offer" => reader'[conns] = reader[conns])
      BY ZenonT(30), <1>3, <1>4
    <3>3. c = conns => ~(reader[conns].pc = "offer" /\ reader[conns].of # 0)
      BY ZenonT(30), <1>2, <2>2, <3>1, RequestNumbers DEF DoodsInv, OneResponse, Awaits
    <3>4. c # conns => reader'[conns] = reader[conns]
      BY ZenonT(30), <1>3, <1>4
    <3> QED
      BY ZenonT(30), <1>2, <2>1, <3>1, <3>2, <3>3, <3>4 DEF DoodsInv, OneResponse
  <2>3. CASE reader[c].id # 0
    <3>1. /\ client' = [pc |-> "deliver", id |-> reader[c].id, of |-> reader[c].of, conn |-> c, todo |-> {}]
          /\ ~mixed /\ c = conns
      <4>1. client' = [pc |-> "deliver", id |-> reader[c].id, of |-> reader[c].of, conn |-> c, todo |-> {}]
        BY ZenonT(30), <1>1, <2>3
      <4>2. client'.pc = "deliver" /\ client'.conn = c
        BY ZenonT(30), <4>1
      <4>3. ~mixed /\ ~(c < conns)
        BY ZenonT(30), <1>2, <4>2
      <4> QED
        BY <1>4, <4>1, <4>3
    <3>2. reader'[conns].pc = "read" /\ reader'[conns].id = reader[conns].id
      BY ZenonT(30), <1>3, <3>1
    <3>3. /\ \A w \in wire : Awaits(w[1], w[2])
          /\ reader[conns].of # 0 => /\ Awaits(reader[conns].id, reader[conns].of)
                                     /\ <<reader[conns].id, reader[conns].of>> \notin wire
          /\ reader[conns].of = 0 => reader[conns].id <= count /\ pending[reader[conns].id] = 0
      BY ZenonT(30), <1>1, <1>2, <2>3, <3>1 DEF DoodsInv, OneResponse
    <3>4. Awaits(reader[conns].id, reader[conns].of) => reader[conns].id <= count
      BY Zenon DEF Awaits
    <3> QED
      BY ZenonT(30), <1>2, <2>1, <3>1, <3>2, <3>3, <3>4 DEF OneResponse, Awaits
  <2> QED
    BY Zenon, <2>2, <2>3
<1> QED
  BY Zenon, <1>5, <1>6, <1>7, <1>8 DEF DoodsInv

\* Who receives is answered, and waits no more.
LEMMA ReceivedBy ==
    ASSUME DoodsInv, NEW r \in Requests, Received(r)
    PROVE  /\ sender' \in [Senders -> [pc : {"idle", "offer", "wait"}, req : OptRequest]]
           /\ receiver' \in [Requests -> {"none", "sender", "drain"}]
           /\ \A q \in Requests : q # r => receiver'[q] = receiver[q]
           /\ \A t \in Senders : sender'[t].pc = "idle" \/ sender'[t] = sender[t]
BY Zenon DEF DoodsInv, DoodsTypeOK, Received, Idle, OptRequest

LEMMA RequestsStayOnce ==
    ASSUME RequestsOnce, UNCHANGED <<requests, madeAt>>,
           \A t \in Senders : sender'[t].pc = "idle" \/ sender'[t] = sender[t],
           \A i \in Requests : pending'[i] = 0 \/ pending'[i] = pending[i]
    PROVE  RequestsOnce'
BY DEF RequestsOnce

\* A response is delivered: its request is pending no more.
LEMMA DeliverKeeps ==
    ASSUME DoodsInv, Deliver
    PROVE  DoodsInv'
<1> DEFINE k == client.id
           r == pending[k]
<1>1. /\ client.pc = "deliver" /\ r # 0 /\ Received(r) /\ client' = At("loop")
      /\ pending' = [pending EXCEPT ![k] = 0]
      /\ UNCHANGED <<count, conns, reader, wire, madeAt, requests, mixed>>
  BY Zenon DEF Deliver, clientOnly
<1>2. k \in Requests /\ r \in Requests
  BY ZenonT(30), <1>1 DEF DoodsInv, DoodsTypeOK, ConnsInOrder, OptRequest
<1>3. /\ pending'[k] = 0 /\ \A i \in Requests : i # k => pending'[i] = pending[i]
      /\ \A i \in Requests : i # k => pending[i] # r
      /\ \A i \in Requests : pending'[i] # 0 => i # k /\ pending'[i] = pending[i] /\ pending[i] \in Requests
  BY <1>1, <1>2 DEF DoodsInv, DoodsTypeOK, RequestsOnce, OptRequest
<1>4. /\ sender' \in [Senders -> [pc : {"idle", "offer", "wait"}, req : OptRequest]]
      /\ receiver' \in [Requests -> {"none", "sender", "drain"}]
      /\ \A q \in Requests : q # r => receiver'[q] = receiver[q]
      /\ \A t \in Senders : sender'[t].pc = "idle" \/ sender'[t] = sender[t]
  BY Zenon, <1>1, <1>2, ReceivedBy
<1> HIDE DEF k, r
<1>5. DoodsTypeOK'
  BY ZenonT(30), <1>1, <1>4 DEF DoodsInv, DoodsTypeOK, At, OptRequest
<1>6. ConnsInOrder'
  BY Zenon, <1>1 DEF DoodsInv, ConnsInOrder, At
<1>7. RequestsOnce'
  BY Zenon, <1>1, <1>3, <1>4, RequestsStayOnce DEF DoodsInv
<1>8. Connected /\ Connected' /\ client'.pc = "loop"
  BY ZenonT(30), <1>1 DEF Connected, At
<1>9. IDsCounted'
  BY ZenonT(30), <1>1, <1>8 DEF DoodsInv, IDsCounted, Written
<1>10. PendingHeld'
  BY <1>1, <1>3, <1>4, <1>8 DEF DoodsInv, PendingHeld
<1>11. OneResponse'
  <2> SUFFICES ASSUME ~mixed PROVE OneResponse'
    BY Zenon, <1>1 DEF OneResponse
  <2>1. client.of # 0 /\ Awaits(k, client.of) /\ <<k, client.of>> \notin wire
    BY ZenonT(30), <1>1, <1>8 DEF DoodsInv, OneResponse, k, r
  <2>2. ASSUME NEW i, NEW q, Awaits(i, q), i # k
        PROVE  Awaits(i, q)'
    BY Zenon, <1>1, <1>3, <2>2 DEF Awaits
  <2>3. ASSUME NEW w \in wire
        PROVE  Awaits(w[1], w[2]) /\ w[1] # k
    <3>1. Awaits(w[1], w[2]) /\ w = <<w[1], w[2]>>
      BY <1>8 DEF DoodsInv, DoodsTypeOK, OneResponse
    <3> QED
      BY ZenonT(30), <2>1, <3>1 DEF Awaits
  <2> DEFINE d == reader[conns]
             offers == d.pc = "offer" /\ d.of # 0
  <2>4. offers => Awaits(d.id, d.of) /\ d.id # k /\ <<d.id, d.of>> \notin wire
    BY Zenon, <1>1, <1>8, <2>1 DEF DoodsInv, OneResponse, k
  <2>5. d.id # 0 /\ ~offers => d.id <= count /\ pending'[d.id] = 0
    <3>1. conns \in Conns
      BY Zenon, <1>1, RequestNumbers, DoodsAssumption DEF DoodsInv, DoodsTypeOK, ConnsInOrder
    <3>2. d.id # 0 => d.id \in Requests
      BY Zenon, <3>1 DEF DoodsInv, DoodsTypeOK, OptRequest
    <3> QED
      BY Zenon, <1>3, <1>8, <3>2 DEF DoodsInv, OneResponse, k
  <2>6. \A w \in wire' : Awaits(w[1], w[2])'
    BY Zenon, <1>1, <2>2, <2>3
  <2>7. offers => Awaits(d.id, d.of)'
    <3> HIDE DEF d
    <3>1. d' = d
      BY ZenonT(30), <1>1 DEF d
    <3> QED
      BY ZenonT(30), <2>2, <2>4, <3>1
  <2> QED
    BY Zenon, <1>1, <1>8, <2>4, <2>5, <2>6, <2>7 DEF OneResponse
<1> QED
  BY Zenon, <1>5, <1>6, <1>7, <1>9, <1>10, <1>11 DEF DoodsInv

\* Cleanup answers the pending requests one by one, each once.
LEMMA CleanupKeeps ==
    ASSUME DoodsInv, CleanupNext \/ Cleanup \/ CleanupDone
    PROVE  DoodsInv'
<1>1. client.pc = "cleanup" /\ UNCHANGED <<pending, count, conns, wire, madeAt, requests, mixed>>
  BY Zenon DEF CleanupNext, Cleanup, CleanupDone, clientOnly
<1>2. \A i \in Requests : pending[i] # 0 => pending[i] \in Requests
  BY Zenon DEF DoodsInv, DoodsTypeOK, OptRequest
<1>3. CASE Cleanup
  <2>1. /\ client' = [client EXCEPT !.id = 0, !.todo = @ \ {client.id}]
        /\ client'.pc = "cleanup" /\ client'.id = 0 /\ client'.todo = client.todo \ {client.id}
        /\ client' \in [pc : {"dial", "sleep", "loop", "deliver", "cleanup", "stopped"}, id : Nat, of : Nat, conn : Nat, todo : SUBSET Requests]
        /\ reader' = reader
    BY ZenonT(30), <1>1, <1>3 DEF Cleanup, DoodsInv, DoodsTypeOK
  <2>2. client.id \in client.todo /\ client.id \in Requests /\ pending[client.id] \in Requests
    BY ZenonT(30), <1>1, <1>2, <1>3 DEF Cleanup, DoodsInv, DoodsTypeOK, ConnsInOrder
  <2>3. /\ sender' \in [Senders -> [pc : {"idle", "offer", "wait"}, req : OptRequest]]
        /\ receiver' \in [Requests -> {"none", "sender", "drain"}]
        /\ \A q \in Requests : q # pending[client.id] => receiver'[q] = receiver[q]
        /\ \A t \in Senders : sender'[t].pc = "idle" \/ sender'[t] = sender[t]
    BY Zenon, <1>3, <2>2, ReceivedBy DEF Cleanup
  <2>4. DoodsTypeOK' /\ ~Connected'
    BY Zenon, <1>1, <2>1, <2>3 DEF DoodsInv, DoodsTypeOK, Connected
  <2>5. ConnsInOrder'
    BY <1>1, <2>1 DEF DoodsInv, ConnsInOrder
  <2>6. RequestsOnce'
    BY Zenon, <1>1, <2>3, RequestsStayOnce DEF DoodsInv
  <2>7. PendingHeld'
    <3> SUFFICES ASSUME NEW i \in Requests, pending[i] # 0, madeAt[pending[i]] = conns, i \in client.todo, i # client.id
                 PROVE  receiver'[pending[i]] # "none"
      BY Zenon, <1>1, <2>1, <2>4 DEF PendingHeld
    <3>1. pending[i] # pending[client.id] /\ pending[i] \in Requests
      BY ZenonT(30), <1>2, <2>2 DEF DoodsInv, RequestsOnce
    <3> QED
      BY Zenon, <1>1, <2>3, <3>1 DEF DoodsInv, PendingHeld
  <2> QED
    BY ZenonT(30), <2>4, <2>5, <2>6, <2>7 DEF DoodsInv, IDsCounted, OneResponse
<1>4. CASE CleanupDone
  <2>1. client' = At("sleep") /\ UNCHANGED <<sender, receiver>>
    BY Zenon, <1>4 DEF CleanupDone
  <2>2. /\ reader' \in [Conns -> [pc : {"none", "read", "offer", "error"}, id : OptRequest, of : OptRequest]]
        /\ \A c \in Conns : c > conns => reader'[c] = NoReader
    <3>1. CASE reader' = reader
      BY Zenon, <3>1 DEF DoodsInv, DoodsTypeOK, ConnsInOrder
    <3>2. ASSUME NEW c \in Conns, reader[c].pc \in {"offer", "error"}, Taken(c)
          PROVE  /\ reader' \in [Conns -> [pc : {"none", "read", "offer", "error"}, id : OptRequest, of : OptRequest]]
                 /\ \A d \in Conns : d > conns => reader'[d] = NoReader
      <4>1. /\ reader' \in [Conns -> [pc : {"none", "read", "offer", "error"}, id : OptRequest, of : OptRequest]]
            /\ \A d \in Conns : d # c => reader'[d] = reader[d]
        BY ZenonT(30), <3>2, TakenReader
      <4>2. \A d \in Conns : d > conns => reader[d] = NoReader
        BY Zenon DEF DoodsInv, ConnsInOrder
      <4>3. ~(c > conns)
        BY <3>2, <4>2 DEF NoReader
      <4> QED
        BY ZenonT(30), <4>1, <4>2, <4>3
    <3> QED
      BY Zenon, <1>4, <3>1, <3>2 DEF CleanupDone
  <2>3. DoodsTypeOK' /\ ConnsInOrder'
    BY ZenonT(30), <1>1, <2>1, <2>2 DEF DoodsInv, DoodsTypeOK, ConnsInOrder, At
  <2>4. RequestsOnce' /\ ~Connected' /\ client'.pc # "cleanup"
    BY ZenonT(30), <1>1, <2>1 DEF DoodsInv, RequestsOnce, Connected, At
  <2> QED
    BY ZenonT(30), <2>3, <2>4 DEF DoodsInv, IDsCounted, PendingHeld, OneResponse
<1>5. CASE CleanupNext
  <2>1. /\ client'.pc = "cleanup" /\ client'.todo = client.todo /\ client'.id \in client.todo
        /\ client' \in [pc : {"dial", "sleep", "loop", "deliver", "cleanup", "stopped"}, id : Nat, of : Nat, conn : Nat, todo : SUBSET Requests]
        /\ UNCHANGED <<reader, sender, receiver>>
    BY <1>1, <1>5, RequestNumbers DEF CleanupNext, DoodsInv, DoodsTypeOK
  <2>2. DoodsTypeOK' /\ ~Connected'
    BY Zenon, <1>1, <2>1 DEF DoodsInv, DoodsTypeOK, Connected
  <2>3. ConnsInOrder' /\ RequestsOnce'
    BY <1>1, <2>1 DEF DoodsInv, ConnsInOrder, RequestsOnce
  <2>4. PendingHeld'
    BY Zenon, <1>1, <2>1, <2>2 DEF DoodsInv, PendingHeld
  <2> QED
    BY ZenonT(30), <2>2, <2>3, <2>4 DEF DoodsInv, IDsCounted, OneResponse
<1> QED
  BY ZenonT(30), <1>3, <1>4, <1>5

\* The server answers a request that it has, and complains; a read fails.
LEMMA ServerKeeps ==
    ASSUME DoodsInv, ServerAnswers \/ ServerComplains \/ \E c \in Conns : ReadFails(c)
    PROVE  DoodsInv'
<1>1. UNCHANGED <<client, pending, count, conns, sender, receiver, requests, madeAt, mixed>>
  BY Zenon DEF ServerAnswers, ServerComplains, ReadFails
<1>2. \A i, q : Awaits(i, q)' <=> Awaits(i, q)
  BY ZenonT(30), <1>1 DEF Awaits
<1>3. RequestsOnce' /\ IDsCounted' /\ PendingHeld' /\ (Connected' <=> Connected)
  BY ZenonT(30), <1>1 DEF DoodsInv, RequestsOnce, IDsCounted, PendingHeld, Written, Connected
<1>4. \A c \in Conns : /\ reader[c] \in [pc : {"none", "read", "offer", "error"}, id : OptRequest, of : OptRequest]
                       /\ c > conns => reader[c] = NoReader
  BY Zenon DEF DoodsInv, DoodsTypeOK, ConnsInOrder
<1>5. ASSUME wire' \subseteq wire, NEW c \in Conns, reader[c].pc = "read",
             NEW new \in [pc : {"none", "read", "offer", "error"}, id : OptRequest, of : OptRequest],
             reader' = [reader EXCEPT ![c] = new]
      PROVE  DoodsTypeOK' /\ ConnsInOrder'
  <2>1. DoodsTypeOK'
    BY ZenonT(30), <1>1, <1>5 DEF DoodsInv, DoodsTypeOK
  <2>2. ~(c > conns)
    BY <1>4, <1>5 DEF NoReader
  <2>3. \A d \in Conns : d > conns => reader'[d] = NoReader
    BY ZenonT(30), <1>4, <1>5, <2>2 DEF DoodsInv, DoodsTypeOK
  <2> QED
    BY ZenonT(30), <1>1, <2>1, <2>3 DEF DoodsInv, ConnsInOrder
<1>6. CASE ServerAnswers
  <2>1. conns \in Conns /\ reader[conns].pc = "read"
    BY <1>6, RequestNumbers, DoodsAssumption DEF ServerAnswers, DoodsInv, DoodsTypeOK
  <2>2. PICK w \in wire : /\ reader' = [reader EXCEPT ![conns] = [pc |-> "offer", id |-> w[1], of |-> w[2]]]
                          /\ wire' = wire \ {w}
    BY ZenonT(30), <1>6 DEF ServerAnswers
  <2>3. w \in Requests \X Requests /\ w = <<w[1], w[2]>>
    BY DEF DoodsInv, DoodsTypeOK
  <2>4. [pc |-> "offer", id |-> w[1], of |-> w[2]] \in
            [pc : {"none", "read", "offer", "error"}, id : OptRequest, of : OptRequest]
    BY Zenon, <2>3 DEF OptRequest
  <2>5. DoodsTypeOK' /\ ConnsInOrder'
    BY ZenonT(30), <1>5, <2>1, <2>2, <2>4
  <2>6. reader'[conns] = [pc |-> "offer", id |-> w[1], of |-> w[2]]
    BY Zenon, <2>1, <2>2 DEF DoodsInv, DoodsTypeOK
  <2>7. OneResponse'
    <3> SUFFICES ASSUME ~mixed, Connected PROVE OneResponse'
      BY ZenonT(30), <1>1, <1>3 DEF OneResponse
    <3>1. /\ client.pc = "deliver" => client.conn = conns
          /\ \A v \in wire : Awaits(v[1], v[2])
          /\ client.pc = "deliver" /\ client.of # 0 => Awaits(client.id, client.of) /\ <<client.id, client.of>> \notin wire
          /\ client.pc = "deliver" /\ client.of = 0 => pending[client.id] = 0
      BY ZenonT(30) DEF DoodsInv, OneResponse
    <3>2. w[2] # 0 /\ <<w[1], w[2]>> \notin wire'
      BY ZenonT(30), <2>2, <2>3, <3>1 DEF Awaits
    <3>3. client.pc = "deliver" /\ client.of # 0 => w[1] # client.id
      BY ZenonT(30), <2>3, <3>1 DEF Awaits
    <3> QED
      BY <1>1, <1>2, <2>2, <2>6, <3>1, <3>2, <3>3 DEF OneResponse
  <2> QED
    BY Zenon, <1>3, <2>5, <2>7 DEF DoodsInv
<1>7. CASE ServerComplains
  <2>1. conns \in Conns /\ reader[conns].pc = "read" /\ wire' = wire
    BY <1>7, RequestNumbers, DoodsAssumption DEF ServerComplains, DoodsInv, DoodsTypeOK
  <2> DEFINE new == [reader[conns] EXCEPT !.pc = "offer", !.of = 0]
  <2>2. reader' = [reader EXCEPT ![conns] = new]
    BY ZenonT(30), <1>7, <2>1 DEF ServerComplains
  <2>3. new \in [pc : {"none", "read", "offer", "error"}, id : OptRequest, of : OptRequest]
    BY ZenonT(30), <1>4, <2>1 DEF OptRequest
  <2>4. new.pc = "offer" /\ new.of = 0 /\ new.id = reader[conns].id
    BY Zenon, <1>4, <2>1
  <2> HIDE DEF new
  <2>5. DoodsTypeOK' /\ ConnsInOrder'
    BY ZenonT(30), <1>5, <2>1, <2>2, <2>3
  <2>6. reader'[conns] = new
    BY Zenon, <2>1, <2>2 DEF DoodsInv, DoodsTypeOK
  <2>7. OneResponse'
    BY ZenonT(30), <1>1, <1>2, <1>3, <2>1, <2>4, <2>6 DEF DoodsInv, OneResponse
  <2> QED
    BY ZenonT(30), <1>3, <2>5, <2>7 DEF DoodsInv
<1>8. CASE \E c \in Conns : ReadFails(c)
  <2>1. PICK c \in Conns : ReadFails(c)
    BY ZenonT(30), <1>8
  <2> DEFINE new == [reader[c] EXCEPT !.pc = "error"]
  <2>2. reader[c].pc = "read" /\ reader' = [reader EXCEPT ![c] = new] /\ wire' = wire
    BY ZenonT(30), <2>1 DEF ReadFails
  <2>3. new \in [pc : {"none", "read", "offer", "error"}, id : OptRequest, of : OptRequest]
    BY Zenon, <1>4
  <2>4. new.pc = "error" /\ new.id = reader[c].id
    BY ZenonT(30), <1>4
  <2> HIDE DEF new
  <2>5. DoodsTypeOK' /\ ConnsInOrder'
    BY ZenonT(30), <1>5, <2>2, <2>3
  <2>6. reader'[c] = new /\ \A d \in Conns : d # c => reader'[d] = reader[d]
    BY ZenonT(30), <2>2 DEF DoodsInv, DoodsTypeOK
  <2>7. Connected => conns \in Conns
    BY ZenonT(30), RequestNumbers, DoodsAssumption DEF DoodsInv, DoodsTypeOK, ConnsInOrder, Connected
  <2>8. OneResponse'
    <3> SUFFICES ASSUME ~mixed, Connected PROVE OneResponse'
      BY ZenonT(30), <1>1, <1>3 DEF OneResponse
    <3>1. CASE c = conns
      BY ZenonT(30), <1>1, <1>2, <1>3, <2>2, <2>4, <2>6, <3>1 DEF DoodsInv, OneResponse
    <3>2. CASE c # conns
      <4>1. reader'[conns'] = reader[conns]
        BY ZenonT(30), <1>1, <2>6, <2>7, <3>2
      <4> QED
        BY ZenonT(30), <1>1, <2>2, <4>1, ResponseStays DEF DoodsInv
    <3> QED
      BY ZenonT(30), <3>1, <3>2
  <2> QED
    BY ZenonT(30), <1>3, <2>5, <2>8 DEF DoodsInv
<1> QED
  BY ZenonT(30), <1>6, <1>7, <1>8

LEMMA DoodsStep ==
    ASSUME DoodsInv, [DoodsNext]_doodsVars
    PROVE  DoodsInv'
<1>1. CASE UNCHANGED doodsVars \/ AppStops \/ \E s \in Senders : Parsed(s)
  <2>1. UNCHANGED <<client, pending, count, conns, reader, wire, sender, receiver, madeAt, requests, mixed>>
    BY ZenonT(30), <1>1 DEF doodsVars, AppStops, Parsed
  <2>2. DoodsTypeOK' /\ ConnsInOrder' /\ RequestsOnce'
    BY ZenonT(30), <2>1 DEF DoodsInv, DoodsTypeOK, ConnsInOrder, RequestsOnce
  <2>3. IDsCounted' /\ PendingHeld'
    BY Zenon, <2>1 DEF DoodsInv, IDsCounted, PendingHeld, Written, Connected
  <2> QED
    BY ZenonT(30), <2>1, <2>2, <2>3, ResponseStays DEF DoodsInv
<1>2. CASE \E s \in Senders : SendRequest(s) \/ OfferCanceled(s) \/ WaitCanceled(s)
  BY ZenonT(30), <1>2, SenderKeeps
<1>3. CASE \E s \in Senders : Accept(s)
  BY ZenonT(30), <1>3, AcceptKeeps
<1>4. CASE TakeError \/ ClientStops \/ \E s \in Senders : AcceptFails(s)
  BY ZenonT(30), <1>4, ConnectionEnds
<1>5. CASE ServerAnswers \/ ServerComplains \/ \E c \in Conns : ReadFails(c)
  BY ZenonT(30), <1>5, ServerKeeps
<1> QED
  BY ZenonT(30), <1>1, <1>2, <1>3, <1>4, <1>5, DialKeeps, TakeKeeps, DeliverKeeps, CleanupKeeps DEF DoodsNext

-----------------------------------------------------------------------------

\* After its value was taken a reader has the last message still, or has ended.
LEMMA ReadersForget ==
    ASSUME DoodsInv, NEW c \in Conns, Taken(c)
    PROVE  \A d \in Conns : /\ reader'[d].of \in {reader[d].of, 0}
                            /\ reader'[d].pc = "offer" => reader'[d] = reader[d]
BY DEF Taken, NoReader, DoodsInv, DoodsTypeOK

LEMMA OwnStays ==
    ASSUME DoodsInv, detections' = detections,
           \A q \in Requests : madeAt[q] # 0 => madeAt'[q] = madeAt[q],
           \A c \in Conns : c <= conns => reader'[c].of \in {reader[c].of, 0},
           NEW r, Own(r)
    PROVE  Own(r)' /\ madeAt'[r] = madeAt[r]
<1>1. madeAt[r] \in Conns /\ madeAt[r] <= conns /\ r # 0
  <2>1. /\ madeAt[r] \in Nat /\ madeAt[r] # 0 /\ madeAt[r] <= conns /\ conns \in Nat /\ conns <= MaxConns
        /\ r \in Requests
    BY Zenon DEF Own, DoodsInv, DoodsTypeOK, ConnsInOrder
  <2> QED
    BY <2>1, RequestNumbers, DoodsAssumption DEF Conns
<1>2. madeAt'[r] = madeAt[r] /\ madeAt'[detections[r].of] = madeAt[r]
  BY Zenon DEF Own
<1>3. reader'[madeAt[r]].of = r => reader[madeAt[r]].of = r
  BY Zenon, <1>1
<1> QED
  BY Zenon, <1>2, <1>3 DEF Own

\* A step that decodes no message.
LEMMA DetectionsStay ==
    ASSUME DoodsInv, DetectionsOwn, mixed => mixed', detections' = detections,
           \A q \in Requests : madeAt[q] # 0 => madeAt'[q] = madeAt[q],
           \A c \in Conns : c <= conns => reader'[c].of \in {reader[c].of, 0},
           Connected' /\ reader'[conns'].pc = "offer" /\ reader'[conns'].of # 0 =>
               Connected /\ reader'[conns'] = reader[conns],
           ~mixed' /\ client'.pc = "deliver" /\ client'.of # 0 => client' = client \/ Own(client'.of),
           \A s \in Senders : ~mixed' /\ call'[s] # NoCall =>
               call'[s] = call[s] \/ (call'[s].got = call'[s].req /\ Own(call'[s].req))
    PROVE  DetectionsOwn'
<1>1. SUFFICES ASSUME ~mixed'
               PROVE  /\ \A q \in Requests : detections'[q].conn # 0 => Own(q)' /\ detections'[q].conn = madeAt'[q]
                      /\ Connected' /\ reader'[conns'].pc = "offer" /\ reader'[conns'].of # 0 => Own(reader[conns].of)'
                      /\ client'.pc = "deliver" /\ client'.of # 0 => Own(client.of)'
                      /\ \A s \in Senders : call'[s] # NoCall => call'[s].got = call'[s].req /\ Own(call[s].req)'
  BY Zenon DEF DetectionsOwn
<1>2. \A r : Own(r) => Own(r)' /\ madeAt'[r] = madeAt[r]
  BY Zenon, OwnStays
<1>3. \A q \in Requests : detections'[q].conn # 0 => Own(q)' /\ detections'[q].conn = madeAt'[q]
  BY Zenon, <1>1, <1>2 DEF DetectionsOwn
<1>4. ASSUME Connected', reader'[conns'].pc = "offer", reader'[conns'].of # 0
      PROVE  Own(reader[conns].of)'
  <2>1. PICK r : r = reader'[conns'].of
    OBVIOUS
  <2>2. Own(r)
    BY Zenon, <1>1, <1>4, <2>1 DEF DetectionsOwn
  <2> QED
    BY Zenon, <1>2, <2>1, <2>2 DEF Own
<1>5. ASSUME client'.pc = "deliver", client'.of # 0
      PROVE  Own(client.of)'
  <2>1. PICK r : r = client'.of
    OBVIOUS
  <2>2. Own(r)
    BY Zenon, <1>1, <1>5, <2>1 DEF DetectionsOwn
  <2> QED
    BY Zenon, <1>2, <2>1, <2>2 DEF Own
<1>6. ASSUME NEW s \in Senders, call'[s] # NoCall
      PROVE  call'[s].got = call'[s].req /\ Own(call[s].req)'
  <2>1. PICK r : r = call'[s].req
    OBVIOUS
  <2>2. call'[s].got = r /\ Own(r)
    BY ZenonT(60), <1>1, <1>6, <2>1 DEF DetectionsOwn
  <2>3. Own(r)'
    BY Zenon, <1>2, <2>2
  <2>4. Own(call[s].req)'
    BY ZenonT(60), <2>1, <2>3 DEF Own
  <2> QED
    BY Zenon, <2>1, <2>2, <2>4
<1> QED
  BY Zenon, <1>3, <1>4, <1>5, <1>6

\* A message is decoded: it may overwrite the detections of earlier ones that came
\* over the same connection, and none of an earlier connection.
LEMMA AnswerKeepsDetections ==
    ASSUME DoodsInv, DetectionsInv, ServerAnswers
    PROVE  DetectionsInv'
<1>1. PICK w \in wire : /\ reader' = [reader EXCEPT ![conns] = [pc |-> "offer", id |-> w[1], of |-> w[2]]]
                        /\ wire' = wire \ {w} /\ Decoded(conns, w[2])
  BY ZenonT(30) DEF ServerAnswers
<1>2. UNCHANGED <<client, conns, call, madeAt, mixed>> /\ Connected /\ Connected'
  BY Zenon, <1>1 DEF ServerAnswers, DetectionsInv, NoWire, Connected
<1>3. conns \in Conns /\ conns # 0
  BY RequestNumbers, DoodsAssumption DEF ServerAnswers, DoodsInv, DoodsTypeOK
<1> SUFFICES ASSUME ~mixed PROVE DetectionsOwn'
  BY Zenon, <1>2 DEF DetectionsInv, NoWire, DetectionsOwn
<1>4. PICK r : r = w[2]
  OBVIOUS
<1>5. r \in Requests /\ r # 0 /\ madeAt[r] = conns
  <2>1. r \in Requests
    BY <1>4 DEF DoodsInv, DoodsTypeOK
  <2>2. Awaits(w[1], w[2])
    BY Zenon, <1>2 DEF DoodsInv, OneResponse
  <2> QED
    BY Zenon, <1>4, <2>1, <2>2 DEF Awaits
<1>6. reader'[conns].of = r /\ \A c \in Conns : c # conns => reader'[c] = reader[c]
  BY ZenonT(30), <1>1, <1>3, <1>4 DEF DoodsInv, DoodsTypeOK
<1>7. /\ detections'[r].of = r /\ detections'[r].conn = conns
      /\ \A q \in Requests : q # r /\ detections[q].conn # conns => detections'[q] = detections[q]
      /\ \A q \in Requests : q # r /\ detections[q].conn = conns =>
             detections'[q].of \in {r, detections[q].of} /\ detections'[q].conn \in {0, conns}
  <2>1. PICK over, stays \in BOOLEAN :
          detections' = [q \in Requests |->
            IF q = r THEN [of |-> r, conn |-> conns]
            ELSE IF detections[q].conn # conns THEN detections[q]
            ELSE [of |-> IF over THEN r ELSE detections[q].of, conn |-> IF stays THEN conns ELSE 0]]
    BY Zenon, <1>1, <1>4 DEF Decoded
  <2> QED
    BY <1>5, <2>1
<1>8. Own(r)'
  BY Zenon, <1>2, <1>5, <1>6, <1>7, <1>3 DEF Own
<1>9. ASSUME NEW q, Own(q)
      PROVE  Own(q)'
  <2>1. CASE q = r
    BY Zenon, <1>8, <2>1
  <2>2. CASE q # r /\ madeAt[q] = conns
    <3>1. detections'[q].of \in {r, detections[q].of}
      BY Zenon, <1>7, <1>9, <2>2 DEF Own
    <3>2. reader'[madeAt[q]].of # q
      BY Zenon, <1>6, <2>2
    <3> QED
      BY Zenon, <1>2, <1>5, <1>9, <2>2, <3>1, <3>2 DEF Own
  <2>3. CASE q # r /\ madeAt[q] # conns
    <3>1. detections'[q] = detections[q]
      <4>1. q \in Requests
        BY Zenon, <1>9 DEF Own
      <4>2. detections[q].conn # conns
        BY Zenon, <1>3, <2>3, <4>1 DEF DetectionsInv, DetectionsOwn
      <4> QED
        BY Zenon, <1>7, <2>3, <4>1, <4>2
    <3>2. madeAt[q] \in Conns
      <4>1. madeAt[q] \in Nat /\ madeAt[q] # 0 /\ madeAt[q] <= conns /\ conns \in Nat /\ conns <= MaxConns
        BY Zenon, <1>9 DEF Own, DoodsInv, DoodsTypeOK, ConnsInOrder
      <4> QED
        BY <4>1, DoodsAssumption DEF Conns
    <3>3. reader'[madeAt[q]] = reader[madeAt[q]]
      BY Zenon, <1>6, <2>3, <3>2
    <3> QED
      BY Zenon, <1>2, <1>9, <3>1, <3>3 DEF Own
  <2> QED
    BY Zenon, <2>1, <2>2, <2>3
<1>10. ASSUME NEW q \in Requests, detections'[q].conn # 0
       PROVE  Own(q)' /\ detections'[q].conn = madeAt'[q]
  <2>1. CASE q = r
    BY Zenon, <1>2, <1>5, <1>7, <1>8, <2>1
  <2>2. CASE q # r /\ detections[q].conn # conns
    BY Zenon, <1>2, <1>7, <1>9, <1>10, <2>2 DEF DetectionsInv, DetectionsOwn
  <2>3. CASE q # r /\ detections[q].conn = conns
    BY Zenon, <1>2, <1>3, <1>7, <1>9, <1>10, <2>3 DEF DetectionsInv, DetectionsOwn
  <2> QED
    BY Zenon, <2>1, <2>2, <2>3
<1>11. Own(reader[conns].of)'
  BY Zenon, <1>2, <1>6, <1>8 DEF Own
<1>12. client'.pc = "deliver" /\ client'.of # 0 => Own(client.of)'
  <2>1. PICK q : q = client.of
    OBVIOUS
  <2>2. client.pc = "deliver" /\ client.of # 0 => Own(q)
    BY Zenon, <2>1 DEF DetectionsInv, DetectionsOwn
  <2> QED
    BY Zenon, <1>2, <1>9, <2>1, <2>2 DEF Own
<1>13. ASSUME NEW s \in Senders, call'[s] # NoCall
       PROVE  call'[s].got = call'[s].req /\ Own(call[s].req)'
  <2>1. PICK q : q = call[s].req
    OBVIOUS
  <2>2. call[s].got = q /\ Own(q)
    BY ZenonT(60), <1>2, <1>13, <2>1 DEF DetectionsInv, DetectionsOwn
  <2>3. Own(q)'
    BY Zenon, <1>9, <2>2
  <2>4. Own(call[s].req)'
    BY ZenonT(60), <1>2, <2>1, <2>3 DEF Own
  <2> QED
    BY Zenon, <1>2, <2>1, <2>2, <2>4
<1> QED
  BY Zenon, <1>10, <1>11, <1>12, <1>13 DEF DetectionsOwn

LEMMA CallsStep ==
    ASSUME DoodsInv, CallsTypeOK, [DoodsNext]_doodsVars
    PROVE  CallsTypeOK'
<1>1. CASE UNCHANGED call
  BY Zenon, <1>1 DEF CallsTypeOK
<1>2. ASSUME NEW s \in Senders, Parsed(s)
      PROVE  CallsTypeOK'
  BY ZenonT(30), <1>2 DEF Parsed, CallsTypeOK, NoCall
<1>3. CASE Deliver
  <2>1. pending[client.id] \in Nat /\ client.of \in Nat
    BY Zenon, <1>3, RequestNumbers DEF Deliver, DoodsInv, DoodsTypeOK, ConnsInOrder
  <2>2. [req |-> pending[client.id], got |-> client.of] \in [req : Nat, got : Nat]
    BY Zenon, <2>1
  <2> QED
    BY Zenon, <1>1, <1>3, <2>2 DEF Deliver, CallsTypeOK
<1> QED
  BY ZenonT(30), <1>1, <1>2, <1>3 DEF DoodsNext, doodsVars, Dial, RetrySleep, TakeResponse, TakeError, ClientStops,
     CleanupNext, Cleanup, CleanupDone, ServerAnswers, ServerComplains, ReadFails, AppStops, SendRequest, OfferCanceled,
     WaitCanceled, Accept, AcceptFails

LEMMA DetectionsStep ==
    ASSUME DoodsInv, CallsTypeOK, DetectionsInv, [DoodsNext]_doodsVars
    PROVE  DetectionsInv'
<1> USE DEF DetectionsInv
<1>1. ASSUME UNCHANGED <<client, conns, reader, wire, detections, call, madeAt, mixed>>
      PROVE  DetectionsInv'
  BY Zenon, <1>1 DEF DetectionsOwn, NoWire, Connected, Own
<1>2. CASE UNCHANGED doodsVars \/ AppStops \/ \E s \in Senders : SendRequest(s) \/ OfferCanceled(s) \/ WaitCanceled(s)
  BY ZenonT(30), <1>1, <1>2 DEF doodsVars, AppStops, SendRequest, OfferCanceled, WaitCanceled
<1>3. CASE \E s \in Senders : Parsed(s)
  <2>1. /\ UNCHANGED <<client, conns, reader, wire, detections, madeAt, mixed>>
        /\ \A s \in Senders : call'[s] = call[s] \/ call'[s] = NoCall
    BY Zenon, <1>3 DEF Parsed, CallsTypeOK
  <2>2. DetectionsOwn'
    BY ZenonT(30), <2>1, DetectionsStay DEF Connected
  <2> QED
    BY Zenon, <2>1, <2>2 DEF NoWire, Connected
<1>4. CASE \E s \in Senders : Accept(s)
  <2>1. PICK s \in Senders : Accept(s)
    BY Zenon, <1>4
  <2>2. /\ UNCHANGED <<client, conns, reader, detections, call, mixed>> /\ client.pc = "loop"
        /\ madeAt' = [madeAt EXCEPT ![sender[s].req] = conns] /\ madeAt[sender[s].req] = 0
    BY Zenon, <2>1 DEF Accept, clientOnly, DoodsInv, RequestsOnce
  <2>3. \A q \in Requests : madeAt[q] # 0 => madeAt'[q] = madeAt[q]
    BY Zenon, <2>2 DEF DoodsInv, DoodsTypeOK
  <2>4. DetectionsOwn'
    BY ZenonT(30), <2>2, <2>3, DetectionsStay DEF Connected
  <2> QED
    BY ZenonT(30), <2>2, <2>4 DEF NoWire, Connected
<1>5. CASE TakeError \/ ClientStops \/ \E s \in Senders : AcceptFails(s)
  <2>1. client'.pc = "cleanup" /\ wire' = {} /\ UNCHANGED <<conns, detections, call, madeAt, mixed>>
    BY ZenonT(30), <1>5 DEF TakeError, ClientStops, AcceptFails, ToCleanup, At, clientOnly
  <2>2. \A c \in Conns : reader'[c].of \in {reader[c].of, 0}
    BY Zenon, <1>5, ReadersForget DEF TakeError, ClientStops, AcceptFails
  <2>3. DetectionsOwn'
    BY ZenonT(30), <2>1, <2>2, DetectionsStay DEF Connected
  <2> QED
    BY ZenonT(30), <2>1, <2>3 DEF NoWire
<1>6. CASE Dial \/ RetrySleep
  <2>1. /\ UNCHANGED <<detections, call, madeAt, mixed>> /\ ~Connected /\ client'.pc # "deliver"
        /\ wire' = {} \/ UNCHANGED wire
    BY <1>6 DEF Dial, RetrySleep, clientOnly, At, Connected
  <2>2. /\ \A c \in Conns : c <= conns => reader'[c] = reader[c]
        /\ Connected' => reader'[conns'].pc = "read"
    <3>1. CASE ~Connected' /\ reader' = reader
      BY Zenon, <3>1
    <3>2. CASE conns' = conns + 1 /\ conns < MaxConns /\ reader' = [reader EXCEPT ![conns'] = [NoReader EXCEPT !.pc = "read"]]
      <4>1. conns \in Nat /\ conns' \in Conns
        BY <3>2, DoodsAssumption DEF DoodsInv, DoodsTypeOK, Conns
      <4>2. \A c \in Conns : c <= conns => c # conns'
        BY <3>2, <4>1 DEF Conns
      <4> QED
        BY ZenonT(30), <3>2, <4>1, <4>2 DEF DoodsInv, DoodsTypeOK, NoReader
    <3> QED
      BY <1>6, <3>1, <3>2 DEF Dial, RetrySleep, At, Connected
  <2>3. DetectionsOwn'
    BY ZenonT(30), <2>1, <2>2, DetectionsStay
  <2> QED
    BY ZenonT(30), <2>1, <2>3 DEF NoWire
<1>7. CASE TakeResponse
  <2>1. PICK c \in Conns :
           /\ reader[c].pc = "offer" /\ Taken(c)
           /\ client' = IF reader[c].id = 0 THEN client
                        ELSE [pc |-> "deliver", id |-> reader[c].id, of |-> reader[c].of, conn |-> c, todo |-> {}]
    BY Zenon, <1>7 DEF TakeResponse
  <2>2. /\ client.pc = "loop" /\ Connected /\ Connected'
        /\ mixed' = (mixed \/ (client'.pc = "deliver" /\ client'.conn < conns))
        /\ UNCHANGED <<conns, detections, call, madeAt>>
    BY ZenonT(30), <1>7, <2>1 DEF TakeResponse, Connected
  <2>3. \A d \in Conns : reader'[d].of \in {reader[d].of, 0} /\ (reader'[d].pc = "offer" => reader'[d] = reader[d])
    BY Zenon, <2>1, ReadersForget
  <2>4. ASSUME ~mixed', client'.pc = "deliver", client'.of # 0
        PROVE  Own(client'.of)
    <3>1. client'.of = reader[c].of /\ client'.conn = c
      BY ZenonT(30), <2>1, <2>2, <2>4
    <3>2. c = conns
      <4>1. ~(c < conns)
        BY Zenon, <2>2, <2>4, <3>1
      <4>2. c <= conns
        BY <2>1 DEF DoodsInv, DoodsTypeOK, ConnsInOrder, NoReader, Conns
      <4> QED
        BY <4>1, <4>2 DEF DoodsInv, DoodsTypeOK, Conns
    <3>3. Own(reader[c].of)
      BY Zenon, <2>1, <2>2, <2>4, <3>1, <3>2 DEF DetectionsOwn
    <3> QED
      BY Zenon, <3>1, <3>3
  <2>5. conns \in Conns
    BY Zenon, <2>2, RequestNumbers, DoodsAssumption DEF DoodsInv, DoodsTypeOK, ConnsInOrder, Connected
  <2>6. reader'[conns'].pc = "offer" => reader'[conns'] = reader[conns]
    BY Zenon, <2>2, <2>3, <2>5
  <2>7. DetectionsOwn'
    BY ZenonT(30), <2>2, <2>3, <2>4, <2>6, DetectionsStay
  <2> QED
    BY Zenon, <2>2, <2>7 DEF NoWire
<1>8. CASE Deliver
  <2>1. /\ client.pc = "deliver" /\ pending[client.id] # 0 /\ client' = At("loop")
        /\ UNCHANGED <<conns, reader, wire, detections, madeAt, mixed>>
        /\ \A s \in Senders : call'[s] = call[s] \/ call'[s] = [req |-> pending[client.id], got |-> client.of]
    BY ZenonT(30), <1>8 DEF Deliver, clientOnly
  <2>2. Connected /\ Connected' /\ client'.pc = "loop"
    BY ZenonT(30), <2>1 DEF Connected, At
  <2>3. ~mixed => client.of # 0 /\ pending[client.id] = client.of /\ Own(client.of)
    BY Zenon, <2>1, <2>2 DEF DoodsInv, OneResponse, Awaits, DetectionsOwn
  <2>4. ASSUME NEW s \in Senders, ~mixed'
        PROVE  call'[s] = call[s] \/ (call'[s].got = call'[s].req /\ Own(call'[s].req))
    <3>1. CASE call'[s] = [req |-> pending[client.id], got |-> client.of]
      <4>1. PICK q : q = client.of
        OBVIOUS
      <4>2. call'[s].req = q /\ call'[s].got = q /\ Own(q)
        <5>1. ~mixed /\ pending[client.id] = q
          BY Zenon, <2>1, <2>3, <2>4, <4>1
        <5>2. call'[s] = [req |-> q, got |-> q]
          BY Zenon, <3>1, <4>1, <5>1
        <5>3. Own(q)
          BY Zenon, <2>3, <4>1, <5>1
        <5>4. call'[s].req = q /\ call'[s].got = q
          BY <5>2
        <5> QED
          BY Zenon, <5>3, <5>4
      <4> QED
        BY Zenon, <4>2
    <3> QED
      BY Zenon, <2>1, <3>1
  <2>5. DetectionsOwn'
    BY ZenonT(30), <2>1, <2>2, <2>4, DetectionsStay
  <2> QED
    BY Zenon, <2>2, <2>5 DEF NoWire
<1>9. CASE CleanupNext \/ Cleanup \/ CleanupDone
  <2>1. client.pc = "cleanup" /\ client'.pc \in {"cleanup", "sleep"} /\ UNCHANGED <<conns, wire, detections, call, madeAt, mixed>>
    <3>1. CASE CleanupNext \/ Cleanup
      BY ZenonT(30), <3>1 DEF CleanupNext, Cleanup, clientOnly, DoodsInv, DoodsTypeOK
    <3>2. CASE CleanupDone
      BY ZenonT(30), <3>2 DEF CleanupDone, clientOnly, At
    <3> QED
      BY Zenon, <1>9, <3>1, <3>2
  <2>2. \A c \in Conns : reader'[c].of \in {reader[c].of, 0}
    BY ZenonT(30), <1>9, ReadersForget DEF CleanupNext, Cleanup, CleanupDone
  <2>3. ~Connected /\ ~Connected' /\ client'.pc # "deliver"
    BY ZenonT(30), <2>1 DEF Connected
  <2>4. DetectionsOwn'
    BY ZenonT(30), <2>1, <2>2, <2>3, DetectionsStay
  <2> QED
    BY ZenonT(30), <2>1, <2>3, <2>4 DEF NoWire
<1>10. CASE ServerComplains \/ \E c \in Conns : ReadFails(c)
  <2>1. UNCHANGED <<client, conns, wire, detections, call, madeAt, mixed>>
    BY ZenonT(30), <1>10 DEF ServerComplains, ReadFails
  <2>2. \A c \in Conns : /\ reader'[c].of \in {reader[c].of, 0}
                         /\ reader'[c].pc = "offer" => reader'[c].of = 0 \/ reader'[c] = reader[c]
    <3>1. reader \in [Conns -> [pc : {"none", "read", "offer", "error"}, id : OptRequest, of : OptRequest]]
      BY Zenon DEF DoodsInv, DoodsTypeOK
    <3>2. CASE ServerComplains
      BY <3>1, <3>2 DEF ServerComplains
    <3>3. CASE \E c \in Conns : ReadFails(c)
      BY <3>1, <3>3 DEF ReadFails
    <3> QED
      BY Zenon, <1>10, <3>2, <3>3
  <2>3. Connected => conns \in Conns
    BY ZenonT(30), RequestNumbers, DoodsAssumption DEF DoodsInv, DoodsTypeOK, ConnsInOrder, Connected
  <2>4. DetectionsOwn'
    BY ZenonT(30), <2>1, <2>2, <2>3, DetectionsStay DEF Connected
  <2> QED
    BY Zenon, <2>1, <2>4 DEF NoWire, Connected
<1> QED
  BY ZenonT(30), <1>2, <1>3, <1>4, <1>5, <1>6, <1>7, <1>8, <1>9, <1>10, AnswerKeepsDetections DEF DoodsNext

LEMMA DetectionsInitInv == DoodsInit => CallsTypeOK /\ DetectionsInv
BY DEF DoodsInit, DoodsStart, CallsTypeOK, DetectionsInv, DetectionsOwn, NoWire, Connected, At, NoCall

\* Unless a response of an earlier connection was taken, a response of doodsClient
\* is handed to the call it is about, which reads its own detections as long as no
\* other message came over the connection; and cleanup waits for a receiver that
\* never comes only because of an entry of an earlier connection: for any number
\* of callers, requests and connections.
THEOREM ResponsesAlwaysReach == DoodsSpec => []ResponsesReachCalls
<1>1. DoodsInit => DoodsInv /\ CallsTypeOK /\ DetectionsInv
  BY Zenon, DoodsInitInv, DetectionsInitInv
<1>2. DoodsInv /\ DetectionsInv => ResponsesReachCalls
  BY Zenon, InvImpliesReach
<1> QED
  BY <1>1, <1>2, DoodsStep, CallsStep, DetectionsStep, PTL DEF DoodsSpec
=============================================================================
