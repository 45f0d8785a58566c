----------------------------- MODULE DoodsClient ----------------------------
(***************************************************************************)
(* The client of the DOODS detector (addons/doods2/addon.go): one          *)
(* goroutine that writes the requests of all monitors to a connection and  *)
(* hands the responses back, a reader for every connection, and the calls  *)
(* of sendRequest, which give up when their context is done.               *)
(*                                                                         *)
(* A request is a number, which also names its response channel and the    *)
(* response about it.  The IDs on the wire are counted for every           *)
(* connection.  A reader decodes all messages into one variable: the       *)
(* detections of a response are in an array that the next message may be   *)
(* decoded into, while the response is handed over and used.               *)
(***************************************************************************)
EXTENDS Naturals, FiniteSets

CONSTANTS
    Senders,      \* detector instances that call sendRequest
    MaxRequests,  \* bound on the requests
    MaxConns      \* bound on the connections

ASSUME DoodsAssumption == MaxRequests \in Nat /\ MaxConns \in Nat

VARIABLES
    client,   \* pc; the ID that is served; the request in the response; what cleanup has to do
    pending,  \* c.pendingRequests: ID -> request
    count,    \* of IDs
    conns,    \* number of connections that were made
    reader,   \* the reader of every connection, and the response it decodes into
    wire,     \* <<ID, request>> that the server has not answered
    sender,   \* the calls
    receiver, \* who receives from the channel of a request
    detections, \* of the response about a request: whose they are, whose reader has their array
    call,     \* what a call returned: its request, and that of the response
    requests, \* number of requests
    madeAt,   \* history: the connection a request was written to
    mixed,    \* history: a response that an earlier connection left was taken
    stopped   \* the context of the application is done

doodsVars == <<client, pending, count, conns, reader, wire, sender, receiver, detections, call,
              requests, madeAt, mixed, stopped>>

Requests == 1..MaxRequests
Conns == 1..MaxConns
At(pc) == [pc |-> pc, id |-> 0, of |-> 0, conn |-> 0, todo |-> {}]
Idle == [pc |-> "idle", req |-> 0]
NoReader == [pc |-> "none", id |-> 0, of |-> 0]
NoCall == [req |-> 0, got |-> 0]

DoodsStart ==
    /\ pending = [i \in Requests |-> 0] /\ count = 0 /\ conns = 0
    /\ reader = [c \in Conns |-> NoReader] /\ wire = {}
    /\ sender = [s \in Senders |-> Idle]
    /\ receiver = [r \in Requests |-> "none"]
    /\ detections = [r \in Requests |-> [of |-> 0, conn |-> 0]]
    /\ call = [s \in Senders |-> NoCall]
    /\ requests = 0 /\ madeAt = [r \in Requests |-> 0] /\ mixed = FALSE /\ stopped = FALSE

DoodsInit == client = At("dial") /\ DoodsStart

-----------------------------------------------------------------------------
(* sendRequest.                                                            *)

SendRequest(s) ==
    /\ sender[s] = Idle /\ call[s] = NoCall /\ requests < MaxRequests
    /\ requests' = requests + 1
    /\ sender' = [sender EXCEPT ![s] = [pc |-> "offer", req |-> requests']]
    /\ UNCHANGED <<client, pending, count, conns, reader, wire, receiver, detections, call, madeAt, mixed, stopped>>

OfferCanceled(s) ==
    /\ sender[s].pc = "offer"
    /\ sender' = [sender EXCEPT ![s] = Idle]
    /\ UNCHANGED <<client, pending, count, conns, reader, wire, receiver, detections, call, requests, madeAt, mixed, stopped>>

\* Mutant of WaitCanceled: nobody receives the response.
WaitCanceledLeaves(s) ==
    /\ sender[s].pc = "wait"
    /\ sender' = [sender EXCEPT ![s] = Idle]
    /\ receiver' = [receiver EXCEPT ![sender[s].req] = "none"]
    /\ UNCHANGED <<client, pending, count, conns, reader, wire, detections, call, requests, madeAt, mixed, stopped>>

\* A goroutine is left behind to receive the response.
WaitCanceled(s) ==
    /\ sender[s].pc = "wait"
    /\ sender' = [sender EXCEPT ![s] = Idle]
    /\ receiver' = [receiver EXCEPT ![sender[s].req] = "drain"]
    /\ UNCHANGED <<client, pending, count, conns, reader, wire, detections, call, requests, madeAt, mixed, stopped>>

\* The instance has parsed the detections.
Parsed(s) ==
    /\ call[s] # NoCall /\ call' = [call EXCEPT ![s] = NoCall]
    /\ UNCHANGED <<client, pending, count, conns, reader, wire, sender, receiver, detections, requests, madeAt, mixed, stopped>>

-----------------------------------------------------------------------------
(* client.start and client.run.                                            *)

clientOnly == UNCHANGED <<detections, requests, mixed, stopped>>

\* A new connection has a reader of its own.  Readers of earlier connections may
\* still wait to send: all of them send to the same channel.
Dial ==
    /\ client.pc = "dial" /\ ~stopped /\ conns < MaxConns
    /\ \/ /\ client' = At("loop") /\ conns' = conns + 1 /\ count' = 0 /\ wire' = {}
          /\ reader' = [reader EXCEPT ![conns'] = [NoReader EXCEPT !.pc = "read"]]
       \/ client' = At("sleep") /\ UNCHANGED <<conns, count, wire, reader>>
    /\ UNCHANGED <<pending, sender, receiver, call, madeAt>> /\ clientOnly

RetrySleep ==
    /\ client.pc \in {"sleep", "dial"}
    /\ \/ stopped /\ client' = At("stopped")
       \/ ~stopped /\ client.pc = "sleep" /\ client' = At("dial")
    /\ UNCHANGED <<pending, count, conns, reader, wire, sender, receiver, call, madeAt>> /\ clientOnly

Accept(s) ==
    /\ client.pc = "loop" /\ sender[s].pc = "offer"
    /\ count' = count + 1
    /\ sender' = [sender EXCEPT ![s].pc = "wait"]
    /\ receiver' = [receiver EXCEPT ![sender[s].req] = "sender"]
    /\ pending' = [pending EXCEPT ![count'] = sender[s].req]
    /\ wire' = wire \union {<<count', sender[s].req>>}
    /\ madeAt' = [madeAt EXCEPT ![sender[s].req] = conns]
    /\ UNCHANGED <<client, conns, reader, call>> /\ clientOnly

\* cleanup begins: what was pending when it did.
ToCleanup(waits) == [At("cleanup") EXCEPT !.of = waits, !.todo = {i \in Requests : pending[i] # 0}]

\* WriteJSON fails: the request is not among the pending ones.  After cleanup one
\* value is taken from the reader, whatever it is.
AcceptFails(s) ==
    /\ client.pc = "loop" /\ sender[s].pc = "offer"
    /\ count' = count + 1
    /\ sender' = [sender EXCEPT ![s].pc = "wait"]
    /\ receiver' = [receiver EXCEPT ![sender[s].req] = "sender"]
    /\ client' = ToCleanup(1)
    /\ wire' = {}
    /\ UNCHANGED <<pending, conns, reader, call, madeAt>> /\ clientOnly

\* What a reader does after its value was taken.
Taken(c) == reader' = [reader EXCEPT ![c] = IF @.pc = "error" THEN NoReader ELSE [@ EXCEPT !.pc = "read"]]

\* A response of any reader; one without an ID is not delivered.
TakeResponse ==
    /\ client.pc = "loop"
    /\ \E c \in Conns :
        /\ reader[c].pc = "offer" /\ Taken(c)
        /\ client' = IF reader[c].id = 0 THEN client
                     ELSE [pc |-> "deliver", id |-> reader[c].id, of |-> reader[c].of, conn |-> c, todo |-> {}]
    /\ mixed' = (mixed \/ (client'.pc = "deliver" /\ client'.conn < conns))
    /\ UNCHANGED <<pending, count, conns, wire, sender, receiver, detections, call, requests, madeAt, stopped>>

\* The error of any reader ends the connection.
TakeError ==
    /\ client.pc = "loop"
    /\ \E c \in Conns : reader[c].pc = "error" /\ Taken(c)
    /\ client' = ToCleanup(0)
    /\ wire' = {}
    /\ UNCHANGED <<pending, count, conns, sender, receiver, call, madeAt>> /\ clientOnly

\* The context is done.
ClientStops ==
    /\ client.pc = "loop" /\ stopped
    /\ client' = ToCleanup(1)
    /\ wire' = {}
    /\ UNCHANGED <<pending, count, conns, reader, sender, receiver, call, madeAt>> /\ clientOnly

\* The channel of request r is received from, by its call or by the goroutine
\* that the call left behind.
Received(r) ==
    /\ receiver[r] # "none"
    /\ receiver' = [receiver EXCEPT ![r] = "none"]
    /\ sender' = [s \in Senders |-> IF sender[s] = [pc |-> "wait", req |-> r] THEN Idle ELSE sender[s]]

\* The response is sent, and its entry is deleted.  A call that receives it
\* returns an error of the server, or the detections.
Deliver ==
    /\ client.pc = "deliver" /\ pending[client.id] # 0
    /\ Received(pending[client.id])
    /\ \/ UNCHANGED call
       \/ call' = [s \in Senders |-> IF sender[s] = [pc |-> "wait", req |-> pending[client.id]]
                                     THEN [req |-> pending[client.id], got |-> client.of] ELSE call[s]]
    /\ pending' = [pending EXCEPT ![client.id] = 0]
    /\ client' = At("loop")
    /\ UNCHANGED <<count, conns, reader, wire, madeAt>> /\ clientOnly

\* cleanup: every pending request is answered with an error, in the order of a
\* map; the entries stay.
CleanupNext ==
    /\ client.pc = "cleanup" /\ client.id = 0
    /\ \E i \in client.todo : client' = [client EXCEPT !.id = i]
    /\ UNCHANGED <<pending, count, conns, reader, wire, sender, receiver, call, madeAt>> /\ clientOnly

Cleanup ==
    /\ client.pc = "cleanup" /\ client.id # 0
    /\ Received(pending[client.id])
    /\ client' = [client EXCEPT !.id = 0, !.todo = @ \ {client.id}]
    /\ UNCHANGED <<pending, count, conns, reader, wire, call, madeAt>> /\ clientOnly

CleanupDone ==
    /\ client.pc = "cleanup" /\ client.id = 0 /\ client.todo = {}
    /\ IF client.of = 0 THEN UNCHANGED reader
       ELSE \E c \in Conns : reader[c].pc \in {"offer", "error"} /\ Taken(c)
    /\ client' = At("sleep")
    /\ UNCHANGED <<pending, count, conns, wire, sender, receiver, call, madeAt>> /\ clientOnly

-----------------------------------------------------------------------------
(* The server, and the reader.                                             *)

\* The message about request r is decoded by the reader of connection c.  Of the
\* responses whose detections are in the array of the reader: whether they are
\* overwritten, and whether the array is still that of the reader, depends on the
\* numbers of detections.
Decoded(c, r) ==
    \E over, stays \in BOOLEAN :
        detections' = [q \in Requests |->
            IF q = r THEN [of |-> r, conn |-> c]
            ELSE IF detections[q].conn # c THEN detections[q]
            ELSE [of |-> IF over THEN r ELSE detections[q].of, conn |-> IF stays THEN c ELSE 0]]

ServerAnswers ==
    /\ conns > 0 /\ reader[conns].pc = "read"
    /\ \E w \in wire :
        /\ reader' = [reader EXCEPT ![conns] = [pc |-> "offer", id |-> w[1], of |-> w[2]]]
        /\ wire' = wire \ {w}
        /\ Decoded(conns, w[2])
    /\ UNCHANGED <<client, pending, count, conns, sender, receiver, call, requests, madeAt, mixed, stopped>>

\* A message without an ID: the ID of the message before it stays in the response.
ServerComplains ==
    /\ conns > 0 /\ reader[conns].pc = "read" /\ client.pc \in {"loop", "deliver"}
    /\ reader' = [reader EXCEPT ![conns].pc = "offer", ![conns].of = 0]
    /\ UNCHANGED <<client, pending, count, conns, wire, sender, receiver, detections, call, requests, madeAt, mixed, stopped>>

\* The connection is broken, or was closed by cleanup.
ReadFails(c) ==
    /\ reader[c].pc = "read" /\ reader' = [reader EXCEPT ![c].pc = "error"]
    /\ UNCHANGED <<client, pending, count, conns, wire, sender, receiver, detections, call, requests, madeAt, mixed, stopped>>

AppStops ==
    /\ ~stopped /\ stopped' = TRUE
    /\ UNCHANGED <<client, pending, count, conns, reader, wire, sender, receiver, detections, call, requests, madeAt, mixed>>

DoodsNext ==
    \/ Dial \/ RetrySleep \/ TakeResponse \/ TakeError \/ ClientStops \/ Deliver
    \/ CleanupNext \/ Cleanup \/ CleanupDone
    \/ ServerAnswers \/ ServerComplains \/ (\E c \in Conns : ReadFails(c)) \/ AppStops
    \/ \E s \in Senders :
        SendRequest(s) \/ OfferCanceled(s) \/ WaitCanceled(s) \/ Parsed(s) \/ Accept(s) \/ AcceptFails(s)

DoodsSpec == DoodsInit /\ [][DoodsNext]_doodsVars

-----------------------------------------------------------------------------
(* Properties.                                                             *)

\* A call has the response about its own frame.  Its detections are of this frame
\* as long as no other message came over the connection; after that they may be of
\* another frame that was sent over the same connection.
HasOwn(s) ==
    LET r == call[s].req
        q == detections[r].of
    IN  /\ call[s].got = r
        /\ q \in Requests /\ madeAt[q] = madeAt[r]
        /\ reader[madeAt[r]].of = r => q = r

\* Unless the client took a response that an earlier connection had left: a
\* response is handed to the call whose frame it is about, whatever the order of
\* the responses and however often the client had to connect again, and the call
\* reads its own detections until the next message comes; and the client waits
\* for a receiver that never comes for two reasons only, an entry that cleanup
\* left at an earlier connection, and a message without an ID after one with that
\* ID.  A call that gave up is never the reason.
ResponsesReachCalls ==
    ~mixed =>
        /\ client.pc = "deliver" /\ client.of # 0 =>
            pending[client.id] = client.of /\ receiver[client.of] # "none"
        /\ client.pc = "cleanup" /\ client.id # 0 =>
            receiver[pending[client.id]] # "none" \/ madeAt[pending[client.id]] < conns
        /\ \A s \in Senders : call[s] # NoCall => HasOwn(s)
=============================================================================
