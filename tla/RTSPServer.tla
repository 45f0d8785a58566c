------------------------------ MODULE RTSPServer ------------------------------
(***************************************************************************)
(* The RTSP server library (pkg/video/gortsplib: server.go, serverconn.go, *)
(* serversession.go, serverstream.go).                                     *)
(*                                                                         *)
(* Every connection has two goroutines: one reads requests and interleaved *)
(* frames (reader), one handles the requests (conn).  Every session has a  *)
(* goroutine, and one that writes frames to its TCP connection once it     *)
(* plays or records.  The server has a goroutine that knows connections    *)
(* and sessions.  They meet on unbuffered channels: a step is what a       *)
(* goroutine does between two places where it may wait, and a hand-over is *)
(* one step of both sides.                                                 *)
(*                                                                         *)
(* The handler is the one of pkg/video (rtsp_server.go, rtsp_session.go):  *)
(* one path whose publisher opens the stream with RECORD, whose readers    *)
(* are sent what the publisher writes, and which may be closed at any      *)
(* time.  What it does inside is VideoServer.tla.                          *)
(*                                                                         *)
(* A panic ends the program: panicked holds its cause.                     *)
(***************************************************************************)
EXTENDS Naturals, FiniteSets

CONSTANTS
    Conns,          \* connections
    MaxSessions,    \* bound: sessions that are created
    Publishers,     \* connections that may have published before the start
    NumTracks,      \* tracks of the path
    Hosts,          \* the addresses that connections may have: functions of Conns
    Asks,           \* what the client of a connection asks, sets of Request
    MaxRequests,    \* bound: requests that the clients send
    None

\* Sessions in the order of their creation, which stands for their secretID
Sessions == 1..MaxSessions
Tracks == 0..NumTracks - 1

\* A request with "bad" fails one of the checks of its parameters: CSeq, path,
\* Content-Type, SDP, Transport, track, channel.
Request ==
    [method : {"OPTIONS", "ANNOUNCE", "PLAY", "RECORD", "TEARDOWN"},
     id : Sessions \cup {None}, bad : BOOLEAN]
    \cup [method : {"SETUP"}, id : Sessions \cup {None}, bad : BOOLEAN,
          mode : {"play", "record", None}, track : Tracks]

ASSUME RTSPServerAssumption ==
    /\ MaxSessions \in Nat /\ MaxRequests \in Nat /\ NumTracks \in Nat
    /\ None \notin Conns \cup Sessions
    /\ Asks \in [Conns -> SUBSET Request]
    /\ Publishers \subseteq Conns /\ (Publishers # {} => MaxSessions > 0)
ASSUME PanicsAssumption == None \notin {"closed stream", "nil mode"}

VARIABLES
    host,       \* ServerConn.remoteAddr
    serverDone, \* Server.ctx is done
    server,     \* "run", "closed", or the request it is handing to a session
    sessions,   \* Server.sessions
    conns,      \* Server.conns
    created,    \* sessions created so far
    conn,       \* ServerConn and its goroutine
    reader,     \* the goroutine of ServerConn.runReader
    sent,       \* requests sent so far
    session,    \* ServerSession and its goroutine
    writer,     \* the goroutine of ServerSession.runWriter
    stream,     \* the ServerStream of the path, and who publishes to the path
    panicked    \* the cause of a panic

serverVars == <<serverDone, server, sessions, conns>>
vars == <<host, serverVars, created, conn, reader, sent, session, writer, stream, panicked>>

NewConn == [pc |-> "none", ctxDone |-> FALSE, session |-> None, req |-> None]
NewSession ==
    [pc |-> "none", ctxDone |-> FALSE, author |-> None, state |-> "initial", conns |-> {},
     tcpConn |-> None, setupped |-> {}, announced |-> 0, buffer |-> FALSE, left |-> {},
     cur |-> None]
NewStream == [pc |-> "none", source |-> None, readers |-> {}, unicast |-> {}]

\* Start
InitEmpty ==
    /\ sent = 0
    /\ sessions = {}
    /\ conns = {}
    /\ created = 0
    /\ conn = [c \in Conns |-> NewConn]
    /\ reader = [c \in Conns |-> [pc |-> "none", tcp |-> FALSE]]
    /\ session = [s \in Sessions |-> NewSession]
    /\ writer = [s \in Sessions |-> "none"]
    /\ stream = NewStream

\* The state after a client has published all tracks (ANNOUNCE, SETUP, RECORD),
\* which counts as one request of the bound
InitPublished(p) ==
    /\ sent = 1
    /\ sessions = {1}
    /\ conns = {p}
    /\ created = 1
    /\ conn = [c \in Conns |-> IF c = p THEN [NewConn EXCEPT !.pc = "idle", !.session = 1]
                              ELSE NewConn]
    /\ reader = [c \in Conns |-> IF c = p THEN [pc |-> "read", tcp |-> TRUE]
                                ELSE [pc |-> "none", tcp |-> FALSE]]
    /\ session = [s \in Sessions |->
         IF s = 1 THEN [NewSession EXCEPT !.pc = "run", !.author = p, !.state = "record",
                          !.conns = {p}, !.tcpConn = p, !.setupped = Tracks,
                          !.announced = NumTracks, !.buffer = TRUE]
         ELSE NewSession]
    /\ writer = [s \in Sessions |-> IF s = 1 THEN "run" ELSE "none"]
    /\ stream = [NewStream EXCEPT !.pc = "open", !.source = 1]

Init ==
    /\ host \in Hosts
    /\ serverDone = FALSE
    /\ server = [pc |-> "run"]
    /\ panicked = None
    /\ InitEmpty \/ \E p \in Publishers : InitPublished(p)

\* A context is done with the one it was derived from.
ConnDone(c) == conn[c].ctxDone \/ serverDone
SessionDone(s) == session[s].ctxDone \/ serverDone

(***************************************************************************)
(* Requests and their answers                                              *)
(***************************************************************************)

\* A request that is answered without a session
WithoutSession(req) ==
    req.method \in {"OPTIONS", "PLAY", "RECORD", "TEARDOWN"} /\ req.id = None

\* handleRequestOuter and the return of the reader from <-cres: the connection is
\* paired with ss and the reader goes on with its read function.
Answer(c, ss, tcp) ==
    /\ conn' = [conn EXCEPT ![c].pc = "idle", ![c].session = ss, ![c].req = None]
    /\ reader' = [reader EXCEPT ![c].tcp = tcp,
                                ![c].pc = IF tcp /\ ~reader[c].tcp THEN "start" ELSE "read"]

\* The same with an error: it goes over readErr and ends the connection.
AnswerError(c, ss) ==
    /\ conn' = [conn EXCEPT ![c].pc = "closing", ![c].ctxDone = TRUE, ![c].session = ss,
                            ![c].req = None]
    /\ reader' = [reader EXCEPT ![c].pc = "done"]

\* case req := <-readRequest, handleRequest, handleRequestInSession
HandleRequest(c, req) ==
    LET ss == conn[c].session
        passOn(pc) == /\ conn' = [conn EXCEPT ![c].pc = pc, ![c].req = req]
                      /\ reader' = [reader EXCEPT ![c].pc = "wait"] IN
    /\ reader[c].pc = "read"
    /\ conn[c].pc = "idle"
    /\ sent < MaxRequests
    /\ req.id \in sessions \cup {None}
    /\ sent' = sent + 1
    /\ \/ req.bad /\ AnswerError(c, ss)
       \/ WithoutSession(req) /\ Answer(c, ss, reader[c].tcp)
       \/ ~WithoutSession(req) /\ ss = None /\ passOn("toServer")
       \/ ~WithoutSession(req) /\ ss # None /\ req.id \in {None, ss} /\ passOn("toSession")
       \/ ss # None /\ req.id \notin {None, ss} /\ AnswerError(c, ss)
    /\ UNCHANGED <<host, serverVars, created, session, writer, stream, panicked>>

\* Mutant of GivesUp: a connection waits for its session alone.
GivesUpServer(c) == conn[c].pc = "toServer" /\ serverDone

\* case <-sc.session.ctx.Done() and case <-sc.s.ctx.Done() of handleRequestInSession
GivesUp(c) ==
    \/ conn[c].pc = "toSession" /\ SessionDone(conn[c].session)
    \/ conn[c].pc = "toServer" /\ serverDone
RequestFails(c) ==
    /\ GivesUp(c)
    /\ AnswerError(c, conn[c].session)
    /\ UNCHANGED <<host, serverVars, created, sent, session, writer, stream, panicked>>

(***************************************************************************)
(* Server                                                                  *)
(***************************************************************************)

\* case nconn := <-connNew, newServerConn
Accept(c) ==
    /\ server.pc = "run"
    /\ ~serverDone
    /\ conn[c].pc = "none"
    /\ conns' = conns \cup {c}
    /\ conn' = [conn EXCEPT ![c].pc = "idle"]
    /\ reader' = [reader EXCEPT ![c].pc = "read"]
    /\ UNCHANGED <<host, serverDone, server, sessions, created, sent, session, writer,
                   stream, panicked>>

\* case req := <-s.sessionRequest: a known session, or a new one.  At the bound no
\* secret ID is found, which the code answers with an error.
ServerTakesRequest(c) ==
    LET req == conn[c].req
        id == req.id
        create == req.method \in {"ANNOUNCE", "SETUP"}
        s == created + 1 IN
    /\ server.pc = "run"
    /\ conn[c].pc = "toServer"
    /\ \/ /\ id \in sessions
          /\ IF host[c] = host[session[id].author]
             THEN /\ server' = [pc |-> "handOver", conn |-> c, session |-> id]
                  /\ conn' = [conn EXCEPT ![c].pc = "waitServer"]
                  /\ UNCHANGED reader
             ELSE AnswerError(c, None) /\ UNCHANGED server
          /\ UNCHANGED <<sessions, created, session>>
       \/ /\ id \notin sessions
          /\ ~create \/ req.bad \/ created = MaxSessions
          /\ AnswerError(c, None)
          /\ UNCHANGED <<server, sessions, created, session>>
       \/ /\ id \notin sessions
          /\ create
          /\ created < MaxSessions
          /\ created' = s
          /\ sessions' = sessions \cup {s}
          /\ session' = [session EXCEPT ![s].pc = "run", ![s].author = c]
          /\ server' = [pc |-> "handOver", conn |-> c, session |-> s]
          /\ conn' = [conn EXCEPT ![c].pc = "waitServer"]
          /\ UNCHANGED reader
    /\ UNCHANGED <<host, serverDone, conns, sent, writer, stream, panicked>>

\* case <-ss.ctx.Done() while the server hands a request to a session
ServerHandOverFails ==
    /\ server.pc = "handOver"
    /\ SessionDone(server.session)
    /\ AnswerError(server.conn, None)
    /\ server' = [pc |-> "run"]
    /\ UNCHANGED <<host, serverDone, sessions, conns, created, sent, session, writer, stream,
                   panicked>>

\* Close, a context that is done, or an error of the listener
CloseServer ==
    /\ ~serverDone
    /\ serverDone' = TRUE
    /\ UNCHANGED <<host, server, sessions, conns, created, conn, reader, sent, session, writer,
                   stream, panicked>>

\* case <-s.ctx.Done()
ServerEnds ==
    /\ server.pc = "run"
    /\ serverDone
    /\ server' = [pc |-> "closed"]
    /\ UNCHANGED <<host, serverDone, sessions, conns, created, conn, reader, sent, session,
                   writer, stream, panicked>>

(***************************************************************************)
(* Connections                                                             *)
(***************************************************************************)

\* readFuncTCP begins: it asks the session of the connection for the writer.
StartWriter(c) ==
    LET s == conn[c].session
        starts == /\ writer[s] = "none"
                  /\ session[s].state \in {"record", "play"}
                  /\ session[s].setupped # {} IN
    /\ reader[c].pc = "start"
    /\ IF s = None
       THEN panicked' = "nil session" /\ UNCHANGED <<reader, writer>>
       ELSE /\ \/ session[s].pc = "run" /\ writer' = [writer EXCEPT ![s] = IF starts THEN "run" ELSE @]
               \/ SessionDone(s) /\ UNCHANGED writer
            /\ reader' = [reader EXCEPT ![c].pc = "read"]
            /\ UNCHANGED panicked
    /\ UNCHANGED <<host, serverVars, created, conn, sent, session, stream>>

\* The client is gone, what it sent cannot be parsed, or nothing arrived in time:
\* case err := <-readErr.
ReadFails(c) ==
    /\ reader[c].pc = "read"
    /\ conn[c].pc = "idle"
    /\ AnswerError(c, conn[c].session)
    /\ UNCHANGED <<host, serverVars, created, sent, session, writer, stream, panicked>>

\* case <-sc.ctx.Done()
ConnCanceled(c) ==
    /\ conn[c].pc = "idle"
    /\ ConnDone(c)
    /\ conn' = [conn EXCEPT ![c].pc = "closing", ![c].ctxDone = TRUE]
    /\ UNCHANGED <<host, serverVars, created, reader, sent, session, writer, stream, panicked>>

\* nconn.Close ends the reader where it reads: <-readDone
ReaderDone(c) == reader[c].pc \in {"read", "done"}

\* case sc.session.connRemove <- sc: a session without connections ends.
ConnLeavesSession(c) ==
    LET s == conn[c].session
        rest == session[s].conns \ {c} IN
    /\ conn[c].pc = "closing"
    /\ ReaderDone(c)
    /\ s # None
    /\ \/ /\ session[s].pc = "run"
          /\ session' = [session EXCEPT ![s].conns = rest,
                                        ![s].pc = IF rest = {} THEN "exit" ELSE @]
       \/ SessionDone(s) /\ UNCHANGED session
    /\ conn' = [conn EXCEPT ![c].session = None]
    /\ UNCHANGED <<host, serverVars, created, reader, sent, writer, stream, panicked>>

\* case sc.s.connClose <- sc, OnConnClose (which reads the session of a log
\* message only); nothing of the connection is used again.
ConnEnds(c) ==
    /\ conn[c].pc = "closing"
    /\ ReaderDone(c)
    /\ conn[c].session = None
    /\ \/ server.pc = "run" /\ conns' = conns \ {c}
       \/ serverDone /\ UNCHANGED conns
    /\ conn' = [conn EXCEPT ![c] = [NewConn EXCEPT !.pc = "done", !.ctxDone = TRUE]]
    /\ reader' = [reader EXCEPT ![c] = [pc |-> "done", tcp |-> FALSE]]
    /\ UNCHANGED <<host, serverDone, server, sessions, created, sent, session, writer, stream,
                   panicked>>

(***************************************************************************)
(* Sessions                                                                *)
(***************************************************************************)

\* Session s receives the request of c, from c itself or through the server.
Receives(s, c) ==
    /\ session[s].pc = "run"
    /\ \/ conn[c].pc = "toSession" /\ conn[c].session = s /\ UNCHANGED server
       \/ server = [pc |-> "handOver", conn |-> c, session |-> s] /\ server' = [pc |-> "run"]

\* The session is bound to one connection once frames go over it.
Linked(s, c) == session[s].tcpConn \in {None, c}

\* The requests that handleSetup accepts in the state of the session: a path
\* gives a stream to readers between RECORD and its end; one that ends while
\* OnSetup runs is met by readerAdd, except when the session is a reader already.
SetupAllowed(s, req) ==
    /\ req.track \notin session[s].setupped
    /\ CASE session[s].state = "initial" -> req.mode # "record" /\ stream.pc = "open"
         [] session[s].state = "prePlay" -> req.mode # "record"
         [] session[s].state = "preRecord" ->
              req.mode = "record" /\ req.track < session[s].announced
         [] OTHER -> FALSE

\* handleSetup dereferences the mode of a SETUP for recording that has none.
SetupPanics(s, req) ==
    /\ req.method = "SETUP" /\ ~req.bad
    /\ session[s].state = "preRecord"
    /\ req.mode = None
    /\ req.track \notin session[s].setupped

\* checkState and the other conditions of the handlers
Allowed(s, req) ==
    CASE req.method = "OPTIONS" -> TRUE
      [] req.method = "ANNOUNCE" ->
           session[s].state = "initial" /\ stream.pc = "none" /\ stream.source = None
      [] req.method = "SETUP" -> SetupAllowed(s, req)
      [] req.method = "PLAY" -> session[s].state \in {"prePlay", "play"}
      [] req.method = "RECORD" ->
           /\ session[s].state = "preRecord"
           /\ Cardinality(session[s].setupped) = session[s].announced
           /\ stream.pc = "none"
      [] req.method = "TEARDOWN" -> TRUE

\* A request that the session, or its handler, refuses
SessionRefuses(s, c) ==
    LET req == conn[c].req IN
    /\ Receives(s, c)
    /\ \/ ~Linked(s, c) \/ req.bad \/ ~Allowed(s, req)
       \/ req.method = "SETUP" /\ session[s].state = "prePlay" /\ stream.pc = "closed"
    /\ ~(Linked(s, c) /\ SetupPanics(s, req))
    /\ session' = [session EXCEPT ![s].conns = @ \cup {c}]
    /\ AnswerError(c, s)
    /\ UNCHANGED <<host, serverDone, sessions, conns, created, sent, writer, stream, panicked>>

SessionPanics(s, c) ==
    /\ Receives(s, c)
    /\ Linked(s, c)
    /\ SetupPanics(s, conn[c].req)
    /\ panicked' = "nil mode"
    /\ UNCHANGED <<host, serverDone, sessions, conns, created, conn, reader, sent, session,
                   writer, stream>>

\* What the handlers have in common: the request is accepted.
Accepts(s, c, method) ==
    /\ Receives(s, c)
    /\ Linked(s, c)
    /\ conn[c].req.method = method
    /\ ~conn[c].req.bad
    /\ Allowed(s, conn[c].req)
    /\ UNCHANGED <<host, serverDone, sessions, conns, created, sent, writer>>

\* handleOptions
Options(s, c) ==
    /\ Accepts(s, c, "OPTIONS")
    /\ session' = [session EXCEPT ![s].conns = @ \cup {c}]
    /\ Answer(c, s, reader[c].tcp)
    /\ UNCHANGED <<stream, panicked>>

\* handleAnnounce: OnAnnounce makes the session the source of the path.
Announce(s, c) ==
    /\ Accepts(s, c, "ANNOUNCE")
    /\ \E n \in 1..NumTracks :
         session' = [session EXCEPT ![s].conns = @ \cup {c}, ![s].state = "preRecord",
                                    ![s].announced = n]
    /\ stream' = [stream EXCEPT !.source = s]
    /\ Answer(c, s, reader[c].tcp)
    /\ UNCHANGED panicked

\* handleSetup, readerAdd
Setup(s, c) ==
    /\ Accepts(s, c, "SETUP")
    /\ session' = [session EXCEPT ![s].conns = @ \cup {c},
                                  ![s].state = IF @ = "initial" THEN "prePlay" ELSE @,
                                  ![s].setupped = @ \cup {conn[c].req.track}]
    /\ stream' = IF session[s].state = "initial"
                 THEN [stream EXCEPT !.readers = @ \cup {s}] ELSE stream
    /\ Answer(c, s, reader[c].tcp)
    /\ UNCHANGED panicked

\* handlePlay, readerSetActive: the map of a closed stream is nil.
Play(s, c) ==
    /\ Accepts(s, c, "PLAY")
    /\ CASE session[s].state = "play" ->
              /\ session' = [session EXCEPT ![s].conns = @ \cup {c}]
              /\ Answer(c, s, reader[c].tcp)
              /\ UNCHANGED <<stream, panicked>>
         [] session[s].state = "prePlay" /\ stream.pc = "closed" ->
              /\ panicked' = "closed stream"
              /\ UNCHANGED <<conn, reader, session, stream>>
         [] OTHER ->
              /\ session' = [session EXCEPT ![s].conns = @ \cup {c}, ![s].state = "play",
                                            ![s].tcpConn = c, ![s].buffer = TRUE]
              /\ stream' = [stream EXCEPT !.unicast = @ \cup {s}]
              /\ Answer(c, s, TRUE)
              /\ UNCHANGED panicked

\* handleRecord: OnRecord opens the stream.
Record(s, c) ==
    /\ Accepts(s, c, "RECORD")
    /\ session' = [session EXCEPT ![s].conns = @ \cup {c}, ![s].state = "record",
                                  ![s].tcpConn = c, ![s].buffer = TRUE]
    /\ stream' = [stream EXCEPT !.pc = "open"]
    /\ Answer(c, s, TRUE)
    /\ UNCHANGED panicked

\* Mutant of Teardown: the reader goes on with readFuncTCP.
TeardownTCP(s, c) ==
    /\ Accepts(s, c, "TEARDOWN")
    /\ session' = [session EXCEPT ![s].conns = @ \cup {c}, ![s].pc = "exit"]
    /\ Answer(c, None, reader[c].tcp)
    /\ UNCHANGED <<stream, panicked>>

\* case base.Teardown, then runInner returns
Teardown(s, c) ==
    LET switch == session[s].state \in {"play", "record"} IN
    /\ Accepts(s, c, "TEARDOWN")
    /\ session' = [session EXCEPT ![s].conns = @ \cup {c}, ![s].pc = "exit"]
    /\ Answer(c, None, reader[c].tcp /\ ~switch)
    /\ panicked' = IF switch /\ session[s].tcpConn = None THEN "nil tcpConn" ELSE None
    /\ UNCHANGED stream

\* case <-ss.ctx.Done()
SessionCanceled(s) ==
    /\ session[s].pc = "run"
    /\ SessionDone(s)
    /\ session' = [session EXCEPT ![s].pc = "exit"]
    /\ UNCHANGED <<host, serverVars, created, conn, reader, sent, writer, stream, panicked>>

\* run after runInner: readerSetInactive, readerRemove, and the writer, which
\* ends with its buffer
SessionLeavesStream(s) ==
    /\ session[s].pc = "exit"
    /\ session' = [session EXCEPT ![s].ctxDone = TRUE, ![s].left = session[s].conns,
                                  ![s].pc = "visit"]
    /\ stream' = [stream EXCEPT !.readers = @ \ {s},
                                !.unicast = IF session[s].state = "play" THEN @ \ {s} ELSE @]
    /\ writer' = [writer EXCEPT ![s] = IF @ = "run" THEN "done" ELSE @]
    /\ UNCHANGED <<host, serverVars, created, conn, reader, sent, panicked>>

\* The next connection of the map: the one with the frames is closed first.
SessionVisits(s, c) ==
    /\ session[s].pc = "visit"
    /\ session[s].cur = None
    /\ c \in session[s].left
    /\ session' = [session EXCEPT ![s].cur = c, ![s].left = @ \ {c}]
    /\ conn' = [conn EXCEPT ![c].ctxDone = @ \/ c = session[s].tcpConn]
    /\ UNCHANGED <<host, serverVars, created, reader, sent, writer, stream, panicked>>

\* Mutant of SessionRemovesConn: it does not wait for the connection to end.
SessionRemovesConnEarly(s) ==
    LET c == session[s].cur IN
    /\ session[s].pc = "visit"
    /\ c # None
    /\ \/ /\ conn[c].pc = "idle"
          /\ conn' = [conn EXCEPT ![c].session = IF @ = s THEN None ELSE @]
       \/ ConnDone(c) /\ UNCHANGED conn
    /\ session' = [session EXCEPT ![s].cur = None]
    /\ UNCHANGED <<host, serverVars, created, reader, sent, writer, stream, panicked>>

\* <-sc.done of that one, then sc.sessionRemove <- ss or <-sc.ctx.Done()
SessionRemovesConn(s) ==
    LET c == session[s].cur IN
    /\ session[s].pc = "visit"
    /\ c # None
    /\ c = session[s].tcpConn => conn[c].pc = "done"
    /\ \/ /\ conn[c].pc = "idle"
          /\ conn' = [conn EXCEPT ![c].session = IF @ = s THEN None ELSE @]
       \/ ConnDone(c) /\ UNCHANGED conn
    /\ session' = [session EXCEPT ![s].cur = None]
    /\ UNCHANGED <<host, serverVars, created, reader, sent, writer, stream, panicked>>

\* case ss.s.sessionClose <- ss
SessionReports(s) ==
    /\ session[s].pc = "visit"
    /\ session[s].cur = None
    /\ session[s].left = {}
    /\ \/ server.pc = "run" /\ sessions' = sessions \ {s}
       \/ serverDone /\ UNCHANGED sessions
    /\ session' = [session EXCEPT ![s].pc = "closing"]
    /\ UNCHANGED <<host, serverDone, server, conns, created, conn, reader, sent, writer, stream,
                   panicked>>

\* path.close: the contexts of the publisher and of the readers end, and the
\* stream with them (ServerStream.Close).
CanceledWithPath == stream.readers \cup ({stream.source} \ {None})
ClosedStream == [NewStream EXCEPT !.pc = "closed"]

\* OnSessionClose: the session of a publisher closes the path.  Nothing of the
\* session is used again.
SessionEnds(s) ==
    LET publishes == session[s].state \in {"preRecord", "record"} /\ stream.pc # "closed" IN
    /\ session[s].pc = "closing"
    /\ session' = [t \in Sessions |->
         IF t = s
         THEN [NewSession EXCEPT !.pc = "done", !.ctxDone = TRUE, !.author = session[s].author]
         ELSE [session[t] EXCEPT !.ctxDone = @ \/ (publishes /\ t \in CanceledWithPath)]]
    /\ stream' = IF publishes THEN ClosedStream ELSE stream
    /\ writer' = [writer EXCEPT ![s] = "none"]
    /\ UNCHANGED <<host, serverVars, created, conn, reader, sent, panicked>>

\* The monitor removes the path, or its muxer failed.
PathCloses ==
    /\ stream.pc # "closed"
    /\ session' = [t \in Sessions |->
         [session[t] EXCEPT !.ctxDone = @ \/ t \in CanceledWithPath]]
    /\ stream' = ClosedStream
    /\ UNCHANGED <<host, serverVars, created, conn, reader, sent, writer, panicked>>

(***************************************************************************)
(* Specification                                                           *)
(***************************************************************************)

ServerStep == ServerHandOverFails \/ ServerEnds \/ \E c \in Conns : ServerTakesRequest(c)
ConnStep(c) ==
    \/ RequestFails(c) \/ StartWriter(c) \/ ConnCanceled(c) \/ ConnLeavesSession(c)
    \/ ConnEnds(c)
SessionHandles(s, c) ==
    \/ SessionRefuses(s, c) \/ SessionPanics(s, c) \/ Options(s, c) \/ Announce(s, c)
    \/ Setup(s, c) \/ Play(s, c) \/ Record(s, c) \/ Teardown(s, c)
SessionStep(s) ==
    \/ SessionCanceled(s) \/ SessionLeavesStream(s) \/ SessionRemovesConn(s)
    \/ SessionReports(s) \/ SessionEnds(s)
    \/ \E c \in Conns : SessionVisits(s, c) \/ SessionHandles(s, c)

\* Clients, monitors and the caller of Close
Environment ==
    \/ CloseServer \/ PathCloses
    \/ \E c \in Conns : Accept(c) \/ ReadFails(c) \/ \E req \in Asks[c] : HandleRequest(c, req)

Step ==
    \/ ServerStep
    \/ \E c \in Conns : ConnStep(c)
    \/ \E s \in Sessions : SessionStep(s)

Next == panicked = None /\ (Step \/ Environment)

Spec == Init /\ [][Next]_vars

(***************************************************************************)
(* Properties                                                              *)
(***************************************************************************)

TypeOK ==
    /\ serverDone \in BOOLEAN
    /\ sessions \subseteq Sessions /\ conns \subseteq Conns
    /\ \A c \in Conns :
         /\ conn[c].pc \in {"none", "idle", "toServer", "toSession", "waitServer", "closing", "done"}
         /\ conn[c].session \in Sessions \cup {None}
         /\ reader[c].pc \in {"none", "read", "wait", "start", "done"}
    /\ \A s \in Sessions :
         /\ session[s].pc \in {"none", "run", "exit", "visit", "closing", "done"}
         /\ session[s].state \in {"initial", "prePlay", "play", "preRecord", "record"}
         /\ session[s].conns \subseteq Conns
         /\ session[s].tcpConn \in IF session[s].state \in {"play", "record"} THEN Conns ELSE {None}
    /\ stream.pc \in {"none", "open", "closed"}
    /\ stream.unicast \subseteq Sessions /\ stream.readers \subseteq Sessions

\* A closed stream is refused (ErrClosedStream).  It is not: a PLAY handled while
\* the path is closed sets an entry of the nil map that ServerStream.Close left
\* (serverstream.go:136), which readerAdd checks and readerSetActive does not.
ClosedStreamRefused == panicked # "closed stream"

\* Of all pointers that handlers follow without a check (sc.session of the reader,
\* tcpConn of a TEARDOWN, the maps of the stream, the transport mode), only two
\* can be nil: the map of a closed stream, and the mode of a SETUP without one.
PanicsKnown == panicked \in {None, "closed stream", "nil mode"}

\* "make sure that OnFrame() is never called after OnSessionClose()": a reader that
\* passes frames on has a session, it is the session's connection, and the session
\* has not ended; the handler would find no session to give the frame to.
FramesHaveSession ==
    \A c \in Conns :
        LET s == conn[c].session IN
        reader[c].pc \in {"read", "start"} /\ reader[c].tcp /\ conn[c].pc \in {"idle", "closing"} =>
            \/ s # None /\ session[s].tcpConn = c /\ session[s].pc # "done"
            \/ conn[c].pc = "closing" /\ s = None

\* A stream only writes to sessions that play, have a buffer, and have their tracks
\* set up for good; a session that has ended is in no stream.
ReadersPlay ==
    /\ \A s \in stream.unicast :
         /\ session[s].state = "play" /\ session[s].buffer /\ session[s].setupped # {}
         /\ session[s].pc \in {"run", "exit"}
    /\ stream.unicast \subseteq stream.readers

\* Connections and sessions agree: a connection paired with a session that runs
\* is one of its connections, so that the session ends with the last of them; and
\* a session that runs only has connections that are paired with it.
PairingMutual ==
    \A c \in Conns, s \in Sessions :
        session[s].pc = "run" /\ ~SessionDone(s) /\ conn[c].pc \in {"idle", "toSession", "closing"} =>
            (conn[c].session = s <=> c \in session[s].conns)

\* Connections, readers, sessions and the stream refer to each other consistently,
\* although each is changed by a goroutine of its own.
LinksAgree == FramesHaveSession /\ ReadersPlay /\ PairingMutual

AllDone ==
    /\ server.pc = "closed"
    /\ \A c \in Conns : conn[c].pc \in {"none", "done"}
    /\ \A s \in Sessions : session[s].pc \in {"none", "done"}

\* Where a goroutine waits: what it waits for has not come.  A session answers
\* what it is asked while it runs, and its context is done when it has ended.
Answers(s) == session[s].pc = "run" \/ SessionDone(s)
ServerWaits ==
    /\ server.pc = "run" => ~serverDone /\ \A c \in Conns : conn[c].pc # "toServer"
    /\ server.pc = "handOver" => ~Answers(server.session)
ConnWaits(c) ==
    LET s == conn[c].session IN
    /\ conn[c].pc = "idle" => ~ConnDone(c)
    /\ ~GivesUp(c)
    /\ conn[c].pc = "toSession" => session[s].pc # "run"
    /\ reader[c].pc = "start" => s # None /\ ~Answers(s)
    /\ conn[c].pc = "closing" /\ ReaderDone(c) =>
         IF s = None THEN server.pc # "run" /\ ~serverDone ELSE ~Answers(s)
SessionWaits(s) ==
    LET c == session[s].cur IN
    /\ session[s].pc \notin {"exit", "closing"}
    /\ session[s].pc = "run" => ~SessionDone(s)
    /\ session[s].pc = "visit" =>
         IF c = None THEN session[s].left = {} /\ server.pc # "run" /\ ~serverDone
         ELSE (c = session[s].tcpConn => conn[c].pc = "done") => conn[c].pc # "idle" /\ ~ConnDone(c)

AllWait == ServerWaits /\ (\A c \in Conns : ConnWaits(c)) /\ (\A s \in Sessions : SessionWaits(s))

\* Nobody waits for ever, although the server, connections and sessions wait for
\* each other: when all goroutines wait, Server.Close has returned if it was
\* called, a session whose context is done has ended, and so has one whose last
\* connection is gone, so that its path is free again.  Every step of a goroutine
\* brings it closer to its end or answers a request, so that this is where the
\* goroutines get if clients do nothing more.
NobodyStuck ==
    panicked = None /\ AllWait =>
        /\ serverDone => AllDone
        /\ \A s \in Sessions :
             /\ session[s].ctxDone => session[s].pc = "done"
             /\ session[s].pc = "run" => session[s].conns \cap conns # {}
        /\ \A c \in Conns : conn[c].pc \in {"none", "idle", "done"}

====
