--------------------------- MODULE RTSPInvariant ---------------------------
(***************************************************************************)
(* The inductive invariant of the RTSP server, and what the steps that     *)
(* keep it have in common.  The proofs are in RTSPRequestsProofs and       *)
(* RTSPServerProofs.                                                       *)
(***************************************************************************)
EXTENDS RTSPServer

\* Connections, readers, sessions and the stream are records, from first to last.
ConnShapes ==
    /\ DOMAIN conn = Conns /\ \A c \in Conns : DOMAIN conn[c] = {"pc", "ctxDone", "session", "req"}
    /\ DOMAIN reader = Conns /\ \A c \in Conns : DOMAIN reader[c] = {"pc", "tcp"}
SessionShapes ==
    /\ DOMAIN session = Sessions
    /\ \A s \in Sessions :
         DOMAIN session[s] = {"pc", "ctxDone", "author", "state", "conns", "tcpConn", "setupped", "announced",
                              "buffer", "left", "cur"}
StreamShape == DOMAIN stream = {"pc", "source", "readers", "unicast"}
Shapes == ConnShapes /\ SessionShapes /\ StreamShape /\ sessions \subseteq Sessions /\ created \in Nat

\* A session that was not created has no connection, and is nobody's.
Fresh ==
    /\ \A s \in Sessions : s > created => session[s].pc = "none"
    /\ \A s \in sessions : session[s].pc # "none"
    /\ \A s \in Sessions :
         session[s].pc = "none" =>
             session[s].conns = {} /\ session[s].state = "initial" /\ session[s].tcpConn = None

\* A connection without a session waits for the server; the server answers it.
AtServer ==
    /\ \A c \in Conns :
         /\ conn[c].session \in Sessions \cup {None}
         /\ conn[c].pc \in {"none", "toServer", "waitServer", "done"} => conn[c].session = None
    /\ server.pc = "handOver" =>
         /\ server.conn \in Conns /\ conn[server.conn].pc = "waitServer"
         /\ server.session \in Sessions /\ session[server.session].pc # "none"

\* A session has a connection for its frames when it plays or records.
FramesOver == \A s \in Sessions : session[s].tcpConn # None <=> session[s].state \in {"play", "record"}

\* A session knows the connections that are paired with it until it takes leave of
\* them, and does not end before the one that has its frames.
Paired ==
    \A c \in Conns, s \in Sessions :
        conn[c].session = s =>
            /\ session[s].pc # "none"
            /\ session[s].pc \in {"run", "exit"} => c \in session[s].conns
            /\ session[s].tcpConn = c =>
                 /\ session[s].pc \in {"run", "exit", "visit"}
                 /\ session[s].pc = "visit" => c \in session[s].left \cup {session[s].cur}

\* The connections of a session that runs are paired with it, whatever they do.
Known ==
    \A s \in Sessions :
        session[s].pc = "run" /\ ~SessionDone(s) => \A c \in session[s].conns : conn[c].session = s

\* A reader that passes frames on, or is about to, has a session that expects them.
FramesExpected ==
    \A c \in Conns :
        /\ reader[c].tcp =>
             \/ conn[c].pc = "closing" /\ conn[c].session = None
             \/ conn[c].session \in Sessions /\ session[conn[c].session].tcpConn = c
        /\ reader[c].pc = "start" => reader[c].tcp /\ conn[c].session # None

\* Who is about to play is a reader of the path, with a track.
Reads ==
    /\ stream.unicast \subseteq Sessions
    /\ \A s \in Sessions : session[s].state \in {"prePlay", "play"} => session[s].setupped # {}
    /\ \A s \in Sessions :
         session[s].pc \in {"run", "exit"} /\ session[s].state = "prePlay" /\ stream.pc # "closed" =>
             s \in stream.readers
    /\ ReadersPlay

LinksInv == Shapes /\ Fresh /\ AtServer /\ FramesOver /\ Paired /\ Known /\ FramesExpected /\ Reads

\* The places of the goroutines.  A connection that the server has not forgotten is
\* between its beginning and its end; who waits for the server is being served.
ServerPlaces == server.pc \in {"run", "handOver", "closed"} /\ (server.pc = "closed" => serverDone)
ConnPlaces ==
    \A c \in Conns :
        /\ conn[c].pc \in {"none", "idle", "toServer", "toSession", "waitServer", "closing", "done"}
        /\ conn[c].pc \notin {"none", "done"} => c \in conns
        /\ conn[c].pc = "done" => conn[c].ctxDone
        /\ conn[c].pc = "toSession" => conn[c].session # None
        /\ conn[c].pc \in {"idle", "closing"} => reader[c].pc \in {"read", "start", "done"}
        /\ conn[c].pc = "waitServer" => server.pc = "handOver" /\ server.conn = c
SessionPlaces ==
    \A s \in Sessions :
        /\ session[s].pc \in {"none", "run", "exit", "visit", "closing", "done"}
        /\ session[s].pc \in {"visit", "closing", "done"} => session[s].ctxDone
        /\ session[s].ctxDone => session[s].pc # "none"

\* Connections that a session knows, or visits, exist; the one with the frames is
\* told to end before the session waits for its end.
Visits ==
    \A s \in Sessions :
        /\ session[s].conns \cup session[s].left \subseteq Conns
        /\ session[s].cur \in Conns \cup {None} /\ (session[s].cur # None => session[s].pc = "visit")
        /\ \A c \in session[s].conns \cup session[s].left \cup ({session[s].cur} \ {None}) : conn[c].pc # "none"
        /\ session[s].cur # None /\ session[s].cur = session[s].tcpConn => conn[session[s].cur].ctxDone

\* A session that runs without a connection is being given one.
NotAlone ==
    \A s \in Sessions :
        session[s].pc = "run" /\ ~SessionDone(s) /\ session[s].conns = {} =>
            server.pc = "handOver" /\ server.session = s

\* Whom the path closes with itself was created.
PathKnows ==
    \A s \in Sessions : s \in stream.readers \/ s = stream.source => session[s].pc # "none"

RTSPInv == LinksInv /\ ServerPlaces /\ ConnPlaces /\ SessionPlaces /\ Visits /\ NotAlone /\ PathKnows

(***************************************************************************)
(* Steps                                                                   *)
(***************************************************************************)

\* Nobody moves but connection c and its reader.
OnlyConn(c) == \A d \in Conns : d # c => conn'[d] = conn[d] /\ reader'[d] = reader[d]

\* What the server knows stays.
ServerStays == UNCHANGED <<serverDone, sessions, conns, created>>

\* What a session does to itself while it serves a request of c: c is one of its
\* connections, it goes on or ends, and its other fields change as Accepted says.
Serves(s, c) ==
    /\ session'[s].conns = session[s].conns \cup {c} /\ session'[s].pc \in {"run", "exit"}
    /\ session'[s].ctxDone = session[s].ctxDone
    /\ session'[s].left = session[s].left /\ session'[s].cur = session[s].cur
    /\ \A t \in Sessions : t # s => session'[t] = session[t]

\* Connection c is answered, and stays with the session, or the session ends.
ConnServed(s, c) ==
    /\ conn'[c].pc \in {"idle", "closing"} /\ (conn[c].ctxDone => conn'[c].ctxDone)
    /\ \/ conn'[c].session = s
       \/ conn'[c].session = None /\ session'[s].pc = "exit" /\ ~reader'[c].tcp /\ reader'[c].pc # "start"

\* Its reader goes on, with the frames of the session if it passes any on.
ReaderServed(s, c) ==
    /\ reader'[c].pc \in {"read", "start", "done"}
    /\ reader'[c].pc = "start" => reader'[c].tcp
    /\ reader'[c].tcp => session'[s].tcpConn = c

\* The frames of the session go over c, or over the connection they went over.
FramesServed(s, c) ==
    /\ session'[s].tcpConn \in {session[s].tcpConn, c}
    /\ Linked(s, c) \/ session'[s].tcpConn = session[s].tcpConn
    /\ session'[s].tcpConn # None <=> session'[s].state \in {"play", "record"}

StreamServed(s) ==
    stream'.readers \subseteq stream.readers \cup {s} /\ stream'.source \in {stream.source, s}

\* The fields of a session that its streams depend on.
SameReads(s) ==
    /\ session'[s].state = session[s].state /\ session'[s].setupped = session[s].setupped
    /\ session'[s].buffer = session[s].buffer /\ session'[s].tcpConn = session[s].tcpConn

\* What one connection does alone, or with the server: it goes on from where it was.
ConnMoved(c) ==
    /\ conn'[c].pc \in {"idle", "toServer", "toSession", "waitServer", "closing", "done"}
    /\ conn'[c].pc # "done" => c \in conns'
    /\ conn'[c].pc = "done" => conn'[c].ctxDone
    /\ conn[c].ctxDone => conn'[c].ctxDone
    /\ \A d \in Conns : d # c => (d \in conns' <=> d \in conns)

\* Its session stays.
SessionKept(c) ==
    /\ conn'[c].session = conn[c].session
    /\ conn'[c].pc \in {"toServer", "waitServer", "done"} => conn[c].session = None
    /\ conn'[c].pc = "toSession" => conn[c].session # None

\* Its reader passes no frames on that it did not before.
ReaderMoved(c) ==
    /\ conn'[c].pc \in {"idle", "closing"} => reader'[c].pc \in {"read", "start", "done"}
    /\ reader'[c].tcp => reader[c].tcp
    /\ reader'[c].tcp /\ conn[c].pc = "closing" => conn'[c].pc = "closing"
    /\ reader'[c].pc = "start" => reader[c].pc = "start" /\ reader'[c].tcp

\* The server takes its request to a session it knows, or gives up, or does not care.
ServerMoved(c) ==
    \/ server' = server /\ conn[c].pc # "waitServer" /\ conn'[c].pc # "waitServer"
    \/ /\ server.pc = "run" /\ conn'[c].pc = "waitServer"
       /\ server'.pc = "handOver" /\ server'.conn = c /\ server'.session \in sessions
    \/ /\ server.pc = "handOver" /\ server.conn = c /\ conn'[c].pc # "waitServer"
       /\ server'.pc = "run" /\ SessionDone(server.session)

=============================================================================
