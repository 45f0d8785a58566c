------------------------- MODULE RTSPRequestsProofs -------------------------
(***************************************************************************)
(* The steps by which a request goes from a connection to the server and a *)
(* session, and is answered, keep the invariant of the RTSP server, for    *)
(* any number of connections, sessions and requests.  XKeeps is the lemma  *)
(* that step X keeps it.                                                   *)
(***************************************************************************)
EXTENDS RTSPInvariant, TLAPS

LEMMA NumbersOfSessions ==
    /\ None \notin Conns /\ None \notin Sessions
    /\ \A s \in Sessions : s \in Nat
    /\ \A n \in Nat : n < MaxSessions => n + 1 \in Sessions
BY RTSPServerAssumption DEF Sessions

USE DEF RTSPInv, LinksInv

LEMMA ConnMoves ==
    ASSUME RTSPInv, NEW c \in Conns, Shapes', UNCHANGED <<serverDone, sessions, created, session, stream>>,
           OnlyConn(c), ConnMoved(c), SessionKept(c), ReaderMoved(c), ServerMoved(c)
    PROVE  RTSPInv'
<1>1. Fresh' /\ FramesOver' /\ Reads' /\ PathKnows' /\ SessionPlaces'
  BY Zenon DEF Fresh, FramesOver, Reads, ReadersPlay, PathKnows, SessionPlaces
<1>2. AtServer'
  <2>1. \A d \in Conns : /\ conn'[d].session \in Sessions \cup {None}
                         /\ conn'[d].pc \in {"none", "toServer", "waitServer", "done"} => conn'[d].session = None
    BY DEF AtServer, OnlyConn, ConnMoved, SessionKept
  <2>2. server'.pc = "handOver" =>
         /\ server'.conn \in Conns /\ conn'[server'.conn].pc = "waitServer"
         /\ server'.session \in Sessions /\ session'[server'.session].pc # "none"
    BY Zenon DEF AtServer, Fresh, Shapes, OnlyConn, ServerMoved
  <2> QED
    BY Zenon, <2>1, <2>2 DEF AtServer
<1>3. Paired'
  BY DEF Paired, OnlyConn, SessionKept
<1>4. Known'
  BY DEF Known, SessionDone, Visits, OnlyConn, SessionKept
<1>5. FramesExpected'
  BY DEF FramesExpected, AtServer, OnlyConn, SessionKept, ReaderMoved
<1>6. ServerPlaces'
  BY Zenon DEF ServerPlaces, ServerMoved
<1>7. ConnPlaces'
  <2>1. \A d \in Conns : d # c /\ conn[d].pc = "waitServer" => server' = server
    BY Zenon DEF ConnPlaces, ServerMoved
  <2>2. conn'[c].pc = "waitServer" => server'.pc = "handOver" /\ server'.conn = c
    BY Zenon DEF ServerMoved
  <2> QED
    BY <2>1, <2>2 DEF ConnPlaces, OnlyConn, ConnMoved, SessionKept, ReaderMoved
<1>8. Visits'
  BY DEF Visits, OnlyConn, ConnMoved
<1>9. NotAlone'
  BY Zenon DEF NotAlone, SessionDone, Fresh, ServerMoved
<1> QED
  BY Zenon, <1>1, <1>2, <1>3, <1>4, <1>5, <1>6, <1>7, <1>8, <1>9

\* What Answer and AnswerError do to the connection and to its reader.
LEMMA AnswerEffect ==
    ASSUME Shapes, NEW c \in Conns, NEW ss, NEW tcp, Answer(c, ss, tcp)
    PROVE  /\ ConnShapes' /\ OnlyConn(c)
           /\ conn'[c].pc = "idle" /\ conn'[c].ctxDone = conn[c].ctxDone /\ conn'[c].session = ss
           /\ reader'[c].tcp = tcp /\ reader'[c].pc = IF tcp /\ ~reader[c].tcp THEN "start" ELSE "read"
BY Zenon DEF Shapes, ConnShapes, OnlyConn, Answer

LEMMA AnswerErrorEffect ==
    ASSUME Shapes, NEW c \in Conns, NEW ss, AnswerError(c, ss)
    PROVE  /\ ConnShapes' /\ OnlyConn(c)
           /\ conn'[c].pc = "closing" /\ conn'[c].ctxDone /\ conn'[c].session = ss
           /\ reader'[c].tcp = reader[c].tcp /\ reader'[c].pc = "done"
BY ZenonT(30) DEF Shapes, ConnShapes, OnlyConn, AnswerError

\* A request fails, or cannot be read: the connection ends with the session it has.
LEMMA FailsKeeps ==
    ASSUME RTSPInv, NEW c \in Conns, AnswerError(c, conn[c].session),
           conn[c].pc \in {"idle", "toServer", "toSession"},
           UNCHANGED <<serverVars, created, session, stream>>
    PROVE  RTSPInv'
<1>1. UNCHANGED <<server, conns, serverDone, sessions>>
  BY Zenon DEF serverVars
<1>2. Shapes' /\ OnlyConn(c)
  BY Zenon, <1>1, AnswerErrorEffect DEF Shapes, SessionShapes, StreamShape
<1>3. c \in conns
  BY Zenon DEF ConnPlaces
<1>4. ConnMoved(c) /\ SessionKept(c) /\ ReaderMoved(c) /\ ServerMoved(c)
  BY Zenon, <1>1, <1>3, AnswerErrorEffect DEF ConnMoved, SessionKept, ReaderMoved, ServerMoved
<1> QED
  BY Zenon, <1>1, <1>2, <1>4, ConnMoves

LEMMA RequestKeeps ==
    ASSUME RTSPInv, NEW c \in Conns, NEW req, HandleRequest(c, req) \/ RequestFails(c) \/ ReadFails(c)
    PROVE  RTSPInv'
<1>1. UNCHANGED <<serverVars, created, session, stream>>
  BY Zenon DEF HandleRequest, RequestFails, ReadFails
<1>2. UNCHANGED <<server, conns, serverDone, sessions>>
  BY Zenon, <1>1 DEF serverVars
<1>3. CASE AnswerError(c, conn[c].session) /\ conn[c].pc \in {"idle", "toServer", "toSession"}
  BY Zenon, <1>1, <1>3, FailsKeeps
<1>4. CASE HandleRequest(c, req) /\ Answer(c, conn[c].session, reader[c].tcp)
  <2>1. conn[c].pc = "idle" /\ c \in conns
    BY Zenon, <1>4 DEF HandleRequest, ConnPlaces
  <2>2. Shapes' /\ OnlyConn(c)
    BY Zenon, <1>1, <1>2, <1>4, AnswerEffect DEF Shapes, SessionShapes, StreamShape
  <2>3. ConnMoved(c) /\ SessionKept(c) /\ ReaderMoved(c) /\ ServerMoved(c)
    BY <1>2, <1>4, <2>1, AnswerEffect DEF ConnMoved, SessionKept, ReaderMoved, ServerMoved
  <2> QED
    BY Zenon, <1>1, <1>2, <2>2, <2>3, ConnMoves
<1>5. ASSUME HandleRequest(c, req), NEW pc, pc \in {"toServer", "toSession"},
             pc = "toServer" <=> conn[c].session = None,
             conn' = [conn EXCEPT ![c].pc = pc, ![c].req = req],
             reader' = [reader EXCEPT ![c].pc = "wait"]
      PROVE  RTSPInv'
  <2>1. conn[c].pc = "idle" /\ c \in conns
    BY Zenon, <1>5 DEF HandleRequest, ConnPlaces
  <2>2. /\ ConnShapes' /\ OnlyConn(c)
        /\ conn'[c].pc = pc /\ conn'[c].session = conn[c].session /\ conn'[c].ctxDone = conn[c].ctxDone
        /\ reader'[c].tcp = reader[c].tcp /\ reader'[c].pc = "wait"
    BY Zenon, <1>5 DEF Shapes, ConnShapes, OnlyConn
  <2>3. Shapes'
    BY Zenon, <1>1, <1>2, <2>2 DEF Shapes, SessionShapes, StreamShape
  <2>4. ConnMoved(c) /\ SessionKept(c) /\ ReaderMoved(c) /\ ServerMoved(c)
    BY Zenon, <1>2, <1>5, <2>1, <2>2 DEF ConnMoved, SessionKept, ReaderMoved, ServerMoved
  <2> QED
    BY Zenon, <1>1, <1>2, <2>2, <2>3, <2>4, ConnMoves
<1> QED
  BY Zenon, <1>3, <1>4, <1>5 DEF HandleRequest, RequestFails, GivesUp, ReadFails

LEMMA AcceptKeeps ==
    ASSUME RTSPInv, NEW c \in Conns, Accept(c)
    PROVE  RTSPInv'
<1>1. UNCHANGED <<server, serverDone, sessions, created, session, stream>>
  BY Zenon DEF Accept, serverVars
<1>2. /\ ConnShapes' /\ OnlyConn(c)
      /\ conn[c].pc = "none" /\ conn'[c].pc = "idle" /\ conn'[c].session = conn[c].session
      /\ conn'[c].ctxDone = conn[c].ctxDone
      /\ reader'[c].tcp = reader[c].tcp /\ reader'[c].pc = "read" /\ conns' = conns \cup {c}
  BY Zenon DEF Accept, Shapes, ConnShapes, OnlyConn
<1>3. Shapes'
  BY Zenon, <1>1, <1>2 DEF Shapes, SessionShapes, StreamShape
<1>4. ConnMoved(c) /\ SessionKept(c) /\ ReaderMoved(c) /\ ServerMoved(c)
  BY Zenon, <1>1, <1>2 DEF ConnMoved, SessionKept, ReaderMoved, ServerMoved
<1> QED
  BY Zenon, <1>1, <1>2, <1>3, <1>4, ConnMoves

\* The reader starts the writer of its session; without a session it panics.
LEMMA StartWriterKeeps ==
    ASSUME RTSPInv, NEW c \in Conns, StartWriter(c)
    PROVE  RTSPInv'
<1>1. UNCHANGED <<server, serverDone, sessions, created, session, stream, conn, conns>>
  BY Zenon DEF StartWriter, serverVars
<1>2. reader[c].pc = "start" /\ reader[c].tcp /\ conn[c].session # None
  BY Zenon DEF StartWriter, FramesExpected
<1>3. reader' = [reader EXCEPT ![c].pc = "read"]
  BY Zenon, <1>2 DEF StartWriter
<1>4. ConnShapes' /\ OnlyConn(c) /\ reader'[c].tcp = reader[c].tcp /\ reader'[c].pc = "read"
  BY Zenon, <1>1, <1>3 DEF Shapes, ConnShapes, OnlyConn
<1>5. Shapes'
  BY Zenon, <1>1, <1>4 DEF Shapes, SessionShapes, StreamShape
<1>6. conn[c].pc \in {"idle", "toSession", "closing"}
  BY Zenon, <1>2 DEF ConnPlaces, AtServer
<1>7. ConnMoved(c) /\ SessionKept(c) /\ ReaderMoved(c) /\ ServerMoved(c)
  BY Zenon, <1>1, <1>2, <1>4, <1>6 DEF ConnMoved, SessionKept, ReaderMoved, ServerMoved, ConnPlaces
<1> QED
  BY Zenon, <1>1, <1>4, <1>5, <1>7, ConnMoves

LEMMA ConnCanceledKeeps ==
    ASSUME RTSPInv, NEW c \in Conns, ConnCanceled(c)
    PROVE  RTSPInv'
<1>1. UNCHANGED <<server, serverDone, sessions, created, session, stream, reader, conns>>
  BY Zenon DEF ConnCanceled, serverVars
<1>2. /\ ConnShapes' /\ OnlyConn(c)
      /\ conn[c].pc = "idle" /\ conn'[c].pc = "closing" /\ conn'[c].session = conn[c].session /\ conn'[c].ctxDone
  BY Zenon, <1>1 DEF ConnCanceled, Shapes, ConnShapes, OnlyConn
<1>3. Shapes'
  BY Zenon, <1>1, <1>2 DEF Shapes, SessionShapes, StreamShape
<1>4. c \in conns /\ reader[c].pc \in {"read", "start", "done"} /\ (reader[c].pc = "start" => reader[c].tcp)
  BY Zenon, <1>2 DEF ConnPlaces, FramesExpected
<1>5. ConnMoved(c) /\ SessionKept(c) /\ ReaderMoved(c) /\ ServerMoved(c)
  BY Zenon, <1>1, <1>2, <1>4 DEF ConnMoved, SessionKept, ReaderMoved, ServerMoved
<1> QED
  BY Zenon, <1>1, <1>2, <1>3, <1>5, ConnMoves

LEMMA ConnEndsKeeps ==
    ASSUME RTSPInv, NEW c \in Conns, ConnEnds(c)
    PROVE  RTSPInv'
<1>1. UNCHANGED <<server, serverDone, sessions, created, session, stream>>
  BY Zenon DEF ConnEnds
<1>2. /\ ConnShapes' /\ OnlyConn(c)
      /\ conn[c].pc = "closing" /\ conn'[c].pc = "done" /\ conn[c].session = None /\ conn'[c].session = None
      /\ conn'[c].ctxDone /\ ~reader'[c].tcp /\ reader'[c].pc = "done"
      /\ \A d \in Conns : d # c => (d \in conns' <=> d \in conns)
  BY Zenon DEF ConnEnds, Shapes, ConnShapes, OnlyConn, NewConn
<1>3. Shapes'
  BY Zenon, <1>1, <1>2 DEF Shapes, SessionShapes, StreamShape
<1>4. ConnMoved(c) /\ SessionKept(c) /\ ReaderMoved(c) /\ ServerMoved(c)
  BY Zenon, <1>1, <1>2 DEF ConnMoved, SessionKept, ReaderMoved, ServerMoved
<1> QED
  BY Zenon, <1>1, <1>2, <1>3, <1>4, ConnMoves

LEMMA TakesCases ==
    ASSUME NEW c \in Conns, ServerTakesRequest(c)
    PROVE  /\ server.pc = "run" /\ conn[c].pc = "toServer" /\ UNCHANGED <<serverDone, conns, stream>>
           /\ \/ AnswerError(c, None) /\ UNCHANGED <<server, sessions, created, session>>
              \/ \E s \in sessions :
                    /\ server' = [pc |-> "handOver", conn |-> c, session |-> s]
                    /\ conn' = [conn EXCEPT ![c].pc = "waitServer"]
                    /\ UNCHANGED <<reader, sessions, created, session>>
              \/ /\ created < MaxSessions /\ created' = created + 1 /\ sessions' = sessions \cup {created + 1}
                 /\ session' = [session EXCEPT ![created + 1].pc = "run", ![created + 1].author = c]
                 /\ server' = [pc |-> "handOver", conn |-> c, session |-> created + 1]
                 /\ conn' = [conn EXCEPT ![c].pc = "waitServer"]
                 /\ UNCHANGED reader
BY Zenon DEF ServerTakesRequest

\* The server takes a request for a session it knows, or refuses it; or gives up.
LEMMA ServerKeeps ==
    ASSUME RTSPInv, ServerHandOverFails \/ \E c \in Conns : ServerTakesRequest(c) /\ UNCHANGED created
    PROVE  RTSPInv'
<1>1. CASE ServerHandOverFails
  <2> DEFINE c == server.conn
  <2>1. /\ c \in Conns /\ conn[c].pc = "waitServer" /\ conn[c].session = None /\ server.pc = "handOver"
        /\ SessionDone(server.session) /\ AnswerError(c, None) /\ server'.pc = "run" /\ c \in conns
        /\ server.conn = c /\ UNCHANGED <<serverDone, sessions, conns, created, session, stream>>
    BY Zenon, <1>1 DEF ServerHandOverFails, AtServer, ConnPlaces
  <2> HIDE DEF c
  <2>2. Shapes' /\ OnlyConn(c)
    BY Zenon, <2>1, AnswerErrorEffect DEF Shapes, SessionShapes, StreamShape
  <2>3. ConnMoved(c) /\ SessionKept(c) /\ ReaderMoved(c) /\ ServerMoved(c)
    BY <2>1, AnswerErrorEffect DEF ConnMoved, SessionKept, ReaderMoved, ServerMoved
  <2> QED
    BY ZenonT(30), <2>1, <2>2, <2>3, ConnMoves
<1>2. ASSUME NEW c \in Conns, ServerTakesRequest(c), UNCHANGED created
      PROVE  RTSPInv'
  <2>1. /\ server.pc = "run" /\ conn[c].pc = "toServer" /\ UNCHANGED <<serverDone, conns, stream>>
        /\ conn[c].session = None /\ c \in conns
    BY Zenon, <1>2, TakesCases DEF AtServer, ConnPlaces
  <2>2. CASE AnswerError(c, None) /\ UNCHANGED <<server, sessions, created, session>>
    <3>1. Shapes' /\ OnlyConn(c)
      BY Zenon, <2>1, <2>2, AnswerErrorEffect DEF Shapes, SessionShapes, StreamShape
    <3>2. ConnMoved(c) /\ SessionKept(c) /\ ReaderMoved(c) /\ ServerMoved(c)
      BY ZenonT(30), <2>1, <2>2, AnswerErrorEffect DEF ConnMoved, SessionKept, ReaderMoved, ServerMoved
    <3> QED
      BY Zenon, <2>1, <2>2, <3>1, <3>2, ConnMoves
  <2>3. ASSUME NEW s \in sessions, server' = [pc |-> "handOver", conn |-> c, session |-> s],
               conn' = [conn EXCEPT ![c].pc = "waitServer"], UNCHANGED <<reader, sessions, created, session>>
        PROVE  RTSPInv'
    <3>1. /\ ConnShapes' /\ OnlyConn(c)
          /\ conn'[c].pc = "waitServer" /\ conn'[c].session = conn[c].session /\ conn'[c].ctxDone = conn[c].ctxDone
      BY Zenon, <2>3 DEF Shapes, ConnShapes, OnlyConn
    <3>2. Shapes'
      BY ZenonT(30), <2>1, <2>3, <3>1 DEF Shapes, SessionShapes, StreamShape
    <3>3. reader[c].pc # "start" /\ server'.pc = "handOver" /\ server'.conn = c /\ server'.session \in sessions
      BY Zenon, <2>1, <2>3 DEF FramesExpected
    <3>4. ConnMoved(c) /\ SessionKept(c) /\ ReaderMoved(c) /\ ServerMoved(c)
      BY Zenon, <2>1, <2>3, <3>1, <3>3 DEF ConnMoved, SessionKept, ReaderMoved, ServerMoved
    <3> QED
      BY Zenon, <2>1, <2>3, <3>1, <3>2, <3>4, ConnMoves
  <2>4. created' = created => created' # created + 1
    BY DEF Shapes
  <2> QED
    BY Zenon, <1>2, <2>2, <2>3, <2>4, TakesCases
<1> QED
  BY Zenon, <1>1, <1>2

\* The server creates a session: it is nobody's before.
LEMMA CreateKeeps ==
    ASSUME RTSPInv, NEW c \in Conns, ServerTakesRequest(c), ~UNCHANGED created
    PROVE  RTSPInv'
<1> DEFINE s == created + 1
<1>0. /\ session' = [session EXCEPT ![s].pc = "run", ![s].author = c]
      /\ conn' = [conn EXCEPT ![c].pc = "waitServer"]
      /\ server' = [pc |-> "handOver", conn |-> c, session |-> s]
      /\ created < MaxSessions /\ created' = s /\ sessions' = sessions \cup {s}
      /\ server.pc = "run" /\ conn[c].pc = "toServer" /\ UNCHANGED <<reader, serverDone, conns, stream>>
  BY Zenon, TakesCases
<1>1. /\ created \in Nat /\ created < MaxSessions /\ created' = s /\ sessions' = sessions \cup {s}
      /\ server.pc = "run" /\ conn[c].pc = "toServer" /\ conn[c].session = None /\ c \in conns
      /\ server'.pc = "handOver" /\ server'.conn = c /\ server'.session = s
      /\ UNCHANGED <<reader, serverDone, conns, stream>>
  <2>1. created \in Nat
    BY Zenon DEF Shapes
  <2>2. conn[c].session = None /\ c \in conns
    BY Zenon, <1>0 DEF AtServer, ConnPlaces
  <2> QED
    BY Zenon, <1>0, <2>1, <2>2
<1>2. /\ s \in Sessions /\ session[s].pc = "none"
      /\ \A t \in Sessions : t > s => t # s /\ t > created
  BY <1>1, NumbersOfSessions DEF Fresh
<1>10. s \in Nat
  BY <1>1
<1> HIDE DEF s
<1>3. /\ ConnShapes' /\ \A d \in Conns : d # c => conn'[d] = conn[d]
      /\ conn'[c].pc = "waitServer" /\ conn'[c].session = conn[c].session /\ conn'[c].ctxDone = conn[c].ctxDone
  BY Zenon, <1>0, <1>1 DEF Shapes, ConnShapes
<1>16. SessionShapes'
  BY Zenon, <1>0, <1>2 DEF Shapes, SessionShapes
<1>17. Shapes'
  BY Zenon, <1>1, <1>2, <1>3, <1>10, <1>16 DEF Shapes, StreamShape
<1>4. /\ session'[s].pc = "run" /\ session'[s].ctxDone = session[s].ctxDone /\ session'[s].state = session[s].state
      /\ session'[s].conns = session[s].conns /\ session'[s].tcpConn = session[s].tcpConn
      /\ session'[s].setupped = session[s].setupped /\ session'[s].buffer = session[s].buffer
      /\ session'[s].left = session[s].left /\ session'[s].cur = session[s].cur
      /\ \A t \in Sessions : t # s => session'[t] = session[t]
  BY Zenon, <1>0, <1>2 DEF Shapes, SessionShapes
<1>5. /\ session[s].conns = {} /\ session[s].state = "initial" /\ session[s].tcpConn = None
      /\ s \notin stream.unicast /\ s \notin sessions /\ \A d \in Conns : conn[d].session # s
  BY <1>2 DEF Fresh, Reads, ReadersPlay, Paired
<1>6. Fresh'
  BY <1>1, <1>2, <1>4 DEF Fresh, Shapes
<1>7. AtServer'
  BY <1>1, <1>2, <1>3, <1>4 DEF AtServer
<1>8. FramesOver' /\ Paired'
  BY <1>2, <1>3, <1>4, <1>5 DEF FramesOver, Paired
<1>9. Known'
  <2>1. \A d \in Conns : conn'[d].session = conn[d].session
    BY Zenon, <1>3
  <2>2. \A t \in Sessions : session[t].conns \subseteq Conns
    BY Zenon DEF Visits
  <2> QED
    BY <1>1, <1>4, <1>5, <2>1, <2>2 DEF Known, SessionDone
<1>15. FramesExpected'
  BY <1>1, <1>2, <1>3, <1>4 DEF FramesExpected
<1>11. Reads'
  BY <1>1, <1>4, <1>5 DEF Reads, ReadersPlay
<1>12. ServerPlaces' /\ ConnPlaces'
  BY <1>1, <1>3 DEF ServerPlaces, ConnPlaces
<1>18. SessionPlaces'
  BY <1>1, <1>2, <1>4 DEF SessionPlaces
<1>13. Visits'
  BY <1>2, <1>3, <1>4 DEF Visits
<1>14. NotAlone' /\ PathKnows'
  BY <1>1, <1>4 DEF NotAlone, PathKnows, SessionDone
<1> QED
  BY ZenonT(30), <1>6, <1>7, <1>8, <1>9, <1>15, <1>11, <1>12, <1>13, <1>14, <1>17, <1>18

\* The server is told to end, and does.
LEMMA ServerEndKeeps == RTSPInv /\ (CloseServer \/ ServerEnds) => RTSPInv'
<1> SUFFICES ASSUME RTSPInv, CloseServer \/ ServerEnds PROVE RTSPInv'
  OBVIOUS
<1>1. /\ UNCHANGED <<sessions, conns, created, conn, reader, session, stream>>
      /\ serverDone => serverDone'
      /\ \/ server' = server
         \/ server'.pc = "closed" /\ server.pc = "run" /\ serverDone'
  <2>1. CASE CloseServer
    <3>1. serverDone'
      BY Zenon, <2>1 DEF CloseServer
    <3>2. UNCHANGED <<server, sessions, conns, created, conn, reader, session, stream>>
      BY Zenon, <2>1 DEF CloseServer
    <3> QED
      BY Zenon, <3>1, <3>2
  <2>2. CASE ServerEnds
    BY Zenon, <2>2 DEF ServerEnds
  <2> QED
    BY Zenon, <2>1, <2>2
<1>2. Shapes'
  BY <1>1 DEF Shapes, ConnShapes, SessionShapes, StreamShape
<1>7. Fresh' /\ FramesOver' /\ Paired'
  BY <1>1 DEF Fresh, FramesOver, Paired
<1>3. FramesExpected' /\ Reads' /\ Visits' /\ PathKnows' /\ SessionPlaces'
  BY <1>1 DEF FramesExpected, Reads, ReadersPlay, Visits, PathKnows, SessionPlaces
<1>4. AtServer' /\ ServerPlaces'
  BY Zenon, <1>1 DEF AtServer, ServerPlaces
<1>5. ConnPlaces'
  BY Zenon, <1>1 DEF ConnPlaces
<1>6. Known' /\ NotAlone'
  BY Zenon, <1>1 DEF Known, NotAlone, SessionDone
<1> QED
  BY Zenon, <1>2, <1>3, <1>4, <1>5, <1>6, <1>7

\* Who asks a session is paired with it or with none, and waits for the answer.
LEMMA ReceivesEffect ==
    ASSUME RTSPInv, NEW s \in Sessions, NEW c \in Conns, Receives(s, c)
    PROVE  /\ session[s].pc = "run" /\ c \in conns /\ conn[c].session \in {s, None}
           /\ conn[c].pc \in {"toSession", "waitServer"}
           /\ reader[c].tcp => conn[c].session = s /\ session[s].tcpConn = c
           /\ \/ conn[c].pc = "toSession" /\ server' = server
              \/ /\ server.pc = "handOver" /\ server.conn = c /\ server.session = s /\ conn[c].pc = "waitServer"
                 /\ server'.pc = "run"
<1>1. CASE conn[c].pc = "toSession" /\ conn[c].session = s /\ UNCHANGED server /\ session[s].pc = "run"
  <2>1. c \in conns
    BY Zenon, <1>1 DEF ConnPlaces
  <2>2. reader[c].tcp => session[s].tcpConn = c
    BY ZenonT(30), <1>1, NumbersOfSessions DEF FramesExpected
  <2> QED
    BY ZenonT(30), <1>1, <2>1, <2>2
<1>2. CASE server = [pc |-> "handOver", conn |-> c, session |-> s] /\ server' = [pc |-> "run"] /\ session[s].pc = "run"
  <2>1. server.pc = "handOver" /\ server.conn = c /\ server.session = s /\ server'.pc = "run"
    BY ZenonT(30), <1>2
  <2>2. conn[c].pc = "waitServer" /\ conn[c].session = None /\ c \in conns
    BY ZenonT(30), <2>1 DEF AtServer, ConnPlaces
  <2>3. ~reader[c].tcp
    BY Zenon, <2>2, NumbersOfSessions DEF FramesExpected
  <2> QED
    BY ZenonT(30), <1>2, <2>1, <2>2, <2>3
<1> QED
  BY Zenon, <1>1, <1>2 DEF Receives

\* A session serves a request: whatever the answer, connections and sessions go on
\* to agree if the session's own fields, and the reader's, do.
LEMMA ServesKeeps ==
    ASSUME RTSPInv, NEW s \in Sessions, NEW c \in Conns, Receives(s, c), Serves(s, c), Shapes', ServerStays,
           OnlyConn(c), ConnServed(s, c), ReaderServed(s, c), FramesServed(s, c), StreamServed(s), Reads'
    PROVE  RTSPInv'
<1>1. /\ session[s].pc = "run" /\ c \in conns /\ conn[c].session \in {s, None}
      /\ conn[c].pc \in {"toSession", "waitServer"}
      /\ reader[c].tcp => conn[c].session = s /\ session[s].tcpConn = c
      /\ \/ conn[c].pc = "toSession" /\ server' = server
         \/ /\ server.pc = "handOver" /\ server.conn = c /\ server.session = s /\ conn[c].pc = "waitServer"
            /\ server'.pc = "run"
  BY Zenon, ReceivesEffect
<1>2. Fresh'
  BY <1>1 DEF Fresh, Serves, Shapes, ServerStays
<1>3. AtServer'
  <2>1. \A d \in Conns : /\ conn'[d].session \in Sessions \cup {None}
                         /\ conn'[d].pc \in {"none", "toServer", "waitServer", "done"} => conn'[d].session = None
    BY ZenonT(30) DEF AtServer, OnlyConn, ConnServed
  <2>2. server'.pc = "handOver" => server' = server /\ server.conn # c
    BY Zenon, <1>1 DEF AtServer
  <2>3. \A t \in Sessions : session[t].pc # "none" => session'[t].pc # "none"
    BY Zenon DEF Serves
  <2> QED
    BY Zenon, <2>1, <2>2, <2>3 DEF AtServer, OnlyConn
<1>4. FramesOver'
  BY Zenon DEF FramesOver, FramesServed, Serves
<1>5. Paired'
  <2> SUFFICES ASSUME NEW d \in Conns, NEW t \in Sessions, conn'[d].session = t
               PROVE  /\ session'[t].pc # "none"
                      /\ session'[t].pc \in {"run", "exit"} => d \in session'[t].conns
                      /\ session'[t].tcpConn = d =>
                           /\ session'[t].pc \in {"run", "exit", "visit"}
                           /\ session'[t].pc = "visit" => d \in session'[t].left \cup {session'[t].cur}
    BY Zenon DEF Paired
  <2>1. CASE t = s
    <3>1. d = c \/ conn[d].session = s
      BY Zenon, <2>1 DEF OnlyConn
    <3>2. d = c \/ d \in session[s].conns
      BY Zenon, <1>1, <3>1 DEF Paired
    <3> QED
      BY Zenon, <2>1, <3>2 DEF Serves
  <2>2. CASE t # s
    <3>1. d # c /\ conn[d].session = t /\ session'[t] = session[t]
      BY <2>2, NumbersOfSessions DEF Serves, OnlyConn, ConnServed
    <3> QED
      BY ZenonT(30), <3>1 DEF Paired
  <2> QED
    BY Zenon, <2>1, <2>2
<1>6. Known'
  <2> SUFFICES ASSUME NEW t \in Sessions, session'[t].pc = "run", ~SessionDone(t)', NEW d \in session'[t].conns
               PROVE  conn'[d].session = t
    BY Zenon DEF Known
  <2>1. ~SessionDone(t) /\ session[t].pc = "run" /\ d \in Conns
    BY ZenonT(30), <1>1 DEF SessionDone, Serves, ServerStays, Visits
  <2>2. d # c \/ t # s => conn[d].session = t
    BY Zenon, <2>1 DEF Known, Serves
  <2>3. CASE d = c
    <3>1. t = s
      BY Zenon, <1>1, <2>2, <2>3, NumbersOfSessions
    <3> QED
      BY Zenon, <2>3, <3>1 DEF ConnServed
  <2>4. CASE d # c
    BY Zenon, <2>1, <2>2, <2>4 DEF OnlyConn
  <2> QED
    BY Zenon, <2>3, <2>4
<1>7. FramesExpected'
  <2>1. \A d \in Conns : d # c /\ conn[d].session = s /\ session[s].tcpConn = d => session'[s].tcpConn = d
    BY Zenon, NumbersOfSessions DEF Linked, FramesServed
  <2> QED
    BY <2>1, NumbersOfSessions DEF FramesExpected, Serves, OnlyConn, ConnServed, ReaderServed
<1>8. ConnPlaces'
  <2>1. \A d \in Conns : d # c /\ conn[d].pc = "waitServer" => server' = server
    BY Zenon, <1>1 DEF ConnPlaces
  <2> QED
    BY <1>1, <2>1 DEF ConnPlaces, ServerStays, OnlyConn, ConnServed, ReaderServed
<1>12. ServerPlaces'
  BY Zenon, <1>1 DEF ServerPlaces, ServerStays
<1>13. SessionPlaces'
  BY Zenon, <1>1 DEF SessionPlaces, Serves
<1>9. Visits'
  <2> SUFFICES ASSUME NEW t \in Sessions PROVE Visits!(t)'
    BY Zenon DEF Visits
  <2>1. \A d \in Conns : /\ conn[d].pc # "none" => conn'[d].pc # "none"
                         /\ conn[d].ctxDone => conn'[d].ctxDone
    BY DEF OnlyConn, ConnServed
  <2>2. conn[c].pc # "none" /\ session[s].cur = None
    BY <1>1 DEF Visits
  <2>3. CASE t = s
    BY <2>1, <2>2, <2>3 DEF Visits, Serves
  <2>4. CASE t # s
    BY <2>1, <2>4 DEF Visits, Serves
  <2> QED
    BY <2>3, <2>4
<1>10. NotAlone'
  BY <1>1 DEF NotAlone, Serves, ServerStays, SessionDone
<1>11. PathKnows'
  BY Zenon, <1>1 DEF PathKnows, Serves, StreamServed
<1> QED
  BY ZenonT(30), <1>2, <1>3, <1>4, <1>5, <1>6, <1>7, <1>8, <1>9, <1>10, <1>11, <1>12, <1>13

LEMMA SameReadsKeeps ==
    ASSUME RTSPInv, NEW s \in Sessions, NEW c, session[s].pc = "run", Serves(s, c), SameReads(s), UNCHANGED stream
    PROVE  Reads'
BY DEF Reads, ReadersPlay, Serves, SameReads

LEMMA RefusesKeeps ==
    ASSUME RTSPInv, NEW s \in Sessions, NEW c \in Conns, SessionRefuses(s, c)
    PROVE  RTSPInv'
<1>1. /\ Receives(s, c) /\ AnswerError(c, s) /\ session' = [session EXCEPT ![s].conns = @ \cup {c}]
      /\ ServerStays /\ UNCHANGED stream
  BY Zenon DEF SessionRefuses, ServerStays
<1>2. /\ session[s].pc = "run" /\ (reader[c].tcp => session[s].tcpConn = c)
  BY Zenon, <1>1, ReceivesEffect
<1>3. Serves(s, c) /\ SameReads(s) /\ SessionShapes'
  BY Zenon, <1>1, <1>2 DEF Shapes, SessionShapes, Serves, SameReads
<1>4. Shapes' /\ OnlyConn(c)
  BY Zenon, <1>1, <1>3, AnswerErrorEffect DEF Shapes, StreamShape, ServerStays
<1>5. Reads'
  BY Zenon, <1>1, <1>2, <1>3, SameReadsKeeps
<1>6. ConnServed(s, c) /\ ReaderServed(s, c)
  BY <1>1, <1>2, <1>3, AnswerErrorEffect DEF ConnServed, ReaderServed, SameReads
<1>7. FramesServed(s, c) /\ StreamServed(s)
  BY Zenon, <1>1, <1>3 DEF FramesServed, StreamServed, SameReads, FramesOver
<1> QED
  BY Zenon, <1>1, <1>3, <1>4, <1>5, <1>6, <1>7, ServesKeeps

\* A request is accepted and answered: the connection is paired with the session.
LEMMA AnsweredKeeps ==
    ASSUME RTSPInv, NEW s \in Sessions, NEW c \in Conns, Receives(s, c), NEW tcp, Answer(c, s, tcp),
           tcp => session'[s].tcpConn = c, Serves(s, c), SessionShapes', StreamShape', ServerStays,
           FramesServed(s, c), StreamServed(s), Reads'
    PROVE  RTSPInv'
<1>1. Shapes' /\ OnlyConn(c)
  BY Zenon, AnswerEffect DEF Shapes, ServerStays
<1>2. ConnServed(s, c) /\ ReaderServed(s, c)
  BY AnswerEffect DEF ConnServed, ReaderServed
<1> QED
  BY Zenon, <1>1, <1>2, ServesKeeps

LEMMA OptionsKeeps ==
    ASSUME RTSPInv, NEW s \in Sessions, NEW c \in Conns,
           Options(s, c) \/ (Play(s, c) /\ session[s].state = "play")
    PROVE  RTSPInv'
<1>1. /\ Receives(s, c) /\ Linked(s, c) /\ Answer(c, s, reader[c].tcp)
      /\ session' = [session EXCEPT ![s].conns = @ \cup {c}] /\ ServerStays /\ UNCHANGED stream
  BY Zenon DEF Options, Play, Accepts, ServerStays
<1>2. /\ session[s].pc = "run" /\ (reader[c].tcp => session[s].tcpConn = c)
  BY Zenon, <1>1, ReceivesEffect
<1>3. Serves(s, c) /\ SameReads(s) /\ SessionShapes'
  BY Zenon, <1>1, <1>2 DEF Shapes, SessionShapes, Serves, SameReads
<1>4. Reads'
  BY Zenon, <1>1, <1>2, <1>3, SameReadsKeeps
<1>5. FramesServed(s, c) /\ StreamServed(s)
  BY Zenon, <1>1, <1>3 DEF FramesServed, StreamServed, SameReads, FramesOver
<1>6. StreamShape' /\ (reader[c].tcp => session'[s].tcpConn = c)
  BY ZenonT(30), <1>1, <1>2, <1>3 DEF Shapes, StreamShape, SameReads
<1> QED
  BY Zenon, <1>1, <1>3, <1>4, <1>5, <1>6, AnsweredKeeps

LEMMA AnnounceKeeps ==
    ASSUME RTSPInv, NEW s \in Sessions, NEW c \in Conns, Announce(s, c)
    PROVE  RTSPInv'
<1>1. /\ Receives(s, c) /\ Linked(s, c) /\ Answer(c, s, reader[c].tcp) /\ session[s].state = "initial"
      /\ stream' = [stream EXCEPT !.source = s] /\ ServerStays
  BY Zenon DEF Announce, Accepts, Allowed, ServerStays
<1>2. PICK n \in 1..NumTracks :
         session' = [session EXCEPT ![s].conns = @ \cup {c}, ![s].state = "preRecord", ![s].announced = n]
  BY Zenon DEF Announce
<1>3. /\ session[s].pc = "run" /\ (reader[c].tcp => session[s].tcpConn = c)
  BY Zenon, <1>1, ReceivesEffect
<1>4. /\ Serves(s, c) /\ SessionShapes' /\ session'[s].state = "preRecord" /\ session'[s].tcpConn = session[s].tcpConn
  BY ZenonT(30), <1>2, <1>3 DEF Shapes, SessionShapes, Serves
<1>5. session[s].tcpConn = None
  BY Zenon, <1>1 DEF FramesOver
<1>6. /\ StreamShape' /\ stream'.source = s /\ stream'.readers = stream.readers /\ stream'.unicast = stream.unicast
      /\ stream'.pc = stream.pc
  BY Zenon, <1>1 DEF Shapes, StreamShape
<1>7. Reads'
  <2>1. s \notin stream.unicast
    BY Zenon, <1>1 DEF Reads, ReadersPlay
  <2> QED
    BY <1>4, <1>6, <2>1 DEF Reads, ReadersPlay, Serves
<1>8. FramesServed(s, c) /\ StreamServed(s)
  BY Zenon, <1>1, <1>4, <1>5, <1>6 DEF FramesServed, StreamServed
<1> QED
  BY ZenonT(30), <1>1, <1>3, <1>4, <1>6, <1>7, <1>8, AnsweredKeeps

LEMMA SetupKeeps ==
    ASSUME RTSPInv, NEW s \in Sessions, NEW c \in Conns, Setup(s, c)
    PROVE  RTSPInv'
<1> DEFINE track == conn[c].req.track
<1>1. Receives(s, c) /\ Linked(s, c) /\ Answer(c, s, reader[c].tcp) /\ ServerStays
  BY Zenon DEF Setup, Accepts, ServerStays
<1>2. /\ session[s].state \in {"initial", "prePlay", "preRecord"}
      /\ session' = [session EXCEPT ![s].conns = @ \cup {c}, ![s].state = IF @ = "initial" THEN "prePlay" ELSE @,
                                    ![s].setupped = @ \cup {track}]
      /\ stream' = IF session[s].state = "initial" THEN [stream EXCEPT !.readers = @ \cup {s}] ELSE stream
  BY Zenon DEF Setup, Accepts, Allowed, SetupAllowed
<1> HIDE DEF track
<1>3. /\ session[s].pc = "run" /\ (reader[c].tcp => session[s].tcpConn = c)
  BY Zenon, <1>1, ReceivesEffect
<1>4. /\ Serves(s, c) /\ SessionShapes'
      /\ session'[s].state = IF session[s].state = "initial" THEN "prePlay" ELSE session[s].state
      /\ session'[s].setupped = session[s].setupped \cup {track}
      /\ session'[s].tcpConn = session[s].tcpConn
  BY <1>2, <1>3 DEF Shapes, SessionShapes, Serves
<1>5. session[s].tcpConn = None /\ session'[s].state \in {"prePlay", "preRecord"}
  BY Zenon, <1>2, <1>4 DEF FramesOver
<1>6. /\ StreamShape'
      /\ stream'.source = stream.source /\ stream'.unicast = stream.unicast /\ stream'.pc = stream.pc
      /\ stream.readers \subseteq stream'.readers /\ stream'.readers \subseteq stream.readers \cup {s}
      /\ session[s].state = "initial" => s \in stream'.readers
  BY Zenon, <1>2 DEF Shapes, StreamShape
<1>7. Reads'
  <2>1. s \notin stream.unicast
    BY Zenon, <1>2 DEF Reads, ReadersPlay
  <2>2. session'[s].state = "prePlay" /\ stream.pc # "closed" => s \in stream'.readers
    BY Zenon, <1>3, <1>4, <1>6 DEF Reads
  <2>3. session'[s].setupped # {}
    BY Zenon, <1>4
  <2> QED
    BY <1>4, <1>6, <2>1, <2>2, <2>3 DEF Reads, ReadersPlay, Serves
<1>8. FramesServed(s, c) /\ StreamServed(s)
  BY Zenon, <1>1, <1>4, <1>5, <1>6 DEF FramesServed, StreamServed
<1> QED
  BY Zenon, <1>1, <1>3, <1>4, <1>6, <1>7, <1>8, AnsweredKeeps

LEMMA PlayKeeps ==
    ASSUME RTSPInv, NEW s \in Sessions, NEW c \in Conns, Play(s, c), stream.pc # "closed", session[s].state # "play"
    PROVE  RTSPInv'
<1>1. Receives(s, c) /\ Linked(s, c) /\ ServerStays /\ session[s].state = "prePlay"
  BY Zenon DEF Play, Accepts, Allowed, ServerStays
<1>2. /\ Answer(c, s, TRUE)
      /\ session' = [session EXCEPT ![s].conns = @ \cup {c}, ![s].state = "play", ![s].tcpConn = c, ![s].buffer = TRUE]
      /\ stream' = [stream EXCEPT !.unicast = @ \cup {s}]
  BY Zenon, <1>1 DEF Play
<1>3. session[s].pc = "run"
  BY Zenon, <1>1, ReceivesEffect
<1>4. /\ Serves(s, c) /\ SessionShapes' /\ session'[s].state = "play" /\ session'[s].tcpConn = c
      /\ session'[s].buffer /\ session'[s].setupped = session[s].setupped
  BY <1>2, <1>3 DEF Shapes, SessionShapes, Serves
<1>5. /\ StreamShape' /\ stream'.source = stream.source /\ stream'.readers = stream.readers
      /\ stream'.unicast = stream.unicast \cup {s} /\ stream'.pc = stream.pc
  BY Zenon, <1>2 DEF Shapes, StreamShape
<1>6. s \in stream.readers /\ session[s].setupped # {}
  BY Zenon, <1>1, <1>3 DEF Reads
<1>7. Reads'
  BY <1>3, <1>4, <1>5, <1>6 DEF Reads, ReadersPlay, Serves
<1>8. FramesServed(s, c) /\ StreamServed(s)
  BY Zenon, <1>1, <1>4, <1>5, NumbersOfSessions DEF FramesServed, StreamServed
<1> QED
  BY Zenon, <1>1, <1>2, <1>4, <1>5, <1>7, <1>8, AnsweredKeeps

LEMMA RecordKeeps ==
    ASSUME RTSPInv, NEW s \in Sessions, NEW c \in Conns, Record(s, c)
    PROVE  RTSPInv'
<1>1. /\ Receives(s, c) /\ Linked(s, c) /\ Answer(c, s, TRUE) /\ ServerStays
      /\ session[s].state = "preRecord" /\ stream.pc = "none"
  BY Zenon DEF Record, Accepts, Allowed, ServerStays
<1>2. /\ session' = [session EXCEPT ![s].conns = @ \cup {c}, ![s].state = "record", ![s].tcpConn = c, ![s].buffer = TRUE]
      /\ stream' = [stream EXCEPT !.pc = "open"]
  BY Zenon DEF Record
<1>3. session[s].pc = "run"
  BY Zenon, <1>1, ReceivesEffect
<1>4. Serves(s, c) /\ SessionShapes' /\ session'[s].state = "record" /\ session'[s].tcpConn = c
  BY <1>2, <1>3 DEF Shapes, SessionShapes, Serves
<1>5. /\ StreamShape' /\ stream'.source = stream.source /\ stream'.readers = stream.readers
      /\ stream'.unicast = stream.unicast /\ stream'.pc = "open"
  BY Zenon, <1>2 DEF Shapes, StreamShape
<1>6. Reads'
  <2>1. s \notin stream.unicast
    BY Zenon, <1>1 DEF Reads, ReadersPlay
  <2> QED
    BY <1>1, <1>4, <1>5, <2>1 DEF Reads, ReadersPlay, Serves
<1>7. FramesServed(s, c) /\ StreamServed(s)
  BY Zenon, <1>1, <1>4, <1>5, NumbersOfSessions DEF FramesServed, StreamServed
<1> QED
  BY Zenon, <1>1, <1>4, <1>5, <1>6, <1>7, AnsweredKeeps

LEMMA TeardownKeeps ==
    ASSUME RTSPInv, NEW s \in Sessions, NEW c \in Conns, Teardown(s, c)
    PROVE  RTSPInv'
<1> DEFINE switch == session[s].state \in {"play", "record"}
           tcp == reader[c].tcp /\ ~switch
<1>1. /\ Receives(s, c) /\ Answer(c, None, tcp) /\ ServerStays /\ UNCHANGED stream
      /\ session' = [session EXCEPT ![s].conns = @ \cup {c}, ![s].pc = "exit"]
  BY Zenon DEF Teardown, Accepts, ServerStays
<1>2. session[s].pc = "run" /\ (reader[c].tcp => session[s].tcpConn = c) /\ c # None
  BY <1>1, ReceivesEffect, NumbersOfSessions
<1>3. ~tcp
  BY Zenon, <1>2 DEF FramesOver
<1> HIDE DEF tcp
<1>4. Serves(s, c) /\ SessionShapes' /\ SameReads(s) /\ session'[s].pc = "exit"
  BY ZenonT(30), <1>1, <1>2 DEF Shapes, SessionShapes, Serves, SameReads
<1>5. Reads'
  BY Zenon, <1>1, <1>2, <1>4, SameReadsKeeps
<1>6. Shapes' /\ OnlyConn(c)
  BY Zenon, <1>1, <1>4, AnswerEffect DEF Shapes, StreamShape, ServerStays
<1>7. ConnServed(s, c) /\ ReaderServed(s, c)
  BY <1>1, <1>3, <1>4, AnswerEffect DEF ConnServed, ReaderServed
<1>8. FramesServed(s, c) /\ StreamServed(s)
  BY Zenon, <1>1, <1>4 DEF FramesServed, StreamServed, SameReads, FramesOver
<1> QED
  BY Zenon, <1>1, <1>4, <1>5, <1>6, <1>7, <1>8, ServesKeeps

=============================================================================
