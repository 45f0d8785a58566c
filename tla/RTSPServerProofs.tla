-------------------------- MODULE RTSPServerProofs --------------------------
(***************************************************************************)
(* Connections and sessions end without leaving a link behind, nobody      *)
(* waits for ever, and no handler follows a nil pointer but two, for any   *)
(* number of connections, sessions and requests.                           *)
(***************************************************************************)
EXTENDS RTSPRequestsProofs

USE DEF RTSPInv, LinksInv

\* A panic leaves everything else as it was, but the server may have handed over.
LEMMA StaysKeeps ==
    ASSUME LinksInv, UNCHANGED <<serverDone, sessions, created, conn, reader, session, stream>>,
           server' = server \/ server'.pc = "run"
    PROVE  LinksInv'
<1>1. Shapes' /\ Fresh' /\ AtServer'
  BY DEF Shapes, ConnShapes, SessionShapes, StreamShape, Fresh, AtServer
<1>2. FramesOver' /\ Paired'
  BY ZenonT(30) DEF FramesOver, Paired
<1>3. Known' /\ FramesExpected'
  BY ZenonT(30) DEF Known, SessionDone, FramesExpected
<1>4. Reads'
  BY Zenon DEF Reads, ReadersPlay
<1> QED
  BY ZenonT(30), <1>1, <1>2, <1>3, <1>4

\* A connection leaves its session, which knows it or has ended.
LEMMA LeavesKeeps ==
    ASSUME RTSPInv, NEW c \in Conns, ConnLeavesSession(c)
    PROVE  RTSPInv'
<1> DEFINE s == conn[c].session
           rest == session[s].conns \ {c}
<1>1. /\ s \in Sessions /\ s # None /\ conn[c].pc = "closing" /\ reader[c].pc # "start"
      /\ conn' = [conn EXCEPT ![c].session = None]
      /\ UNCHANGED <<server, serverDone, sessions, conns, created, reader, stream>>
      /\ \/ /\ session[s].pc = "run"
            /\ session' = [session EXCEPT ![s].conns = rest, ![s].pc = IF rest = {} THEN "exit" ELSE @]
         \/ SessionDone(s) /\ UNCHANGED session
  BY Zenon DEF ConnLeavesSession, AtServer, ReaderDone, serverVars
<1> HIDE DEF s
<1>2. /\ \A d \in Conns : d # c => conn'[d] = conn[d]
      /\ conn'[c].pc = "closing" /\ conn'[c].ctxDone = conn[c].ctxDone /\ conn'[c].session = None
      /\ ConnShapes'
  BY ZenonT(30), <1>1 DEF Shapes, ConnShapes
<1>3. /\ SessionShapes' /\ SameReads(s) /\ session'[s].ctxDone = session[s].ctxDone
      /\ session'[s].left = session[s].left /\ session'[s].cur = session[s].cur
      /\ \A t \in Sessions : t # s => session'[t] = session[t]
      /\ \/ session[s].pc = "run" /\ session'[s].conns = rest /\ session'[s].pc = (IF rest = {} THEN "exit" ELSE "run")
         \/ SessionDone(s) /\ session'[s].conns = session[s].conns /\ session'[s].pc = session[s].pc
  BY <1>1 DEF Shapes, SessionShapes, SameReads
<1>4. /\ s \in Sessions /\ s # None /\ conn[c].pc = "closing" /\ reader[c].pc # "start"
      /\ UNCHANGED <<server, serverDone, sessions, conns, created, reader, stream>>
      /\ session[s].pc # "none" /\ session'[s].pc # "none"
  BY ZenonT(30), <1>1, <1>3 DEF Paired, s
<1>5. Shapes'
  BY Zenon, <1>1, <1>2, <1>3 DEF Shapes, StreamShape
<1>6. Fresh'
  BY <1>3, <1>4 DEF Fresh, Shapes
<1>7. AtServer'
  BY <1>2, <1>3, <1>4 DEF AtServer
<1>8. FramesOver' /\ PathKnows'
  BY <1>3, <1>4 DEF FramesOver, SameReads, PathKnows
<1>15. Reads'
  BY <1>3, <1>4 DEF Reads, ReadersPlay, SameReads
<1>9. Paired'
  BY <1>2, <1>3, <1>4, NumbersOfSessions DEF Paired, SameReads
<1>10. Known'
  <2> SUFFICES ASSUME NEW t \in Sessions, session'[t].pc = "run", ~SessionDone(t)', NEW d \in session'[t].conns
               PROVE  conn'[d].session = t
    BY Zenon DEF Known
  <2>1. ~SessionDone(t) /\ session[t].pc = "run" /\ d \in session[t].conns /\ (t = s => d # c) /\ d \in Conns
    BY <1>3, <1>4 DEF SessionDone, Visits
  <2>2. conn[d].session = t
    BY Zenon, <2>1 DEF Known
  <2>3. d # c
    BY Zenon, <2>1, <2>2 DEF s
  <2> QED
    BY Zenon, <1>2, <2>1, <2>2, <2>3
<1>11. FramesExpected'
  BY <1>2, <1>3, <1>4 DEF FramesExpected, SameReads
<1>12. ServerPlaces' /\ ConnPlaces'
  BY <1>2, <1>4 DEF ServerPlaces, ConnPlaces
<1>16. SessionPlaces'
  BY <1>3, <1>4 DEF SessionPlaces
<1>13. Visits'
  BY <1>2, <1>3, <1>4 DEF Visits, SameReads
<1>14. NotAlone'
  BY ZenonT(30), <1>3, <1>4 DEF NotAlone, SessionDone
<1> QED
  BY ZenonT(30), <1>5, <1>6, <1>7, <1>8, <1>9, <1>10, <1>11, <1>12, <1>13, <1>14, <1>15, <1>16

\* The connections, the readers and the requests are as they were.
OnlySession(s) ==
    /\ s \in Sessions /\ SessionShapes'
    /\ UNCHANGED <<server, serverDone, conns, created, conn, reader>>
    /\ \A t \in Sessions : t # s => session'[t] = session[t]
    /\ SameReads(s) /\ session'[s].conns = session[s].conns

LEMMA OnlySessionKeeps ==
    ASSUME RTSPInv, NEW s \in Sessions, OnlySession(s), session'[s].pc # "none"
    PROVE  AtServer' /\ FramesOver' /\ FramesExpected' /\ ServerPlaces' /\ ConnPlaces'
<1>1. AtServer'
  BY Zenon DEF AtServer, OnlySession
<1>2. FramesOver'
  BY ZenonT(30) DEF FramesOver, OnlySession, SameReads
<1>3. FramesExpected'
  BY DEF FramesExpected, OnlySession, SameReads
<1>4. ServerPlaces' /\ ConnPlaces'
  BY ZenonT(30) DEF ServerPlaces, ConnPlaces, OnlySession
<1> QED
  BY Zenon, <1>1, <1>2, <1>3, <1>4

LEMMA CanceledKeeps ==
    ASSUME RTSPInv, NEW s \in Sessions, SessionCanceled(s)
    PROVE  RTSPInv'
<1>1. /\ session[s].pc = "run" /\ session' = [session EXCEPT ![s].pc = "exit"]
      /\ UNCHANGED <<server, serverDone, sessions, conns, created, conn, reader, stream>>
  BY Zenon DEF SessionCanceled, serverVars
<1>2. /\ OnlySession(s) /\ UNCHANGED <<sessions, stream>> /\ session[s].pc = "run" /\ session'[s].pc = "exit"
      /\ session'[s].ctxDone = session[s].ctxDone /\ session'[s].left = session[s].left
      /\ session'[s].cur = session[s].cur
  BY ZenonT(30), <1>1 DEF Shapes, SessionShapes, SameReads, OnlySession
<1>3. AtServer' /\ FramesOver' /\ FramesExpected' /\ ServerPlaces' /\ ConnPlaces'
  BY Zenon, <1>2, OnlySessionKeeps
<1>4. Shapes' /\ Fresh'
  <2>1. Shapes'
    BY Zenon, <1>2 DEF Shapes, ConnShapes, StreamShape, OnlySession
  <2>2. Fresh'
    BY <1>2 DEF Shapes, Fresh, OnlySession
  <2> QED
    BY Zenon, <2>1, <2>2
<1>5. Reads' /\ PathKnows'
  <2>1. Reads'
    BY <1>2 DEF Reads, ReadersPlay, SameReads, OnlySession
  <2>2. PathKnows'
    BY Zenon, <1>2 DEF PathKnows, OnlySession
  <2> QED
    BY Zenon, <2>1, <2>2
<1>6. Paired' /\ Known'
  BY <1>2 DEF Paired, Known, SessionDone, SameReads, OnlySession
<1>7. SessionPlaces' /\ NotAlone'
  BY ZenonT(30), <1>2 DEF SessionPlaces, NotAlone, SessionDone, OnlySession
<1>8. Visits'
  BY <1>2 DEF Visits, SameReads, OnlySession
<1> QED
  BY ZenonT(30), <1>3, <1>4, <1>5, <1>6, <1>7, <1>8

LEMMA LeavesStreamKeeps ==
    ASSUME RTSPInv, NEW s \in Sessions, SessionLeavesStream(s)
    PROVE  RTSPInv'
<1>1. /\ session[s].pc = "exit"
      /\ session' = [session EXCEPT ![s].ctxDone = TRUE, ![s].left = session[s].conns, ![s].pc = "visit"]
      /\ stream' = [stream EXCEPT !.readers = @ \ {s},
                                  !.unicast = IF session[s].state = "play" THEN @ \ {s} ELSE @]
      /\ UNCHANGED <<server, serverDone, sessions, conns, created, conn, reader>>
  BY Zenon DEF SessionLeavesStream, serverVars
<1>2. /\ OnlySession(s) /\ UNCHANGED sessions /\ session[s].pc = "exit" /\ session'[s].pc = "visit"
      /\ session'[s].ctxDone /\ session'[s].left = session[s].conns /\ session'[s].cur = session[s].cur
  BY <1>1 DEF Shapes, SessionShapes, SameReads, OnlySession
<1>3. /\ StreamShape'
      /\ stream'.pc = stream.pc /\ stream'.source = stream.source /\ stream'.readers = stream.readers \ {s}
      /\ stream'.unicast = IF session[s].state = "play" THEN stream.unicast \ {s} ELSE stream.unicast
  BY Zenon, <1>1 DEF Shapes, StreamShape
<1>4. stream'.unicast = stream.unicast \ {s}
  BY ZenonT(30), <1>3 DEF Reads, ReadersPlay
<1>5. AtServer' /\ FramesOver' /\ FramesExpected' /\ ServerPlaces' /\ ConnPlaces'
  BY Zenon, <1>2, OnlySessionKeeps
<1>6. Shapes' /\ Fresh'
  BY <1>2, <1>3 DEF Shapes, ConnShapes, Fresh, OnlySession
<1>7. PathKnows'
  BY ZenonT(30), <1>2, <1>3 DEF PathKnows, OnlySession
<1>8. Reads'
  BY <1>2, <1>3, <1>4 DEF Reads, ReadersPlay, SameReads, OnlySession
<1>9. Paired' /\ Known'
  BY <1>2 DEF Paired, Known, SessionDone, SameReads, OnlySession
<1>10. SessionPlaces' /\ NotAlone'
  BY ZenonT(30), <1>2 DEF SessionPlaces, NotAlone, SessionDone, OnlySession
<1>11. Visits'
  BY <1>2 DEF Visits, SameReads, OnlySession
<1> QED
  BY Zenon, <1>5, <1>6, <1>7, <1>8, <1>9, <1>10, <1>11

LEMMA VisitsKeeps ==
    ASSUME RTSPInv, NEW s \in Sessions, NEW c \in Conns, SessionVisits(s, c)
    PROVE  RTSPInv'
<1>1. /\ session[s].pc = "visit" /\ session[s].cur = None /\ c \in session[s].left
      /\ session' = [session EXCEPT ![s].cur = c, ![s].left = @ \ {c}]
      /\ conn' = [conn EXCEPT ![c].ctxDone = @ \/ c = session[s].tcpConn]
      /\ UNCHANGED <<server, serverDone, sessions, conns, created, reader, stream>>
  BY Zenon DEF SessionVisits, serverVars
<1>2. /\ SessionShapes' /\ SameReads(s) /\ \A t \in Sessions : t # s => session'[t] = session[t]
      /\ session'[s].pc = "visit" /\ session'[s].ctxDone = session[s].ctxDone
      /\ session'[s].conns = session[s].conns /\ session'[s].left = session[s].left \ {c} /\ session'[s].cur = c
  BY ZenonT(30), <1>1 DEF Shapes, SessionShapes, SameReads
<1>3. /\ ConnShapes'
      /\ \A d \in Conns : d # c => conn'[d] = conn[d]
      /\ conn'[c].pc = conn[c].pc /\ conn'[c].session = conn[c].session
      /\ (conn'[c].ctxDone <=> conn[c].ctxDone \/ c = session[s].tcpConn)
  BY ZenonT(30), <1>1 DEF Shapes, ConnShapes
<1>4. /\ session[s].pc = "visit" /\ session[s].cur = None /\ c \in session[s].left
      /\ UNCHANGED <<server, serverDone, sessions, conns, created, reader, stream>> /\ c # None
  BY ZenonT(30), <1>1, NumbersOfSessions
<1>5. Shapes' /\ Fresh'
  BY <1>2, <1>3, <1>4 DEF Shapes, StreamShape, Fresh, SameReads
<1>6. AtServer' /\ FramesOver' /\ PathKnows'
  BY <1>2, <1>3, <1>4 DEF AtServer, FramesOver, SameReads, PathKnows
<1>10. Reads'
  BY <1>2, <1>4 DEF Reads, ReadersPlay, SameReads
<1>7. Paired' /\ Known' /\ FramesExpected'
  <2>1. Paired'
    <3> SUFFICES ASSUME NEW d \in Conns, NEW t \in Sessions, conn'[d].session = t
                 PROVE  Paired!(d, t)!2'
      BY Zenon DEF Paired
    <3>1. conn[d].session = t
      BY Zenon, <1>3
    <3>2. CASE t # s
      BY <1>2, <3>1, <3>2 DEF Paired
    <3>3. CASE t = s
      BY <1>2, <1>4, <3>1, <3>3, NumbersOfSessions DEF Paired, SameReads
    <3> QED
      BY Zenon, <3>2, <3>3
  <2>2. \A t \in Sessions : session[t].conns \subseteq Conns
    BY Zenon DEF Visits
  <2>3. Known'
    BY <1>2, <1>3, <1>4, <2>2 DEF Known, SessionDone
  <2>4. FramesExpected'
    BY <1>2, <1>3, <1>4 DEF FramesExpected, SameReads
  <2> QED
    BY Zenon, <2>1, <2>3, <2>4
<1>8. ServerPlaces' /\ ConnPlaces'
  BY <1>3, <1>4 DEF ServerPlaces, ConnPlaces
<1>11. SessionPlaces' /\ NotAlone'
  BY <1>2, <1>4 DEF SessionPlaces, NotAlone, SessionDone
<1>9. Visits'
  BY <1>2, <1>3, <1>4 DEF Visits, SameReads
<1> QED
  BY Zenon, <1>5, <1>6, <1>7, <1>8, <1>9, <1>10, <1>11

LEMMA RemovesKeeps ==
    ASSUME RTSPInv, NEW s \in Sessions, SessionRemovesConn(s)
    PROVE  RTSPInv'
<1> DEFINE c == session[s].cur
<1>1. /\ session[s].pc = "visit" /\ c # None /\ (c = session[s].tcpConn => conn[c].pc = "done")
      /\ \/ conn[c].pc = "idle" /\ conn' = [conn EXCEPT ![c].session = IF @ = s THEN None ELSE @]
         \/ UNCHANGED conn
      /\ session' = [session EXCEPT ![s].cur = None]
      /\ UNCHANGED <<server, serverDone, sessions, conns, created, reader, stream>>
  BY Zenon DEF SessionRemovesConn, serverVars
<1>2. c \in Conns
  BY Zenon, <1>1 DEF Visits
<1> HIDE DEF c
<1>3. /\ SessionShapes' /\ SameReads(s) /\ \A t \in Sessions : t # s => session'[t] = session[t]
      /\ session'[s].pc = "visit" /\ session'[s].ctxDone = session[s].ctxDone
      /\ session'[s].conns = session[s].conns /\ session'[s].left = session[s].left /\ session'[s].cur = None
  BY ZenonT(30), <1>1 DEF Shapes, SessionShapes, SameReads
<1>4. /\ ConnShapes'
      /\ \A d \in Conns : d # c => conn'[d] = conn[d]
      /\ conn'[c].pc = conn[c].pc /\ conn'[c].ctxDone = conn[c].ctxDone
      /\ \/ conn'[c].session = conn[c].session
         \/ conn[c].pc = "idle" /\ conn[c].session = s /\ conn'[c].session = None
  BY <1>1, <1>2 DEF Shapes, ConnShapes
<1>5. /\ session[s].pc = "visit" /\ c # None /\ (c = session[s].tcpConn => conn[c].pc = "done")
      /\ UNCHANGED <<server, serverDone, sessions, conns, created, reader, stream>>
      /\ c = session[s].cur /\ \A t \in Sessions : session[t].conns \subseteq Conns
  BY Zenon, <1>1 DEF c, Visits
<1> HIDE DEF c
<1>6. c = session[s].tcpConn => conn[c].session = None /\ conn'[c].session = None
  BY Zenon, <1>2, <1>4, <1>5 DEF AtServer
<1>7. Shapes' /\ Fresh'
  <2>1. Shapes'
    BY Zenon, <1>3, <1>4, <1>5 DEF Shapes, StreamShape
  <2>2. Fresh'
    BY <1>3, <1>5 DEF Shapes, Fresh, SameReads
  <2> QED
    BY Zenon, <2>1, <2>2
<1>8. AtServer'
  BY <1>2, <1>3, <1>4, <1>5 DEF AtServer
<1>15. FramesOver' /\ PathKnows'
  BY <1>3, <1>5 DEF FramesOver, SameReads, PathKnows
<1>16. Reads'
  BY <1>3, <1>5 DEF Reads, ReadersPlay, SameReads
<1>9. Paired'
  <2> SUFFICES ASSUME NEW d \in Conns, NEW t \in Sessions, conn'[d].session = t
               PROVE  Paired!(d, t)!2'
    BY Zenon DEF Paired
  <2>1. conn[d].session = t
    BY Zenon, <1>4, NumbersOfSessions
  <2>2. CASE t # s
    BY ZenonT(30), <1>3, <2>1, <2>2 DEF Paired
  <2>3. CASE t = s
    BY <1>3, <1>5, <1>6, <2>1, <2>3, NumbersOfSessions DEF Paired, SameReads
  <2> QED
    BY Zenon, <2>2, <2>3
<1>10. Known'
  <2> SUFFICES ASSUME NEW t \in Sessions, session'[t].pc = "run", ~SessionDone(t)', NEW d \in session'[t].conns
               PROVE  conn'[d].session = t
    BY Zenon DEF Known
  <2>1. ~SessionDone(t) /\ session[t].pc = "run" /\ d \in session[t].conns /\ d \in Conns /\ t # s
    BY Zenon, <1>3, <1>5 DEF SessionDone
  <2>2. conn[d].session = t
    BY Zenon, <2>1 DEF Known
  <2> QED
    BY Zenon, <1>4, <2>1, <2>2
<1>11. FramesExpected'
  <2> SUFFICES ASSUME NEW d \in Conns
               PROVE  FramesExpected!(d)'
    BY ZenonT(30) DEF FramesExpected
  <2>4. UNCHANGED reader /\ \A t \in Sessions : session'[t].tcpConn = session[t].tcpConn
    BY <1>3, <1>5 DEF SameReads
  <2>1. CASE d # c
    BY <1>4, <2>1, <2>4 DEF FramesExpected
  <2>2. CASE d = c /\ conn'[c].session = conn[c].session
    BY <1>4, <2>2, <2>4 DEF FramesExpected
  <2>3. CASE d = c /\ conn[c].pc = "idle" /\ conn[c].session = s
    <3>1. reader[c].tcp => c = session[s].tcpConn
      BY <2>3, NumbersOfSessions DEF FramesExpected
    <3>2. ~reader[c].tcp /\ reader[c].pc # "start"
      BY <1>6, <2>3, <3>1, NumbersOfSessions DEF FramesExpected
    <3> QED
      BY <2>3, <2>4, <3>2
  <2> QED
    BY Zenon, <1>4, <2>1, <2>2, <2>3
<1>17. ServerPlaces'
  BY <1>5 DEF ServerPlaces
<1>12. ConnPlaces'
  BY <1>4, <1>5 DEF ConnPlaces
<1>13. SessionPlaces' /\ NotAlone'
  BY ZenonT(30), <1>3, <1>5 DEF SessionPlaces, NotAlone, SessionDone
<1>14. Visits'
  <2>1. \A d \in Conns : conn'[d].pc = conn[d].pc /\ conn'[d].ctxDone = conn[d].ctxDone
    BY <1>4
  <2> QED
    BY <1>2, <1>3, <2>1 DEF Visits, SameReads
<1> QED
  BY Zenon, <1>7, <1>8, <1>9, <1>10, <1>11, <1>12, <1>13, <1>14, <1>15, <1>16, <1>17

LEMMA ReportsKeeps ==
    ASSUME RTSPInv, NEW s \in Sessions, SessionReports(s)
    PROVE  RTSPInv'
<1>1. /\ session[s].pc = "visit" /\ session[s].cur = None /\ session[s].left = {}
      /\ sessions' \subseteq sessions
      /\ session' = [session EXCEPT ![s].pc = "closing"]
      /\ UNCHANGED <<server, serverDone, conns, created, conn, reader, stream>>
  BY Zenon DEF SessionReports
<1>2. /\ OnlySession(s) /\ UNCHANGED stream /\ session[s].pc = "visit" /\ session'[s].pc = "closing"
      /\ session'[s].ctxDone = session[s].ctxDone /\ session'[s].left = session[s].left
      /\ session'[s].cur = session[s].cur
      /\ session[s].cur = None /\ session[s].left = {} /\ sessions' \subseteq sessions
  BY ZenonT(30), <1>1 DEF Shapes, SessionShapes, SameReads, OnlySession
<1>3. AtServer' /\ FramesOver' /\ FramesExpected' /\ ServerPlaces' /\ ConnPlaces'
  BY Zenon, <1>2, OnlySessionKeeps
<1>4. Shapes' /\ Fresh'
  <2>1. Shapes'
    BY Zenon, <1>2 DEF Shapes, ConnShapes, StreamShape, OnlySession
  <2>2. Fresh'
    BY <1>2 DEF Shapes, Fresh, OnlySession
  <2> QED
    BY Zenon, <2>1, <2>2
<1>5. Reads' /\ PathKnows'
  <2>1. Reads'
    BY <1>2 DEF Reads, ReadersPlay, SameReads, OnlySession
  <2>2. PathKnows'
    BY Zenon, <1>2 DEF PathKnows, OnlySession
  <2> QED
    BY Zenon, <2>1, <2>2
<1>6. Paired'
  BY <1>2, NumbersOfSessions DEF Paired, SameReads, OnlySession
<1>7. Known'
  BY ZenonT(30), <1>2 DEF Known, SessionDone, OnlySession
<1>8. SessionPlaces' /\ NotAlone'
  BY ZenonT(30), <1>2 DEF SessionPlaces, NotAlone, SessionDone, OnlySession
<1>9. Visits'
  BY <1>2 DEF Visits, SameReads, OnlySession
<1> QED
  BY Zenon, <1>3, <1>4, <1>5, <1>6, <1>7, <1>8, <1>9

\* Sessions end for good (those of gone), and the path may close, which tells its
\* publisher and its readers to end.
Closes(gone) ==
    /\ UNCHANGED <<server, serverDone, sessions, conns, created, conn, reader>>
    /\ SessionShapes'
    /\ \A t \in Sessions \ gone :
         /\ session'[t].pc = session[t].pc /\ session'[t].conns = session[t].conns
         /\ session'[t].left = session[t].left /\ session'[t].cur = session[t].cur
         /\ session'[t].state = session[t].state /\ session'[t].tcpConn = session[t].tcpConn
         /\ session'[t].setupped = session[t].setupped /\ session'[t].buffer = session[t].buffer
         /\ session[t].ctxDone => session'[t].ctxDone
         /\ session'[t].ctxDone => session[t].pc # "none"
    /\ \A t \in Sessions \cap gone :
         /\ session[t].pc = "closing" /\ session'[t].pc = "done" /\ session'[t].ctxDone
         /\ session'[t].conns = {} /\ session'[t].left = {} /\ session'[t].cur = None
         /\ session'[t].state = "initial" /\ session'[t].tcpConn = None
    /\ \/ stream' = stream
       \/ /\ StreamShape'
          /\ stream'.pc = "closed" /\ stream'.source = None /\ stream'.readers = {} /\ stream'.unicast = {}

LEMMA ClosesKeeps ==
    ASSUME RTSPInv, NEW gone, Closes(gone)
    PROVE  RTSPInv'
<1>1. Shapes' /\ Fresh'
  <2>1. Shapes'
    BY DEF Shapes, ConnShapes, StreamShape, Closes
  <2>2. Fresh'
    BY DEF Shapes, Fresh, Closes
  <2> QED
    BY Zenon, <2>1, <2>2
<1>2. AtServer'
  BY DEF AtServer, Closes
<1>3. FramesOver'
  BY DEF FramesOver, Closes
<1>4. Reads'
  BY DEF Reads, ReadersPlay, Closes
<1>5. PathKnows'
  BY NumbersOfSessions DEF PathKnows, Closes
<1>6. Paired'
  <2> SUFFICES ASSUME NEW d \in Conns, NEW t \in Sessions, conn[d].session = t
               PROVE  Paired!(d, t)!2'
    BY Zenon DEF Paired, Closes
  <2>1. CASE t \in gone
    BY <2>1, NumbersOfSessions DEF Closes
  <2>2. CASE t \notin gone
    BY <2>2 DEF Paired, Closes
  <2> QED
    BY Zenon, <2>1, <2>2
<1>7. Known'
  BY DEF Known, SessionDone, Closes
<1>8. FramesExpected'
  <2> SUFFICES ASSUME NEW d \in Conns
               PROVE  FramesExpected!(d)'
    BY Zenon DEF FramesExpected
  <2>1. CASE conn[d].session \in Sessions /\ session[conn[d].session].tcpConn = d
    BY <2>1 DEF FramesExpected, Paired, Closes
  <2>2. CASE ~(conn[d].session \in Sessions /\ session[conn[d].session].tcpConn = d)
    BY Zenon, <2>2 DEF FramesExpected, Closes
  <2> QED
    BY Zenon, <2>1, <2>2
<1>9. ServerPlaces' /\ ConnPlaces'
  BY ZenonT(30) DEF ServerPlaces, ConnPlaces, Closes
<1>12. SessionPlaces'
  BY ZenonT(30) DEF SessionPlaces, Closes
<1>10. Visits'
  BY DEF Visits, Closes
<1>11. NotAlone'
  BY DEF NotAlone, SessionDone, Closes
<1> QED
  BY Zenon, <1>1, <1>2, <1>3, <1>4, <1>5, <1>6, <1>7, <1>8, <1>9, <1>10, <1>11, <1>12

\* Whom the path cancels was created.
LEMMA CanceledCreated ==
    ASSUME RTSPInv, NEW t \in Sessions, t \in CanceledWithPath
    PROVE  session[t].pc # "none"
BY Zenon DEF CanceledWithPath, PathKnows

LEMMA EndsKeeps ==
    ASSUME RTSPInv, NEW s \in Sessions, SessionEnds(s)
    PROVE  RTSPInv'
<1> DEFINE publishes == session[s].state \in {"preRecord", "record"} /\ stream.pc # "closed"
<1>1. /\ session[s].pc = "closing"
      /\ session' = [t \in Sessions |->
           IF t = s
           THEN [NewSession EXCEPT !.pc = "done", !.ctxDone = TRUE, !.author = session[s].author]
           ELSE [session[t] EXCEPT !.ctxDone = @ \/ (publishes /\ t \in CanceledWithPath)]]
      /\ stream' = IF publishes THEN ClosedStream ELSE stream
      /\ UNCHANGED <<server, serverDone, sessions, conns, created, conn, reader>>
  BY Zenon DEF SessionEnds, serverVars
<1> HIDE DEF publishes
<1>2. /\ DOMAIN session' = Sessions
      /\ DOMAIN session'[s] = {"pc", "ctxDone", "author", "state", "conns", "tcpConn", "setupped", "announced",
                               "buffer", "left", "cur"}
      /\ session'[s].pc = "done" /\ session'[s].ctxDone
      /\ session'[s].conns = {} /\ session'[s].left = {} /\ session'[s].cur = None
      /\ session'[s].state = "initial" /\ session'[s].tcpConn = None
  BY Zenon, <1>1 DEF NewSession
<1>3. ASSUME NEW t \in Sessions, t # s
      PROVE  /\ DOMAIN session'[t] = DOMAIN session[t]
             /\ session'[t].pc = session[t].pc /\ session'[t].conns = session[t].conns
             /\ session'[t].left = session[t].left /\ session'[t].cur = session[t].cur
             /\ session'[t].state = session[t].state /\ session'[t].tcpConn = session[t].tcpConn
             /\ session'[t].setupped = session[t].setupped /\ session'[t].buffer = session[t].buffer
             /\ session[t].ctxDone => session'[t].ctxDone
             /\ session'[t].ctxDone => session[t].pc # "none"
  <2>1. session'[t] = [session[t] EXCEPT !.ctxDone = @ \/ (publishes /\ t \in CanceledWithPath)]
    BY ZenonT(30), <1>1, <1>3
  <2>2. session[t].ctxDone \/ t \in CanceledWithPath => session[t].pc # "none"
    BY Zenon, CanceledCreated DEF SessionPlaces
  <2> QED
    BY ZenonT(30), <2>1, <2>2 DEF Shapes, SessionShapes
<1>4. \/ stream' = stream
      \/ /\ StreamShape'
         /\ stream'.pc = "closed" /\ stream'.source = None /\ stream'.readers = {} /\ stream'.unicast = {}
  BY Zenon, <1>1 DEF ClosedStream, NewStream, StreamShape
<1>5. Closes({s})
  BY <1>1, <1>2, <1>3, <1>4 DEF Closes, SessionShapes, Shapes
<1> QED
  BY Zenon, <1>5, ClosesKeeps

LEMMA PathClosesKeeps ==
    ASSUME RTSPInv, PathCloses
    PROVE  RTSPInv'
<1>1. /\ session' = [t \in Sessions |-> [session[t] EXCEPT !.ctxDone = @ \/ t \in CanceledWithPath]]
      /\ stream' = ClosedStream
      /\ UNCHANGED <<server, serverDone, sessions, conns, created, conn, reader>>
  BY Zenon DEF PathCloses, serverVars
<1>2. ASSUME NEW t \in Sessions
      PROVE  /\ DOMAIN session'[t] = DOMAIN session[t]
             /\ session'[t].pc = session[t].pc /\ session'[t].conns = session[t].conns
             /\ session'[t].left = session[t].left /\ session'[t].cur = session[t].cur
             /\ session'[t].state = session[t].state /\ session'[t].tcpConn = session[t].tcpConn
             /\ session'[t].setupped = session[t].setupped /\ session'[t].buffer = session[t].buffer
             /\ session[t].ctxDone => session'[t].ctxDone
             /\ session'[t].ctxDone => session[t].pc # "none"
  <2>1. session'[t] = [session[t] EXCEPT !.ctxDone = @ \/ t \in CanceledWithPath]
    BY Zenon, <1>1
  <2>2. session[t].ctxDone \/ t \in CanceledWithPath => session[t].pc # "none"
    BY Zenon, CanceledCreated DEF SessionPlaces
  <2> QED
    BY ZenonT(30), <2>1, <2>2 DEF Shapes, SessionShapes
<1>3. /\ StreamShape'
      /\ stream'.pc = "closed" /\ stream'.source = None /\ stream'.readers = {} /\ stream'.unicast = {}
  BY Zenon, <1>1 DEF ClosedStream, NewStream, StreamShape
<1>4. Closes({})
  BY <1>1, <1>2, <1>3 DEF Closes, SessionShapes, Shapes
<1> QED
  BY Zenon, <1>4, ClosesKeeps

\* What panics leaves the links between the goroutines as they were; until then
\* RTSPInv holds.
IInv == PanicsKnown /\ LinksInv /\ (panicked = None => RTSPInv)

LEMMA RTSPStarts == Init => IInv
<1> SUFFICES ASSUME Init PROVE IInv
  OBVIOUS
<1>1. panicked = None /\ ~serverDone /\ server.pc = "run"
  BY Zenon DEF Init
<1>2. CASE InitEmpty
  <2>1. /\ sessions = {} /\ conns = {} /\ created = 0 /\ stream = NewStream
        /\ conn = [c \in Conns |-> NewConn] /\ reader = [c \in Conns |-> [pc |-> "none", tcp |-> FALSE]]
        /\ session = [s \in Sessions |-> NewSession]
    BY ZenonT(30), <1>2 DEF InitEmpty
  <2>2. Shapes
    BY ZenonT(30), <2>1 DEF Shapes, ConnShapes, SessionShapes, StreamShape, NewConn, NewSession, NewStream
  <2>6. Fresh /\ AtServer
    BY ZenonT(30), <1>1, <2>1 DEF Fresh, AtServer, NewConn, NewSession
  <2>3. FramesOver /\ Paired
    BY ZenonT(30), <2>1, NumbersOfSessions DEF FramesOver, Paired, NewConn, NewSession
  <2>7. Known /\ FramesExpected
    BY ZenonT(30), <2>1 DEF Known, FramesExpected, NewConn, NewSession
  <2>4. Reads
    BY ZenonT(30), <2>1 DEF Reads, ReadersPlay, NewSession, NewStream
  <2>5. ServerPlaces /\ ConnPlaces
    BY ZenonT(30), <1>1, <2>1 DEF ServerPlaces, ConnPlaces, NewConn
  <2>8. SessionPlaces /\ Visits
    BY ZenonT(30), <2>1 DEF SessionPlaces, Visits, NewSession
  <2>9. NotAlone /\ PathKnows
    BY ZenonT(30), <2>1, NumbersOfSessions DEF NotAlone, PathKnows, NewSession, NewStream
  <2> QED
    BY Zenon, <1>1, <2>2, <2>3, <2>4, <2>5, <2>6, <2>7, <2>8, <2>9 DEF IInv, PanicsKnown
<1>3. ASSUME NEW p \in Publishers, InitPublished(p) PROVE IInv
  <2>1. /\ sessions = {1} /\ conns = {p} /\ created = 1 /\ stream = [NewStream EXCEPT !.pc = "open", !.source = 1]
        /\ conn = [c \in Conns |-> IF c = p THEN [NewConn EXCEPT !.pc = "idle", !.session = 1] ELSE NewConn]
        /\ reader = [c \in Conns |-> IF c = p THEN [pc |-> "read", tcp |-> TRUE] ELSE [pc |-> "none", tcp |-> FALSE]]
        /\ session = [s \in Sessions |->
             IF s = 1 THEN [NewSession EXCEPT !.pc = "run", !.author = p, !.state = "record",
                              !.conns = {p}, !.tcpConn = p, !.setupped = Tracks,
                              !.announced = NumTracks, !.buffer = TRUE]
             ELSE NewSession]
    BY ZenonT(30), <1>3 DEF InitPublished
  <2>2. p \in Conns /\ 1 \in Sessions /\ p # None
    BY RTSPServerAssumption DEF Sessions
  <2>3. /\ DOMAIN conn = Conns /\ DOMAIN reader = Conns /\ DOMAIN session = Sessions
        /\ \A c \in Conns : /\ DOMAIN conn[c] = {"pc", "ctxDone", "session", "req"}
                            /\ DOMAIN reader[c] = {"pc", "tcp"} /\ ~conn[c].ctxDone
        /\ \A c \in Conns : c # p => conn[c].pc = "none" /\ conn[c].session = None /\ ~reader[c].tcp /\ reader[c].pc = "none"
        /\ conn[p].pc = "idle" /\ conn[p].session = 1 /\ reader[p].pc = "read" /\ reader[p].tcp
    BY Zenon, <2>1, <2>2 DEF NewConn
  <2>4. /\ \A s \in Sessions :
             DOMAIN session[s] = {"pc", "ctxDone", "author", "state", "conns", "tcpConn", "setupped", "announced",
                                  "buffer", "left", "cur"}
        /\ \A s \in Sessions : ~session[s].ctxDone /\ session[s].left = {} /\ session[s].cur = None
        /\ \A s \in Sessions : s # 1 => /\ session[s].pc = "none" /\ session[s].state = "initial"
                                        /\ session[s].conns = {} /\ session[s].tcpConn = None
        /\ session[1].pc = "run" /\ session[1].state = "record" /\ session[1].conns = {p} /\ session[1].tcpConn = p
    BY ZenonT(30), <2>1, <2>2 DEF NewSession
  <2>5. /\ DOMAIN stream = {"pc", "source", "readers", "unicast"}
        /\ stream.source = 1 /\ stream.readers = {} /\ stream.unicast = {}
    BY Zenon, <2>1 DEF NewStream
  <2>6. sessions = {1} /\ conns = {p} /\ created = 1
    BY Zenon, <2>1
  <2>7. Shapes
    BY <2>2, <2>3, <2>4, <2>5, <2>6 DEF Shapes, ConnShapes, SessionShapes, StreamShape
  <2>12. Fresh
    BY <2>2, <2>4, <2>6, NumbersOfSessions DEF Fresh
  <2>8. AtServer /\ FramesOver
    BY <1>1, <2>2, <2>3, <2>4 DEF AtServer, FramesOver
  <2>13. Reads
    BY ZenonT(30), <2>2, <2>4, <2>5 DEF Reads, ReadersPlay
  <2>9. Paired /\ Known /\ FramesExpected
    BY <2>2, <2>3, <2>4, NumbersOfSessions DEF Paired, Known, FramesExpected
  <2>10. ServerPlaces /\ ConnPlaces
    BY Zenon, <1>1, <2>2, <2>3, <2>6 DEF ServerPlaces, ConnPlaces
  <2>14. SessionPlaces /\ NotAlone /\ PathKnows
    BY <2>2, <2>4, <2>5 DEF SessionPlaces, NotAlone, PathKnows
  <2>11. Visits
    BY <2>2, <2>3, <2>4 DEF Visits
  <2> QED
    BY ZenonT(30), <1>1, <2>7, <2>8, <2>9, <2>10, <2>11, <2>12, <2>13, <2>14 DEF IInv, PanicsKnown
<1> QED
  BY Zenon, <1>2, <1>3 DEF Init

LEMMA ReceivesServer ==
    ASSUME NEW s, NEW c, Receives(s, c)
    PROVE  server' = server \/ server'.pc = "run"
<1>1. server' = server \/ server' = [pc |-> "run"]
  BY Zenon DEF Receives
<1> QED
  BY <1>1

\* A handler that panics has taken its request and changed nothing else.
LEMMA PanicSteps ==
    ASSUME RTSPInv, panicked = None, NEW s \in Sessions, NEW c \in Conns,
           SessionPanics(s, c) \/ (Play(s, c) /\ session[s].state # "play" /\ stream.pc = "closed")
    PROVE  IInv'
<1>1. CASE SessionPanics(s, c)
  <2>1. /\ Receives(s, c) /\ panicked' = "nil mode"
        /\ UNCHANGED <<serverDone, sessions, created, conn, reader, session, stream>>
    BY Zenon, <1>1 DEF SessionPanics
  <2>2. server' = server \/ server'.pc = "run"
    BY Zenon, <2>1, ReceivesServer
  <2>3. LinksInv'
    BY Zenon, <2>1, <2>2, StaysKeeps
  <2> QED
    BY Zenon, <2>1, <2>3, PanicsAssumption DEF IInv, PanicsKnown
<1>2. CASE Play(s, c) /\ session[s].state # "play" /\ stream.pc = "closed"
  <2>1. /\ Receives(s, c) /\ panicked' = "closed stream"
        /\ UNCHANGED <<serverDone, sessions, created, conn, reader, session, stream>>
    BY ZenonT(30), <1>2 DEF Play, Accepts, Allowed
  <2>2. server' = server \/ server'.pc = "run"
    BY ZenonT(30), <2>1, ReceivesServer
  <2>3. LinksInv'
    BY ZenonT(30), <2>1, <2>2, StaysKeeps
  <2> QED
    BY ZenonT(30), <2>1, <2>3, PanicsAssumption DEF IInv, PanicsKnown
<1> QED
  BY Zenon, <1>1, <1>2

\* sc.session of the goroutine that starts the writer, and tcpConn of a TEARDOWN,
\* are not nil.
LEMMA PointersSet ==
    /\ \A c \in Conns : RTSPInv /\ panicked = None /\ StartWriter(c) => panicked' = None
    /\ \A c \in Conns, s \in Sessions : RTSPInv /\ panicked = None /\ Teardown(s, c) => panicked' = None
<1>1. ASSUME NEW c \in Conns, RTSPInv, panicked = None, StartWriter(c) PROVE panicked' = None
  BY ZenonT(30), <1>1 DEF StartWriter, FramesExpected
<1>2. ASSUME NEW c \in Conns, NEW s \in Sessions, RTSPInv, panicked = None, Teardown(s, c) PROVE panicked' = None
  BY Zenon, <1>2 DEF Teardown, FramesOver
<1> QED
  BY ZenonT(30), <1>1, <1>2

LEMMA RTSPStep == IInv /\ [Next]_vars => IInv'
<1> SUFFICES ASSUME IInv, [Next]_vars PROVE IInv'
  OBVIOUS
<1>1. CASE UNCHANGED vars
  <2>1. UNCHANGED <<panicked, server, serverDone, sessions, conns, created, conn, reader, session, stream>>
    BY Zenon, <1>1 DEF vars, serverVars
  <2>2. LinksInv'
    BY ZenonT(30), <2>1, StaysKeeps DEF IInv
  <2>3. panicked' = None => (ServerPlaces /\ ConnPlaces /\ SessionPlaces /\ Visits /\ NotAlone /\ PathKnows)'
    <3>1. ASSUME RTSPInv PROVE ServerPlaces' /\ ConnPlaces' /\ SessionPlaces'
      BY ZenonT(30), <2>1, <3>1 DEF ServerPlaces, ConnPlaces, SessionPlaces
    <3>2. ASSUME RTSPInv PROVE Visits' /\ NotAlone' /\ PathKnows'
      BY <2>1, <3>2 DEF Visits, NotAlone, PathKnows, SessionDone
    <3> QED
      BY ZenonT(30), <2>1, <3>1, <3>2 DEF IInv
  <2> QED
    BY ZenonT(30), <2>1, <2>2, <2>3 DEF IInv, PanicsKnown
<1>2. CASE Next
  <2> USE <1>2
  <2>1. RTSPInv /\ panicked = None
    BY Zenon DEF Next, IInv
  <2>2. ASSUME RTSPInv', panicked' = None PROVE IInv'
    BY Zenon, <2>2 DEF IInv, PanicsKnown
  <2>3. CASE ServerStep
    <3>1. panicked' = None
      BY ZenonT(30), <2>1, <2>3 DEF ServerStep, ServerHandOverFails, ServerEnds, ServerTakesRequest
    <3>2. RTSPInv'
      BY ZenonT(30), <2>1, <2>3, ServerKeeps, CreateKeeps, ServerEndKeeps DEF ServerStep
    <3> QED
      BY ZenonT(30), <2>2, <3>1, <3>2
  <2>4. ASSUME NEW c \in Conns, ConnStep(c) PROVE IInv'
    <3>1. panicked' = None
      BY ZenonT(30), <2>1, <2>4, PointersSet DEF ConnStep, RequestFails, ConnCanceled, ConnLeavesSession, ConnEnds
    <3>2. RTSPInv'
      BY ZenonT(30), <2>1, <2>4, RequestKeeps, StartWriterKeeps, ConnCanceledKeeps, ConnEndsKeeps, LeavesKeeps DEF ConnStep
    <3> QED
      BY ZenonT(30), <2>2, <3>1, <3>2
  <2>5. ASSUME NEW s \in Sessions, NEW c \in Conns, SessionHandles(s, c) PROVE IInv'
    <3>1. CASE SessionPanics(s, c) \/ (Play(s, c) /\ session[s].state # "play" /\ stream.pc = "closed")
      BY ZenonT(30), <2>1, <3>1, PanicSteps
    <3>2. CASE Play(s, c) /\ (session[s].state = "play" \/ stream.pc # "closed")
      <4>1. panicked' = None
        BY ZenonT(30), <2>1, <3>2 DEF Play
      <4>2. RTSPInv'
        BY ZenonT(30), <2>1, <3>2, PlayKeeps, OptionsKeeps
      <4> QED
        BY ZenonT(30), <2>2, <4>1, <4>2
    <3>3. CASE SessionRefuses(s, c) \/ Options(s, c) \/ Announce(s, c) \/ Setup(s, c) \/ Record(s, c) \/ Teardown(s, c)
      <4>1. panicked' = None
        BY ZenonT(30), <2>1, <3>3, PointersSet DEF SessionRefuses, Options, Announce, Setup, Record
      <4>2. RTSPInv'
        BY ZenonT(30), <2>1, <3>3, RefusesKeeps, OptionsKeeps, AnnounceKeeps, SetupKeeps, RecordKeeps, TeardownKeeps
      <4> QED
        BY Zenon, <2>2, <4>1, <4>2
    <3> QED
      BY ZenonT(30), <2>5, <3>1, <3>2, <3>3 DEF SessionHandles
  <2>6. ASSUME NEW s \in Sessions,
               \/ SessionCanceled(s) \/ SessionLeavesStream(s) \/ SessionRemovesConn(s)
               \/ SessionReports(s) \/ SessionEnds(s) \/ \E c \in Conns : SessionVisits(s, c)
        PROVE  IInv'
    <3>1. panicked' = None
      BY ZenonT(30), <2>1, <2>6 DEF SessionCanceled, SessionLeavesStream, SessionRemovesConn, SessionReports, SessionEnds, SessionVisits
    <3>2. RTSPInv'
      BY ZenonT(30), <2>1, <2>6, CanceledKeeps, LeavesStreamKeeps, RemovesKeeps, ReportsKeeps, EndsKeeps, VisitsKeeps
    <3> QED
      BY ZenonT(30), <2>2, <3>1, <3>2
  <2>7. CASE Environment
    <3>1. panicked' = None
      <4>1. CASE CloseServer \/ PathCloses
        BY Zenon, <2>1, <4>1 DEF CloseServer, PathCloses
      <4>2. ASSUME NEW c \in Conns, Accept(c) \/ ReadFails(c) PROVE panicked' = None
        BY Zenon, <2>1, <4>2 DEF Accept, ReadFails
      <4>3. ASSUME NEW c \in Conns, NEW req, HandleRequest(c, req) PROVE panicked' = None
        BY Zenon, <2>1, <4>3 DEF HandleRequest
      <4> QED
        BY Zenon, <2>7, <4>1, <4>2, <4>3 DEF Environment
    <3>2. RTSPInv'
      BY Zenon, <2>1, <2>7, ServerEndKeeps, PathClosesKeeps, AcceptKeeps, RequestKeeps DEF Environment
    <3> QED
      BY Zenon, <2>2, <3>1, <3>2
  <2> QED
    BY Zenon, <2>3, <2>4, <2>5, <2>6, <2>7 DEF Next, Step, SessionStep
<1> QED
  BY ZenonT(30), <1>1, <1>2

LEMMA LinksImply == LinksInv => LinksAgree
<1> SUFFICES ASSUME LinksInv PROVE LinksAgree
  OBVIOUS
<1>1. FramesHaveSession
  <2> SUFFICES ASSUME NEW c \in Conns, reader[c].tcp
               PROVE  \/ conn[c].session # None /\ session[conn[c].session].tcpConn = c /\ session[conn[c].session].pc # "done"
                      \/ conn[c].pc = "closing" /\ conn[c].session = None
    BY Zenon DEF FramesHaveSession
  <2>1. CASE conn[c].session \in Sessions /\ session[conn[c].session].tcpConn = c
    BY ZenonT(30), <2>1, NumbersOfSessions DEF Paired
  <2> QED
    BY ZenonT(30), <2>1 DEF FramesExpected
<1>2. ReadersPlay
  BY ZenonT(30) DEF Reads
<1>3. PairingMutual
  BY ZenonT(30) DEF PairingMutual, Paired, Known
<1> QED
  BY Zenon, <1>1, <1>2, <1>3 DEF LinksAgree

LEMMA NobodyWaits ==
    ASSUME RTSPInv, AllWait, panicked = None
    PROVE  NobodyStuck
<1>1. \A s \in Sessions : session[s].pc # "none" => Answers(s)
  BY ZenonT(30) DEF AllWait, SessionWaits, Answers, SessionDone, SessionPlaces
<1>2. server.pc \in {"run", "closed"} /\ (server.pc = "closed" <=> serverDone)
  BY ZenonT(30), <1>1 DEF AllWait, ServerWaits, ServerPlaces, AtServer
<1>3. ASSUME NEW c \in Conns
      PROVE  /\ conn[c].pc \in {"none", "idle", "done"}
             /\ conn[c].pc = "idle" => ~conn[c].ctxDone /\ ~serverDone
  <2>1. conn[c].session = None \/ Answers(conn[c].session)
    BY ZenonT(30), <1>1 DEF AtServer, Paired
  <2>2. ConnWaits(c)
    BY ZenonT(30) DEF AllWait
  <2>3. conn[c].pc # "waitServer"
    BY ZenonT(30), <1>2 DEF ConnPlaces
  <2>4. conn[c].pc # "toServer"
    BY ZenonT(30), <1>2, <2>2 DEF AllWait, ServerWaits, ConnWaits, GivesUp
  <2>5. conn[c].pc # "toSession"
    BY ZenonT(30), <2>1, <2>2 DEF ConnWaits, GivesUp, Answers, ConnPlaces
  <2>6. conn[c].pc # "closing"
    BY ZenonT(30), <1>2, <2>1, <2>2 DEF ConnWaits, ConnPlaces, ReaderDone
  <2> QED
    BY ZenonT(30), <2>2, <2>3, <2>4, <2>5, <2>6 DEF ConnPlaces, ConnWaits, ConnDone
<1>4. ASSUME NEW s \in Sessions
      PROVE  /\ session[s].pc \in {"none", "run", "done"}
             /\ session[s].pc = "run" => ~SessionDone(s)
  <2>1. SessionWaits(s)
    BY Zenon DEF AllWait
  <2>2. session[s].pc = "visit" => session[s].cur # None
    BY ZenonT(30), <1>2, <2>1 DEF SessionWaits
  <2>3. ASSUME session[s].pc = "visit" PROVE FALSE
    <3> DEFINE c == session[s].cur
    <3>1. c \in Conns /\ conn[c].pc \in {"idle", "done"} /\ (c = session[s].tcpConn => conn[c].ctxDone)
      BY ZenonT(30), <1>3, <2>2, <2>3 DEF Visits
    <3>2. (c = session[s].tcpConn => conn[c].pc = "done") => conn[c].pc # "idle" /\ ~ConnDone(c)
      BY ZenonT(30), <2>1, <2>2, <2>3 DEF SessionWaits
    <3>3. conn[c].pc = "done" => conn[c].ctxDone
      BY ZenonT(30), <3>1 DEF ConnPlaces
    <3> QED
      BY ZenonT(30), <1>3, <3>1, <3>2, <3>3 DEF ConnDone
  <2> QED
    BY ZenonT(30), <2>1, <2>3 DEF SessionWaits, SessionPlaces
<1>5. serverDone => AllDone
  BY ZenonT(30), <1>2, <1>3, <1>4 DEF AllDone, SessionDone
<1>6. ASSUME NEW s \in Sessions
      PROVE  /\ session[s].ctxDone => session[s].pc = "done"
             /\ session[s].pc = "run" => session[s].conns \cap conns # {}
  <2>1. session[s].ctxDone => session[s].pc = "done"
    BY ZenonT(30), <1>4 DEF SessionPlaces, SessionDone
  <2>2. ASSUME session[s].pc = "run" PROVE session[s].conns \cap conns # {}
    <3>1. ~SessionDone(s) /\ session[s].conns # {}
      BY ZenonT(30), <1>2, <1>4, <2>2 DEF NotAlone
    <3>2. PICK c \in session[s].conns : TRUE
      BY ZenonT(30), <3>1
    <3>3. c \in Conns /\ conn[c].session = s
      BY ZenonT(30), <2>2, <3>1 DEF Known, Visits
    <3>4. conn[c].pc = "idle"
      BY ZenonT(30), <1>3, <3>3, NumbersOfSessions DEF AtServer
    <3> QED
      BY ZenonT(30), <3>3, <3>4 DEF ConnPlaces
  <2> QED
    BY ZenonT(30), <2>1, <2>2
<1> QED
  BY ZenonT(30), <1>3, <1>5, <1>6 DEF NobodyStuck

LEMMA AlwaysRTSPInv == Spec => []IInv
<1>1. Init => IInv
  BY Zenon, RTSPStarts
<1>2. IInv /\ [Next]_vars => IInv'
  BY Zenon, RTSPStep
<1> QED
  BY <1>1, <1>2, PTL DEF Spec

\* Of the pointers that handlers follow without a check, only the map of a closed
\* stream and the mode of a SETUP can be nil, for any number of connections and
\* sessions.
THEOREM PanicsAlwaysKnown == Spec => []PanicsKnown
<1>1. IInv => PanicsKnown
  BY ZenonT(30) DEF IInv
<1> QED
  BY <1>1, AlwaysRTSPInv, PTL

\* Connections, readers, sessions and the stream always refer to each other
\* consistently: no frame reaches a session that has ended.
THEOREM LinksAlwaysAgree == Spec => []LinksAgree
<1>1. IInv => LinksAgree
  BY ZenonT(30), LinksImply DEF IInv
<1> QED
  BY <1>1, AlwaysRTSPInv, PTL

\* When all goroutines of the server wait, none waits for another for ever:
\* what was told to end has ended.
THEOREM NobodyEverStuck == Spec => []NobodyStuck
<1>1. IInv => NobodyStuck
  BY Zenon, NobodyWaits DEF IInv, NobodyStuck
<1> QED
  BY <1>1, AlwaysRTSPInv, PTL

====
