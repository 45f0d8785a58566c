----------------------------- MODULE VideoServer -----------------------------
(***************************************************************************)
(* The video server (pkg/video: path_manager.go, path.go, rtsp_server.go,  *)
(* rtsp_session.go, hls_server.go, hls_muxer.go): the input processes of   *)
(* the monitors add paths, RTSP sessions publish to and read from them, a  *)
(* published path has an HLS muxer, and HTTP requests ask the muxer for    *)
(* files.                                                                  *)
(*                                                                         *)
(* Goroutines share the mutexes of the path manager (pm.mu), of every path *)
(* (pa.mu) and of the RTSP server (mu), and talk to the goroutine of the   *)
(* HLS server through unbuffered channels.  A step ends where a goroutine  *)
(* may have to wait for a mutex or for the other end of a channel.         *)
(*                                                                         *)
(* A path object is created by every AddPath; its name may come back in a  *)
(* later object.  It has at most one muxer in its life, which is named by  *)
(* the object.  What the muxer's playlist does is HLSPlaylist.tla: here a  *)
(* request is answered at once, or held until the stream brings more or    *)
(* the muxer's context is done.                                            *)
(***************************************************************************)
EXTENDS Naturals, FiniteSets

CONSTANTS
    Names,      \* path names, monitor IDs
    MaxObjects, \* bound: path objects that are created
    Sessions,   \* RTSP sessions
    MaxTracks,  \* bound: SETUP requests of a session, one for each track
    Requests,   \* HTTP requests and calls of MuxerByPathName
    Kinds,      \* what a request asks: a subset of {"file", "blocking", "muxer"}
    None

\* Path objects, in the order in which they are created
Objects == 1..MaxObjects

ASSUME VideoServerAssumption ==
    /\ MaxObjects \in Nat
    /\ None \notin Objects \cup Names \cup Sessions \cup Requests
    /\ Kinds \subseteq {"file", "blocking", "muxer"}

VARIABLES
    pmMu,       \* pathManager.mu is taken
    paths,      \* pathManager.pathConfs and .paths: name -> object
    owner,      \* the object of the running input process of a name
    created,    \* objects created so far
    pathName,   \* path.name
    ctxDone,    \* the context AddPath was given is done
    mu,         \* path.mu is taken
    source, sourceReady, readers, canceled,     \* fields of path
    rtspMu,     \* rtspServer.mu is taken for writing
    sess,       \* RTSP sessions
    server,     \* where the goroutine of hlsServer is
    serverDone, \* hlsServer.ctx is done
    muxers,     \* hlsServer.muxers
    mux,        \* the muxers' goroutines
    req,        \* the requests' goroutines
    closing     \* the goroutines that run path.close

pathVars == <<pathName, ctxDone, mu, source, sourceReady, readers, canceled>>
managerVars == <<pmMu, paths, owner, created>>
serverVars == <<server, serverDone, muxers>>
vars == <<managerVars, pathVars, rtspMu, sess, serverVars, mux, req, closing>>

\* The goroutines that call close of an object: two wait for its context (the
\* one newPath starts and the one AddPath starts), one is that of its muxer,
\* one that of its publisher.
Closers == {"newPath", "AddPath", "muxer", "publisher"}

Init ==
    /\ pmMu = FALSE
    /\ paths = [n \in Names |-> None]
    /\ owner = [n \in Names |-> None]
    /\ created = 0
    /\ pathName = [o \in Objects |-> None]
    /\ ctxDone = [o \in Objects |-> FALSE]
    /\ mu = [o \in Objects |-> FALSE]
    /\ source = [o \in Objects |-> None]
    /\ sourceReady = [o \in Objects |-> FALSE]
    /\ readers = [o \in Objects |-> {}]
    /\ canceled = [o \in Objects |-> FALSE]
    /\ rtspMu = FALSE
    /\ sess = [s \in Sessions |->
                 [at |-> "none", state |-> "initial", path |-> None, want |-> None,
                  setups |-> 0, ctxDone |-> FALSE]]
    /\ server = [at |-> "select"]
    /\ serverDone = FALSE
    /\ muxers = [n \in Names |-> None]
    /\ mux = [o \in Objects |->
                [at |-> "none", ctxDone |-> FALSE, req |-> None, inner |-> "none"]]
    /\ req = [r \in Requests |-> [at |-> "idle", kind |-> "file", name |-> None]]
    /\ closing = [o \in Objects |-> [c \in Closers |-> "no"]]

-----------------------------------------------------------------------------
(* The input process of a monitor *)

\* pathManager.AddPath, called by runInputProcess.  While the last object of the
\* name is still there the call fails and is made again.
AddPath(n) ==
    LET o == created + 1
    IN  /\ owner[n] = None
        /\ ~pmMu
        /\ paths[n] = None
        /\ o \in Objects
        /\ created' = o
        /\ paths' = [paths EXCEPT ![n] = o]
        /\ owner' = [owner EXCEPT ![n] = o]
        /\ pathName' = [pathName EXCEPT ![o] = n]
        /\ UNCHANGED <<pmMu, ctxDone, mu, source, sourceReady, readers, canceled,
                       rtspMu, sess, serverVars, mux, req, closing>>

\* The input process ends, or its monitor is stopped: cancel2().
CancelPath(n) ==
    /\ owner[n] # None
    /\ ctxDone' = [ctxDone EXCEPT ![owner[n]] = TRUE]
    /\ owner' = [owner EXCEPT ![n] = None]
    /\ closing' = [closing EXCEPT ![owner[n]].newPath = "lock",
                                  ![owner[n]].AddPath = "remove"]
    /\ UNCHANGED <<pmMu, paths, created, pathName, mu, source, sourceReady, readers,
                   canceled, rtspMu, sess, serverVars, mux, req>>

\* The goroutine of AddPath takes pm.mu before it closes the path.
RemoveLock(o) ==
    /\ closing[o].AddPath = "remove"
    /\ ~pmMu
    /\ pmMu' = TRUE
    /\ closing' = [closing EXCEPT ![o].AddPath = "lock"]
    /\ UNCHANGED <<paths, owner, created, pathVars, rtspMu, sess, serverVars, mux, req>>

-----------------------------------------------------------------------------
(* path.close *)

\* rtspSession.close for the source and the readers
CloseSessions(o) ==
    [s \in Sessions |-> IF s = source[o] \/ s \in readers[o]
                        THEN [sess[s] EXCEPT !.ctxDone = TRUE]
                        ELSE sess[s]]

\* What a closer does after close returned: the goroutine of AddPath removes the
\* path and releases pm.mu; the muxer closes its ring buffer, with which the
\* writer ends; the session is gone.
AfterClose(o, c, sessions) ==
    /\ closing' = [closing EXCEPT ![o][c] = "done"]
    /\ pmMu' = IF c = "AddPath" THEN FALSE ELSE pmMu
    /\ paths' = IF c = "AddPath" THEN [paths EXCEPT ![pathName[o]] = None] ELSE paths
    /\ sess' = IF c = "publisher"
               THEN [sessions EXCEPT ![source[o]].at = "gone"] ELSE sessions

MuxAfterClose(o, c, m) ==
    IF c # "muxer" THEN m
    ELSE [m EXCEPT ![o].at = IF m[o].inner = "sent" THEN "done" ELSE "wait",
                   ![o].inner = IF @ = "running" THEN "ended" ELSE @]

\* Mutant of CloseAgain: it returns without releasing pa.mu.
CloseAgainLocked(o, c) ==
    /\ closing[o][c] = "lock"
    /\ ~mu[o]
    /\ canceled[o]
    /\ mu' = [mu EXCEPT ![o] = TRUE]
    /\ AfterClose(o, c, sess)
    /\ mux' = MuxAfterClose(o, c, mux)
    /\ UNCHANGED <<owner, created, pathName, ctxDone, source, sourceReady, readers, canceled,
                   rtspMu, serverVars, req>>

\* The path is closed already.
CloseAgain(o, c) ==
    /\ closing[o][c] = "lock"
    /\ ~mu[o]
    /\ canceled[o]
    /\ AfterClose(o, c, sess)
    /\ mux' = MuxAfterClose(o, c, mux)
    /\ UNCHANGED <<owner, created, pathVars, rtspMu, serverVars, req>>

\* With a muxer, close keeps pa.mu while it waits for the HLS server.
CloseReady(o, c) ==
    /\ closing[o][c] = "lock"
    /\ ~mu[o]
    /\ ~canceled[o]
    /\ sourceReady[o]
    /\ mu' = [mu EXCEPT ![o] = TRUE]
    /\ closing' = [closing EXCEPT ![o][c] = "notReady"]
    /\ UNCHANGED <<managerVars, pathName, ctxDone, source, sourceReady, readers, canceled,
                   rtspMu, sess, serverVars, mux, req>>

\* The rest of close
CloseRest(o, c) ==
    /\ mu' = [mu EXCEPT ![o] = FALSE]
    /\ sourceReady' = [sourceReady EXCEPT ![o] = FALSE]
    /\ readers' = [readers EXCEPT ![o] = {}]
    /\ canceled' = [canceled EXCEPT ![o] = TRUE]
    /\ AfterClose(o, c, CloseSessions(o))
    /\ UNCHANGED <<owner, created, pathName, ctxDone, source, rtspMu, req>>

CloseNotReady(o, c) ==
    /\ closing[o][c] = "lock"
    /\ ~mu[o]
    /\ ~canceled[o]
    /\ ~sourceReady[o]
    /\ CloseRest(o, c)
    /\ mux' = MuxAfterClose(o, c, mux)
    /\ UNCHANGED serverVars

\* Mutant of PathSourceNotReady: the muxer is closed and stays in the map.
NotReadyKeepsMuxer(o, c) ==
    LET m == muxers[pathName[o]]
    IN  /\ closing[o][c] = "notReady"
        /\ server.at = "select"
        /\ mux' = MuxAfterClose(o, c,
                     IF m = None THEN mux ELSE [mux EXCEPT ![m].ctxDone = TRUE])
        /\ CloseRest(o, c)
        /\ UNCHANGED serverVars

\* chPathSourceNotReady: the HLS server closes the muxer of that name.
PathSourceNotReady(o, c) ==
    LET m == muxers[pathName[o]]
    IN  /\ closing[o][c] = "notReady"
        /\ server.at = "select"
        /\ muxers' = [muxers EXCEPT ![pathName[o]] = None]
        /\ mux' = MuxAfterClose(o, c,
                     IF m = None THEN mux ELSE [mux EXCEPT ![m].ctxDone = TRUE])
        /\ CloseRest(o, c)
        /\ UNCHANGED <<server, serverDone>>

\* pathSourceNotReady when the HLS server has ended
NotReadyCanceled(o, c) ==
    /\ closing[o][c] = "notReady"
    /\ serverDone
    /\ CloseRest(o, c)
    /\ mux' = MuxAfterClose(o, c, mux)
    /\ UNCHANGED serverVars

-----------------------------------------------------------------------------
(* RTSP sessions: the calls of gortsplib, one after the other.  A call that  *)
(* returns an error ends the connection, and with it the session.            *)

\* OnSessionOpen: pathLogfByName takes pm.mu while rtspServer.mu is taken.
OpenSession(s) ==
    /\ sess[s].at = "none"
    /\ ~rtspMu
    /\ rtspMu' = TRUE
    /\ sess' = [sess EXCEPT ![s].at = "open"]
    /\ UNCHANGED <<managerVars, pathVars, serverVars, mux, req, closing>>

SessionOpened(s) ==
    /\ sess[s].at = "open"
    /\ ~pmMu
    /\ rtspMu' = FALSE
    /\ sess' = [sess EXCEPT ![s].at = "idle"]
    /\ UNCHANGED <<managerVars, pathVars, serverVars, mux, req, closing>>

\* A session that is not in a call gets a request.
CanCall(s) == sess[s].at = "idle" /\ ~rtspMu

\* publisherAdd and readerAdd of the path manager, up to the path's mutex
CallThroughManager(s, n, call) ==
    /\ CanCall(s)
    /\ ~pmMu
    /\ paths[n] # None
    /\ pmMu' = TRUE
    /\ sess' = [sess EXCEPT ![s].at = call, ![s].want = paths[n]]
    /\ UNCHANGED <<paths, owner, created, pathVars, rtspMu, serverVars, mux, req, closing>>

Announce(s, n) == sess[s].state = "initial" /\ CallThroughManager(s, n, "announce")

Setup(s, n) ==
    /\ sess[s].state \in {"initial", "prePlay"}
    /\ sess[s].setups < MaxTracks
    /\ CallThroughManager(s, n, "setup")

\* path.publisherAdd and the rest of onAnnounce
PublisherAdd(s) ==
    LET o == sess[s].want
    IN  /\ sess[s].at = "announce"
        /\ ~mu[o]
        /\ pmMu' = FALSE
        /\ IF canceled[o] \/ source[o] # None
           THEN /\ sess' = [sess EXCEPT ![s].at = "end", ![s].want = None]
                /\ UNCHANGED source
           ELSE /\ source' = [source EXCEPT ![o] = s]
                /\ sess' = [sess EXCEPT ![s].at = "idle", ![s].want = None,
                                        ![s].path = o, ![s].state = "preRecord"]
        /\ UNCHANGED <<paths, owner, created, pathName, ctxDone, mu, sourceReady, readers,
                       canceled, rtspMu, serverVars, mux, req, closing>>

\* path.readerAdd and the rest of onSetup.  The reader is added before the
\* track is looked up, and stays when there is no such track.
ReaderAdd(s, trackExists) ==
    LET o == sess[s].want
    IN  /\ sess[s].at = "setup"
        /\ ~mu[o]
        /\ pmMu' = FALSE
        /\ IF canceled[o] \/ ~sourceReady[o]
           THEN /\ sess' = [sess EXCEPT ![s].at = "end", ![s].want = None]
                /\ UNCHANGED readers
           ELSE /\ readers' = [readers EXCEPT ![o] = @ \cup {s}]
                /\ sess' = [sess EXCEPT ![s] =
                               [sess[s] EXCEPT
                                   !.at = IF trackExists THEN "idle" ELSE "end",
                                   !.want = None,
                                   !.path = o,
                                   !.setups = sess[s].setups + 1,
                                   !.state = IF trackExists THEN "prePlay" ELSE sess[s].state]]
        /\ UNCHANGED <<paths, owner, created, pathName, ctxDone, mu, source, sourceReady,
                       canceled, rtspMu, serverVars, mux, req, closing>>

\* onPlay and path.readerStart
Play(s) ==
    LET o == sess[s].path
    IN  /\ CanCall(s)
        /\ sess[s].state = "prePlay"
        /\ ~mu[o]
        /\ readers' = IF canceled[o] THEN readers ELSE [readers EXCEPT ![o] = @ \cup {s}]
        /\ sess' = [sess EXCEPT ![s].state = "play"]
        /\ UNCHANGED <<managerVars, pathName, ctxDone, mu, source, sourceReady, canceled,
                       rtspMu, serverVars, mux, req, closing>>

\* onRecord and path.publisherStart, up to the call of the HLS server, which is
\* made with pa.mu taken
Record(s) ==
    LET o == sess[s].path
    IN  /\ CanCall(s)
        /\ sess[s].state = "preRecord"
        /\ ~mu[o]
        /\ ~canceled[o]
        /\ mu' = [mu EXCEPT ![o] = TRUE]
        /\ sess' = [sess EXCEPT ![s].at = "ready"]
        /\ UNCHANGED <<managerVars, pathName, ctxDone, source, sourceReady, readers, canceled,
                       rtspMu, serverVars, mux, req, closing>>

\* The call returns with an error, and publisherStart with it.
RecordFails(s) ==
    /\ mu' = [mu EXCEPT ![sess[s].path] = FALSE]
    /\ sess' = [sess EXCEPT ![s].at = "end"]
    /\ UNCHANGED <<managerVars, pathName, ctxDone, source, sourceReady, readers, canceled,
                   rtspMu, serverDone, muxers, mux, req, closing>>

\* chPathSourceReady, when there is a muxer of that name: the error is sent and
\* the HLS server goes on to make a second muxer, whose answer nobody receives.
PathSourceReadyExists(s) ==
    /\ sess[s].at = "ready"
    /\ server.at = "select"
    /\ muxers[pathName[sess[s].path]] # None
    /\ server' = [at |-> "stuck"]
    /\ RecordFails(s)

\* chPathSourceReady when the muxer cannot be made of these tracks
PathSourceReadyFails(s) ==
    /\ sess[s].at = "ready"
    /\ server.at = "select"
    /\ muxers[pathName[sess[s].path]] = None
    /\ RecordFails(s)
    /\ UNCHANGED server

ReadyCanceled(s) ==
    /\ sess[s].at = "ready"
    /\ serverDone
    /\ RecordFails(s)
    /\ UNCHANGED server

\* chPathSourceReady: the muxer is made and registered, the path gets its stream.
PathSourceReady(s) ==
    LET o == sess[s].path
    IN  /\ sess[s].at = "ready"
        /\ server.at = "select"
        /\ muxers[pathName[o]] = None
        /\ muxers' = [muxers EXCEPT ![pathName[o]] = o]
        /\ mux' = [mux EXCEPT ![o].at = "select", ![o].inner = "running"]
        /\ sourceReady' = [sourceReady EXCEPT ![o] = TRUE]
        /\ mu' = [mu EXCEPT ![o] = FALSE]
        /\ sess' = [sess EXCEPT ![s].at = "idle", ![s].state = "record"]
        /\ UNCHANGED <<managerVars, pathName, ctxDone, source, readers, canceled, rtspMu,
                       server, serverDone, req, closing>>

\* The session's loop returns: a TEARDOWN, the last connection ends, or its context
\* is done.
EndSession(s) ==
    /\ sess[s].at = "idle"
    /\ sess' = [sess EXCEPT ![s].at = "end"]
    /\ UNCHANGED <<managerVars, pathVars, rtspMu, serverVars, mux, req, closing>>

SessionCanceled(s) == sess[s].ctxDone /\ EndSession(s)

\* OnSessionClose and onClose, up to the path's mutex
OnSessionClose(s) ==
    LET publisher == sess[s].state \in {"preRecord", "record"}
        reader == sess[s].state \in {"prePlay", "play"}
    IN  /\ sess[s].at = "end"
        /\ ~rtspMu
        /\ sess' = [sess EXCEPT ![s].at = IF publisher THEN "close"
                                          ELSE IF reader THEN "remove" ELSE "gone"]
        /\ closing' = IF publisher
                      THEN [closing EXCEPT ![sess[s].path].publisher = "lock"]
                      ELSE closing
        /\ UNCHANGED <<managerVars, pathVars, rtspMu, serverVars, mux, req>>

ReaderRemove(s) ==
    LET o == sess[s].path
    IN  /\ sess[s].at = "remove"
        /\ ~mu[o]
        /\ readers' = IF canceled[o] THEN readers ELSE [readers EXCEPT ![o] = @ \ {s}]
        /\ sess' = [sess EXCEPT ![s].at = "gone", ![s].path = None]
        /\ UNCHANGED <<managerVars, pathName, ctxDone, mu, source, sourceReady, canceled,
                       rtspMu, serverVars, mux, req, closing>>

-----------------------------------------------------------------------------
(* Requests *)

\* An HTTP handler sends to chRequest, the recorder to chMuxerbyPathName.
Request(r, kind, n) ==
    /\ req[r].at = "idle"
    /\ req' = [req EXCEPT ![r] = [at |-> "sending", kind |-> kind, name |-> n]]
    /\ UNCHANGED <<managerVars, pathVars, rtspMu, sess, serverVars, mux, closing>>

RequestCanceled(r) ==
    /\ req[r].at = "sending"
    /\ serverDone
    /\ req' = [req EXCEPT ![r].at = "done"]
    /\ UNCHANGED <<managerVars, pathVars, rtspMu, sess, serverVars, mux, closing>>

\* hlsServer.run: a request for a muxer that exists is passed on by onRequest,
\* which the HLS server waits for; any other request is answered.
ServeRequest(r) ==
    LET m == muxers[req[r].name]
        pass == req[r].kind # "muxer" /\ m # None
    IN  /\ req[r].at = "sending"
        /\ server.at = "select"
        /\ req' = [req EXCEPT ![r].at = IF pass THEN "waiting" ELSE "done"]
        /\ server' = IF pass THEN [at |-> "onRequest", mux |-> m, req |-> r] ELSE server
        /\ UNCHANGED <<managerVars, pathVars, rtspMu, sess, serverDone, muxers, mux, closing>>

\* Mutant of MuxDone: the context is not derived from the HLS server's.
MuxDoneOwn(o) == mux[o].ctxDone

\* HLSMuxer.ctx is done; it is derived from the HLS server's.
MuxDone(o) == mux[o].ctxDone \/ serverDone

OnRequestCanceled ==
    /\ server.at = "onRequest"
    /\ MuxDone(server.mux)
    /\ req' = [req EXCEPT ![server.req].at = "done"]
    /\ server' = [at |-> "select"]
    /\ UNCHANGED <<managerVars, pathVars, rtspMu, sess, serverDone, muxers, mux, closing>>

\* The muxer takes the request, and the HLS server is free again.
HandleRequest(o) ==
    /\ server.at = "onRequest" /\ server.mux = o
    /\ mux[o].at = "select"
    /\ mux' = [mux EXCEPT ![o].at = "handle", ![o].req = server.req]
    /\ server' = [at |-> "select"]
    /\ UNCHANGED <<managerVars, pathVars, rtspMu, sess, serverDone, muxers, req, closing>>

Answer(o) ==
    /\ mux[o].at = "handle"
    /\ req' = [req EXCEPT ![mux[o].req].at = "done"]
    /\ mux' = [mux EXCEPT ![o].at = "select", ![o].req = None]
    /\ UNCHANGED <<managerVars, pathVars, rtspMu, sess, serverVars, closing>>

\* The playlist answers: a request for a file at once, a blocking one when the
\* muxer is closed ...
Respond(o) ==
    /\ mux[o].at = "handle"
    /\ req[mux[o].req].kind = "file" \/ MuxDone(o)
    /\ Answer(o)

\* ... or when the publisher brings the part it waits for.
StreamAdvances(o) ==
    /\ mux[o].at = "handle"
    /\ mux[o].inner = "running"
    /\ sourceReady[o] /\ sess[source[o]].at = "idle"
    /\ Answer(o)

-----------------------------------------------------------------------------
(* The goroutines of a muxer *)

\* runInner returns an error: a segment that is too large, a sample it cannot
\* decode.
InnerFails(o) ==
    /\ mux[o].inner = "running"
    /\ mux' = [mux EXCEPT ![o].inner = "failed"]
    /\ UNCHANGED <<managerVars, pathVars, rtspMu, sess, serverVars, req, closing>>

\* The loop of HLSMuxer.run sees that the context is done or that runInner has
\* returned; cleanup starts with ctxCancel.
CleanupCanceled(o) ==
    /\ mux[o].at = "select"
    /\ MuxDone(o)
    /\ mux' = [mux EXCEPT ![o].at = "muxerClose", ![o].ctxDone = TRUE]
    /\ UNCHANGED <<managerVars, pathVars, rtspMu, sess, serverVars, req, closing>>

CleanupFailed(o) ==
    /\ mux[o].at = "select"
    /\ mux[o].inner = "failed"
    /\ mux' = [mux EXCEPT ![o].at = "muxerClose", ![o].ctxDone = TRUE, ![o].inner = "sent"]
    /\ UNCHANGED <<managerVars, pathVars, rtspMu, sess, serverVars, req, closing>>

\* Mutant of MuxerClose: cleanup does not close the path.
MuxerCloseOnly(o) ==
    /\ mux[o].at = "muxerClose"
    /\ server.at = "select"
    /\ muxers' = [muxers EXCEPT ![pathName[o]] = None]
    /\ mux' = MuxAfterClose(o, "muxer", mux)
    /\ UNCHANGED <<managerVars, pathVars, rtspMu, sess, server, serverDone, req, closing>>

\* chMuxerClose: the HLS server removes whatever muxer has the name.
MuxerClose(o) ==
    /\ mux[o].at = "muxerClose"
    /\ \/ /\ server.at = "select"
          /\ muxers' = [muxers EXCEPT ![pathName[o]] = None]
       \/ serverDone /\ UNCHANGED muxers
    /\ mux' = [mux EXCEPT ![o].at = "pathClose"]
    /\ closing' = [closing EXCEPT ![o].muxer = "lock"]
    /\ UNCHANGED <<managerVars, pathVars, rtspMu, sess, server, serverDone, req>>

\* After a cleanup for the context, run waits for runInner.
InnerReturned(o) ==
    /\ mux[o].at = "wait"
    /\ mux[o].inner \in {"failed", "ended"}
    /\ mux' = [mux EXCEPT ![o].at = "done", ![o].inner = "sent"]
    /\ UNCHANGED <<managerVars, pathVars, rtspMu, sess, serverVars, req, closing>>

-----------------------------------------------------------------------------
(* Shutdown *)

\* nvr.Run cancels the context of the servers when StopMonitors has returned, with
\* which no input process runs and no path is open.  Requests are still served: a
\* monitor can be started again, and add its path, during the shutdown.
Shutdown ==
    /\ ~serverDone
    /\ \A n \in Names : owner[n] = None
    /\ serverDone' = TRUE
    /\ UNCHANGED <<managerVars, pathVars, rtspMu, sess, server, muxers, mux, req, closing>>

ServerStops ==
    /\ server.at = "select"
    /\ serverDone
    /\ server' = [at |-> "ended"]
    /\ UNCHANGED <<managerVars, pathVars, rtspMu, sess, serverDone, muxers, mux, req, closing>>

-----------------------------------------------------------------------------
(* The specification *)

\* The steps of the program's goroutines that wait for nothing but a mutex, a
\* channel or a context
CloseStep(o, c) ==
    CloseAgain(o, c) \/ CloseReady(o, c) \/ CloseNotReady(o, c)
    \/ PathSourceNotReady(o, c) \/ NotReadyCanceled(o, c)

SessionStep(s) ==
    \/ SessionOpened(s) \/ PublisherAdd(s)
    \/ \E trackExists \in BOOLEAN : ReaderAdd(s, trackExists)
    \/ PathSourceReadyExists(s) \/ PathSourceReadyFails(s) \/ PathSourceReady(s)
    \/ ReadyCanceled(s) \/ SessionCanceled(s) \/ OnSessionClose(s) \/ ReaderRemove(s)

MuxStep(o) ==
    HandleRequest(o) \/ Respond(o) \/ CleanupCanceled(o) \/ CleanupFailed(o)
    \/ MuxerClose(o) \/ InnerReturned(o)

RequestStep(r) == RequestCanceled(r) \/ ServeRequest(r)

ServerStep == OnRequestCanceled \/ ServerStops

\* What the monitors, the clients and the camera may do
Environment ==
    \/ \E n \in Names : AddPath(n) \/ CancelPath(n)
    \/ \E s \in Sessions : OpenSession(s) \/ Play(s) \/ Record(s) \/ EndSession(s)
    \/ \E s \in Sessions, n \in Names : Announce(s, n) \/ Setup(s, n)
    \/ \E r \in Requests, kind \in Kinds, n \in Names : Request(r, kind, n)
    \/ \E o \in Objects : InnerFails(o) \/ StreamAdvances(o)
    \/ Shutdown

Next ==
    \/ Environment
    \/ \E o \in Objects : RemoveLock(o) \/ MuxStep(o)
    \/ \E o \in Objects, c \in Closers : CloseStep(o, c)
    \/ \E s \in Sessions : SessionStep(s)
    \/ \E r \in Requests : RequestStep(r)
    \/ ServerStep

Spec == Init /\ [][Next]_vars

\* A goroutine that can go on does; nothing is asked of the environment.
Fairness ==
    /\ \A o \in Objects : WF_vars(RemoveLock(o)) /\ WF_vars(MuxStep(o))
    /\ \A o \in Objects, c \in Closers : WF_vars(CloseStep(o, c))
    /\ \A s \in Sessions : WF_vars(SessionStep(s))
    /\ \A r \in Requests : WF_vars(RequestStep(r))
    /\ WF_vars(ServerStep)

FairSpec == Spec /\ Fairness

-----------------------------------------------------------------------------
(* Properties *)

Optional(S) == S \cup {None}

\* The places the goroutines of a session and of a muxer can be in
SessionRecord ==
    [at : {"none", "open", "idle", "announce", "setup", "ready", "end", "close", "remove", "gone"},
     state : {"initial", "prePlay", "play", "preRecord", "record"},
     path : Optional(Objects), want : Optional(Objects), setups : Nat, ctxDone : BOOLEAN]

MuxRecord ==
    [at : {"none", "select", "handle", "muxerClose", "pathClose", "wait", "done"},
     ctxDone : BOOLEAN, req : Optional(Requests),
     inner : {"none", "running", "failed", "ended", "sent"}]

RequestRecord ==
    [at : {"sending"}, kind : Kinds, name : Names]
        \cup [at : {"idle", "waiting", "done"}, kind : Kinds \cup {"file"}, name : Optional(Names)]

ServerRecord ==
    [at : {"select", "stuck", "ended"}] \cup [at : {"onRequest"}, mux : Objects, req : Requests]

\* Types
TypeOK ==
    /\ pmMu \in BOOLEAN /\ rtspMu \in BOOLEAN /\ serverDone \in BOOLEAN
    /\ created \in 0..MaxObjects
    /\ paths \in [Names -> Optional(Objects)]
    /\ owner \in [Names -> Optional(Objects)]
    /\ muxers \in [Names -> Optional(Objects)]
    /\ pathName \in [Objects -> Optional(Names)]
    /\ source \in [Objects -> Optional(Sessions)]
    /\ readers \in [Objects -> SUBSET Sessions]
    /\ sourceReady \in [Objects -> BOOLEAN] /\ canceled \in [Objects -> BOOLEAN]
    /\ mu \in [Objects -> BOOLEAN] /\ ctxDone \in [Objects -> BOOLEAN]
    /\ sess \in [Sessions -> SessionRecord]
    /\ mux \in [Objects -> MuxRecord]
    /\ server \in ServerRecord
    /\ req \in [Requests -> RequestRecord]
    /\ closing \in [Objects -> [Closers -> {"no", "remove", "lock", "notReady", "done"}]]

\* A closed path keeps nothing alive: it is not ready, has no readers, and the
\* HLS server does not have its muxer, whichever of the four goroutines that
\* close a path came first.
CanceledIsInert ==
    \A o \in Objects : canceled[o] =>
        /\ ~sourceReady[o]
        /\ readers[o] = {}
        /\ ~serverDone => muxers[pathName[o]] # o

\* Closing a path reaches every session that publishes to it or reads from it:
\* no session goes on with a path that is closed.
SessionsFollowPath ==
    \A s \in Sessions :
        /\ sess[s].path # None
        /\ sess[s].at \in {"idle", "announce", "setup", "ready"}
        /\ canceled[sess[s].path]
        => sess[s].ctxDone

\* pathSourceReady never finds a muxer of the same name, not even that of the
\* path object before: the branch that would leave the HLS server waiting for
\* ever is not reached, as long as the program is not shut down.
NoSecondMuxer == server.at = "stuck" => serverDone

\* The muxer that requests for a name are passed to is the one of the path that
\* has the name now, which is published, and its goroutine still runs: the muxer
\* of an object before does not come back, however late its goroutine ends.
ServedIsCurrent ==
    ~serverDone =>
        \A n \in Names : muxers[n] # None =>
            /\ paths[n] = muxers[n]
            /\ sourceReady[muxers[n]]
            /\ mux[muxers[n]].at \in {"select", "handle", "muxerClose"}

\* Paths, their sessions and their muxers agree, whichever of the goroutines that
\* open and close them comes first.
PathsAgree ==
    /\ CanceledIsInert
    /\ SessionsFollowPath
    /\ NoSecondMuxer
    /\ ServedIsCurrent

\* When the context of a path is done the path is removed, so that the input
\* process can add it again.  It does not hold: a blocking request keeps the muxer
\* in its handler, the HLS server waits for the muxer with the next request, and
\* path.close waits for the HLS server.
PathRemoved ==
    \A o \in Objects : ctxDone[o] ~> \A n \in Names : paths[n] # o

\* When the writer of a muxer fails its publisher is disconnected, which makes
\* the input process restart.
FailedMuxerDisconnects ==
    \A o \in Objects, s \in Sessions :
        mux[o].inner = "failed" /\ source[o] = s ~> sess[s].at = "gone"

\* A muxer that waits for its playlist is answered again and again: the clients'
\* blocking requests do not outlive the stream.
RequestsAnswered == \A o \in Objects : []<>(mux[o].at # "handle")

\* A canceled path is removed when blocking requests are answered: nothing else
\* can keep it, neither the order of the mutexes nor the HLS server's channels.
PathRemovedIfAnswered == RequestsAnswered => PathRemoved

\* Then the publisher of a muxer that failed is disconnected as well, although the
\* muxer's goroutine hears of the failure only between two requests.
FailedMuxerDisconnectsIfAnswered == RequestsAnswered => FailedMuxerDisconnects

\* The goroutines of the program, all waiting
AtRest ==
    ~ENABLED (\/ \E o \in Objects : RemoveLock(o) \/ MuxStep(o)
              \/ \E o \in Objects, c \in Closers : CloseStep(o, c)
              \/ \E s \in Sessions : SessionStep(s)
              \/ \E r \in Requests : RequestStep(r)
              \/ ServerStep)

\* When the program is shut down nothing waits for something that does not come:
\* its goroutines go on until requests are answered, paths are closed, sessions
\* that were told to end have ended, muxers are done and no mutex is held, held
\* requests or not.  The goroutine of the HLS server ends, too, unless a monitor
\* was started again meanwhile and published while the muxer of its earlier path
\* was still in the map.
ShutdownCompletes ==
    serverDone /\ AtRest =>
        /\ server.at \in {"ended", "stuck"}
        /\ ~pmMu /\ ~rtspMu
        /\ \A o \in Objects : /\ mux[o].at \in {"none", "done"} /\ ~mu[o]
                               /\ \A c \in Closers : closing[o][c] \in {"no", "done"}
        /\ \A s \in Sessions : sess[s].at \in {"none", "idle", "gone"}
        /\ \A r \in Requests : req[r].at \in {"idle", "done"}
=============================================================================
