-------------------------- MODULE VideoServerProofs -------------------------
(***************************************************************************)
(* Paths, RTSP sessions and HLS muxers agree for every number of names,    *)
(* sessions, requests and path objects.  The invariant has a part for each *)
(* of the places that know of a path: the map of the path manager, the     *)
(* path's own mutex, its sessions, and the map and the goroutines of the   *)
(* HLS server.                                                             *)
(***************************************************************************)
EXTENDS VideoServer, TLAPS

\* A path object is in the map of the path manager from AddPath until the close of
\* AddPath's goroutine is done, whoever closed the path before; CancelPath's owner
\* has an object that this goroutine has not begun to close.
Registered ==
    /\ \A o \in Objects :
         /\ pathName[o] # None <=> o <= created
         /\ canceled[o] => pathName[o] # None
    /\ \A o \in Objects, c \in Closers :
         /\ closing[o][c] # "no" => pathName[o] # None
         /\ closing[o][c] = "done" => canceled[o]
    /\ \A n \in Names : paths[n] # None =>
         pathName[paths[n]] = n /\ closing[paths[n]]["AddPath"] # "done"
    /\ \A o \in Objects : pathName[o] # None /\ closing[o]["AddPath"] # "done" => paths[pathName[o]] = o
    /\ \A n \in Names : owner[n] # None =>
         /\ pathName[owner[n]] = n
         /\ closing[owner[n]]["AddPath"] = "no" /\ closing[owner[n]]["newPath"] = "no"

\* Who waits for the HLS server holds the mutex of the path: one closer that takes
\* leave of a ready path, or the publisher of one that is about to be ready.
Exclusive ==
    /\ \A o \in Objects, c \in Closers : closing[o][c] = "notReady" =>
         /\ mu[o] /\ sourceReady[o]
         /\ \A d \in Closers : closing[o][d] = "notReady" => d = c
    /\ \A s \in Sessions : sess[s].at = "ready" =>
         /\ sess[s].state = "preRecord" /\ mu[sess[s].path]
         /\ ~canceled[sess[s].path] /\ ~sourceReady[sess[s].path]

\* What the path and the muxer know of a session that has a path: the publisher is
\* the source for good, and one that still runs is known to the open path.
AttachedTo(s) ==
    /\ sess[s].path # None => pathName[sess[s].path] # None
    /\ sess[s].at \in {"announce", "setup"} => sess[s].want # None /\ pathName[sess[s].want] # None
    /\ sess[s].at \in {"none", "open"} => sess[s].path = None
    /\ sess[s].at = "announce" => sess[s].state = "initial"
    /\ sess[s].at = "setup" => sess[s].state \in {"initial", "prePlay"}
    /\ sess[s].at = "remove" => sess[s].state \in {"prePlay", "play"}
    /\ sess[s].state \in {"preRecord", "record"} => sess[s].path # None /\ source[sess[s].path] = s
    /\ sess[s].state = "preRecord" => mux[sess[s].path].at = "none"
    /\ sess[s].path # None /\ sess[s].at \in {"idle", "announce", "setup", "ready"}
         /\ ~canceled[sess[s].path] => source[sess[s].path] = s \/ s \in readers[sess[s].path]

\* Every session
Attached == \A s \in Sessions : AttachedTo(s)

\* A session whose path is closed is told.
Follows(s) ==
    /\ sess[s].path # None
    /\ sess[s].at \in {"idle", "announce", "setup", "ready"}
    /\ canceled[sess[s].path]
    => sess[s].ctxDone

\* A muxer belongs to a published path, a ready path has one, its cleanup closes the
\* path from one place only, and the HLS server has muxers of ready paths only.
Muxed ==
    /\ \A o \in Objects :
         /\ mux[o].at # "none" => source[o] # None /\ pathName[o] # None
         /\ sourceReady[o] => ~canceled[o] /\ mux[o].at # "none"
         /\ closing[o]["muxer"] \in {"lock", "notReady"} => mux[o].at = "pathClose"
    /\ \A n \in Names : muxers[n] # None =>
         /\ pathName[muxers[n]] = n
         /\ ~serverDone => sourceReady[muxers[n]] /\ mux[muxers[n]].at \in {"select", "handle", "muxerClose"}

\* A closed path has no readers.
Closed == \A o \in Objects : canceled[o] => readers[o] = {}

\* The inductive invariant.  SessionsFollowPath and NoSecondMuxer are parts of it;
\* the other parts of PathsAgree follow from it.
VInv ==
    /\ TypeOK
    /\ Registered
    /\ Exclusive
    /\ Attached
    /\ Muxed
    /\ Closed
    /\ SessionsFollowPath
    /\ NoSecondMuxer

\* None is no object, no name and no session.
LEMMA Distinct == None \notin Objects /\ None \notin Names /\ None \notin Sessions
BY Zenon, VideoServerAssumption

\* The server starts with no paths, sessions or muxers.
LEMMA InitKeeps == Init => VInv
<1> SUFFICES ASSUME Init PROVE VInv
  OBVIOUS
<1>1. TypeOK
  <2>1. /\ created \in 0..MaxObjects
        /\ [at |-> "none", state |-> "initial", path |-> None, want |-> None,
            setups |-> 0, ctxDone |-> FALSE] \in SessionRecord
        /\ [at |-> "none", ctxDone |-> FALSE, req |-> None, inner |-> "none"] \in MuxRecord
        /\ [at |-> "idle", kind |-> "file", name |-> None] \in RequestRecord
    BY VideoServerAssumption DEF Init, SessionRecord, MuxRecord, RequestRecord, Optional
  <2>2. server \in ServerRecord
    BY Zenon DEF Init, ServerRecord
  <2> QED
    BY Zenon, <2>1, <2>2 DEF Init, TypeOK, Optional
<1>2. \A o \in Objects : ~(o <= created)
  BY VideoServerAssumption DEF Init, Objects
<1>3. Registered
  BY Zenon, <1>2, Distinct DEF Init, Registered
<1>4. Exclusive
  BY Zenon, Distinct DEF Init, Exclusive
<1>5. Attached /\ SessionsFollowPath
  BY Zenon, Distinct DEF Init, Attached, AttachedTo, SessionsFollowPath
<1>6. Muxed /\ Closed /\ NoSecondMuxer
  BY Zenon, Distinct DEF Init, Muxed, Closed, NoSecondMuxer, Closers
<1> QED
  BY Zenon, <1>1, <1>3, <1>4, <1>5, <1>6 DEF VInv

\* The invariant is what the theorem says, and more.
LEMMA VInvAgree == VInv => PathsAgree
<1> SUFFICES ASSUME VInv PROVE PathsAgree
  OBVIOUS
<1>1. CanceledIsInert
  BY Distinct DEF VInv, TypeOK, Registered, Muxed, Closed, CanceledIsInert, Optional
<1>2. ServedIsCurrent
  BY Distinct DEF VInv, TypeOK, Muxed, Registered, ServedIsCurrent, Optional, Closers
<1> QED BY Zenon, <1>1, <1>2 DEF VInv, PathsAgree

\* A step of one session
SessionEffect(s) ==
    /\ sess' \in [Sessions -> SessionRecord]
    /\ \A t \in Sessions : t # s => sess'[t] = sess[t]

\* What the invariant says of one session
LEMMA OneSession ==
    ASSUME VInv, NEW s \in Sessions
    PROVE  /\ sess[s] \in SessionRecord
           /\ sess[s].path # None => sess[s].path \in Objects
           /\ sess[s].want # None => sess[s].want \in Objects
           /\ AttachedTo(s) /\ Follows(s)
<1>1. sess[s] \in SessionRecord
  BY Zenon DEF VInv, TypeOK
<1>2. sess[s].path \in Optional(Objects) /\ sess[s].want \in Optional(Objects)
  BY Zenon, <1>1 DEF SessionRecord
<1>3. AttachedTo(s)
  BY Zenon DEF VInv, Attached
<1>4. Follows(s)
  BY Zenon DEF VInv, SessionsFollowPath, Follows
<1> QED
  BY Zenon, <1>1, <1>2, <1>3, <1>4 DEF Optional

\* A session that is being made ready owns the path, which is neither closed nor
\* ready.
LEMMA ReadyPath ==
    ASSUME VInv, NEW s \in Sessions, sess[s].at = "ready"
    PROVE  /\ sess[s].path \in Objects /\ pathName[sess[s].path] \in Names
           /\ source[sess[s].path] = s /\ mux[sess[s].path].at = "none"
           /\ sess[s].state = "preRecord" /\ mu[sess[s].path]
           /\ ~canceled[sess[s].path] /\ ~sourceReady[sess[s].path]
<1>1. /\ sess[s].state = "preRecord" /\ mu[sess[s].path]
      /\ ~canceled[sess[s].path] /\ ~sourceReady[sess[s].path]
  BY Zenon DEF VInv, Exclusive
<1>2. sess[s].path # None /\ source[sess[s].path] = s /\ mux[sess[s].path].at = "none"
      /\ pathName[sess[s].path] # None
  BY Zenon, <1>1, OneSession DEF AttachedTo
<1>3. sess[s].path \in Objects
  BY Zenon, <1>2, OneSession
<1>4. pathName[sess[s].path] \in Names
  BY Zenon, <1>2, <1>3 DEF VInv, TypeOK, Optional
<1> QED
  BY Zenon, <1>1, <1>2, <1>3, <1>4

\* The maps by name hold path objects.
LEMMA NamedObjects ==
    ASSUME VInv
    PROVE  \A n \in Names : /\ paths[n] # None => paths[n] \in Objects
                            /\ owner[n] # None => owner[n] \in Objects
                            /\ muxers[n] # None => muxers[n] \in Objects
BY Zenon DEF VInv, TypeOK, Optional

\* Steps that leave the maps of the path manager and the closers alone
LEMMA RegisteredStays ==
    ASSUME Registered, UNCHANGED <<paths, owner, created, pathName, canceled, closing>>
    PROVE  Registered'
BY ZenonT(30) DEF Registered

\* Steps that leave the paths and the muxers alone
LEMMA MuxedStays ==
    ASSUME Muxed, UNCHANGED <<source, pathName, sourceReady, canceled, closing, mux, muxers, serverDone>>
    PROVE  Muxed'
BY Zenon DEF Muxed

\* A closer that goes on, without a part in what becomes of the muxers
LEMMA MuxedMoves ==
    ASSUME Muxed, UNCHANGED <<source, pathName, sourceReady, canceled, mux, muxers, serverDone>>,
           \A o \in Objects : closing'[o]["muxer"] \in {"lock", "notReady"}
                                => closing[o]["muxer"] \in {"lock", "notReady"}
    PROVE  Muxed'
BY Zenon DEF Muxed

\* A closer that goes on, without taking a mutex
LEMMA ExclusiveMoves ==
    ASSUME Exclusive, UNCHANGED <<mu, sourceReady, canceled, sess>>,
           \A o \in Objects, c \in Closers : closing'[o][c] = "notReady" => closing[o][c] = "notReady"
    PROVE  Exclusive'
BY DEF Exclusive

\* A step that no session takes and no path changes in
LEMMA SessionsStay ==
    ASSUME VInv, UNCHANGED <<sess, source, readers, canceled, pathName>>,
           \A o \in Objects : mux[o].at = "none" => mux'[o].at = "none"
    PROVE  Attached' /\ SessionsFollowPath'
<1>1. ASSUME NEW s \in Sessions PROVE AttachedTo(s)'
  <2>1. AttachedTo(s) /\ (sess[s].path # None => sess[s].path \in Objects)
    BY Zenon, OneSession
  <2> QED
    BY Zenon, <2>1 DEF AttachedTo
<1>2. SessionsFollowPath'
  BY Zenon DEF VInv, SessionsFollowPath
<1> QED
  BY Zenon, <1>1, <1>2 DEF Attached

\* A step of one session, seen from the others
LEMMA OthersExclusive ==
    ASSUME VInv, NEW s \in Sessions, SessionEffect(s), UNCHANGED <<mu, sourceReady, canceled, closing>>,
           sess'[s].at # "ready"
    PROVE  Exclusive'
BY DEF VInv, SessionEffect, Exclusive

\* The same, for what the other sessions and their paths know of each other
LEMMA OthersAttached ==
    ASSUME VInv, NEW s \in Sessions, SessionEffect(s), UNCHANGED <<pathName, canceled>>,
           \A p \in Objects, t \in Sessions : t # s =>
              (source[p] = t => source'[p] = t) /\ (t \in readers[p] => t \in readers'[p]),
           \A t \in Sessions : t # s /\ sess[t].state = "preRecord" => mux'[sess[t].path] = mux[sess[t].path],
           AttachedTo(s)', Follows(s)'
    PROVE  Attached' /\ SessionsFollowPath'
<1>1. ASSUME NEW t \in Sessions, t # s PROVE AttachedTo(t)'
  <2>1. sess'[t] = sess[t]
    BY Zenon, <1>1 DEF SessionEffect
  <2>2. AttachedTo(t) /\ (sess[t].path # None => sess[t].path \in Objects)
    BY Zenon, OneSession
  <2> QED
    BY <1>1, <2>1, <2>2 DEF AttachedTo
<1>2. ASSUME NEW t \in Sessions, t # s PROVE Follows(t)'
  BY Zenon, <1>2 DEF VInv, SessionsFollowPath, Follows, SessionEffect
<1>3. \A t \in Sessions : AttachedTo(t)' /\ Follows(t)'
  BY Zenon, <1>1, <1>2
<1> QED
  BY Zenon, <1>3 DEF Attached, SessionsFollowPath, Follows

\* Closers that go on, without being done
LEMMA RegisteredMoves ==
    ASSUME VInv, UNCHANGED <<paths, created, pathName, canceled>>,
           \A p \in Objects, c \in Closers : closing'[p][c] # closing[p][c] =>
              pathName[p] # None /\ closing'[p][c] # "done",
           \A p \in Objects : closing'[p]["AddPath"] = "done" <=> closing[p]["AddPath"] = "done",
           \A n \in Names : owner'[n] # None =>
              /\ owner'[n] = owner[n]
              /\ closing'[owner[n]]["AddPath"] = "no" /\ closing'[owner[n]]["newPath"] = "no"
    PROVE  Registered'
<1>1. \A p \in Objects, c \in Closers :
         (closing'[p][c] # "no" => pathName[p] # None) /\ (closing'[p][c] = "done" => canceled[p])
  BY DEF VInv, Registered
<1>2. \A n \in Names : paths[n] # None => pathName[paths[n]] = n /\ closing[paths[n]]["AddPath"] # "done"
  BY Zenon DEF VInv, Registered
<1>3. \A n \in Names : paths[n] # None => pathName[paths[n]] = n /\ closing'[paths[n]]["AddPath"] # "done"
  <2>1. ASSUME NEW n \in Names, paths[n] # None
        PROVE  pathName[paths[n]] = n /\ closing'[paths[n]]["AddPath"] # "done"
    <3>1. paths[n] \in Objects
      BY Zenon, <2>1, NamedObjects
    <3> QED
      BY Zenon, <1>2, <2>1, <3>1
  <2> QED
    BY Zenon, <2>1
<1>4. \A p \in Objects : pathName[p] # None /\ closing'[p]["AddPath"] # "done" => paths[pathName[p]] = p
  BY ZenonT(30) DEF VInv, Registered
<1>5. \A n \in Names : owner[n] # None => pathName[owner[n]] = n
  BY Zenon DEF VInv, Registered
<1>6. \A p \in Objects : (pathName[p] # None <=> p <= created) /\ (canceled[p] => pathName[p] # None)
  BY Zenon DEF VInv, Registered
<1> QED
  BY <1>1, <1>3, <1>4, <1>5, <1>6 DEF Registered

\* A session goes on or ends, with nothing but its place changed.
LEMMA SessionMoves ==
    ASSUME VInv, NEW s \in Sessions, NEW a \in {"open", "idle", "end"},
           sess[s].at \in {"none", "open", "idle"}, a = "open" => sess[s].at = "none",
           sess' = [sess EXCEPT ![s].at = a],
           UNCHANGED <<managerVars, pathVars, serverVars, mux, req, closing>>, rtspMu' \in BOOLEAN
    PROVE  VInv'
<1>1. SessionEffect(s) /\ sess'[s].at = a /\ sess'[s].path = sess[s].path
      /\ sess'[s].want = sess[s].want /\ sess'[s].state = sess[s].state /\ sess'[s].ctxDone = sess[s].ctxDone
  <2>1. sess[s] \in SessionRecord /\ sess'[s] = [sess[s] EXCEPT !.at = a]
    BY Zenon DEF VInv, TypeOK
  <2>2. [sess[s] EXCEPT !.at = a] \in SessionRecord
    BY Zenon, <2>1 DEF SessionRecord
  <2>3. SessionEffect(s)
    BY Zenon, <2>1, <2>2 DEF VInv, TypeOK, SessionEffect
  <2> QED
    BY <2>1, <2>3 DEF SessionRecord
<1>2. TypeOK'
  BY Zenon, <1>1 DEF VInv, TypeOK, managerVars, pathVars, serverVars, SessionEffect
<1>3. Registered' /\ Muxed' /\ Closed' /\ NoSecondMuxer'
  BY Zenon, RegisteredStays, MuxedStays DEF VInv, managerVars, pathVars, serverVars, Closed, NoSecondMuxer
<1>4. Exclusive'
  BY Zenon, <1>1, OthersExclusive DEF pathVars
<1>5. Attached' /\ SessionsFollowPath'
  <2>1. AttachedTo(s) /\ Follows(s)
    BY Zenon DEF VInv, Attached, SessionsFollowPath, Follows
  <2>2. AttachedTo(s)' /\ Follows(s)'
    BY Zenon, <1>1, <2>1 DEF AttachedTo, Follows, pathVars
  <2> QED
    BY Zenon, <1>1, <2>2, OthersAttached DEF pathVars
<1> QED BY Zenon, <1>2, <1>3, <1>4, <1>5 DEF VInv

\* The manager's publisherAdd and readerAdd find the path of the name.
LEMMA CallKeeps ==
    ASSUME VInv, NEW s \in Sessions, NEW n \in Names, Announce(s, n) \/ Setup(s, n)
    PROVE  VInv'
<1>1. PICK call \in {"announce", "setup"} :
        /\ call = "announce" => sess[s].state = "initial"
        /\ call = "setup" => sess[s].state \in {"initial", "prePlay"}
        /\ CallThroughManager(s, n, call)
  BY Zenon DEF Announce, Setup
<1>2. /\ SessionEffect(s) /\ sess[s].at = "idle" /\ sess'[s].at = call /\ sess'[s].path = sess[s].path
      /\ sess'[s].want = paths[n] /\ sess'[s].state = sess[s].state /\ sess'[s].ctxDone = sess[s].ctxDone
  <2>1. sess[s] \in SessionRecord /\ sess'[s] = [sess[s] EXCEPT !.at = call, !.want = paths[n]]
    BY Zenon, <1>1 DEF VInv, TypeOK, CallThroughManager
  <2>2. [sess[s] EXCEPT !.at = call, !.want = paths[n]] \in SessionRecord
    <3>1. paths[n] \in Optional(Objects)
      BY Zenon DEF VInv, TypeOK
    <3> QED
      BY Zenon, <2>1, <3>1 DEF SessionRecord
  <2>3. SessionEffect(s)
    BY Zenon, <1>1, <2>1, <2>2 DEF VInv, TypeOK, SessionEffect, CallThroughManager
  <2> QED
    <3>1. sess[s].at = "idle"
      BY Zenon, <1>1 DEF CallThroughManager, CanCall
    <3> QED
      BY Zenon, <2>1, <2>3, <3>1 DEF SessionRecord
<1>3. /\ paths[n] # None /\ pathName[paths[n]] = n /\ pmMu' = TRUE
      /\ UNCHANGED <<paths, owner, created, pathVars, rtspMu, serverVars, mux, req, closing>>
  BY Zenon, <1>1 DEF CallThroughManager, VInv, Registered
<1>4. TypeOK'
  BY Zenon, <1>2, <1>3 DEF VInv, TypeOK, pathVars, serverVars, SessionEffect
<1>5. Registered' /\ Muxed' /\ Closed' /\ NoSecondMuxer'
  BY Zenon, <1>3, RegisteredStays, MuxedStays DEF VInv, pathVars, serverVars, Closed, NoSecondMuxer
<1>6. Exclusive'
  BY Zenon, <1>2, <1>3, OthersExclusive DEF pathVars
<1>7. Attached' /\ SessionsFollowPath'
  <2>1. AttachedTo(s) /\ Follows(s) /\ n # None
    BY Zenon, Distinct DEF VInv, Attached, SessionsFollowPath, Follows
  <2>2. AttachedTo(s)' /\ Follows(s)'
    BY ZenonT(30), <1>1, <1>2, <1>3, <2>1 DEF AttachedTo, Follows, pathVars
  <2> QED
    BY Zenon, <1>2, <1>3, <2>2, OthersAttached DEF pathVars
<1> QED BY Zenon, <1>4, <1>5, <1>6, <1>7 DEF VInv

\* A publisher becomes the source of an open path that has none.
LEMMA PublisherAddKeeps ==
    ASSUME VInv, NEW s \in Sessions, PublisherAdd(s)
    PROVE  VInv'
<1> DEFINE o == sess[s].want
<1>1. /\ o \in Objects /\ pathName[o] # None /\ sess[s].at = "announce" /\ sess[s].state = "initial"
      /\ sess[s] \in SessionRecord /\ pmMu' = FALSE
      /\ UNCHANGED <<paths, owner, created, pathName, ctxDone, mu, sourceReady, readers, canceled,
                     rtspMu, serverVars, mux, req, closing>>
  <2>1. sess[s].at = "announce"
    BY Zenon DEF PublisherAdd
  <2>2. o # None /\ pathName[o] # None /\ sess[s].state = "initial"
    BY Zenon, <2>1, OneSession DEF AttachedTo
  <2>3. o \in Objects /\ sess[s] \in SessionRecord
    BY Zenon, <2>2, OneSession
  <2> QED
    BY Zenon, <2>1, <2>2, <2>3 DEF PublisherAdd
<1>2. CASE canceled[o] \/ source[o] # None
  <2>1. source' = source /\ sess'[s] = [sess[s] EXCEPT !.at = "end", !.want = None]
        /\ sess' = [sess EXCEPT ![s] = [sess[s] EXCEPT !.at = "end", !.want = None]]
    BY Zenon, <1>1, <1>2 DEF PublisherAdd, VInv, TypeOK
  <2>2. [sess[s] EXCEPT !.at = "end", !.want = None] \in SessionRecord
    BY Zenon, <1>1 DEF SessionRecord, Optional
  <2>3. /\ SessionEffect(s) /\ sess'[s].at = "end" /\ sess'[s].path = sess[s].path
        /\ sess'[s].state = sess[s].state /\ sess'[s].ctxDone = sess[s].ctxDone
    BY ZenonT(30), <1>1, <2>1, <2>2 DEF SessionEffect, SessionRecord, VInv, TypeOK
  <2>4. TypeOK'
    BY Zenon, <1>1, <2>1, <2>3 DEF VInv, TypeOK, serverVars, SessionEffect
  <2>5. Registered' /\ Muxed' /\ Closed' /\ NoSecondMuxer'
    BY Zenon, <1>1, <2>1, RegisteredStays, MuxedStays DEF VInv, serverVars, Closed, NoSecondMuxer
  <2>6. Exclusive'
    BY Zenon, <1>1, <2>3, OthersExclusive
  <2>7. Attached' /\ SessionsFollowPath'
    <3>1. AttachedTo(s)
      BY Zenon DEF VInv, Attached
    <3>2. AttachedTo(s)' /\ Follows(s)'
      BY Zenon, <1>1, <2>1, <2>3, <3>1 DEF AttachedTo, Follows
    <3> QED
      BY Zenon, <1>1, <2>1, <2>3, <3>2, OthersAttached
  <2> QED BY Zenon, <2>4, <2>5, <2>6, <2>7 DEF VInv
<1>3. CASE ~canceled[o] /\ source[o] = None
  <2> DEFINE new == [sess[s] EXCEPT !.at = "idle", !.want = None, !.path = o, !.state = "preRecord"]
  <2>1. source' = [source EXCEPT ![o] = s] /\ sess' = [sess EXCEPT ![s] = new] /\ sess'[s] = new
    BY ZenonT(30), <1>1, <1>3 DEF PublisherAdd, VInv, TypeOK
  <2>2. new \in SessionRecord
    BY Zenon, <1>1 DEF SessionRecord, Optional
  <2>3. /\ SessionEffect(s) /\ sess'[s].at = "idle" /\ sess'[s].path = o
        /\ sess'[s].state = "preRecord" /\ sess'[s].ctxDone = sess[s].ctxDone
    BY ZenonT(30), <1>1, <2>1, <2>2 DEF SessionEffect, SessionRecord, VInv, TypeOK
  <2> HIDE DEF o
  <2>4. TypeOK'
    BY Zenon, <1>1, <2>1, <2>3 DEF VInv, TypeOK, serverVars, SessionEffect, Optional
  <2>5. Registered' /\ Closed' /\ NoSecondMuxer'
    BY Zenon, <1>1, RegisteredStays DEF VInv, serverVars, Closed, NoSecondMuxer
  <2>6. Muxed'
    BY <1>1, <2>1, Distinct DEF VInv, TypeOK, serverVars, Muxed
  <2>7. Exclusive'
    BY Zenon, <1>1, <2>3, OthersExclusive
  <2>8. mux[o].at = "none" /\ \A t \in Sessions : source[o] # t
    BY ZenonT(30), <1>1, <1>3, Distinct DEF VInv, Muxed
  <2>9. Attached' /\ SessionsFollowPath'
    <3>1. \A p \in Objects : source'[p] = IF p = o THEN s ELSE source[p]
      BY Zenon, <2>1 DEF VInv, TypeOK
    <3>2. AttachedTo(s)' /\ Follows(s)'
      BY Zenon, <1>1, <1>3, <2>3, <2>8, <3>1, Distinct DEF AttachedTo, Follows
    <3> QED
      BY Zenon, <1>1, <2>3, <2>8, <3>1, <3>2, OthersAttached
  <2> QED BY Zenon, <2>4, <2>5, <2>6, <2>7, <2>9 DEF VInv
<1> QED BY Zenon, <1>2, <1>3

\* A reader is added before its track is looked up.
LEMMA ReaderAddKeeps ==
    ASSUME VInv, NEW s \in Sessions, NEW trackExists \in BOOLEAN, ReaderAdd(s, trackExists)
    PROVE  VInv'
<1> DEFINE o == sess[s].want
<1>1. /\ o \in Objects /\ pathName[o] # None /\ sess[s].at = "setup"
      /\ sess[s].state \in {"initial", "prePlay"}
      /\ sess[s] \in SessionRecord /\ pmMu' = FALSE
      /\ UNCHANGED <<paths, owner, created, pathName, ctxDone, mu, source, sourceReady, canceled,
                     rtspMu, serverVars, mux, req, closing>>
  <2>1. sess[s].at = "setup"
    BY Zenon DEF ReaderAdd
  <2>2. o # None /\ pathName[o] # None /\ sess[s].state \in {"initial", "prePlay"}
    BY Zenon, <2>1, OneSession DEF AttachedTo
  <2>3. o \in Objects /\ sess[s] \in SessionRecord
    BY Zenon, <2>2, OneSession
  <2> QED
    BY Zenon, <2>1, <2>2, <2>3 DEF ReaderAdd
<1>2. CASE canceled[o] \/ ~sourceReady[o]
  <2>1. readers' = readers /\ sess'[s] = [sess[s] EXCEPT !.at = "end", !.want = None]
        /\ sess' = [sess EXCEPT ![s] = [sess[s] EXCEPT !.at = "end", !.want = None]]
    BY Zenon, <1>1, <1>2 DEF ReaderAdd, VInv, TypeOK
  <2>2. [sess[s] EXCEPT !.at = "end", !.want = None] \in SessionRecord
    BY Zenon, <1>1 DEF SessionRecord, Optional
  <2>3. /\ SessionEffect(s) /\ sess'[s].at = "end" /\ sess'[s].path = sess[s].path
        /\ sess'[s].state = sess[s].state /\ sess'[s].ctxDone = sess[s].ctxDone
    BY ZenonT(30), <1>1, <2>1, <2>2 DEF SessionEffect, SessionRecord, VInv, TypeOK
  <2>4. TypeOK'
    BY Zenon, <1>1, <2>1, <2>3 DEF VInv, TypeOK, serverVars, SessionEffect
  <2>5. Registered' /\ Muxed' /\ Closed' /\ NoSecondMuxer'
    BY Zenon, <1>1, <2>1, RegisteredStays, MuxedStays DEF VInv, serverVars, Closed, NoSecondMuxer
  <2>6. Exclusive'
    BY Zenon, <1>1, <2>3, OthersExclusive
  <2>7. Attached' /\ SessionsFollowPath'
    <3>1. AttachedTo(s)
      BY Zenon DEF VInv, Attached
    <3>2. AttachedTo(s)' /\ Follows(s)'
      BY ZenonT(30), <1>1, <2>1, <2>3, <3>1 DEF AttachedTo, Follows
    <3> QED
      BY Zenon, <1>1, <2>1, <2>3, <3>2, OthersAttached
  <2> QED BY Zenon, <2>4, <2>5, <2>6, <2>7 DEF VInv
<1>3. CASE ~canceled[o] /\ sourceReady[o]
  <2> DEFINE at == IF trackExists THEN "idle" ELSE "end"
             state == IF trackExists THEN "prePlay" ELSE sess[s].state
             new == [sess[s] EXCEPT !.at = at, !.want = None, !.path = o, !.setups = @ + 1, !.state = state]
  <2>1. readers' = [readers EXCEPT ![o] = @ \cup {s}] /\ sess' = [sess EXCEPT ![s] = new] /\ sess'[s] = new
    <3>1. readers' = [readers EXCEPT ![o] = @ \cup {s}] /\ sess' = [sess EXCEPT ![s] = new]
      BY Zenon, <1>3 DEF ReaderAdd
    <3> HIDE DEF new
    <3> QED
      BY Zenon, <3>1 DEF VInv, TypeOK
  <2>2. at \in {"idle", "end"} /\ state \in {"initial", "prePlay"}
    BY Zenon, <1>1
  <2> HIDE DEF at, state
  <2>3. new \in SessionRecord
    <3>1. sess[s].setups + 1 \in Nat /\ o \in Optional(Objects) /\ None \in Optional(Objects)
      BY <1>1 DEF SessionRecord, Optional
    <3> HIDE DEF o
    <3> QED
      BY Zenon, <1>1, <2>2, <3>1 DEF SessionRecord
  <2>4. /\ SessionEffect(s) /\ sess'[s].at \in {"idle", "end"} /\ sess'[s].path = o
        /\ sess'[s].state \in {"initial", "prePlay"} /\ sess'[s].ctxDone = sess[s].ctxDone
    BY ZenonT(30), <1>1, <2>1, <2>2, <2>3 DEF SessionEffect, SessionRecord, VInv, TypeOK
  <2> HIDE DEF o
  <2>5. TypeOK'
    BY Zenon, <1>1, <2>1, <2>4 DEF VInv, TypeOK, serverVars, SessionEffect
  <2>6. Registered' /\ Muxed' /\ NoSecondMuxer'
    BY Zenon, <1>1, RegisteredStays, MuxedStays DEF VInv, serverVars, NoSecondMuxer
  <2>7. Closed'
    BY ZenonT(30), <1>1, <1>3, <2>1 DEF VInv, TypeOK, Closed
  <2>8. Exclusive'
    BY Zenon, <1>1, <2>4, OthersExclusive
  <2>9. Attached' /\ SessionsFollowPath'
    <3>1. \A p \in Objects : readers'[p] = IF p = o THEN readers[p] \cup {s} ELSE readers[p]
      BY Zenon, <2>1 DEF VInv, TypeOK
    <3>2. AttachedTo(s)' /\ Follows(s)'
      BY ZenonT(30), <1>1, <1>3, <2>4, <3>1, Distinct DEF AttachedTo, Follows
    <3> QED
      BY Zenon, <1>1, <2>4, <3>1, <3>2, OthersAttached
  <2> QED BY Zenon, <2>5, <2>6, <2>7, <2>8, <2>9 DEF VInv
<1> QED BY Zenon, <1>2, <1>3

\* A reader starts or leaves, a publisher waits for the HLS server: the readers of
\* a path that is closed stay as they are.
LEMMA PlayKeeps ==
    ASSUME VInv, NEW s \in Sessions, Play(s)
    PROVE  VInv'
<1> DEFINE o == sess[s].path
<1>1. /\ sess[s].at = "idle" /\ sess[s].state = "prePlay" /\ sess[s] \in SessionRecord
      /\ readers' = IF canceled[o] THEN readers ELSE [readers EXCEPT ![o] = @ \cup {s}]
      /\ UNCHANGED <<managerVars, pathName, ctxDone, mu, source, sourceReady, canceled,
                     rtspMu, serverVars, mux, req, closing>>
      /\ sess'[s] = [sess[s] EXCEPT !.state = "play"] /\ sess' = [sess EXCEPT ![s] = [sess[s] EXCEPT !.state = "play"]]
  BY Zenon DEF VInv, TypeOK, Play, CanCall
<1>2. [sess[s] EXCEPT !.state = "play"] \in SessionRecord
  BY Zenon, <1>1 DEF SessionRecord
<1>3. /\ SessionEffect(s) /\ sess'[s].at = "idle" /\ sess'[s].path = sess[s].path
      /\ sess'[s].state = "play" /\ sess'[s].ctxDone = sess[s].ctxDone
  BY ZenonT(30), <1>1, <1>2 DEF SessionEffect, SessionRecord, VInv, TypeOK
<1>4. readers' \in [Objects -> SUBSET Sessions] /\ \A p \in Objects : canceled[p] => readers'[p] = readers[p]
  BY ZenonT(30), <1>1 DEF VInv, TypeOK
<1>5. \A p \in Objects : readers[p] \subseteq readers'[p]
  BY Zenon, <1>1 DEF VInv, TypeOK
<1>6. TypeOK'
  BY Zenon, <1>1, <1>3, <1>4 DEF VInv, TypeOK, managerVars, serverVars, SessionEffect
<1>7. Registered' /\ Muxed' /\ NoSecondMuxer'
  BY Zenon, <1>1, RegisteredStays, MuxedStays DEF VInv, managerVars, serverVars, NoSecondMuxer
<1>8. Closed'
  BY Zenon, <1>1, <1>4 DEF VInv, Closed
<1>9. Exclusive'
  BY Zenon, <1>1, <1>3, OthersExclusive
<1>10. Attached' /\ SessionsFollowPath'
  <2>1. AttachedTo(s) /\ Follows(s) /\ (sess[s].path # None => sess[s].path \in Objects)
    BY Zenon, OneSession
  <2>2. AttachedTo(s)' /\ Follows(s)'
    BY ZenonT(30), <1>1, <1>3, <1>5, <2>1 DEF AttachedTo, Follows
  <2> QED
    BY Zenon, <1>1, <1>3, <1>5, <2>2, OthersAttached
<1> QED BY Zenon, <1>6, <1>7, <1>8, <1>9, <1>10 DEF VInv

\* A reader that ends leaves its path.
LEMMA ReaderRemoveKeeps ==
    ASSUME VInv, NEW s \in Sessions, ReaderRemove(s)
    PROVE  VInv'
<1> DEFINE o == sess[s].path
           new == [sess[s] EXCEPT !.at = "gone", !.path = None]
<1>1. /\ sess[s].at = "remove" /\ sess[s].state \in {"prePlay", "play"} /\ sess[s] \in SessionRecord
      /\ readers' = IF canceled[o] THEN readers ELSE [readers EXCEPT ![o] = @ \ {s}]
      /\ UNCHANGED <<managerVars, pathName, ctxDone, mu, source, sourceReady, canceled,
                     rtspMu, serverVars, mux, req, closing>>
      /\ sess'[s] = new /\ sess' = [sess EXCEPT ![s] = new]
  <2>1. sess[s].at = "remove"
    BY Zenon DEF ReaderRemove
  <2>2. sess[s] \in SessionRecord /\ sess[s].state \in {"prePlay", "play"}
    BY Zenon, <2>1, OneSession DEF AttachedTo
  <2> QED
    BY Zenon, <2>1, <2>2 DEF VInv, TypeOK, ReaderRemove
<1>2. new \in SessionRecord
  BY Zenon, <1>1 DEF SessionRecord, Optional
<1>3. /\ SessionEffect(s) /\ sess'[s].at = "gone" /\ sess'[s].path = None
      /\ sess'[s].state = sess[s].state /\ sess'[s].ctxDone = sess[s].ctxDone
  BY ZenonT(30), <1>1, <1>2 DEF SessionEffect, SessionRecord, VInv, TypeOK
<1>4. /\ readers' \in [Objects -> SUBSET Sessions]
      /\ \A p \in Objects : readers'[p] \subseteq readers[p] /\ readers[p] \subseteq readers'[p] \cup {s}
  BY ZenonT(30), <1>1 DEF VInv, TypeOK
<1>6. TypeOK'
  BY Zenon, <1>1, <1>3, <1>4 DEF VInv, TypeOK, managerVars, serverVars, SessionEffect
<1>7. Registered' /\ Muxed' /\ NoSecondMuxer'
  BY Zenon, <1>1, RegisteredStays, MuxedStays DEF VInv, managerVars, serverVars, NoSecondMuxer
<1>8. Closed'
  BY Zenon, <1>1, <1>4 DEF VInv, Closed
<1>9. Exclusive'
  BY Zenon, <1>1, <1>3, OthersExclusive
<1>10. Attached' /\ SessionsFollowPath'
  <2>1. AttachedTo(s)' /\ Follows(s)'
    BY Zenon, <1>1, <1>3 DEF AttachedTo, Follows
  <2>2. \A p \in Objects, t \in Sessions : t # s /\ t \in readers[p] => t \in readers'[p]
    BY ZenonT(30), <1>4
  <2> QED
    BY Zenon, <1>1, <1>3, <2>1, <2>2, OthersAttached
<1> QED BY Zenon, <1>6, <1>7, <1>8, <1>9, <1>10 DEF VInv

\* RECORD takes the mutex of a path that is open and has no muxer yet.
LEMMA RecordKeeps ==
    ASSUME VInv, NEW s \in Sessions, Record(s)
    PROVE  VInv'
<1> DEFINE o == sess[s].path
<1>1. /\ o \in Objects /\ source[o] = s /\ mux[o].at = "none" /\ ~canceled[o] /\ ~mu[o]
      /\ sess[s].at = "idle" /\ sess[s].state = "preRecord" /\ sess[s] \in SessionRecord
      /\ mu' = [mu EXCEPT ![o] = TRUE]
      /\ UNCHANGED <<managerVars, pathName, ctxDone, source, sourceReady, readers, canceled,
                     rtspMu, serverVars, mux, req, closing>>
      /\ sess'[s] = [sess[s] EXCEPT !.at = "ready"] /\ sess' = [sess EXCEPT ![s] = [sess[s] EXCEPT !.at = "ready"]]
  <2>1. sess[s].at = "idle" /\ sess[s].state = "preRecord"
    BY Zenon DEF Record, CanCall
  <2>2. o # None /\ source[o] = s /\ mux[o].at = "none"
    BY Zenon, <2>1, OneSession DEF AttachedTo
  <2>3. o \in Objects /\ sess[s] \in SessionRecord
    BY Zenon, <2>2, OneSession
  <2> QED
    BY Zenon, <2>1, <2>2, <2>3 DEF VInv, TypeOK, Record
<1>2. [sess[s] EXCEPT !.at = "ready"] \in SessionRecord
  BY Zenon, <1>1 DEF SessionRecord
<1>3. /\ SessionEffect(s) /\ sess'[s].at = "ready" /\ sess'[s].path = o
      /\ sess'[s].state = "preRecord" /\ sess'[s].ctxDone = sess[s].ctxDone
  BY ZenonT(30), <1>1, <1>2 DEF SessionEffect, SessionRecord, VInv, TypeOK
<1> HIDE DEF o
<1>4. TypeOK'
  BY Zenon, <1>1, <1>3 DEF VInv, TypeOK, managerVars, serverVars, SessionEffect
<1>5. Registered' /\ Muxed' /\ Closed' /\ NoSecondMuxer'
  BY Zenon, <1>1, RegisteredStays, MuxedStays DEF VInv, managerVars, serverVars, Closed, NoSecondMuxer
<1>6. \A p \in Objects : mu[p] => mu'[p]
  BY Zenon, <1>1 DEF VInv, TypeOK
<1>7. ~sourceReady[o] /\ mu'[o]
  BY <1>1 DEF VInv, TypeOK, Muxed
<1>8. Exclusive'
  <2>1. \A t \in Sessions : sess[t].at = "ready" => sess[t].path \in Objects
    BY Zenon, ReadyPath
  <2> QED
    BY <1>1, <1>3, <1>6, <1>7, <2>1 DEF VInv, SessionEffect, Exclusive
<1>9. Attached' /\ SessionsFollowPath'
  <2>1. AttachedTo(s)
    BY Zenon DEF VInv, Attached
  <2>2. AttachedTo(s)' /\ Follows(s)'
    BY ZenonT(30), <1>1, <1>3, <2>1 DEF AttachedTo, Follows, o
  <2> QED
    BY Zenon, <1>1, <1>3, <2>2, OthersAttached
<1> QED BY Zenon, <1>4, <1>5, <1>8, <1>9 DEF VInv

\* The HLS server has no muxer of the name when a path becomes ready: that of an
\* object before is gone with the object, and this one did not have one.
LEMMA NoMuxerYet ==
    ASSUME VInv, NEW s \in Sessions, sess[s].at = "ready", ~serverDone
    PROVE  muxers[pathName[sess[s].path]] = None
<1> DEFINE o == sess[s].path
           p == muxers[pathName[o]]
<1>1. o \in Objects /\ pathName[o] \in Names /\ ~canceled[o] /\ ~sourceReady[o]
  BY Zenon, ReadyPath
<1>2. SUFFICES ASSUME p # None PROVE FALSE
  BY Zenon
<1>3. p \in Objects /\ pathName[p] = pathName[o] /\ sourceReady[p] /\ ~canceled[p]
  <2>1. p \in Objects
    BY Zenon, <1>1, <1>2, NamedObjects
  <2>2. pathName[p] = pathName[o] /\ sourceReady[p]
    BY Zenon, <1>1, <1>2 DEF VInv, Muxed
  <2> QED
    BY Zenon, <2>1, <2>2 DEF VInv, Muxed
<1>4. paths[pathName[o]] = o /\ paths[pathName[o]] = p
  BY <1>1, <1>3, Distinct DEF VInv, Registered, Closers
<1> QED BY Zenon, <1>1, <1>3, <1>4

\* The publisher ends when the path cannot be made ready.
LEMMA RecordFailsKeeps ==
    ASSUME VInv, NEW s \in Sessions, sess[s].at = "ready", RecordFails(s),
           server' = server \/ (server' = [at |-> "stuck"] /\ serverDone)
    PROVE  VInv'
<1> DEFINE o == sess[s].path
<1>1. /\ o \in Objects /\ source[o] = s /\ ~sourceReady[o]
      /\ sess[s].state = "preRecord" /\ sess[s] \in SessionRecord
      /\ mu' = [mu EXCEPT ![o] = FALSE]
      /\ UNCHANGED <<managerVars, pathName, ctxDone, source, sourceReady, readers, canceled,
                     rtspMu, serverDone, muxers, mux, req, closing>>
      /\ sess'[s] = [sess[s] EXCEPT !.at = "end"] /\ sess' = [sess EXCEPT ![s] = [sess[s] EXCEPT !.at = "end"]]
  <2>1. sess[s].at = "ready"
    BY Zenon DEF RecordFails
  <2>2. sess[s].state = "preRecord" /\ ~sourceReady[o] /\ o \in Objects /\ source[o] = s
    BY Zenon, <2>1, ReadyPath
  <2>3. sess[s] \in SessionRecord
    BY Zenon, OneSession
  <2>4. sess'[s] = [sess[s] EXCEPT !.at = "end"] /\ sess' = [sess EXCEPT ![s] = [sess[s] EXCEPT !.at = "end"]]
    BY Zenon DEF VInv, TypeOK, RecordFails
  <2> QED
    BY Zenon, <2>1, <2>2, <2>3, <2>4 DEF RecordFails
<1>2. [sess[s] EXCEPT !.at = "end"] \in SessionRecord
  BY Zenon, <1>1 DEF SessionRecord
<1>3. /\ SessionEffect(s) /\ sess'[s].at = "end" /\ sess'[s].path = o
      /\ sess'[s].state = "preRecord" /\ sess'[s].ctxDone = sess[s].ctxDone
  BY ZenonT(30), <1>1, <1>2 DEF SessionEffect, SessionRecord, VInv, TypeOK
<1> HIDE DEF o
<1>4. TypeOK'
  <2>1. server' \in ServerRecord
    BY DEF VInv, TypeOK, ServerRecord
  <2> QED
    BY Zenon, <1>1, <1>3, <2>1 DEF VInv, TypeOK, managerVars, SessionEffect
<1>5. Registered' /\ Muxed' /\ Closed' /\ NoSecondMuxer'
  BY Zenon, <1>1, RegisteredStays, MuxedStays DEF VInv, managerVars, Closed, NoSecondMuxer
<1>6. \A p \in Objects : p # o => mu'[p] = mu[p]
  BY Zenon, <1>1 DEF VInv, TypeOK
<1>7. \A t \in Sessions : t # s /\ sess[t].at = "ready" => sess[t].path # o
  BY <1>1, ReadyPath
<1>8. Exclusive'
  <2>1. \A t \in Sessions : t # s /\ sess[t].at = "ready" => sess[t].path \in Objects \ {o}
    BY Zenon, <1>7, ReadyPath
  <2>2. \A c \in Closers : closing[o][c] # "notReady"
    BY Zenon, <1>1 DEF VInv, Exclusive
  <2> QED
    BY <1>1, <1>3, <1>6, <2>1, <2>2 DEF VInv, SessionEffect, Exclusive
<1>9. Attached' /\ SessionsFollowPath'
  <2>1. AttachedTo(s)
    BY Zenon DEF VInv, Attached
  <2>2. AttachedTo(s)' /\ Follows(s)'
    BY Zenon, <1>1, <1>3, <2>1 DEF AttachedTo, Follows, o
  <2> QED
    BY Zenon, <1>1, <1>3, <2>2, OthersAttached
<1> QED BY Zenon, <1>4, <1>5, <1>8, <1>9 DEF VInv

\* The ways in which the HLS server does not make a muxer
LEMMA NotMadeKeeps ==
    ASSUME VInv, NEW s \in Sessions,
           PathSourceReadyExists(s) \/ PathSourceReadyFails(s) \/ ReadyCanceled(s)
    PROVE  VInv'
<1>1. CASE PathSourceReadyExists(s)
  <2>1. serverDone
    BY Zenon, <1>1, NoMuxerYet DEF PathSourceReadyExists
  <2> QED BY Zenon, <1>1, <2>1, RecordFailsKeeps DEF PathSourceReadyExists
<1>2. CASE PathSourceReadyFails(s) \/ ReadyCanceled(s)
  BY Zenon, <1>2, RecordFailsKeeps DEF PathSourceReadyFails, ReadyCanceled
<1> QED BY Zenon, <1>1, <1>2

\* The HLS server makes the muxer, and the path is ready.
LEMMA PathSourceReadyKeeps ==
    ASSUME VInv, NEW s \in Sessions, PathSourceReady(s)
    PROVE  VInv'
<1> DEFINE o == sess[s].path
           new == [sess[s] EXCEPT !.at = "idle", !.state = "record"]
           newMux == [mux[o] EXCEPT !.at = "select", !.inner = "running"]
<1>1. /\ o \in Objects /\ source[o] = s /\ ~sourceReady[o] /\ ~canceled[o] /\ mux[o].at = "none"
      /\ pathName[o] \in Names /\ muxers' = [muxers EXCEPT ![pathName[o]] = o]
      /\ sourceReady' = [sourceReady EXCEPT ![o] = TRUE]
      /\ sess[s].at = "ready" /\ sess[s].state = "preRecord" /\ sess[s] \in SessionRecord
      /\ mu' = [mu EXCEPT ![o] = FALSE]
      /\ UNCHANGED <<managerVars, pathName, ctxDone, source, readers, canceled,
                     rtspMu, server, serverDone, req, closing>>
  <2>1. sess[s].at = "ready"
    BY Zenon DEF PathSourceReady
  <2>2. /\ o \in Objects /\ source[o] = s /\ ~sourceReady[o] /\ ~canceled[o] /\ mux[o].at = "none"
        /\ pathName[o] \in Names /\ sess[s].state = "preRecord"
    BY Zenon, <2>1, ReadyPath
  <2>3. sess[s] \in SessionRecord
    BY Zenon, OneSession
  <2> QED
    BY Zenon, <2>1, <2>2, <2>3 DEF PathSourceReady
<1>2. /\ sess'[s] = new /\ sess' = [sess EXCEPT ![s] = new]
      /\ mux' = [mux EXCEPT ![o] = newMux] /\ mux'[o] = newMux /\ mux[o] \in MuxRecord
  <2>1. sess \in [Sessions -> SessionRecord] /\ mux \in [Objects -> MuxRecord]
    BY Zenon DEF VInv, TypeOK
  <2>2. sess' = [sess EXCEPT ![s] = new] /\ mux' = [mux EXCEPT ![o] = newMux]
    BY Zenon DEF PathSourceReady
  <2> QED
    BY Zenon, <1>1, <2>1, <2>2
<1>3. new \in SessionRecord /\ newMux \in MuxRecord
  BY Zenon, <1>1, <1>2 DEF SessionRecord, MuxRecord
<1>4. /\ SessionEffect(s) /\ sess'[s].at = "idle" /\ sess'[s].path = o
      /\ sess'[s].state = "record" /\ sess'[s].ctxDone = sess[s].ctxDone
  BY ZenonT(30), <1>1, <1>2, <1>3 DEF SessionEffect, SessionRecord, VInv, TypeOK
<1>5. /\ mux' \in [Objects -> MuxRecord] /\ mux'[o].at = "select"
      /\ \A p \in Objects : p # o => mux'[p] = mux[p]
  BY ZenonT(30), <1>1, <1>2, <1>3 DEF MuxRecord, VInv, TypeOK
<1> HIDE DEF o
<1>6. TypeOK'
  BY Zenon, <1>1, <1>4, <1>5 DEF VInv, TypeOK, managerVars, SessionEffect, Optional
<1>7. Registered' /\ Closed' /\ NoSecondMuxer'
  BY Zenon, <1>1, RegisteredStays DEF VInv, managerVars, Closed, NoSecondMuxer
<1>8. \A t \in Sessions : t # s /\ sess[t].state = "preRecord" => sess[t].path # o
  <2> SUFFICES ASSUME NEW t \in Sessions, sess[t].state = "preRecord", sess[t].path = o PROVE t = s
    BY Zenon
  <2>1. AttachedTo(t)
    BY Zenon, OneSession
  <2> QED
    BY Zenon, <1>1, <2>1 DEF AttachedTo
<1>9. \A p \in Objects : p # o => mu'[p] = mu[p] /\ sourceReady'[p] = sourceReady[p]
  BY Zenon, <1>1 DEF VInv, TypeOK
<1>10. \A c \in Closers : closing[o][c] # "notReady"
  BY Zenon, <1>1 DEF VInv, Exclusive
<1>11. Exclusive'
  <2>1. \A t \in Sessions : sess'[t].at = "ready" => t # s /\ sess[t].at = "ready" /\ sess[t].path \in Objects \ {o}
    <3> SUFFICES ASSUME NEW t \in Sessions, sess'[t].at = "ready"
                 PROVE  t # s /\ sess[t].at = "ready" /\ sess[t].path \in Objects \ {o}
      BY Zenon
    <3>1. t # s /\ sess[t].at = "ready"
      BY Zenon, <1>4 DEF SessionEffect
    <3> QED
      BY Zenon, <1>8, <3>1, ReadyPath
  <2> QED
    BY <1>1, <1>4, <1>9, <1>10, <2>1 DEF VInv, SessionEffect, Exclusive
<1>13. Attached' /\ SessionsFollowPath'
  <2>1. AttachedTo(s)' /\ Follows(s)'
    BY <1>1, <1>4, <1>5, OneSession, Distinct DEF AttachedTo, Follows
  <2>2. \A t \in Sessions : t # s /\ sess[t].state = "preRecord" => mux'[sess[t].path] = mux[sess[t].path]
    <3> SUFFICES ASSUME NEW t \in Sessions, t # s, sess[t].state = "preRecord"
                 PROVE  mux'[sess[t].path] = mux[sess[t].path]
      BY Zenon
    <3>1. sess[t].path \in Objects
      BY Zenon, OneSession DEF AttachedTo
    <3> QED
      BY Zenon, <1>5, <1>8, <3>1
  <2> QED
    BY Zenon, <1>1, <1>4, <2>1, <2>2, OthersAttached
<1>14. Muxed'
  <2>1. \A p \in Objects :
           /\ mux'[p].at # "none" => source'[p] # None /\ pathName'[p] # None
           /\ sourceReady'[p] => ~canceled'[p] /\ mux'[p].at # "none"
    BY <1>1, <1>5, <1>9, Distinct DEF VInv, Muxed
  <2>2. \A p \in Objects : closing'[p]["muxer"] \in {"lock", "notReady"} => mux'[p].at = "pathClose"
    BY <1>1, <1>5 DEF VInv, Muxed
  <2>3. \A n \in Names : muxers'[n] = IF n = pathName[o] THEN o ELSE muxers[n]
    BY Zenon, <1>1 DEF VInv, TypeOK
  <2>4. sourceReady'[o]
    BY Zenon, <1>1 DEF VInv, TypeOK
  <2>5. \A n \in Names : muxers'[n] # None =>
           /\ pathName'[muxers'[n]] = n
           /\ ~serverDone' => sourceReady'[muxers'[n]] /\ mux'[muxers'[n]].at \in {"select", "handle", "muxerClose"}
    <3> SUFFICES ASSUME NEW n \in Names, muxers'[n] # None
                 PROVE  /\ pathName'[muxers'[n]] = n
                        /\ ~serverDone' => /\ sourceReady'[muxers'[n]]
                                            /\ mux'[muxers'[n]].at \in {"select", "handle", "muxerClose"}
      BY Zenon
    <3>1. CASE n = pathName[o]
      BY Zenon, <1>1, <1>5, <2>3, <2>4, <3>1
    <3>2. CASE n # pathName[o]
      <4>1. muxers'[n] = muxers[n] /\ muxers[n] \in Objects
        BY Zenon, <2>3, <3>2, NamedObjects
      <4>2. pathName[muxers[n]] = n /\ muxers[n] # o
            /\ (~serverDone => sourceReady[muxers[n]] /\ mux[muxers[n]].at \in {"select", "handle", "muxerClose"})
        BY Zenon, <3>2, <4>1 DEF VInv, Muxed
      <4> QED
        BY Zenon, <1>1, <1>5, <1>9, <4>1, <4>2
    <3> QED
      BY Zenon, <3>1, <3>2
  <2> QED
    BY Zenon, <2>1, <2>2, <2>5 DEF Muxed
<1> QED BY Zenon, <1>6, <1>7, <1>11, <1>13, <1>14 DEF VInv

\* A publisher that ends closes its path, a reader leaves it.
LEMMA OnSessionCloseKeeps ==
    ASSUME VInv, NEW s \in Sessions, OnSessionClose(s)
    PROVE  VInv'
<1> DEFINE o == sess[s].path
           publisher == sess[s].state \in {"preRecord", "record"}
           at == IF publisher THEN "close" ELSE IF sess[s].state \in {"prePlay", "play"} THEN "remove" ELSE "gone"
<1>1. /\ sess[s].at = "end" /\ sess[s] \in SessionRecord
      /\ publisher => o \in Objects /\ pathName[o] # None
      /\ UNCHANGED <<managerVars, pathVars, rtspMu, serverVars, mux, req>>
      /\ sess'[s] = [sess[s] EXCEPT !.at = at] /\ sess' = [sess EXCEPT ![s] = [sess[s] EXCEPT !.at = at]]
      /\ closing' = IF publisher THEN [closing EXCEPT ![o].publisher = "lock"] ELSE closing
  <2>1. sess[s] \in SessionRecord /\ (publisher => o \in Objects /\ pathName[o] # None)
    BY Zenon, OneSession DEF AttachedTo
  <2> QED
    BY Zenon, <2>1 DEF VInv, TypeOK, OnSessionClose
<1>2. at \in {"close", "remove", "gone"} /\ (at = "remove" => sess[s].state \in {"prePlay", "play"})
  OBVIOUS
<1> HIDE DEF at
<1>3. [sess[s] EXCEPT !.at = at] \in SessionRecord
  BY Zenon, <1>1, <1>2 DEF SessionRecord
<1>4. /\ SessionEffect(s) /\ sess'[s].at = at /\ sess'[s].path = o
      /\ sess'[s].state = sess[s].state /\ sess'[s].ctxDone = sess[s].ctxDone
  BY ZenonT(30), <1>1, <1>3 DEF SessionEffect, SessionRecord, VInv, TypeOK
<1>5. /\ closing' \in [Objects -> [Closers -> {"no", "remove", "lock", "notReady", "done"}]]
      /\ \A p \in Objects, c \in Closers :
           \/ closing'[p][c] = closing[p][c]
           \/ closing'[p][c] = "lock" /\ c = "publisher" /\ pathName[p] # None
  BY ZenonT(30), <1>1 DEF VInv, TypeOK, Closers
<1> HIDE DEF o, publisher
<1>6. TypeOK'
  BY Zenon, <1>1, <1>4, <1>5 DEF VInv, TypeOK, managerVars, pathVars, serverVars, SessionEffect
<1>7. Registered'
  <2>1. \A p \in Objects : closing'[p]["AddPath"] = closing[p]["AddPath"] /\ closing'[p]["newPath"] = closing[p]["newPath"]
    BY Zenon, <1>5 DEF Closers
  <2>2. \A p \in Objects, c \in Closers :
           closing'[p][c] # closing[p][c] => pathName[p] # None /\ closing'[p][c] # "done"
    BY Zenon, <1>5
  <2>3. \A m \in Names : owner[m] # None =>
           closing'[owner[m]]["AddPath"] = "no" /\ closing'[owner[m]]["newPath"] = "no"
    BY ZenonT(30), <2>1, NamedObjects DEF VInv, Registered
  <2> QED
    BY Zenon, <1>1, <2>1, <2>2, <2>3, RegisteredMoves DEF managerVars, pathVars
<1>8. Muxed' /\ Closed' /\ NoSecondMuxer'
  <2>1. \A p \in Objects : closing'[p]["muxer"] = closing[p]["muxer"]
    BY Zenon, <1>5 DEF Closers
  <2> QED
    BY Zenon, <1>1, <2>1, MuxedMoves DEF VInv, managerVars, pathVars, serverVars, Closed, NoSecondMuxer
<1>9. Exclusive'
  BY <1>1, <1>2, <1>4, <1>5 DEF VInv, managerVars, pathVars, serverVars, SessionEffect, Exclusive
<1>10. Attached' /\ SessionsFollowPath'
  <2>1. AttachedTo(s)' /\ Follows(s)'
    BY Zenon, <1>1, <1>2, <1>4, OneSession DEF AttachedTo, Follows, pathVars, o
  <2> QED
    BY Zenon, <1>1, <1>4, <2>1, OthersAttached DEF pathVars
<1> QED BY Zenon, <1>6, <1>7, <1>8, <1>9, <1>10 DEF VInv

\* The goroutines that run close change places, and nothing else does.
ClosingTypes == [Objects -> [Closers -> {"no", "remove", "lock", "notReady", "done"}]]

\* AddPath makes the next object, and gives it a name no object has.
LEMMA AddPathKeeps ==
    ASSUME VInv, NEW n \in Names, AddPath(n)
    PROVE  VInv'
<1> DEFINE o == created + 1
<1>1. /\ o \in Objects /\ created \in Nat /\ created' = o /\ o \in 0..MaxObjects
      /\ paths[n] = None /\ owner[n] = None
      /\ paths' = [paths EXCEPT ![n] = o] /\ owner' = [owner EXCEPT ![n] = o]
      /\ pathName' = [pathName EXCEPT ![o] = n]
      /\ UNCHANGED <<pmMu, ctxDone, mu, source, sourceReady, readers, canceled,
                     rtspMu, sess, serverVars, mux, req, closing>>
  BY DEF AddPath, VInv, TypeOK, Objects
<1>2. \A p \in Objects : p <= o <=> p <= created \/ p = o
  BY <1>1 DEF Objects
<1>3. ~(o <= created)
  BY <1>1
<1> HIDE DEF o
<1>4. /\ pathName[o] = None /\ pathName'[o] = n /\ \A p \in Objects : p # o => pathName'[p] = pathName[p]
      /\ ~canceled[o] /\ \A c \in Closers : closing[o][c] = "no"
  BY <1>1, <1>3 DEF VInv, TypeOK, Registered
<1>5. /\ paths'[n] = o /\ \A m \in Names : m # n => paths'[m] = paths[m]
      /\ owner'[n] = o /\ \A m \in Names : m # n => owner'[m] = owner[m]
  BY Zenon, <1>1 DEF VInv, TypeOK
<1>6. TypeOK'
  BY Zenon, <1>1 DEF VInv, TypeOK, serverVars, Optional
<1>7. Exclusive' /\ Closed' /\ SessionsFollowPath' /\ NoSecondMuxer'
  BY ZenonT(30), <1>1 DEF VInv, serverVars, Exclusive, Closed, SessionsFollowPath, NoSecondMuxer
<1>8. \A m \in Names : /\ paths[m] # None => paths[m] \in Objects /\ paths[m] # o
                       /\ owner[m] # None => owner[m] \in Objects /\ owner[m] # o
                       /\ muxers[m] # None => muxers[m] \in Objects /\ muxers[m] # o
  <2>1. \A m \in Names : /\ paths[m] # None => pathName[paths[m]] = m
                         /\ owner[m] # None => pathName[owner[m]] = m
    BY Zenon DEF VInv, Registered
  <2>2. \A m \in Names : muxers[m] # None => pathName[muxers[m]] = m
    BY Zenon DEF VInv, Muxed
  <2>3. \A m \in Names : m # None
    BY Zenon, Distinct
  <2> QED
    BY Zenon, <1>4, <2>1, <2>2, <2>3, NamedObjects
<1>9. Muxed'
  <2>1. /\ \A p \in Objects : /\ mux[p].at # "none" => source[p] # None /\ pathName[p] # None
                              /\ sourceReady[p] => ~canceled[p] /\ mux[p].at # "none"
        /\ \A p \in Objects : closing[p]["muxer"] \in {"lock", "notReady"} => mux[p].at = "pathClose"
        /\ \A m \in Names : muxers[m] # None =>
              /\ pathName[muxers[m]] = m
              /\ ~serverDone => sourceReady[muxers[m]] /\ mux[muxers[m]].at \in {"select", "handle", "muxerClose"}
    BY Zenon DEF VInv, Muxed
  <2>2. \A p \in Objects : pathName[p] # None => pathName'[p] # None
    BY Zenon, <1>4
  <2>3. \A m \in Names : muxers[m] # None => pathName'[muxers[m]] = pathName[muxers[m]]
    BY Zenon, <1>4, <1>8
  <2>4. UNCHANGED <<source, sourceReady, canceled, mux, muxers, serverDone, closing>>
    BY Zenon, <1>1 DEF serverVars
  <2>5. \A p \in Objects : mux'[p].at # "none" => source'[p] # None /\ pathName'[p] # None
    BY Zenon, <2>1, <2>2, <2>4
  <2>6. \A m \in Names : muxers'[m] # None => pathName'[muxers'[m]] = m
    BY Zenon, <2>1, <2>3, <2>4
  <2> QED
    BY Zenon, <2>1, <2>4, <2>5, <2>6 DEF Muxed
<1>11. Attached'
  <2> SUFFICES ASSUME NEW s \in Sessions PROVE AttachedTo(s)'
    BY Zenon DEF Attached
  <2>1. AttachedTo(s) /\ (sess[s].path # None => sess[s].path \in Objects)
        /\ (sess[s].want # None => sess[s].want \in Objects)
    BY Zenon, OneSession
  <2>2. /\ sess[s].path # None /\ pathName[sess[s].path] # None => pathName'[sess[s].path] # None
        /\ sess[s].want # None /\ pathName[sess[s].want] # None => pathName'[sess[s].want] # None
    BY Zenon, <1>4, <2>1, Distinct
  <2>3. UNCHANGED <<sess, source, readers, canceled, mux>>
    BY Zenon, <1>1 DEF serverVars
  <2> QED
    BY Zenon, <2>1, <2>2, <2>3 DEF AttachedTo
<1>12. Registered'
  <2>1. \A p \in Objects : (pathName'[p] # None <=> p <= created') /\ (canceled'[p] => pathName'[p] # None)
    <3> SUFFICES ASSUME NEW p \in Objects
                 PROVE  (pathName'[p] # None <=> p <= created') /\ (canceled'[p] => pathName'[p] # None)
      OBVIOUS
    <3>1. (pathName[p] # None <=> p <= created) /\ (canceled[p] => pathName[p] # None)
      BY Zenon DEF VInv, Registered
    <3>2. CASE p = o
      BY Zenon, <1>1, <1>2, <1>4, <3>2, Distinct
    <3>3. CASE p # o
      BY Zenon, <1>1, <1>2, <1>4, <3>1, <3>3
    <3> QED BY Zenon, <3>2, <3>3
  <2>2. \A p \in Objects, c \in Closers :
           (closing'[p][c] # "no" => pathName'[p] # None) /\ (closing'[p][c] = "done" => canceled'[p])
    <3> SUFFICES ASSUME NEW p \in Objects, NEW c \in Closers
                 PROVE  (closing'[p][c] # "no" => pathName'[p] # None) /\ (closing'[p][c] = "done" => canceled'[p])
      BY Zenon
    <3>1. (closing[p][c] # "no" => pathName[p] # None) /\ (closing[p][c] = "done" => canceled[p])
      BY DEF VInv, Registered
    <3>2. CASE p = o
      BY Zenon, <1>1, <1>4, <3>2
    <3>3. CASE p # o
      BY Zenon, <1>1, <1>4, <3>1, <3>3
    <3> QED
      BY Zenon, <3>2, <3>3
  <2> DEFINE In(q, m) == pathName'[q] = m /\ closing'[q]["AddPath"] # "done"
             Owned(q, m) == /\ pathName'[q] = m
                            /\ closing'[q]["AddPath"] = "no" /\ closing'[q]["newPath"] = "no"
  <2>6. In(o, n) /\ Owned(o, n)
    BY Zenon, <1>1, <1>4 DEF Closers
  <2>3. \A m \in Names : paths'[m] # None => In(paths'[m], m)
    <3> SUFFICES ASSUME NEW m \in Names, paths'[m] # None PROVE In(paths'[m], m)
      BY Zenon
    <3>1. CASE m = n
      BY Zenon, <1>5, <2>6, <3>1
    <3>2. CASE m # n
      <4>1. paths'[m] = paths[m] /\ paths[m] \in Objects /\ paths[m] # o
        BY Zenon, <1>5, <1>8, <3>2
      <4>2. pathName[paths[m]] = m /\ closing[paths[m]]["AddPath"] # "done"
        BY Zenon, <4>1 DEF VInv, Registered
      <4> QED
        BY Zenon, <1>1, <1>4, <4>1, <4>2
    <3> QED
      BY Zenon, <3>1, <3>2
  <2>4. \A p \in Objects : pathName'[p] # None /\ closing'[p]["AddPath"] # "done" => paths'[pathName'[p]] = p
    <3>1. \A p \in Objects : pathName[p] \in Optional(Names)
      BY Zenon DEF VInv, TypeOK
    <3>2. \A p \in Objects : pathName[p] = n => closing[p]["AddPath"] = "done"
      BY <1>1, Distinct DEF VInv, Registered
    <3> SUFFICES ASSUME NEW p \in Objects, pathName'[p] # None, closing'[p]["AddPath"] # "done"
                 PROVE  paths'[pathName'[p]] = p
      OBVIOUS
    <3>3. CASE p = o
      BY Zenon, <1>4, <1>5, <3>3
    <3>4. CASE p # o
      <4>1. pathName'[p] = pathName[p] /\ pathName[p] \in Names \ {n} /\ paths[pathName[p]] = p
        BY <1>1, <1>4, <3>1, <3>2, <3>4 DEF VInv, Registered, Optional
      <4> QED BY Zenon, <1>5, <4>1
    <3> QED BY Zenon, <3>3, <3>4
  <2>5. \A m \in Names : owner'[m] # None => Owned(owner'[m], m)
    <3> SUFFICES ASSUME NEW m \in Names, owner'[m] # None PROVE Owned(owner'[m], m)
      BY Zenon
    <3>1. CASE m = n
      BY Zenon, <1>5, <2>6, <3>1
    <3>2. CASE m # n
      <4>1. owner'[m] = owner[m] /\ owner[m] \in Objects /\ owner[m] # o
        BY Zenon, <1>5, <1>8, <3>2
      <4>2. pathName[owner[m]] = m /\ closing[owner[m]]["AddPath"] = "no" /\ closing[owner[m]]["newPath"] = "no"
        BY Zenon, <4>1 DEF VInv, Registered
      <4> QED
        BY Zenon, <1>1, <1>4, <4>1, <4>2
    <3> QED
      BY Zenon, <3>1, <3>2
  <2> QED BY Zenon, <2>1, <2>2, <2>3, <2>4, <2>5 DEF Registered
<1> QED BY Zenon, <1>6, <1>7, <1>9, <1>11, <1>12 DEF VInv

\* CancelPath sends the two goroutines of the path off to close it.
LEMMA CancelPathKeeps ==
    ASSUME VInv, NEW n \in Names, CancelPath(n)
    PROVE  VInv'
<1> DEFINE o == owner[n]
<1>1. /\ o \in Objects /\ pathName[o] = n
      /\ closing[o]["AddPath"] = "no" /\ closing[o]["newPath"] = "no"
      /\ ctxDone' = [ctxDone EXCEPT ![o] = TRUE] /\ owner' = [owner EXCEPT ![n] = None]
      /\ UNCHANGED <<pmMu, paths, created, pathName, mu, source, sourceReady, readers,
                     canceled, rtspMu, sess, serverVars, mux, req>>
  <2>1. o # None
    BY Zenon DEF CancelPath
  <2>2. o \in Objects
    BY Zenon, <2>1, NamedObjects
  <2>3. pathName[o] = n /\ closing[o]["AddPath"] = "no" /\ closing[o]["newPath"] = "no"
    BY Zenon, <2>1 DEF VInv, Registered
  <2> QED
    BY Zenon, <2>2, <2>3 DEF CancelPath
<1>2. /\ closing' \in ClosingTypes
      /\ \A p \in Objects, c \in Closers :
           closing'[p][c] = IF p = o /\ c = "newPath" THEN "lock"
                            ELSE IF p = o /\ c = "AddPath" THEN "remove" ELSE closing[p][c]
  BY <1>1 DEF VInv, TypeOK, CancelPath, Closers, ClosingTypes
<1> HIDE DEF o
<1>3. owner'[n] = None /\ \A m \in Names : m # n => owner'[m] = owner[m]
  BY Zenon, <1>1 DEF VInv, TypeOK
<1>4. TypeOK'
  BY Zenon, <1>1, <1>2 DEF VInv, TypeOK, serverVars, Optional, ClosingTypes
<1>5. Closed' /\ SessionsFollowPath' /\ NoSecondMuxer' /\ Attached'
  BY Zenon, <1>1, SessionsStay DEF VInv, serverVars, Closed, NoSecondMuxer
<1>6. Exclusive' /\ Muxed'
  <2>1. \A p \in Objects, c \in Closers : closing'[p][c] = "notReady" => closing[p][c] = "notReady"
    BY Zenon, <1>2
  <2>2. \A p \in Objects : closing'[p]["muxer"] = closing[p]["muxer"]
    BY Zenon, <1>2 DEF Closers
  <2> QED
    BY Zenon, <1>1, <2>1, <2>2, ExclusiveMoves, MuxedMoves DEF VInv, serverVars
<1>7. Registered'
  <2>1. pathName[o] # None
    BY Zenon, <1>1, Distinct
  <2>2. \A p \in Objects, c \in Closers :
           closing'[p][c] # closing[p][c] => pathName[p] # None /\ closing'[p][c] # "done"
    BY Zenon, <1>2, <2>1
  <2>3. \A p \in Objects : closing'[p]["AddPath"] = "done" <=> closing[p]["AddPath"] = "done"
    BY Zenon, <1>1, <1>2 DEF Closers
  <2>4. ASSUME NEW m \in Names, owner'[m] # None
        PROVE  /\ owner'[m] = owner[m]
               /\ closing'[owner[m]]["AddPath"] = "no" /\ closing'[owner[m]]["newPath"] = "no"
    <3>1. m # n /\ owner'[m] = owner[m]
      BY Zenon, <1>3, <2>4
    <3>2. owner[m] \in Objects
      BY ZenonT(30), <2>4, <3>1, NamedObjects
    <3>3. pathName[owner[m]] = m /\ closing[owner[m]]["AddPath"] = "no" /\ closing[owner[m]]["newPath"] = "no"
      BY Zenon, <2>4, <3>1 DEF VInv, Registered
    <3> QED
      BY Zenon, <1>1, <1>2, <3>1, <3>2, <3>3 DEF Closers
  <2> QED
    BY Zenon, <1>1, <2>2, <2>3, <2>4, RegisteredMoves
<1> QED BY Zenon, <1>4, <1>5, <1>6, <1>7 DEF VInv

\* AddPath's goroutine takes the mutex of the path manager.
LEMMA RemoveLockKeeps ==
    ASSUME VInv, NEW o \in Objects, RemoveLock(o)
    PROVE  VInv'
<1>1. /\ closing[o]["AddPath"] = "remove" /\ pmMu' = TRUE
      /\ UNCHANGED <<paths, owner, created, pathVars, rtspMu, sess, serverVars, mux, req>>
  BY Zenon DEF RemoveLock
<1>2. /\ closing' \in ClosingTypes
      /\ \A p \in Objects, c \in Closers :
           closing'[p][c] = IF p = o /\ c = "AddPath" THEN "lock" ELSE closing[p][c]
  BY ZenonT(30), <1>1 DEF VInv, TypeOK, RemoveLock, Closers, ClosingTypes
<1>3. TypeOK'
  BY Zenon, <1>1, <1>2 DEF VInv, TypeOK, pathVars, serverVars, Optional, ClosingTypes
<1>4. Closed' /\ SessionsFollowPath' /\ NoSecondMuxer' /\ Attached'
  BY Zenon, <1>1, SessionsStay DEF VInv, pathVars, serverVars, Closed, NoSecondMuxer
<1>5. Exclusive' /\ Muxed'
  <2>1. \A p \in Objects, c \in Closers : closing'[p][c] = "notReady" => closing[p][c] = "notReady"
    BY Zenon, <1>2
  <2>2. \A p \in Objects : closing'[p]["muxer"] = closing[p]["muxer"]
    BY Zenon, <1>2 DEF Closers
  <2> QED
    BY Zenon, <1>1, <2>1, <2>2, ExclusiveMoves, MuxedMoves DEF VInv, pathVars, serverVars
<1>6. Registered'
  <2>1. pathName[o] # None
    BY Zenon, <1>1 DEF VInv, Registered, Closers
  <2>2. \A p \in Objects, c \in Closers :
           closing'[p][c] # closing[p][c] => pathName[p] # None /\ closing'[p][c] # "done"
    BY Zenon, <1>2, <2>1
  <2>3. \A p \in Objects : /\ closing'[p]["AddPath"] = "done" <=> closing[p]["AddPath"] = "done"
                           /\ closing[p]["AddPath"] = "no" => closing'[p]["AddPath"] = "no"
                           /\ closing'[p]["newPath"] = closing[p]["newPath"]
    BY Zenon, <1>1, <1>2 DEF Closers
  <2>4. \A m \in Names : owner[m] # None =>
           closing'[owner[m]]["AddPath"] = "no" /\ closing'[owner[m]]["newPath"] = "no"
    BY <2>3, NamedObjects DEF VInv, Registered
  <2> QED
    BY Zenon, <1>1, <2>2, <2>3, <2>4, RegisteredMoves DEF pathVars
<1> QED BY Zenon, <1>3, <1>4, <1>5, <1>6 DEF VInv

\* The close of a ready path keeps the mutex while it asks the HLS server.
LEMMA CloseReadyKeeps ==
    ASSUME VInv, NEW o \in Objects, NEW c \in Closers, CloseReady(o, c)
    PROVE  VInv'
<1>1. /\ closing[o][c] = "lock" /\ ~mu[o] /\ ~canceled[o] /\ sourceReady[o]
      /\ mu' = [mu EXCEPT ![o] = TRUE]
      /\ UNCHANGED <<managerVars, pathName, ctxDone, source, sourceReady, readers, canceled,
                     rtspMu, sess, serverVars, mux, req>>
  BY Zenon DEF CloseReady
<1>2. /\ closing' \in ClosingTypes
      /\ \A p \in Objects, d \in Closers :
           closing'[p][d] = IF p = o /\ d = c THEN "notReady" ELSE closing[p][d]
  BY ZenonT(30), <1>1 DEF VInv, TypeOK, CloseReady, ClosingTypes
<1>3. mu'[o] /\ \A p \in Objects : p # o => mu'[p] = mu[p]
  BY Zenon, <1>1 DEF VInv, TypeOK
<1>4. TypeOK'
  BY Zenon, <1>1, <1>2 DEF VInv, TypeOK, managerVars, serverVars, Optional, ClosingTypes
<1>5. Closed' /\ SessionsFollowPath' /\ NoSecondMuxer' /\ Attached'
  BY Zenon, <1>1, SessionsStay DEF VInv, serverVars, Closed, NoSecondMuxer
<1>6. Exclusive'
  <2>1. \A s \in Sessions : sess[s].at = "ready" => sess[s].path \in Objects \ {o}
    BY ZenonT(30), <1>1, ReadyPath
  <2>2. \A d \in Closers : closing[o][d] # "notReady"
    BY Zenon, <1>1 DEF VInv, Exclusive
  <2> QED
    BY <1>1, <1>2, <1>3, <2>1, <2>2 DEF VInv, Exclusive
<1>7. Muxed'
  <2>1. \A p \in Objects : closing'[p]["muxer"] \in {"lock", "notReady"} => closing[p]["muxer"] \in {"lock", "notReady"}
    BY Zenon, <1>1, <1>2 DEF Closers
  <2> QED
    BY Zenon, <1>1, <2>1, MuxedMoves DEF VInv, managerVars, serverVars
<1>8. Registered'
  <2>1. pathName[o] # None
    BY Zenon, <1>1 DEF VInv, Registered
  <2>2. \A p \in Objects, d \in Closers :
           closing'[p][d] # closing[p][d] => pathName[p] # None /\ closing'[p][d] # "done"
    BY Zenon, <1>2, <2>1
  <2>3. \A p \in Objects, d \in Closers : /\ closing'[p][d] = "done" <=> closing[p][d] = "done"
                                          /\ closing[p][d] = "no" => closing'[p][d] = "no"
    BY ZenonT(30), <1>1, <1>2
  <2>4. "AddPath" \in Closers /\ "newPath" \in Closers
    BY Zenon DEF Closers
  <2>5. \A m \in Names : owner[m] # None =>
           closing'[owner[m]]["AddPath"] = "no" /\ closing'[owner[m]]["newPath"] = "no"
    BY ZenonT(30), <2>3, <2>4, NamedObjects DEF VInv, Registered
  <2> QED
    BY ZenonT(30), <1>1, <2>2, <2>3, <2>4, <2>5, RegisteredMoves DEF managerVars
<1> QED BY Zenon, <1>4, <1>5, <1>6, <1>7, <1>8 DEF VInv

(* What the end of close changes: the closer c of o has done its part, the path is
   closed, its sessions are told, and the muxer's goroutine goes on. *)
CloseEffect(o, c) ==
    /\ closing' \in ClosingTypes
    /\ \A p \in Objects, d \in Closers :
          closing'[p][d] = IF p = o /\ d = c THEN "done" ELSE closing[p][d]
    /\ mu' = [mu EXCEPT ![o] = FALSE]
    /\ sourceReady' = [sourceReady EXCEPT ![o] = FALSE]
    /\ readers' = [readers EXCEPT ![o] = {}]
    /\ canceled' = [canceled EXCEPT ![o] = TRUE]
    /\ sess' \in [Sessions -> SessionRecord]
    /\ \A s \in Sessions :
          /\ sess'[s].path = sess[s].path /\ sess'[s].state = sess[s].state /\ sess'[s].want = sess[s].want
          /\ sess'[s].at \in {sess[s].at, "gone"}
          /\ sess[s].ctxDone => sess'[s].ctxDone
          /\ sess[s].path = o /\ sess[s].at \in {"idle", "announce", "setup", "ready"} => sess'[s].ctxDone
    /\ paths' = IF c = "AddPath" THEN [paths EXCEPT ![pathName[o]] = None] ELSE paths
    /\ mux' \in [Objects -> MuxRecord]
    /\ \A p \in Objects :
          IF p = o /\ c = "muxer" THEN mux'[p].at \in {"done", "wait"} ELSE mux'[p].at = mux[p].at
    /\ muxers' \in [Names -> Optional(Objects)]
    /\ \A n \in Names : muxers'[n] \in {None, muxers[n]} /\ (muxers'[n] = o => serverDone)
    /\ pmMu' \in BOOLEAN
    /\ UNCHANGED <<owner, created, pathName, ctxDone, source, rtspMu, server, serverDone, req>>

\* The end of close keeps the invariant, whichever goroutine came to it.
LEMMA CloseEffectKeeps ==
    ASSUME VInv, NEW o \in Objects, NEW c \in Closers, closing[o][c] \in {"lock", "notReady"},
           \A d \in Closers : d # c => closing[o][d] # "notReady",
           closing[o][c] = "lock" => ~mu[o],
           CloseEffect(o, c)
    PROVE  VInv'
<1>1. pathName[o] \in Names /\ pathName[o] # None
  <2>1. pathName[o] # None
    BY Zenon DEF VInv, Registered
  <2>2. pathName[o] \in Optional(Names)
    BY Zenon DEF VInv, TypeOK
  <2> QED
    BY Zenon, <2>1, <2>2 DEF Optional
<1>2. /\ canceled'[o] /\ ~sourceReady'[o] /\ readers'[o] = {}
      /\ \A p \in Objects : p # o => /\ mu'[p] = mu[p] /\ sourceReady'[p] = sourceReady[p]
                                     /\ readers'[p] = readers[p] /\ canceled'[p] = canceled[p]
  BY Zenon DEF VInv, TypeOK, CloseEffect
<1>12. \A p \in Objects, d \in Closers : closing'[p][d] = IF p = o /\ d = c THEN "done" ELSE closing[p][d]
  BY Zenon DEF CloseEffect
<1>13. \A s \in Sessions :
          /\ sess'[s].path = sess[s].path /\ sess'[s].state = sess[s].state /\ sess'[s].want = sess[s].want
          /\ sess'[s].at \in {sess[s].at, "gone"}
          /\ sess[s].ctxDone => sess'[s].ctxDone
          /\ sess[s].path = o /\ sess[s].at \in {"idle", "announce", "setup", "ready"} => sess'[s].ctxDone
  BY Zenon DEF CloseEffect
<1>14. \A p \in Objects :
          IF p = o /\ c = "muxer" THEN mux'[p].at \in {"done", "wait"} ELSE mux'[p].at = mux[p].at
  BY Zenon DEF CloseEffect
<1>15. \A n \in Names : muxers'[n] \in {None, muxers[n]} /\ (muxers'[n] = o => serverDone)
  BY Zenon DEF CloseEffect
<1>16. UNCHANGED <<owner, created, pathName, source, server, serverDone>>
  BY Zenon DEF CloseEffect
<1>3. TypeOK'
  <2>1. paths' \in [Names -> Optional(Objects)]
    BY Zenon, <1>1 DEF VInv, TypeOK, CloseEffect, Optional
  <2> QED
    BY Zenon, <2>1 DEF VInv, TypeOK, CloseEffect, ClosingTypes
<1>4. \A n \in Names : /\ paths[n] # None => paths[n] \in Objects
                       /\ owner[n] # None => owner[n] \in Objects
                       /\ muxers[n] # None => muxers[n] \in Objects
  BY Zenon DEF VInv, TypeOK, Optional
<1>5. \A s \in Sessions : /\ sess[s].path # None => sess[s].path \in Objects
                          /\ sess[s].want # None => sess[s].want \in Objects
  BY Zenon, OneSession
<1>6. Registered'
  <2>0. /\ \A p \in Objects : (pathName[p] # None <=> p <= created) /\ (canceled[p] => pathName[p] # None)
        /\ \A p \in Objects, d \in Closers :
              (closing[p][d] # "no" => pathName[p] # None) /\ (closing[p][d] = "done" => canceled[p])
    BY Zenon DEF VInv, Registered
  <2>10. /\ \A n \in Names : paths[n] # None => pathName[paths[n]] = n /\ closing[paths[n]]["AddPath"] # "done"
         /\ \A p \in Objects : pathName[p] # None /\ closing[p]["AddPath"] # "done" => paths[pathName[p]] = p
    BY Zenon DEF VInv, Registered
  <2>1. \A p \in Objects : /\ pathName'[p] # None <=> p <= created'
                           /\ canceled'[p] => pathName'[p] # None
    BY Zenon, <1>1, <1>2, <1>16, <2>0
  <2>2. \A p \in Objects, d \in Closers :
           (closing'[p][d] # "no" => pathName'[p] # None) /\ (closing'[p][d] = "done" => canceled'[p])
    <3> SUFFICES ASSUME NEW p \in Objects, NEW d \in Closers
                 PROVE  (closing'[p][d] # "no" => pathName'[p] # None) /\ (closing'[p][d] = "done" => canceled'[p])
      BY Zenon
    <3>1. CASE p = o
      BY Zenon, <1>1, <1>2, <1>16, <3>1
    <3>2. CASE p # o
      <4>1. closing'[p][d] = closing[p][d]
        BY Zenon, <1>12, <3>2
      <4>2. (closing[p][d] # "no" => pathName[p] # None) /\ (closing[p][d] = "done" => canceled[p])
        BY Zenon, <2>0
      <4>3. canceled'[p] = canceled[p] /\ pathName' = pathName
        BY Zenon, <1>2, <1>16, <3>2
      <4> QED
        BY Zenon, <4>1, <4>2, <4>3
    <3> QED
      BY Zenon, <3>1, <3>2
  <2>6. \A p \in Objects, d \in Closers : closing[p][d] = "no" => closing'[p][d] = "no"
    BY Zenon, <1>12
  <2>3. \A n \in Names : owner'[n] # None =>
           /\ pathName'[owner'[n]] = n
           /\ closing'[owner'[n]]["AddPath"] = "no" /\ closing'[owner'[n]]["newPath"] = "no"
    <3>1. "AddPath" \in Closers /\ "newPath" \in Closers
      BY Zenon DEF Closers
    <3>2. \A n \in Names : owner[n] # None =>
             /\ pathName[owner[n]] = n
             /\ closing[owner[n]]["AddPath"] = "no" /\ closing[owner[n]]["newPath"] = "no"
      BY Zenon DEF VInv, Registered
    <3> QED
      BY Zenon, <1>4, <1>16, <2>6, <3>1, <3>2
  <2>4. CASE c # "AddPath"
    <3>1. paths' = paths /\ \A p \in Objects : closing'[p]["AddPath"] = closing[p]["AddPath"]
      BY Zenon, <2>4 DEF CloseEffect, Closers
    <3>2. \A n \in Names : paths'[n] # None =>
             pathName'[paths'[n]] = n /\ closing'[paths'[n]]["AddPath"] # "done"
      BY Zenon, <1>4, <1>16, <2>10, <3>1
    <3>3. \A p \in Objects : pathName'[p] # None /\ closing'[p]["AddPath"] # "done" => paths'[pathName'[p]] = p
      BY Zenon, <1>16, <2>10, <3>1
    <3> QED
      BY Zenon, <2>1, <2>2, <2>3, <3>2, <3>3 DEF Registered
  <2>5. CASE c = "AddPath"
    <3>1. /\ paths'[pathName[o]] = None /\ \A n \in Names : n # pathName[o] => paths'[n] = paths[n]
          /\ closing'[o]["AddPath"] = "done"
          /\ \A p \in Objects : p # o => closing'[p]["AddPath"] = closing[p]["AddPath"]
      <4>1. paths' = [paths EXCEPT ![pathName[o]] = None] /\ paths \in [Names -> Optional(Objects)]
        BY Zenon, <2>5 DEF CloseEffect, VInv, TypeOK
      <4>2. closing'[o]["AddPath"] = "done" /\ \A p \in Objects : p # o => closing'[p]["AddPath"] = closing[p]["AddPath"]
        BY Zenon, <1>12, <2>5
      <4> QED
        BY Zenon, <1>1, <4>1, <4>2
    <3>2. paths[pathName[o]] = o
      BY ZenonT(30), <1>1, <2>5, <2>10
    <3>3. \A n \in Names : paths'[n] # None =>
             pathName'[paths'[n]] = n /\ closing'[paths'[n]]["AddPath"] # "done"
      <4> SUFFICES ASSUME NEW n \in Names, paths'[n] # None
                   PROVE  pathName'[paths'[n]] = n /\ closing'[paths'[n]]["AddPath"] # "done"
        BY Zenon
      <4>1. n # pathName[o] /\ paths'[n] = paths[n]
        BY Zenon, <3>1
      <4>2. paths[n] \in Objects /\ pathName[paths[n]] = n /\ closing[paths[n]]["AddPath"] # "done"
        BY Zenon, <1>4, <2>10, <4>1
      <4> QED
        BY Zenon, <1>16, <3>1, <4>1, <4>2
    <3>4. \A p \in Objects : pathName'[p] # None /\ closing'[p]["AddPath"] # "done" => paths'[pathName'[p]] = p
      <4> SUFFICES ASSUME NEW p \in Objects, pathName[p] # None, p # o, closing[p]["AddPath"] # "done"
                   PROVE  paths'[pathName[p]] = p
        BY Zenon, <1>16, <3>1
      <4>1. pathName[p] \in Names /\ paths[pathName[p]] = p
        <5>1. pathName[p] \in Optional(Names)
          BY Zenon DEF VInv, TypeOK
        <5> QED
          BY Zenon, <2>10, <5>1 DEF Optional
      <4> QED
        BY Zenon, <3>1, <3>2, <4>1
    <3> QED
      BY Zenon, <2>1, <2>2, <2>3, <3>3, <3>4 DEF Registered
  <2> QED
    BY Zenon, <2>4, <2>5
<1>7. Exclusive'
  <2>1. \A p \in Objects, d \in Closers : closing'[p][d] = "notReady" => closing[p][d] = "notReady" /\ p # o
    BY ZenonT(30), <1>12
  <2>2. \A s \in Sessions : sess'[s].at = "ready" => sess[s].at = "ready"
    BY Zenon, <1>13
  <2>3. \A s \in Sessions : sess[s].at = "ready" => sess[s].path # o /\ sess[s].path \in Objects
    <3> SUFFICES ASSUME NEW s \in Sessions, sess[s].at = "ready" PROVE sess[s].path # o /\ sess[s].path \in Objects
      BY Zenon
    <3>1. sess[s].path # o
      BY Zenon DEF VInv, Exclusive
    <3> QED
      BY Zenon, <3>1, ReadyPath
  <2>4. \A p \in Objects, d \in Closers : closing'[p][d] = "notReady" =>
           /\ mu'[p] /\ sourceReady'[p]
           /\ \A e \in Closers : closing'[p][e] = "notReady" => e = d
    BY <1>2, <2>1 DEF VInv, Exclusive
  <2>5. \A s \in Sessions : sess'[s].at = "ready" =>
           /\ sess'[s].state = "preRecord" /\ mu'[sess'[s].path]
           /\ ~canceled'[sess'[s].path] /\ ~sourceReady'[sess'[s].path]
    <3> SUFFICES ASSUME NEW s \in Sessions, sess'[s].at = "ready"
                 PROVE  /\ sess'[s].state = "preRecord" /\ mu'[sess'[s].path]
                        /\ ~canceled'[sess'[s].path] /\ ~sourceReady'[sess'[s].path]
      BY Zenon
    <3>1. /\ sess[s].state = "preRecord" /\ mu[sess[s].path]
          /\ ~canceled[sess[s].path] /\ ~sourceReady[sess[s].path]
      BY Zenon, <2>2 DEF VInv, Exclusive
    <3> QED
      BY Zenon, <1>2, <1>13, <2>2, <2>3, <3>1
  <2> QED
    BY Zenon, <2>4, <2>5 DEF Exclusive
<1>8. Muxed'
  <2>0. /\ \A p \in Objects : /\ mux[p].at # "none" => source[p] # None /\ pathName[p] # None
                              /\ sourceReady[p] => ~canceled[p] /\ mux[p].at # "none"
        /\ \A p \in Objects : closing[p]["muxer"] \in {"lock", "notReady"} => mux[p].at = "pathClose"
    BY Zenon DEF VInv, Muxed
  <2>1. \A p \in Objects : mux'[p].at = "none" <=> mux[p].at = "none"
    <3>1. c = "muxer" => mux[o].at = "pathClose"
      BY Zenon, <2>0
    <3> QED
      BY Zenon, <1>14, <3>1
  <2>3. \A p \in Objects :
           /\ mux'[p].at # "none" => source'[p] # None /\ pathName'[p] # None
           /\ sourceReady'[p] => ~canceled'[p] /\ mux'[p].at # "none"
    <3> SUFFICES ASSUME NEW p \in Objects
                 PROVE  /\ mux'[p].at # "none" => source'[p] # None /\ pathName'[p] # None
                        /\ sourceReady'[p] => ~canceled'[p] /\ mux'[p].at # "none"
      BY Zenon
    <3>1. sourceReady'[p] => p # o /\ sourceReady[p] /\ canceled'[p] = canceled[p]
      BY Zenon, <1>2
    <3> QED
      BY Zenon, <1>16, <2>0, <2>1, <3>1
  <2>4. \A p \in Objects : closing'[p]["muxer"] \in {"lock", "notReady"} => mux'[p].at = "pathClose"
    <3> SUFFICES ASSUME NEW p \in Objects, closing'[p]["muxer"] \in {"lock", "notReady"}
                 PROVE  mux'[p].at = "pathClose"
      BY Zenon
    <3>1. "muxer" \in Closers
      BY Zenon DEF Closers
    <3>2. ~(p = o /\ c = "muxer") /\ closing[p]["muxer"] \in {"lock", "notReady"}
      BY Zenon, <1>12, <3>1
    <3>3. mux'[p].at = mux[p].at
      BY Zenon, <1>14, <3>2
    <3> QED
      BY Zenon, <2>0, <3>2, <3>3
  <2>5. \A n \in Names : muxers'[n] # None =>
           /\ pathName'[muxers'[n]] = n
           /\ ~serverDone' => sourceReady'[muxers'[n]] /\ mux'[muxers'[n]].at \in {"select", "handle", "muxerClose"}
    <3> SUFFICES ASSUME NEW n \in Names, muxers'[n] # None
                 PROVE  /\ pathName'[muxers'[n]] = n
                        /\ ~serverDone' => /\ sourceReady'[muxers'[n]]
                                            /\ mux'[muxers'[n]].at \in {"select", "handle", "muxerClose"}
      BY Zenon
    <3>1. muxers'[n] = muxers[n] /\ muxers[n] \in Objects /\ (~serverDone => muxers[n] # o)
      BY Zenon, <1>4, <1>15
    <3>2. /\ pathName[muxers[n]] = n
          /\ ~serverDone => sourceReady[muxers[n]] /\ mux[muxers[n]].at \in {"select", "handle", "muxerClose"}
      BY Zenon, <3>1 DEF VInv, Muxed
    <3>3. ~serverDone => sourceReady'[muxers[n]] = sourceReady[muxers[n]] /\ mux'[muxers[n]].at = mux[muxers[n]].at
      BY Zenon, <1>2, <1>14, <3>1
    <3> QED
      BY Zenon, <1>16, <3>1, <3>2, <3>3
  <2> QED
    BY Zenon, <2>3, <2>4, <2>5 DEF Muxed
<1>9. Closed' /\ NoSecondMuxer'
  BY Zenon, <1>2, <1>16 DEF VInv, Closed, NoSecondMuxer
<1>10. SessionsFollowPath'
  <2> SUFFICES ASSUME NEW s \in Sessions, sess[s].path # None, canceled'[sess[s].path],
                      sess[s].at \in {"idle", "announce", "setup", "ready"}
               PROVE  sess'[s].ctxDone
    BY Zenon, <1>13 DEF SessionsFollowPath
  <2> QED
    BY Zenon, <1>2, <1>5, <1>13 DEF VInv, SessionsFollowPath
<1>11. Attached'
  <2> SUFFICES ASSUME NEW s \in Sessions PROVE AttachedTo(s)'
    BY Zenon DEF Attached
  <2>1. sess[s].state = "preRecord" => mux'[sess[s].path].at = "none"
    <3> SUFFICES ASSUME sess[s].state = "preRecord" PROVE mux'[sess[s].path].at = "none"
      BY Zenon
    <3>1. sess[s].path \in Objects /\ mux[sess[s].path].at = "none"
      BY Zenon, OneSession DEF AttachedTo
    <3>2. ~(sess[s].path = o /\ c = "muxer")
      BY Zenon, <3>1 DEF VInv, Muxed
    <3> QED
      BY Zenon, <1>14, <3>1, <3>2
  <2>2. sess[s].path # None /\ ~canceled'[sess[s].path] =>
           ~canceled[sess[s].path] /\ readers'[sess[s].path] = readers[sess[s].path]
    BY Zenon, <1>2, <1>5
  <2>3. AttachedTo(s)
    BY Zenon, OneSession
  <2> QED
    BY ZenonT(30), <1>13, <1>16, <2>1, <2>2, <2>3 DEF AttachedTo
<1> QED
  BY Zenon, <1>3, <1>6, <1>7, <1>8, <1>9, <1>10, <1>11 DEF VInv

\* What AfterClose does to the sessions and to the closers
LEMMA AfterCloseEffect ==
    ASSUME VInv, NEW o \in Objects, NEW c \in Closers,
           NEW sessions \in [Sessions -> SessionRecord], AfterClose(o, c, sessions)
    PROVE  /\ closing' \in ClosingTypes
           /\ \A p \in Objects, d \in Closers :
                 closing'[p][d] = IF p = o /\ d = c THEN "done" ELSE closing[p][d]
           /\ pmMu' \in BOOLEAN
           /\ sess' \in [Sessions -> SessionRecord]
           /\ \A s \in Sessions :
                 /\ sess'[s].path = sessions[s].path /\ sess'[s].state = sessions[s].state
                 /\ sess'[s].want = sessions[s].want /\ sess'[s].ctxDone = sessions[s].ctxDone
                 /\ sess'[s].at \in {sessions[s].at, "gone"}
<1>1. /\ closing' \in ClosingTypes
      /\ \A p \in Objects, d \in Closers :
            closing'[p][d] = IF p = o /\ d = c THEN "done" ELSE closing[p][d]
  BY Zenon DEF VInv, TypeOK, AfterClose, ClosingTypes
<1>2. pmMu' \in BOOLEAN
  BY Zenon DEF VInv, TypeOK, AfterClose
<1>3. \A r \in SessionRecord :
        /\ [r EXCEPT !.at = "gone"] \in SessionRecord
        /\ [r EXCEPT !.at = "gone"].at = "gone" /\ [r EXCEPT !.at = "gone"].path = r.path
        /\ [r EXCEPT !.at = "gone"].state = r.state /\ [r EXCEPT !.at = "gone"].want = r.want
        /\ [r EXCEPT !.at = "gone"].ctxDone = r.ctxDone
  BY ZenonT(30) DEF SessionRecord
<1>4. CASE c = "publisher"
  <2>1. sess' = [sessions EXCEPT ![source[o]] = [sessions[source[o]] EXCEPT !.at = "gone"]]
    BY Zenon, <1>4 DEF AfterClose
  <2>2. /\ DOMAIN sess' = Sessions
        /\ \A s \in Sessions : sess'[s] = IF s = source[o] THEN [sessions[s] EXCEPT !.at = "gone"] ELSE sessions[s]
        /\ sess' = [s \in Sessions |-> sess'[s]]
    BY Zenon, <2>1
  <2>3. \A s \in Sessions : sess'[s] \in SessionRecord
    BY <1>3, <2>2
  <2>4. sess' \in [Sessions -> SessionRecord]
    BY Zenon, <2>2, <2>3
  <2>5. \A s \in Sessions :
          /\ sess'[s].path = sessions[s].path /\ sess'[s].state = sessions[s].state
          /\ sess'[s].want = sessions[s].want /\ sess'[s].ctxDone = sessions[s].ctxDone
          /\ sess'[s].at \in {sessions[s].at, "gone"}
    <3> TAKE s \in Sessions
    <3>1. sessions[s] \in SessionRecord
      OBVIOUS
    <3>2. sess'[s] = sessions[s] \/ sess'[s] = [sessions[s] EXCEPT !.at = "gone"]
      BY Zenon, <2>2
    <3> QED BY ZenonT(30), <1>3, <3>1, <3>2
  <2> QED BY Zenon, <1>1, <1>2, <2>4, <2>5
<1>5. CASE c # "publisher"
  <2>1. sess' = sessions
    BY Zenon, <1>5 DEF AfterClose
  <2> QED BY Zenon, <1>1, <1>2, <2>1
<1> QED BY Zenon, <1>4, <1>5

\* close tells the publisher and the readers.
LEMMA CloseSessionsEffect ==
    ASSUME VInv, NEW o \in Objects, ~canceled[o]
    PROVE  /\ CloseSessions(o) \in [Sessions -> SessionRecord]
           /\ \A s \in Sessions :
                 /\ CloseSessions(o)[s].path = sess[s].path /\ CloseSessions(o)[s].state = sess[s].state
                 /\ CloseSessions(o)[s].want = sess[s].want /\ CloseSessions(o)[s].at = sess[s].at
                 /\ sess[s].ctxDone => CloseSessions(o)[s].ctxDone
                 /\ sess[s].path = o /\ sess[s].at \in {"idle", "announce", "setup", "ready"}
                      => CloseSessions(o)[s].ctxDone
<1>1. \A r \in SessionRecord :
        /\ [r EXCEPT !.ctxDone = TRUE] \in SessionRecord
        /\ [r EXCEPT !.ctxDone = TRUE].at = r.at /\ [r EXCEPT !.ctxDone = TRUE].path = r.path
        /\ [r EXCEPT !.ctxDone = TRUE].state = r.state /\ [r EXCEPT !.ctxDone = TRUE].want = r.want
        /\ [r EXCEPT !.ctxDone = TRUE].ctxDone
  BY Zenon DEF SessionRecord
<1>2. \A s \in Sessions : sess[s] \in SessionRecord
  BY Zenon DEF VInv, TypeOK
<1>3. \A s \in Sessions :
        CloseSessions(o)[s] = IF s = source[o] \/ s \in readers[o]
                              THEN [sess[s] EXCEPT !.ctxDone = TRUE] ELSE sess[s]
  BY Zenon DEF CloseSessions
<1>4. CloseSessions(o) \in [Sessions -> SessionRecord]
  BY Zenon, <1>1, <1>2 DEF CloseSessions
<1>5. \A s \in Sessions : sess[s].path = o /\ sess[s].at \in {"idle", "announce", "setup", "ready"}
        => s = source[o] \/ s \in readers[o]
  BY OneSession, Distinct DEF AttachedTo
<1> SUFFICES ASSUME NEW s \in Sessions
             PROVE  /\ CloseSessions(o)[s].path = sess[s].path /\ CloseSessions(o)[s].state = sess[s].state
                    /\ CloseSessions(o)[s].want = sess[s].want /\ CloseSessions(o)[s].at = sess[s].at
                    /\ sess[s].ctxDone => CloseSessions(o)[s].ctxDone
                    /\ sess[s].path = o /\ sess[s].at \in {"idle", "announce", "setup", "ready"}
                         => CloseSessions(o)[s].ctxDone
  BY Zenon, <1>4
<1>6. CASE s = source[o] \/ s \in readers[o]
  <2>1. CloseSessions(o)[s] = [sess[s] EXCEPT !.ctxDone = TRUE]
    BY Zenon, <1>3, <1>6
  <2> QED BY ZenonT(30), <1>1, <1>2, <2>1
<1>7. CASE ~(s = source[o] \/ s \in readers[o])
  BY Zenon, <1>3, <1>5, <1>7
<1> QED BY Zenon, <1>6, <1>7

\* The muxer that closed its path waits for its writer, or has ended.
LEMMA MuxAfterCloseEffect ==
    ASSUME NEW o \in Objects, NEW c \in Closers, NEW m \in [Objects -> MuxRecord]
    PROVE  /\ MuxAfterClose(o, c, m) \in [Objects -> MuxRecord]
           /\ \A p \in Objects :
                 IF p = o /\ c = "muxer" THEN MuxAfterClose(o, c, m)[p].at \in {"done", "wait"}
                                         ELSE MuxAfterClose(o, c, m)[p].at = m[p].at
<1>1. CASE c # "muxer"
  BY Zenon, <1>1 DEF MuxAfterClose
<1>2. CASE c = "muxer"
  <2> DEFINE at == IF m[o].inner = "sent" THEN "done" ELSE "wait"
             inner == IF m[o].inner = "running" THEN "ended" ELSE m[o].inner
             r == [m[o] EXCEPT !.at = at, !.inner = inner]
  <2>1. MuxAfterClose(o, c, m) = [m EXCEPT ![o] = r]
    BY Zenon, <1>2 DEF MuxAfterClose, MuxRecord
  <2>2. at \in {"done", "wait"} /\ inner \in {"none", "running", "failed", "ended", "sent"} /\ m[o] \in MuxRecord
    BY Zenon DEF MuxRecord
  <2> HIDE DEF at, inner
  <2>3. r \in MuxRecord /\ r.at = at
    BY Zenon, <2>2 DEF MuxRecord
  <2> HIDE DEF r
  <2> QED BY Zenon, <1>2, <2>1, <2>2, <2>3
<1> QED BY Zenon, <1>1, <1>2

\* Only a ready path has its muxer in the map of a running HLS server.
LEMMA ReadyMuxers ==
    ASSUME VInv, NEW o \in Objects, canceled[o] \/ ~sourceReady[o]
    PROVE  \A n \in Names : muxers[n] = o => serverDone
<1>1. \A n \in Names : muxers[n] # None /\ ~serverDone => sourceReady[muxers[n]]
  BY Zenon DEF VInv, Muxed
<1>2. ~sourceReady[o]
  BY Zenon DEF VInv, Muxed
<1> QED
  BY Zenon, <1>1, <1>2, Distinct

\* The close of a path that is closed already
LEMMA CloseAgainKeeps ==
    ASSUME VInv, NEW o \in Objects, NEW c \in Closers, CloseAgain(o, c)
    PROVE  VInv'
<1>1. /\ closing[o][c] = "lock" /\ ~mu[o] /\ canceled[o] /\ AfterClose(o, c, sess)
      /\ mux' = MuxAfterClose(o, c, mux)
      /\ UNCHANGED <<owner, created, pathVars, rtspMu, serverVars, req>>
  BY Zenon DEF CloseAgain
<1>2. sess \in [Sessions -> SessionRecord] /\ mux \in [Objects -> MuxRecord]
  BY Zenon DEF VInv, TypeOK
<1>3. \A d \in Closers : closing[o][d] # "notReady"
  BY Zenon, <1>1 DEF VInv, Exclusive
<1>4. /\ mu' = [mu EXCEPT ![o] = FALSE] /\ sourceReady' = [sourceReady EXCEPT ![o] = FALSE]
      /\ canceled' = [canceled EXCEPT ![o] = TRUE] /\ readers' = [readers EXCEPT ![o] = {}]
  <2>1. ~sourceReady[o] /\ readers[o] = {}
    BY Zenon, <1>1 DEF VInv, Muxed, Closed
  <2> QED
    BY Zenon, <1>1, <2>1 DEF VInv, TypeOK, pathVars
<1>5. \A s \in Sessions : sess[s].path = o /\ sess[s].at \in {"idle", "announce", "setup", "ready"} => sess[s].ctxDone
  BY Zenon, <1>1, Distinct DEF VInv, SessionsFollowPath
<1>6. \A n \in Names : muxers'[n] \in {None, muxers[n]} /\ (muxers'[n] = o => serverDone)
  BY Zenon, <1>1, ReadyMuxers DEF serverVars
<1>7. paths' = IF c = "AddPath" THEN [paths EXCEPT ![pathName[o]] = None] ELSE paths
  BY Zenon, <1>1 DEF AfterClose
<1>8. muxers' \in [Names -> Optional(Objects)]
  BY Zenon, <1>1 DEF VInv, TypeOK, serverVars
<1>9. /\ closing' \in ClosingTypes
      /\ \A p \in Objects, d \in Closers :
            closing'[p][d] = IF p = o /\ d = c THEN "done" ELSE closing[p][d]
      /\ pmMu' \in BOOLEAN /\ sess' \in [Sessions -> SessionRecord]
      /\ \A s \in Sessions :
            /\ sess'[s].path = sess[s].path /\ sess'[s].state = sess[s].state
            /\ sess'[s].want = sess[s].want /\ sess'[s].ctxDone = sess[s].ctxDone
            /\ sess'[s].at \in {sess[s].at, "gone"}
  BY <1>1, <1>2, AfterCloseEffect
<1>10. \A s \in Sessions :
          /\ sess[s].ctxDone => sess'[s].ctxDone
          /\ sess[s].path = o /\ sess[s].at \in {"idle", "announce", "setup", "ready"} => sess'[s].ctxDone
  BY Zenon, <1>5, <1>9
<1>11. /\ mux' \in [Objects -> MuxRecord]
       /\ \A p \in Objects :
            IF p = o /\ c = "muxer" THEN mux'[p].at \in {"done", "wait"} ELSE mux'[p].at = mux[p].at
  BY <1>1, <1>2, MuxAfterCloseEffect
<1>12. UNCHANGED <<owner, created, pathName, ctxDone, source, rtspMu, server, serverDone, req>>
  BY Zenon, <1>1 DEF pathVars, serverVars
<1>13. CloseEffect(o, c)
  BY Zenon, <1>4, <1>6, <1>7, <1>8, <1>9, <1>10, <1>11, <1>12 DEF CloseEffect
<1> QED BY Zenon, <1>1, <1>3, <1>13, CloseEffectKeeps

\* The rest of close, with or without a muxer to take leave of
LEMMA CloseRestEffect ==
    ASSUME VInv, NEW o \in Objects, NEW c \in Closers, ~canceled[o], CloseRest(o, c),
           NEW m \in [Objects -> MuxRecord], \A p \in Objects : m[p].at = mux[p].at,
           mux' = MuxAfterClose(o, c, m), muxers' \in [Names -> Optional(Objects)],
           \A n \in Names : muxers'[n] \in {None, muxers[n]} /\ (muxers'[n] = o => serverDone),
           UNCHANGED <<server, serverDone>>
    PROVE  CloseEffect(o, c)
<1>1. /\ mu' = [mu EXCEPT ![o] = FALSE] /\ sourceReady' = [sourceReady EXCEPT ![o] = FALSE]
      /\ canceled' = [canceled EXCEPT ![o] = TRUE] /\ readers' = [readers EXCEPT ![o] = {}]
      /\ AfterClose(o, c, CloseSessions(o))
      /\ UNCHANGED <<owner, created, pathName, ctxDone, source, rtspMu, req>>
      /\ paths' = IF c = "AddPath" THEN [paths EXCEPT ![pathName[o]] = None] ELSE paths
  BY Zenon DEF CloseRest, AfterClose
<1> DEFINE told == CloseSessions(o)
<1>6. /\ told \in [Sessions -> SessionRecord]
      /\ \A s \in Sessions :
            /\ told[s].path = sess[s].path /\ told[s].state = sess[s].state
            /\ told[s].want = sess[s].want /\ told[s].at = sess[s].at
            /\ sess[s].ctxDone => told[s].ctxDone
            /\ sess[s].path = o /\ sess[s].at \in {"idle", "announce", "setup", "ready"} => told[s].ctxDone
  BY Zenon, CloseSessionsEffect
<1>7. AfterClose(o, c, told)
  BY Zenon, <1>1
<1> HIDE DEF told
<1>2. /\ closing' \in ClosingTypes
      /\ \A p \in Objects, d \in Closers :
            closing'[p][d] = IF p = o /\ d = c THEN "done" ELSE closing[p][d]
      /\ pmMu' \in BOOLEAN
      /\ sess' \in [Sessions -> SessionRecord]
      /\ \A s \in Sessions :
            /\ sess'[s].path = told[s].path /\ sess'[s].state = told[s].state
            /\ sess'[s].want = told[s].want /\ sess'[s].ctxDone = told[s].ctxDone
            /\ sess'[s].at \in {told[s].at, "gone"}
  BY Zenon, <1>6, <1>7, AfterCloseEffect
<1>4. \A s \in Sessions :
          /\ sess'[s].path = sess[s].path /\ sess'[s].state = sess[s].state /\ sess'[s].want = sess[s].want
          /\ sess'[s].at \in {sess[s].at, "gone"}
          /\ sess[s].ctxDone => sess'[s].ctxDone
          /\ sess[s].path = o /\ sess[s].at \in {"idle", "announce", "setup", "ready"} => sess'[s].ctxDone
  BY Zenon, <1>2, <1>6
<1>5. /\ mux' \in [Objects -> MuxRecord]
      /\ \A p \in Objects :
            IF p = o /\ c = "muxer" THEN mux'[p].at \in {"done", "wait"} ELSE mux'[p].at = mux[p].at
  BY MuxAfterCloseEffect
<1> QED BY Zenon, <1>1, <1>2, <1>4, <1>5 DEF CloseEffect

\* The close of a path without a muxer
LEMMA CloseNotReadyKeeps ==
    ASSUME VInv, NEW o \in Objects, NEW c \in Closers, CloseNotReady(o, c)
    PROVE  VInv'
<1>1. /\ closing[o][c] = "lock" /\ ~mu[o] /\ ~canceled[o] /\ ~sourceReady[o]
      /\ CloseRest(o, c) /\ mux' = MuxAfterClose(o, c, mux) /\ UNCHANGED serverVars
  BY Zenon DEF CloseNotReady
<1>2. \A d \in Closers : closing[o][d] # "notReady"
  BY Zenon, <1>1 DEF VInv, Exclusive
<1>3. \A n \in Names : muxers'[n] \in {None, muxers[n]} /\ (muxers'[n] = o => serverDone)
  BY Zenon, <1>1, ReadyMuxers DEF serverVars
<1>4. mux \in [Objects -> MuxRecord] /\ muxers' \in [Names -> Optional(Objects)] /\ UNCHANGED <<server, serverDone>>
  BY Zenon, <1>1 DEF VInv, TypeOK, serverVars
<1>5. CloseEffect(o, c)
  BY Zenon, <1>1, <1>3, <1>4, CloseRestEffect
<1> QED BY Zenon, <1>1, <1>2, <1>5, CloseEffectKeeps

\* The close of a path whose muxer the HLS server has given up, or will not give up
LEMMA PathSourceNotReadyKeeps ==
    ASSUME VInv, NEW o \in Objects, NEW c \in Closers,
           PathSourceNotReady(o, c) \/ NotReadyCanceled(o, c)
    PROVE  VInv'
<1>1. closing[o][c] = "notReady" /\ CloseRest(o, c) /\ UNCHANGED <<server, serverDone>>
  BY Zenon DEF PathSourceNotReady, NotReadyCanceled, serverVars
<1>2. ~canceled[o] /\ pathName[o] \in Names /\ \A d \in Closers : d # c => closing[o][d] # "notReady"
  <2>1. sourceReady[o] /\ \A d \in Closers : d # c => closing[o][d] # "notReady"
    BY Zenon, <1>1 DEF VInv, Exclusive
  <2>2. ~canceled[o]
    BY Zenon, <2>1 DEF VInv, Muxed
  <2>3. pathName[o] # None
    BY ZenonT(30), <1>1 DEF VInv, Registered
  <2>4. pathName[o] \in Names
    BY Zenon, <2>3 DEF VInv, TypeOK, Optional
  <2> QED
    BY Zenon, <2>1, <2>2, <2>4
<1>3. mux \in [Objects -> MuxRecord] /\ muxers \in [Names -> Optional(Objects)]
  BY Zenon DEF VInv, TypeOK
<1>4. CASE PathSourceNotReady(o, c)
  <2> DEFINE p == muxers[pathName[o]]
             m == IF p = None THEN mux ELSE [mux EXCEPT ![p].ctxDone = TRUE]
  <2>1. muxers' = [muxers EXCEPT ![pathName[o]] = None] /\ mux' = MuxAfterClose(o, c, m)
    BY Zenon, <1>4 DEF PathSourceNotReady
  <2>2. muxers' \in [Names -> Optional(Objects)] /\ \A n \in Names : muxers'[n] \in {None, muxers[n]}
    BY Zenon, <1>2, <1>3, <2>1 DEF Optional
  <2>3. \A n \in Names : muxers'[n] # o
    BY <1>2, <1>3, <2>1, Distinct DEF VInv, Muxed
  <2>4. m \in [Objects -> MuxRecord] /\ \A q \in Objects : m[q].at = mux[q].at
    <3>1. \A r \in MuxRecord : [r EXCEPT !.ctxDone = TRUE] \in MuxRecord /\ [r EXCEPT !.ctxDone = TRUE].at = r.at
      BY Zenon DEF MuxRecord
    <3>2. p # None => p \in Objects
      BY Zenon, <1>2, <1>3 DEF Optional
    <3> HIDE DEF p
    <3> QED BY Zenon, <1>3, <3>1, <3>2
  <2> HIDE DEF m
  <2>6. \A n \in Names : muxers'[n] \in {None, muxers[n]} /\ (muxers'[n] = o => serverDone)
    BY Zenon, <2>2, <2>3
  <2>7. mux' = MuxAfterClose(o, c, m)
    BY Zenon, <2>1
  <2>5. CloseEffect(o, c)
    BY Zenon, <1>1, <1>2, <2>2, <2>4, <2>6, <2>7, CloseRestEffect
  <2> QED BY Zenon, <1>1, <1>2, <2>5, CloseEffectKeeps
<1>5. CASE NotReadyCanceled(o, c)
  <2>1. serverDone /\ muxers' = muxers /\ mux' = MuxAfterClose(o, c, mux)
    BY Zenon, <1>5 DEF NotReadyCanceled, serverVars
  <2>2. CloseEffect(o, c)
    BY Zenon, <1>1, <1>2, <1>3, <2>1, CloseRestEffect
  <2> QED BY Zenon, <1>1, <1>2, <2>2, CloseEffectKeeps
<1> QED BY Zenon, <1>4, <1>5

\* The goroutine of a muxer goes on from where it was, before its cleanup asks
\* the HLS server or after it has closed the path.
MuxGoesOn(o) ==
    \/ mux'[o].at = mux[o].at
    \/ {mux[o].at, mux'[o].at} \subseteq {"select", "handle", "muxerClose"}
    \/ mux[o].at = "wait" /\ mux'[o].at = "done"

\* A step of a muxer, of a request or of the HLS server that no path is told of.
LEMMA ServingKeeps ==
    ASSUME VInv, mux' \in [Objects -> MuxRecord], req' \in [Requests -> RequestRecord],
           server' \in ServerRecord, serverDone' \in BOOLEAN,
           \A o \in Objects : MuxGoesOn(o),
           server'.at = "stuck" => server.at = "stuck", serverDone => serverDone',
           UNCHANGED <<managerVars, pathVars, rtspMu, sess, muxers, closing>>
    PROVE  VInv'
<1>1. TypeOK'
  BY Zenon DEF VInv, TypeOK, managerVars, pathVars
<1>2. Registered' /\ Closed'
  BY Zenon, RegisteredStays DEF VInv, managerVars, pathVars, Closed
<1>3. Exclusive'
  BY Zenon, ExclusiveMoves DEF VInv, pathVars
<1>4. \A o \in Objects : mux'[o].at = "none" <=> mux[o].at = "none"
  BY Zenon DEF MuxGoesOn
<1>5. Attached' /\ SessionsFollowPath'
  BY Zenon, <1>4, SessionsStay DEF pathVars
<1>6. Muxed'
  <2>1. \A o \in Objects :
          /\ mux'[o].at # "none" => source[o] # None /\ pathName[o] # None
          /\ sourceReady[o] => ~canceled[o] /\ mux'[o].at # "none"
    BY Zenon, <1>4 DEF VInv, Muxed
  <2>2. \A o \in Objects : mux[o].at = "pathClose" => mux'[o].at = "pathClose"
    BY Zenon DEF MuxGoesOn
  <2>3. \A o \in Objects : mux[o].at \in {"select", "handle", "muxerClose"}
                             => mux'[o].at \in {"select", "handle", "muxerClose"}
    BY Zenon DEF MuxGoesOn
  <2>4. \A n \in Names : muxers[n] # None => muxers[n] \in Objects
    BY Zenon DEF VInv, TypeOK, Optional
  <2> QED
    BY Zenon, <2>1, <2>2, <2>3, <2>4 DEF VInv, pathVars, Muxed
<1>7. NoSecondMuxer'
  BY Zenon DEF VInv, NoSecondMuxer
<1> QED
  BY Zenon, <1>1, <1>2, <1>3, <1>5, <1>6, <1>7 DEF VInv

\* A record of a muxer stays one.
LEMMA MuxRecords ==
    ASSUME NEW m \in MuxRecord
    PROVE  /\ \A i \in {"failed", "sent"} : [m EXCEPT !.inner = i] \in MuxRecord
           /\ \A a \in {"select", "handle"}, r \in Optional(Requests) :
                 [m EXCEPT !.at = a, !.req = r] \in MuxRecord
           /\ [m EXCEPT !.at = "muxerClose", !.ctxDone = TRUE] \in MuxRecord
           /\ [m EXCEPT !.at = "muxerClose", !.ctxDone = TRUE, !.inner = "sent"] \in MuxRecord
           /\ [m EXCEPT !.at = "done", !.inner = "sent"] \in MuxRecord
           /\ [m EXCEPT !.at = "pathClose"] \in MuxRecord
BY Zenon DEF MuxRecord

\* A request that is answered, or passed on to a muxer
LEMMA RequestMoves ==
    ASSUME VInv, NEW r, NEW a \in {"waiting", "done"}, req' = [req EXCEPT ![r].at = a]
    PROVE  req' \in [Requests -> RequestRecord]
<1>1. req \in [Requests -> RequestRecord]
  BY Zenon DEF VInv, TypeOK
<1>2. \A q \in RequestRecord : [q EXCEPT !.at = a] \in RequestRecord
  BY Zenon DEF RequestRecord, Optional
<1> QED
  BY Zenon, <1>1, <1>2

\* The steps of a muxer that tell no path
LEMMA MuxStepKeeps ==
    ASSUME VInv, NEW o \in Objects,
           HandleRequest(o) \/ InnerFails(o) \/ CleanupCanceled(o) \/ CleanupFailed(o) \/ InnerReturned(o)
    PROVE  VInv'
<1>1. mux \in [Objects -> MuxRecord] /\ req \in [Requests -> RequestRecord] /\ server \in ServerRecord
      /\ serverDone \in BOOLEAN
  BY Zenon DEF VInv, TypeOK
<1>2. UNCHANGED <<managerVars, pathVars, rtspMu, sess, serverDone, muxers, req, closing>>
  BY Zenon DEF HandleRequest, InnerFails, CleanupCanceled, CleanupFailed, InnerReturned, serverVars
<1>3. server' \in ServerRecord /\ (server'.at = "stuck" => server.at = "stuck")
  BY <1>1 DEF HandleRequest, InnerFails, CleanupCanceled, CleanupFailed, InnerReturned, serverVars, ServerRecord
<1>4. PICK m \in MuxRecord : mux' = [mux EXCEPT ![o] = m] /\
         \/ m.at = mux[o].at
         \/ {mux[o].at, m.at} \subseteq {"select", "handle", "muxerClose"}
         \/ mux[o].at = "wait" /\ m.at = "done"
  <2>1. mux[o] \in MuxRecord
    BY Zenon, <1>1
  <2>2. CASE HandleRequest(o)
    <3>1. server.req \in Optional(Requests)
      BY Zenon, <1>1, <2>2 DEF HandleRequest, ServerRecord, Optional
    <3>2. mux' = [mux EXCEPT ![o] = [mux[o] EXCEPT !.at = "handle", !.req = server.req]]
      BY Zenon, <1>1, <2>2 DEF HandleRequest
    <3>3. [mux[o] EXCEPT !.at = "handle", !.req = server.req] \in MuxRecord
      BY Zenon, <2>1, <3>1, MuxRecords
    <3>4. [mux[o] EXCEPT !.at = "handle", !.req = server.req].at = "handle" /\ mux[o].at = "select"
      BY Zenon, <2>1, <2>2 DEF HandleRequest, MuxRecord
    <3> QED
      BY Zenon, <3>2, <3>3, <3>4
  <2>3. CASE InnerFails(o)
    <3>1. mux' = [mux EXCEPT ![o] = [mux[o] EXCEPT !.inner = "failed"]]
      BY Zenon, <1>1, <2>3 DEF InnerFails
    <3>2. [mux[o] EXCEPT !.inner = "failed"] \in MuxRecord
      BY Zenon, <2>1, MuxRecords
    <3>3. [mux[o] EXCEPT !.inner = "failed"].at = mux[o].at
      BY Zenon, <2>1 DEF MuxRecord
    <3> QED
      BY Zenon, <3>1, <3>2, <3>3
  <2>4. CASE CleanupCanceled(o)
    <3>1. mux' = [mux EXCEPT ![o] = [mux[o] EXCEPT !.at = "muxerClose", !.ctxDone = TRUE]]
      BY Zenon, <1>1, <2>4 DEF CleanupCanceled
    <3>2. [mux[o] EXCEPT !.at = "muxerClose", !.ctxDone = TRUE] \in MuxRecord
      BY Zenon, <2>1, MuxRecords
    <3>3. [mux[o] EXCEPT !.at = "muxerClose", !.ctxDone = TRUE].at = "muxerClose" /\ mux[o].at = "select"
      BY Zenon, <2>1, <2>4 DEF CleanupCanceled, MuxRecord
    <3> QED
      BY Zenon, <3>1, <3>2, <3>3
  <2>5. CASE CleanupFailed(o)
    <3>1. mux' = [mux EXCEPT ![o] = [mux[o] EXCEPT !.at = "muxerClose", !.ctxDone = TRUE, !.inner = "sent"]]
      BY Zenon, <1>1, <2>5 DEF CleanupFailed
    <3>2. [mux[o] EXCEPT !.at = "muxerClose", !.ctxDone = TRUE, !.inner = "sent"] \in MuxRecord
      BY Zenon, <2>1, MuxRecords
    <3>3. [mux[o] EXCEPT !.at = "muxerClose", !.ctxDone = TRUE, !.inner = "sent"].at = "muxerClose"
          /\ mux[o].at = "select"
      BY Zenon, <2>1, <2>5 DEF CleanupFailed, MuxRecord
    <3> QED
      BY Zenon, <3>1, <3>2, <3>3
  <2>6. CASE InnerReturned(o)
    <3>1. mux' = [mux EXCEPT ![o] = [mux[o] EXCEPT !.at = "done", !.inner = "sent"]]
      BY Zenon, <1>1, <2>6 DEF InnerReturned
    <3>2. [mux[o] EXCEPT !.at = "done", !.inner = "sent"] \in MuxRecord
      BY Zenon, <2>1, MuxRecords
    <3>3. [mux[o] EXCEPT !.at = "done", !.inner = "sent"].at = "done" /\ mux[o].at = "wait"
      BY Zenon, <2>1, <2>6 DEF InnerReturned, MuxRecord
    <3> QED
      BY Zenon, <3>1, <3>2, <3>3
  <2> QED
    BY Zenon, <2>2, <2>3, <2>4, <2>5, <2>6
<1>5. mux' \in [Objects -> MuxRecord] /\ \A p \in Objects : MuxGoesOn(p)
  BY ZenonT(30), <1>1, <1>4 DEF MuxGoesOn
<1> QED
  BY Zenon, <1>1, <1>2, <1>3, <1>5, ServingKeeps

\* A blocking request is answered, or a request for a file is.
LEMMA AnswerKeeps ==
    ASSUME VInv, NEW o \in Objects, Answer(o)
    PROVE  VInv'
<1>1. mux \in [Objects -> MuxRecord] /\ req \in [Requests -> RequestRecord] /\ server \in ServerRecord
      /\ serverDone \in BOOLEAN
  BY Zenon DEF VInv, TypeOK
<1>2. UNCHANGED <<managerVars, pathVars, rtspMu, sess, serverVars, closing>>
  BY Zenon DEF Answer
<1>3. req' \in [Requests -> RequestRecord]
  BY Zenon, RequestMoves DEF Answer
<1>4. mux' = [mux EXCEPT ![o] = [mux[o] EXCEPT !.at = "select", !.req = None]] /\ mux[o].at = "handle"
  BY Zenon, <1>1 DEF Answer
<1>5. [mux[o] EXCEPT !.at = "select", !.req = None] \in MuxRecord
  BY Zenon, <1>1, MuxRecords DEF Optional
<1>6. [mux[o] EXCEPT !.at = "select", !.req = None].at = "select"
  BY Zenon, <1>1 DEF MuxRecord
<1>7. mux' \in [Objects -> MuxRecord] /\ \A p \in Objects : MuxGoesOn(p)
  BY Zenon, <1>1, <1>4, <1>5, <1>6 DEF MuxGoesOn
<1> QED
  BY Zenon, <1>1, <1>2, <1>3, <1>7, ServingKeeps DEF serverVars

\* What the clients and the HLS server do to each other
LEMMA RequestKeeps ==
    ASSUME VInv,
           \/ \E r \in Requests, kind \in Kinds, n \in Names : Request(r, kind, n)
           \/ \E r \in Requests : RequestStep(r)
           \/ ServerStep \/ Shutdown
    PROVE  VInv'
<1>1. mux \in [Objects -> MuxRecord] /\ req \in [Requests -> RequestRecord] /\ server \in ServerRecord
      /\ serverDone \in BOOLEAN /\ muxers \in [Names -> Optional(Objects)]
  BY Zenon DEF VInv, TypeOK
<1>2. UNCHANGED <<managerVars, pathVars, rtspMu, sess, mux, muxers, closing>>
  BY Zenon DEF Request, RequestStep, RequestCanceled, ServeRequest, ServerStep, OnRequestCanceled, ServerStops,
               Shutdown, serverVars
<1>3. serverDone' \in BOOLEAN /\ (serverDone => serverDone')
  BY Zenon, <1>1 DEF Request, RequestStep, RequestCanceled, ServeRequest, ServerStep, OnRequestCanceled, ServerStops,
               Shutdown, serverVars
<1> DEFINE Answered == /\ req' \in [Requests -> RequestRecord] /\ server' \in ServerRecord
                       /\ server'.at = "stuck" => server.at = "stuck"
<1>4. Answered
  <2>1. ASSUME NEW r \in Requests, NEW kind \in Kinds, NEW n \in Names, Request(r, kind, n)
        PROVE  Answered
    <3>1. [at |-> "sending", kind |-> kind, name |-> n] \in RequestRecord
      BY Zenon DEF RequestRecord
    <3> QED
      BY Zenon, <1>1, <2>1, <3>1 DEF Request, serverVars
  <2>2. ASSUME NEW r \in Requests, RequestCanceled(r)
        PROVE  Answered
    BY Zenon, <1>1, <2>2, RequestMoves DEF RequestCanceled, serverVars
  <2>3. ASSUME NEW r \in Requests, ServeRequest(r)
        PROVE  Answered
    <3> DEFINE m == muxers[req[r].name]
               pass == req[r].kind # "muxer" /\ m # None
    <3>1. /\ req' = [req EXCEPT ![r].at = IF pass THEN "waiting" ELSE "done"]
          /\ server' = IF pass THEN [at |-> "onRequest", mux |-> m, req |-> r] ELSE server
          /\ req[r].at = "sending" /\ req[r] \in RequestRecord
      BY Zenon, <1>1, <2>3 DEF ServeRequest
    <3>2. req[r].name \in Names
      BY Zenon, <3>1 DEF RequestRecord
    <3>3. m # None => m \in Objects
      BY Zenon, <1>1, <3>2 DEF Optional
    <3>4. (IF pass THEN "waiting" ELSE "done") \in {"waiting", "done"}
      BY Zenon
    <3> HIDE DEF m
    <3>5. req' \in [Requests -> RequestRecord]
      BY Zenon, <3>1, <3>4, RequestMoves
    <3>6. server' \in ServerRecord /\ (server'.at = "stuck" => server.at = "stuck")
      BY Zenon, <1>1, <3>1, <3>3 DEF ServerRecord
    <3> QED
      BY Zenon, <3>5, <3>6
  <2>4. CASE OnRequestCanceled
    <3>1. req' \in [Requests -> RequestRecord]
      BY Zenon, <2>4, RequestMoves DEF OnRequestCanceled
    <3> QED
      BY Zenon, <2>4, <3>1 DEF OnRequestCanceled, ServerRecord
  <2>5. CASE ServerStops \/ Shutdown
    <3>1. req' = req /\ (server' = server \/ server' = [at |-> "ended"])
      BY Zenon, <2>5 DEF ServerStops, Shutdown
    <3>2. [at |-> "ended"] \in ServerRecord /\ [at |-> "ended"].at # "stuck"
      BY Zenon DEF ServerRecord
    <3> QED
      BY Zenon, <1>1, <3>1, <3>2
  <2> QED
    BY Zenon, <2>1, <2>2, <2>3, <2>4, <2>5 DEF RequestStep, ServerStep
<1>5. \A o \in Objects : MuxGoesOn(o)
  BY Zenon, <1>2 DEF MuxGoesOn
<1> QED
  BY Zenon, <1>1, <1>2, <1>3, <1>4, <1>5, ServingKeeps

\* The cleanup of a muxer removes the muxer of its name from the HLS server, its
\* own or the one of a later object, and goes on to close its path.
LEMMA MuxerCloseKeeps ==
    ASSUME VInv, NEW o \in Objects, MuxerClose(o)
    PROVE  VInv'
<1>1. /\ mux[o].at = "muxerClose" /\ mux' = [mux EXCEPT ![o] = [mux[o] EXCEPT !.at = "pathClose"]]
      /\ \/ muxers' = [muxers EXCEPT ![pathName[o]] = None]
         \/ serverDone /\ muxers' = muxers
      /\ closing' = [closing EXCEPT ![o].muxer = "lock"]
      /\ UNCHANGED <<managerVars, pathVars, rtspMu, sess, server, serverDone, req>>
  BY Zenon DEF VInv, TypeOK, MuxerClose
<1>2. pathName[o] \in Names
  <2>1. pathName[o] # None
    BY Zenon, <1>1 DEF VInv, Muxed
  <2> QED
    BY Zenon, <2>1 DEF VInv, TypeOK, Optional
<1>3. /\ mux' \in [Objects -> MuxRecord] /\ mux'[o].at = "pathClose"
      /\ \A p \in Objects : p # o => mux'[p] = mux[p]
  <2>1. mux[o] \in MuxRecord /\ mux \in [Objects -> MuxRecord]
    BY Zenon DEF VInv, TypeOK
  <2>2. [mux[o] EXCEPT !.at = "pathClose"] \in MuxRecord
    BY Zenon, <2>1, MuxRecords
  <2>3. [mux[o] EXCEPT !.at = "pathClose"].at = "pathClose"
    BY Zenon, <2>1 DEF MuxRecord
  <2> QED
    BY Zenon, <1>1, <2>1, <2>2, <2>3
<1>4. /\ muxers' \in [Names -> Optional(Objects)]
      /\ \A n \in Names : muxers'[n] \in {None, muxers[n]} /\ (muxers'[n] = o => serverDone)
  <2>1. muxers \in [Names -> Optional(Objects)]
    BY Zenon DEF VInv, TypeOK
  <2>2. \A n \in Names : muxers[n] = o => pathName[o] = n
    BY Zenon, Distinct DEF VInv, Muxed
  <2> QED
    BY ZenonT(30), <1>1, <1>2, <2>1, <2>2, Distinct DEF Optional
<1>5. /\ closing' \in ClosingTypes
      /\ \A p \in Objects, d \in Closers :
            closing'[p][d] = IF p = o /\ d = "muxer" THEN "lock" ELSE closing[p][d]
  BY ZenonT(30), <1>1 DEF VInv, TypeOK, ClosingTypes, Closers
<1>6. TypeOK'
  BY Zenon, <1>1, <1>3, <1>4, <1>5 DEF VInv, TypeOK, ClosingTypes, managerVars, pathVars
<1>7. Registered'
  <2>1. pathName[o] # None
    BY Zenon, <1>2, Distinct
  <2>2. \A p \in Objects : closing'[p]["AddPath"] = closing[p]["AddPath"] /\ closing'[p]["newPath"] = closing[p]["newPath"]
    BY Zenon, <1>5 DEF Closers
  <2>3. \A n \in Names : owner[n] # None =>
           closing'[owner[n]]["AddPath"] = "no" /\ closing'[owner[n]]["newPath"] = "no"
    BY ZenonT(30), <2>2, NamedObjects DEF VInv, Registered
  <2>4. \A p \in Objects, d \in Closers :
           closing'[p][d] # closing[p][d] => pathName[p] # None /\ closing'[p][d] # "done"
    BY ZenonT(30), <1>5, <2>1
  <2> QED
    BY ZenonT(30), <1>1, <2>2, <2>3, <2>4, RegisteredMoves DEF managerVars, pathVars
<1>8. Exclusive'
  <2>1. \A p \in Objects, d \in Closers : closing'[p][d] = "notReady" => closing[p][d] = "notReady"
    BY Zenon, <1>5
  <2> QED
    BY Zenon, <1>1, <2>1, ExclusiveMoves DEF VInv, pathVars
<1>9. Attached' /\ SessionsFollowPath'
  <2>1. \A p \in Objects : mux[p].at = "none" => mux'[p].at = "none"
    BY Zenon, <1>1, <1>3
  <2> QED
    BY Zenon, <1>1, <2>1, SessionsStay DEF pathVars
<1>10. Muxed'
  <2>1. \A p \in Objects : /\ mux'[p].at = "none" <=> mux[p].at = "none"
                           /\ closing'[p]["muxer"] \in {"lock", "notReady"} => mux'[p].at = "pathClose"
    <3>1. "muxer" \in Closers
      BY Zenon DEF Closers
    <3>2. \A p \in Objects : p # o => closing'[p]["muxer"] = closing[p]["muxer"]
      BY Zenon, <1>5, <3>1
    <3> SUFFICES ASSUME NEW p \in Objects
                 PROVE  /\ mux'[p].at = "none" <=> mux[p].at = "none"
                        /\ closing'[p]["muxer"] \in {"lock", "notReady"} => mux'[p].at = "pathClose"
      BY Zenon
    <3>3. CASE p = o
      BY Zenon, <1>1, <1>3, <3>3
    <3>4. CASE p # o
      <4>1. closing[p]["muxer"] \in {"lock", "notReady"} => mux[p].at = "pathClose"
        BY Zenon DEF VInv, Muxed
      <4>2. mux'[p] = mux[p] /\ closing'[p]["muxer"] = closing[p]["muxer"]
        BY Zenon, <1>3, <3>2, <3>4
      <4> QED
        BY Zenon, <4>1, <4>2
    <3> QED
      BY Zenon, <3>3, <3>4
  <2>2. \A n \in Names : muxers'[n] # None =>
           /\ muxers'[n] = muxers[n] /\ muxers[n] \in Objects
           /\ ~serverDone => muxers[n] # o /\ mux'[muxers[n]] = mux[muxers[n]]
    BY Zenon, <1>3, <1>4, NamedObjects
  <2>3. UNCHANGED <<source, pathName, sourceReady, canceled, serverDone>>
    BY Zenon, <1>1 DEF pathVars
  <2>4. /\ \A p \in Objects : /\ mux[p].at # "none" => source[p] # None /\ pathName[p] # None
                              /\ sourceReady[p] => ~canceled[p] /\ mux[p].at # "none"
        /\ \A n \in Names : muxers[n] # None =>
              /\ pathName[muxers[n]] = n
              /\ ~serverDone => sourceReady[muxers[n]] /\ mux[muxers[n]].at \in {"select", "handle", "muxerClose"}
    BY Zenon DEF VInv, Muxed
  <2>5. \A n \in Names : muxers'[n] # None =>
           /\ pathName'[muxers'[n]] = n
           /\ ~serverDone' => sourceReady'[muxers'[n]] /\ mux'[muxers'[n]].at \in {"select", "handle", "muxerClose"}
    <3> SUFFICES ASSUME NEW n \in Names, muxers'[n] # None
                 PROVE  /\ pathName'[muxers'[n]] = n
                        /\ ~serverDone' => /\ sourceReady'[muxers'[n]]
                                            /\ mux'[muxers'[n]].at \in {"select", "handle", "muxerClose"}
      BY Zenon
    <3>1. muxers'[n] = muxers[n] /\ (~serverDone => mux'[muxers[n]] = mux[muxers[n]])
      BY Zenon, <2>2
    <3>2. /\ pathName[muxers[n]] = n
          /\ ~serverDone => sourceReady[muxers[n]] /\ mux[muxers[n]].at \in {"select", "handle", "muxerClose"}
      BY Zenon, <2>4, <3>1
    <3> QED
      BY Zenon, <2>3, <3>1, <3>2
  <2>6. \A p \in Objects :
           /\ mux'[p].at # "none" => source'[p] # None /\ pathName'[p] # None
           /\ sourceReady'[p] => ~canceled'[p] /\ mux'[p].at # "none"
    BY Zenon, <2>1, <2>3, <2>4
  <2> QED
    BY Zenon, <2>1, <2>5, <2>6 DEF Muxed
<1>11. Closed' /\ NoSecondMuxer'
  BY Zenon, <1>1 DEF VInv, Closed, NoSecondMuxer, pathVars
<1> QED
  BY Zenon, <1>6, <1>7, <1>8, <1>9, <1>10, <1>11 DEF VInv

\* A session is opened, waits for its next request, or ends.
LEMMA SessionMovesKeeps ==
    ASSUME VInv, NEW s \in Sessions, OpenSession(s) \/ SessionOpened(s) \/ EndSession(s)
    PROVE  VInv'
<1>1. rtspMu' \in BOOLEAN /\ UNCHANGED <<managerVars, pathVars, serverVars, mux, req, closing>>
  BY Zenon DEF VInv, TypeOK, OpenSession, SessionOpened, EndSession
<1> QED
  BY Zenon, <1>1, SessionMoves DEF OpenSession, SessionOpened, EndSession

\* Every step of the server keeps the invariant.
LEMMA VideoServerStep == VInv /\ [Next]_vars => VInv'
<1> SUFFICES ASSUME VInv, [Next]_vars PROVE VInv'
  OBVIOUS
<1>1. CASE Environment
  BY Zenon, <1>1, AddPathKeeps, CancelPathKeeps, SessionMovesKeeps, PlayKeeps, RecordKeeps, CallKeeps, RequestKeeps,
     MuxStepKeeps, AnswerKeeps DEF Environment, StreamAdvances
<1>2. ASSUME NEW o \in Objects, RemoveLock(o) \/ MuxStep(o) PROVE VInv'
  BY Zenon, <1>2, RemoveLockKeeps, MuxStepKeeps, AnswerKeeps, MuxerCloseKeeps DEF MuxStep, Respond
<1>3. ASSUME NEW o \in Objects, NEW c \in Closers, CloseStep(o, c) PROVE VInv'
  BY Zenon, <1>3, CloseAgainKeeps, CloseReadyKeeps, CloseNotReadyKeeps, PathSourceNotReadyKeeps DEF CloseStep
<1>4. ASSUME NEW s \in Sessions, SessionStep(s) PROVE VInv'
  BY Zenon, <1>4, SessionMovesKeeps, PublisherAddKeeps, ReaderAddKeeps, NotMadeKeeps, PathSourceReadyKeeps,
     OnSessionCloseKeeps, ReaderRemoveKeeps DEF SessionStep, SessionCanceled
<1>5. CASE (\E r \in Requests : RequestStep(r)) \/ ServerStep
  BY Zenon, <1>5, RequestKeeps
<1>6. CASE UNCHANGED vars
  <2>1. /\ mux' \in [Objects -> MuxRecord] /\ req' \in [Requests -> RequestRecord]
        /\ server' \in ServerRecord /\ serverDone' \in BOOLEAN
    BY Zenon, <1>6 DEF VInv, TypeOK, vars, serverVars
  <2>2. \A o \in Objects : MuxGoesOn(o)
    BY Zenon, <1>6 DEF MuxGoesOn, vars
  <2> QED
    BY Zenon, <1>6, <2>1, <2>2, ServingKeeps DEF vars, serverVars
<1> QED
  BY Zenon, <1>1, <1>2, <1>3, <1>4, <1>5, <1>6 DEF Next

\* A closed path keeps no reader and no muxer, its sessions are told, a muxer is
\* never in the way of the next one of its name, and requests reach the muxer of
\* the path that has the name now: for any number of path objects, sessions,
\* names and requests, in whatever order the four goroutines that close a path
\* (path.go, path_manager.go, hls_muxer.go, rtsp_session.go) take their turns.
THEOREM PathsAlwaysAgree == Spec => []PathsAgree
<1>1. VInv /\ [Next]_vars => VInv'
  BY Zenon, VideoServerStep
<1> QED
  BY PTL, InitKeeps, VInvAgree, <1>1 DEF Spec
=============================================================================
