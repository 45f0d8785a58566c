--------------------------- MODULE RecorderProofs ---------------------------
(***************************************************************************)
(* The recorder for every number of events, every maximum video length,    *)
(* every size of the playlist and any number of restarts and failures: no  *)
(* segment is recorded twice, videos have no gaps, and a session is        *)
(* canceled only when every event that was accepted has ended.             *)
(***************************************************************************)
EXTENDS Recorder, WellFoundedInduction, TLAPS

SessionStates == {"none", "get", "info", "write", "check", "sleep", "exit"} \cup Held

Sessions == [at : SessionStates, canceled : BOOLEAN, muxer : Nat, got : Segment \cup {None},
             video : Seq(Segment)]

RecordingTypes ==
    /\ now \in Nat
    /\ session \in Sessions
    /\ prevSeg \in Nat
    /\ mux \in [no : Nat, open : BOOLEAN, segments : Seq(Segment), nextSegmentID : Nat, since : Nat]
    /\ saving \subseteq Seq(Segment)
    /\ events \subseteq Senders
    /\ saved \in Seq([video : Seq(Segment), written : BOOLEAN, events : SUBSET Senders])

Videos == saving \cup {saved[i].video : i \in 1..Len(saved)}

\* The segments of one muxer, counted from the first one.
Gapless(v) ==
    \A j \in 1..Len(v) : v[j].muxer = v[1].muxer /\ v[j].ID = v[1].ID + j - 1

\* No segment of muxer m from id on is in a video, and none of a later muxer.
NotYetRecorded(m, id) ==
    \A v \in Videos : \A i \in 1..Len(v) : v[i].muxer <= m /\ (v[i].muxer = m => v[i].ID < id)

\* What the playlist holds
PlaylistOwn ==
    \A i \in 1..Len(mux.segments) :
        mux.segments[i].muxer = mux.no /\ mux.segments[i].ID < mux.nextSegmentID

\* A video that may become the next recording
Recordable(v) ==
    /\ Gapless(v)
    /\ v[1].muxer <= mux.no
    /\ v[1].muxer = mux.no => \A j \in 1..Len(v) : v[j].ID < mux.nextSegmentID
    /\ NotYetRecorded(v[1].muxer, v[1].ID)

\* The segment in hand follows what is recorded.
HandSound ==
    session.at \in {"info", "write"} =>
        /\ session.got \in Segment
        /\ session.got.muxer = session.muxer
        /\ session.muxer = mux.no => session.got.ID < mux.nextSegmentID
        /\ session.video = <<>> => NotYetRecorded(session.muxer, session.got.ID)

\* The session between its steps
SessionSound ==
    /\ session.at \in {"check", "next held"} => session.video # <<>>
    /\ session.at \notin {"write", "check", "next held"} => session.video = <<>>
    /\ session.video # <<>> => Recordable(session.video) /\ session.video[1].muxer = session.muxer
    /\ HandSound
    /\ session.muxer <= mux.no

\* prevSeg is the last segment of the current muxer that is in a video, if one is.
RecordedBefore ==
    \A v \in Videos : \A i \in 1..Len(v) :
        /\ v[i].muxer <= mux.no
        /\ v[i].muxer = mux.no => v[i].ID <= prevSeg /\ prevSeg < mux.nextSegmentID

VideosApart ==
    \A v, w \in Videos : v # w => \A i \in 1..Len(v), j \in 1..Len(w) : v[i] # w[j]

RecordingInv ==
    /\ PlaylistOwn
    /\ SessionSound
    /\ RecordedBefore
    /\ \A v \in Videos : v # <<>> /\ Gapless(v)
    /\ VideosApart

\* The session asks for the first segment of a video, or for the one after its last.
AsksFirst == session.at \in {"get", "first held"}
AsksNext == session.at \in {"check", "next held"}
HasSegment == session.at = IF session.video = <<>> THEN "info" ELSE "write"

-----------------------------------------------------------------------------
(* Types *)

LEMMA EmptySeq == <<>> \in Seq(Segment)
OBVIOUS

\* The last element of a sequence
LEMMA LastInSeq ==
    ASSUME NEW v \in Seq(Segment), v # <<>>
    PROVE  LastSegment(v) \in Segment /\ Len(v) \in Nat \ {0} /\ LastSegment(v) = v[Len(v)] /\ v[1] \in Segment
<1>1. Len(v) \in Nat /\ Len(v) # 0
  OBVIOUS
<1>2. v[Len(v)] \in Segment /\ v[1] \in Segment
  BY <1>1
<1> QED
  BY Zenon, <1>1, <1>2 DEF LastSegment

LEMMA TypesInit == Init => RecordingTypes
<1> SUFFICES ASSUME Init
             PROVE  RecordingTypes
  OBVIOUS
<1>1. session \in Sessions
  BY Zenon, EmptySeq DEF Init, NoSession, Sessions, SessionStates
<1>2. mux \in [no : Nat, open : BOOLEAN, segments : Seq(Segment), nextSegmentID : Nat, since : Nat]
  BY RecorderAssumption DEF Init
<1>3. /\ now \in Nat /\ prevSeg \in Nat
      /\ saving \subseteq Seq(Segment) /\ events \subseteq Senders
      /\ saved \in Seq([video : Seq(Segment), written : BOOLEAN, events : SUBSET Senders])
  BY DEF Init
<1> QED
  BY Zenon, <1>1, <1>2, <1>3 DEF RecordingTypes

\* The segment that NextSegment finds is one of the playlist.
LEMMA CachedSegment ==
    ASSUME RecordingTypes, NEW id \in Nat, Cached(id) > 0
    PROVE  /\ Cached(id) \in 1..Len(mux.segments)
           /\ \/ id < mux.segments[Cached(id)].ID
              \/ id >= mux.nextSegmentID
<1> DEFINE I == {i \in 1..Len(mux.segments) : id < mux.segments[i].ID \/ id >= mux.nextSegmentID}
<1>1. Cached(id) = IF I = {} THEN 0 ELSE Min(I)
  BY Zenon DEF Cached
<1>2. I # {}
  <2> HIDE DEF I
  <2> QED
    BY <1>1
<1>3. I \subseteq Nat
  OBVIOUS
<1>4. PICK k \in I : \A i \in I : ~(<<i, k>> \in OpToRel(<, Nat))
  <2> HIDE DEF I
  <2> QED
    BY <1>2, <1>3, NatLessThanWellFounded, WFMin, Zenon
<1>5. ASSUME NEW i \in I
      PROVE  k <= i
  <2> HIDE DEF I
  <2>1. i \in Nat /\ k \in Nat
    BY <1>3, <1>4, Zenon
  <2>2. <<i, k>> \in OpToRel(<, Nat) <=> i < k
    BY Zenon, <2>1 DEF OpToRel
  <2>3. ~(i < k)
    BY <1>4, <1>5, <2>2, Zenon
  <2> QED
    BY <2>1, <2>3
<1>6. Min(I) \in I
  <2> HIDE DEF I
  <2> QED
    BY <1>4, <1>5, Zenon DEF Min
<1>7. Cached(id) \in I
  <2> HIDE DEF I
  <2> QED
    BY Zenon, <1>1, <1>2, <1>6
<1> QED
  BY Zenon, <1>7

LEMMA PrevIDType ==
    ASSUME RecordingTypes, SessionSound, session.at \in {"get", "first held", "check", "next held"}
    PROVE  PrevID \in Nat
<1>1. CASE session.at \in {"get", "first held"}
  BY <1>1, Zenon DEF PrevID, RecordingTypes
<1>2. CASE session.at \in {"check", "next held"}
  <2>1. session.video # <<>> /\ session.video \in Seq(Segment)
    BY <1>2, Zenon DEF SessionSound, RecordingTypes, Sessions
  <2>2. LastSegment(session.video) \in Segment
    BY <2>1, LastInSeq, Zenon
  <2> QED
    BY <1>2, <2>2, Zenon DEF PrevID, Segment
<1> QED
  BY <1>1, <1>2, Zenon

\* What NextSegment makes of the session
LEMMA NextSegmentCases ==
    ASSUME RecordingTypes, PlaylistOwn, SessionSound, NEW held \in Held,
           session.at \in {"get", "check"}
    PROVE  \/ NextSegment(held) = [session EXCEPT !.at = held]
           \/ \E g \in Segment :
                 /\ NextSegment(held) = Answered(g)
                 /\ g.muxer = mux.no
                 /\ g.ID < mux.nextSegmentID
                 /\ PrevID < g.ID \/ PrevID >= mux.nextSegmentID
<1>1. PrevID \in Nat
  BY PrevIDType, Zenon
<1>2. CASE Cached(PrevID) > 0
  <2> DEFINE k == Cached(PrevID)
  <2>1. k \in 1..Len(mux.segments) /\ (PrevID < mux.segments[k].ID \/ PrevID >= mux.nextSegmentID)
    BY Zenon, <1>1, <1>2, CachedSegment
  <2>2. mux.segments[k] \in Segment
    BY <2>1 DEF RecordingTypes
  <2>3. mux.segments[k].muxer = mux.no /\ mux.segments[k].ID < mux.nextSegmentID
    BY Zenon, <2>1 DEF PlaylistOwn
  <2>4. NextSegment(held) = Answered(mux.segments[k])
    BY Zenon, <1>2 DEF NextSegment
  <2> HIDE DEF k
  <2> QED
    BY Zenon, <2>1, <2>2, <2>3, <2>4
<1>3. CASE ~(Cached(PrevID) > 0)
  BY Zenon, <1>3 DEF NextSegment
<1> QED
  BY Zenon, <1>2, <1>3

-----------------------------------------------------------------------------
(* The types are kept *)

LEMMA AnsweredType ==
    ASSUME session \in Sessions, NEW g \in Segment
    PROVE  Answered(g) \in Sessions
BY Zenon DEF Sessions, SessionStates, Answered

LEMMA CrashedType ==
    ASSUME session \in Sessions
    PROVE  Crashed \in Sessions
BY EmptySeq, Zenon DEF Sessions, SessionStates, Crashed

LEMMA GeneratedType ==
    ASSUME RecordingTypes, NEW video \in Seq(Segment), video # <<>>, Generated(video)
    PROVE  session' \in Sessions /\ prevSeg' \in Nat /\ saving' \subseteq Seq(Segment)
<1>1. LastSegment(video).ID \in Nat
  BY Zenon, LastInSeq DEF Segment
<1>2. session' \in Sessions
  BY EmptySeq, Zenon DEF Generated, RecordingTypes, Sessions, SessionStates, NoSession
<1> QED
  BY Zenon, <1>1, <1>2 DEF Generated, RecordingTypes

LEMMA GetMuxerType ==
    ASSUME RecordingTypes, PlaylistOwn, SessionSound, GetMuxer
    PROVE  session' \in Sessions
<1>1. CASE ~mux.open
  BY Zenon, <1>1, CrashedType DEF GetMuxer, RecordingTypes
<1>2. CASE mux.open
  <2>1. session' = [NextSegment("first held") EXCEPT !.muxer = mux.no]
    BY <1>2, Zenon DEF GetMuxer
  <2>2. NextSegment("first held") \in Sessions
    <3>1. CASE NextSegment("first held") = [session EXCEPT !.at = "first held"]
      BY <3>1, Zenon DEF RecordingTypes, Sessions, SessionStates, Held
    <3>2. CASE \E g \in Segment : NextSegment("first held") = Answered(g)
      BY <3>2, AnsweredType, Zenon DEF RecordingTypes
    <3>3. session.at \in {"get", "check"} /\ "first held" \in Held
      BY Zenon DEF GetMuxer, Held
    <3> QED
      BY <3>1, <3>2, <3>3, NextSegmentCases, Zenon
  <2> QED
    BY <2>1, <2>2, Zenon DEF RecordingTypes, Sessions
<1> QED
  BY Zenon, <1>1, <1>2

LEMMA RecordNextType ==
    ASSUME RecordingTypes, PlaylistOwn, SessionSound, RecordNext
    PROVE  session' \in Sessions /\ prevSeg' \in Nat /\ saving' \subseteq Seq(Segment)
<1>1. CASE Canceled \/ ~mux.open \/ mux.no # session.muxer
  <2>1. session.video \in Seq(Segment) /\ session.video # <<>>
    BY Zenon DEF RecordNext, SessionSound, RecordingTypes, Sessions
  <2>2. Generated(session.video)
    BY <1>1, Zenon DEF RecordNext
  <2> QED
    BY Zenon, <2>1, <2>2, GeneratedType
<1>2. CASE ~(Canceled \/ ~mux.open \/ mux.no # session.muxer)
  <2>1. session' = NextSegment("next held") /\ prevSeg' = prevSeg /\ saving' = saving
    BY <1>2, Zenon DEF RecordNext
  <2>2. CASE NextSegment("next held") = [session EXCEPT !.at = "next held"]
    BY <2>1, <2>2, Zenon DEF RecordingTypes, Sessions, SessionStates, Held
  <2>3. CASE \E g \in Segment : NextSegment("next held") = Answered(g)
    BY <2>1, <2>3, AnsweredType, Zenon DEF RecordingTypes
  <2>4. session.at \in {"get", "check"} /\ "next held" \in Held
    BY Zenon DEF RecordNext, Held
  <2> QED
    BY <2>2, <2>3, <2>4, NextSegmentCases, Zenon
<1> QED
  BY Zenon, <1>1, <1>2

\* A video and its next segment
LEMMA AppendType ==
    ASSUME RecordingTypes, SessionSound, session.at = "write"
    PROVE  /\ Append(session.video, session.got) \in Seq(Segment)
           /\ Append(session.video, session.got) # <<>>
           /\ Len(Append(session.video, session.got)) = Len(session.video) + 1
<1>1. session.video \in Seq(Segment) /\ session.got \in Segment
  BY Zenon DEF SessionSound, HandSound, RecordingTypes, Sessions
<1> QED
  BY <1>1

LEMMA WriteSegmentType ==
    ASSUME RecordingTypes, SessionSound, WriteSegment
    PROVE  session' \in Sessions /\ prevSeg' \in Nat /\ saving' \subseteq Seq(Segment)
<1> DEFINE video == Append(session.video, session.got)
<1>1. video \in Seq(Segment) /\ video # <<>>
  BY Zenon, AppendType DEF WriteSegment
<1>2. \/ Generated(video)
      \/ /\ session' = [session EXCEPT !.at = "check", !.got = None, !.video = video]
         /\ prevSeg' = prevSeg /\ saving' = saving
  BY Zenon DEF WriteSegment
<1> HIDE DEF video
<1>3. CASE Generated(video)
  BY Zenon, <1>1, <1>3, GeneratedType
<1>4. CASE /\ session' = [session EXCEPT !.at = "check", !.got = None, !.video = video]
           /\ prevSeg' = prevSeg /\ saving' = saving
  BY <1>1, <1>4, Zenon DEF RecordingTypes, Sessions, SessionStates
<1> QED
  BY Zenon, <1>2, <1>3, <1>4

LEMMA PublishType ==
    ASSUME RecordingTypes, Publish
    PROVE  RecordingTypes'
<1> DEFINE g == [muxer |-> mux.no, ID |-> mux.nextSegmentID, start |-> mux.since, end |-> now]
           all == Append(mux.segments, g)
           kept == IF Len(all) > Window THEN Tail(all) ELSE all
<1>1. g \in Segment
  BY Zenon DEF RecordingTypes, Segment
<1>2. session' \in Sessions
  <2>1. session' = session \/ session' = Answered(g)
    BY Zenon DEF Publish
  <2> HIDE DEF g
  <2> QED
    BY Zenon, <1>1, <2>1, AnsweredType DEF RecordingTypes
<1>3. mux.segments \in Seq(Segment)
  BY Zenon DEF RecordingTypes
<1>4. kept \in Seq(Segment)
  <2> HIDE DEF g
  <2>1. all \in Seq(Segment) /\ all # <<>>
    BY <1>1, <1>3
  <2> HIDE DEF all
  <2> QED
    BY <2>1
<1> DEFINE next == mux.nextSegmentID + 1
<1>5. mux' = [mux EXCEPT !.segments = kept, !.nextSegmentID = next, !.since = now]
  BY Zenon DEF Publish
<1>6. mux' \in [no : Nat, open : BOOLEAN, segments : Seq(Segment), nextSegmentID : Nat, since : Nat]
  <2>1. next \in Nat
    BY DEF RecordingTypes
  <2> HIDE DEF kept, next
  <2> QED
    BY <1>4, <1>5, <2>1, Zenon DEF RecordingTypes
<1> QED
  BY Zenon, <1>2, <1>6 DEF Publish, RecordingTypes, loopVars, fileVars

LEMMA SaveRecordingType ==
    ASSUME RecordingTypes, NEW video \in saving, NEW written \in BOOLEAN,
           SaveRecording(video, written)
    PROVE  RecordingTypes'
<1> DEFINE r == [video |-> video, written |-> written,
                 events |-> Queried(StartTime(video), EndTime(video))]
           R == [video : Seq(Segment), written : BOOLEAN, events : SUBSET Senders]
<1>1. Queried(StartTime(video), EndTime(video)) \in SUBSET Senders
  BY Zenon DEF Queried, RecordingTypes
<1>2. r \in R
  BY Zenon, <1>1 DEF RecordingTypes
<1>3. saved \in Seq(R) /\ saved' = Append(saved, r)
  BY Zenon DEF RecordingTypes, SaveRecording
<1>4. saved' \in Seq(R)
  <2> HIDE DEF r, R
  <2> QED
    BY <1>2, <1>3
<1>5. events' \subseteq Senders
  BY Zenon DEF SaveRecording, Pruned, RecordingTypes
<1> QED
  BY Zenon, <1>4, <1>5 DEF SaveRecording, RecordingTypes

LEMMA TypesNext ==
    ASSUME RecordingTypes, PlaylistOwn, SessionSound, [Next]_vars
    PROVE  RecordingTypes'
<1> USE DEF loopVars, fileVars
<1>1. CASE \/ Tick \/ Stop \/ ContextDone
           \/ \E s \in Senders : SendEvent(s)
           \/ UNCHANGED vars
  BY <1>1 DEF RecordingTypes, Tick, Stop, ContextDone, SendEvent, vars
<1>2. ASSUME NEW s \in Senders, AcceptEvent(s)
      PROVE  RecordingTypes'
  <2>1. session' \in Sessions
    BY <1>2, EmptySeq, Zenon DEF AcceptEvent, RecordingTypes, NoSession, Sessions, SessionStates
  <2> QED
    BY Zenon, <1>2, <2>1 DEF AcceptEvent, RecordingTypes
<1>3. CASE TimerFires \/ SessionExits \/ StreamInfo \/ WakeUp
  <2>1. session' \in Sessions
    <3>1. CASE TimerFires
      BY <3>1, Zenon DEF TimerFires, RecordingTypes, Sessions
    <3>2. CASE SessionExits
      BY <3>2, ZenonT(30) DEF SessionExits, RecordingTypes, Sessions, SessionStates
    <3>4. CASE StreamInfo
      BY <3>4, ZenonT(30) DEF StreamInfo, RecordingTypes, Sessions, SessionStates
    <3>3. CASE WakeUp
      BY <3>3, ZenonT(30) DEF WakeUp, RecordingTypes, Sessions, SessionStates
    <3> QED
      BY Zenon, <1>3, <3>1, <3>2, <3>3, <3>4
  <2> QED
    BY Zenon, <1>3, <2>1 DEF TimerFires, SessionExits, StreamInfo, WakeUp, RecordingTypes
<1>4. CASE MuxerStarts
  <2>1. mux' \in [no : Nat, open : BOOLEAN, segments : Seq(Segment), nextSegmentID : Nat, since : Nat]
    BY <1>4, EmptySeq, RecorderAssumption DEF MuxerStarts, RecordingTypes
  <2> QED
    BY Zenon, <1>4, <2>1 DEF MuxerStarts, RecordingTypes
<1>5. CASE Publish
  BY Zenon, <1>5, PublishType
<1>6. CASE MuxerCloses
  <2>1. mux' \in [no : Nat, open : BOOLEAN, segments : Seq(Segment), nextSegmentID : Nat, since : Nat]
    BY <1>6, Zenon DEF MuxerCloses, RecordingTypes
  <2>2. session' \in Sessions /\ prevSeg' \in Nat /\ saving' \subseteq Seq(Segment)
    <3>1. CASE session.muxer = mux.no /\ session.at = "next held"
      <4>1. session.video \in Seq(Segment) /\ session.video # <<>>
        BY <3>1, Zenon DEF SessionSound, RecordingTypes, Sessions
      <4>2. Generated(session.video)
        BY <1>6, <3>1, Zenon DEF MuxerCloses
      <4> QED
        BY Zenon, <4>1, <4>2, GeneratedType
    <3>2. CASE session.muxer = mux.no /\ session.at = "first held"
      BY <1>6, <3>2, CrashedType, Zenon DEF MuxerCloses, RecordingTypes
    <3>3. CASE ~(session.muxer = mux.no /\ session.at \in Held)
      BY <1>6, <3>3, Zenon DEF MuxerCloses, RecordingTypes, Held
    <3> QED
      BY <3>1, <3>2, <3>3, Zenon DEF Held
  <2> QED
    BY <1>6, <2>1, <2>2, Zenon DEF MuxerCloses, RecordingTypes
<1>7. CASE GetMuxer
  BY <1>7, GetMuxerType, Zenon DEF GetMuxer, RecordingTypes
<1>8. CASE StreamInfoFails \/ SkippedSegment \/ FileFails
  BY Zenon, <1>8, CrashedType DEF StreamInfoFails, SkippedSegment, FileFails, RecordingTypes
<1>9. CASE WriteSegment
  BY Zenon, <1>9, WriteSegmentType DEF WriteSegment, RecordingTypes
<1>10. CASE RecordNext
  BY <1>10, RecordNextType, Zenon DEF RecordNext, RecordingTypes
<1>11. ASSUME NEW video \in saving, NEW written \in BOOLEAN, SaveRecording(video, written)
       PROVE  RecordingTypes'
  BY Zenon, <1>11, SaveRecordingType
<1> QED
  BY Zenon, <1>1, <1>2, <1>3, <1>4, <1>5, <1>6, <1>7, <1>8, <1>9, <1>10, <1>11
     DEF Next, LoopStep, SessionStep

-----------------------------------------------------------------------------
(* The invariant is kept *)

LEMMA RecordingInit == Init => RecordingInv
BY DEF Init, RecordingInv, PlaylistOwn, SessionSound, HandSound, RecordedBefore, VideosApart, Videos, NoSession

\* A session that has nothing in hand
LEMMA ResetKeeps ==
    ASSUME RecordingTypes, RecordingInv, UNCHANGED <<mux, prevSeg, saving, saved>>,
           session'.at \in {"none", "get", "sleep", "exit"}, session'.video = <<>>,
           session'.muxer <= mux.no
    PROVE  RecordingInv'
<1>1. Videos' = Videos
  BY Zenon DEF Videos
<1>2. SessionSound'
  BY Zenon DEF SessionSound, HandSound
<1> QED
  BY ZenonT(30), <1>1, <1>2 DEF RecordingInv, PlaylistOwn, RecordedBefore, VideosApart, Gapless

LEMMA CrashedKeeps ==
    ASSUME RecordingTypes, RecordingInv, UNCHANGED <<mux, prevSeg, saving, saved>>,
           session' = Crashed
    PROVE  RecordingInv'
<1>1. /\ session'.at \in {"none", "get", "sleep", "exit"} /\ session'.video = <<>>
      /\ session'.muxer = 0
  BY Zenon DEF Crashed, RecordingTypes, Sessions
<1>2. session'.muxer <= mux.no
  BY <1>1 DEF RecordingTypes
<1> QED
  BY Zenon, <1>1, <1>2, ResetKeeps

LEMMA MuxNumbers ==
    ASSUME RecordingTypes
    PROVE  /\ mux.no \in Nat /\ mux.no <= mux.no
           /\ mux.nextSegmentID \in Nat /\ mux.nextSegmentID >= mux.nextSegmentID
BY DEF RecordingTypes

LEMMA LessThanNext ==
    ASSUME NEW g \in Segment, NEW n \in Nat, g.ID < n
    PROVE  g.ID < n + 1
BY DEF Segment

LEMMA VideosType ==
    ASSUME RecordingTypes, NEW v \in Videos
    PROVE  v \in Seq(Segment) /\ \A i \in 1..Len(v) : v[i].muxer \in Nat /\ v[i].ID \in Nat
<1> DEFINE R == [video : Seq(Segment), written : BOOLEAN, events : SUBSET Senders]
<1>1. \A i \in 1..Len(saved) : saved[i] \in R
  <2>1. saved \in Seq(R)
    BY Zenon DEF RecordingTypes
  <2> HIDE DEF R
  <2> QED
    BY <2>1
<1>2. \A i \in 1..Len(saved) : saved[i].video \in Seq(Segment)
  BY Zenon, <1>1
<1>3. v \in Seq(Segment)
  BY Zenon, <1>2 DEF Videos, RecordingTypes
<1>4. \A i \in 1..Len(v) : v[i] \in Segment
  BY <1>3
<1> QED
  BY Zenon, <1>3, <1>4, SMTT(30) DEF Segment

\* A video is complete: it is the latest of all.
LEMMA GeneratedKeeps ==
    ASSUME RecordingTypes, RecordingInv, NEW video \in Seq(Segment), video # <<>>,
           Recordable(video), Generated(video), UNCHANGED saved,
           mux' = mux \/ mux' = [mux EXCEPT !.open = FALSE]
    PROVE  RecordingInv'
<1>1. /\ mux'.no = mux.no /\ mux'.segments = mux.segments
      /\ mux'.nextSegmentID = mux.nextSegmentID
  BY Zenon DEF RecordingTypes
<1>2. Videos' = Videos \cup {video}
  BY Zenon DEF Videos, Generated
<1>3. Len(video) \in Nat \ {0} /\ prevSeg' = video[Len(video)].ID /\ video[1] \in Segment
  BY Zenon, LastInSeq DEF Generated
<1>4. video[1].muxer \in Nat /\ video[1].ID \in Nat
  BY Zenon, <1>3 DEF Segment
<1>5. PlaylistOwn'
  BY Zenon, <1>1 DEF RecordingInv, PlaylistOwn
<1>6. SessionSound'
  <2>1. session'.at \in {"exit", "get"} /\ session'.video = <<>> /\ session'.muxer = 0
    BY Zenon DEF Generated, NoSession
  <2>2. session'.muxer <= mux'.no
    BY <1>1, <2>1 DEF RecordingTypes
  <2> QED
    BY <2>1, <2>2, Zenon DEF SessionSound, HandSound
<1>7. Gapless(video) /\ NotYetRecorded(video[1].muxer, video[1].ID)
  BY Zenon DEF Recordable
<1>8. RecordedBefore'
  <2> SUFFICES ASSUME NEW v \in Videos', NEW i \in 1..Len(v)
               PROVE  /\ v[i].muxer <= mux.no
                      /\ v[i].muxer = mux.no => v[i].ID <= prevSeg' /\ prevSeg' < mux.nextSegmentID
    BY Zenon, <1>1 DEF RecordedBefore
  <2>1. /\ video[Len(video)].muxer = video[1].muxer
        /\ video[Len(video)].ID = video[1].ID + Len(video) - 1
    BY <1>3, <1>7 DEF Gapless
  <2>2. video[1].muxer = mux.no => video[Len(video)].ID < mux.nextSegmentID
    BY <1>3 DEF Recordable
  <2>3. video[1].muxer \in Nat /\ video[1].ID \in Nat /\ video[1].muxer <= mux.no /\ mux.no \in Nat
    BY Zenon, <1>4 DEF Recordable, RecordingTypes
  <2>4. CASE v = video
    <3>1. v[i].muxer = video[1].muxer /\ v[i].ID = video[1].ID + i - 1
      BY Zenon, <1>7, <2>4 DEF Gapless
    <3> QED
      BY <1>3, <2>1, <2>2, <2>3, <2>4, <3>1
  <2>5. CASE v \in Videos
    <3>2. v[i].muxer \in Nat /\ v[i].ID \in Nat
      BY Zenon, <2>5, VideosType
    <3>3. v[i].muxer <= video[1].muxer /\ (v[i].muxer = video[1].muxer => v[i].ID < video[1].ID)
      BY Zenon, <1>7, <2>5 DEF NotYetRecorded
    <3> QED
      BY <1>3, <2>1, <2>2, <2>3, <3>2, <3>3, SMTT(30)
  <2> QED
    BY Zenon, <1>2, <2>4, <2>5
<1>9. \A v \in Videos' : v # <<>> /\ Gapless(v)
  BY Zenon, <1>2, <1>7 DEF RecordingInv
<1>10. ASSUME NEW w \in Videos, NEW i \in 1..Len(video), NEW j \in 1..Len(w)
       PROVE  video[i] # w[j]
  <2>1. video[i].muxer = video[1].muxer /\ video[i].ID = video[1].ID + i - 1
    BY Zenon, <1>7 DEF Gapless
  <2>2. w[j].muxer = video[1].muxer => w[j].ID < video[1].ID
    BY Zenon, <1>7 DEF NotYetRecorded
  <2> QED
    BY <1>4, <2>1, <2>2
<1>11. VideosApart'
  BY <1>2, <1>10 DEF RecordingInv, VideosApart
<1>12. (\A v \in Videos : v # <<>> /\ Gapless(v))'
  BY Zenon, <1>9 DEF Gapless
<1> QED
  BY Zenon, <1>5, <1>6, <1>8, <1>11, <1>12 DEF RecordingInv

\* A segment is in hand.
LEMMA AnsweredKeeps ==
    ASSUME RecordingTypes, RecordingInv, UNCHANGED <<prevSeg, saving, saved>>,
           NEW g \in Segment,
           AsksFirst \/ AsksNext, HasSegment',
           session'.got = g, session'.muxer = mux.no, session'.video = session.video,
           AsksNext => session.muxer = mux.no,
           g.muxer = mux.no,
           PrevID < g.ID \/ PrevID >= mux.nextSegmentID,
           NEW n \in Nat, n >= mux.nextSegmentID, mux'.nextSegmentID = n, mux'.no = mux.no,
           g.ID < n, PlaylistOwn'
    PROVE  RecordingInv'
<1>1. Videos' = Videos
  BY Zenon DEF Videos
<1>2. mux.no \in Nat /\ mux.nextSegmentID \in Nat /\ prevSeg \in Nat
  BY Zenon DEF RecordingTypes
<1>3. RecordedBefore'
  <2> SUFFICES ASSUME NEW v \in Videos, NEW i \in 1..Len(v)
               PROVE  /\ v[i].muxer <= mux.no
                      /\ v[i].muxer = mux.no => v[i].ID <= prevSeg /\ prevSeg < n
    BY Zenon, <1>1 DEF RecordedBefore
  <2>1. /\ v[i].muxer <= mux.no
        /\ v[i].muxer = mux.no => v[i].ID <= prevSeg /\ prevSeg < mux.nextSegmentID
    BY Zenon DEF RecordingInv, RecordedBefore
  <2> QED
    BY <1>2, <2>1
<1>5. CASE AsksFirst
  <2>1. session'.video = <<>> /\ session'.at = "info"
    BY <1>5, Zenon DEF RecordingInv, SessionSound, AsksFirst, HasSegment
  <2>2. ASSUME NEW v \in Videos, NEW i \in 1..Len(v)
        PROVE  v[i].muxer <= mux.no /\ (v[i].muxer = mux.no => v[i].ID < g.ID)
    <3>1. /\ v[i].muxer <= mux.no
          /\ v[i].muxer = mux.no => v[i].ID <= prevSeg /\ prevSeg < mux.nextSegmentID
      BY Zenon DEF RecordingInv, RecordedBefore
    <3>2. prevSeg < g.ID \/ prevSeg >= mux.nextSegmentID
      BY <1>5, Zenon DEF PrevID, AsksFirst
    <3>3. v[i].ID \in Nat /\ g.ID \in Nat
      BY VideosType, Zenon DEF Segment
    <3> QED
      BY <1>2, <3>1, <3>2, <3>3
  <2>3. NotYetRecorded(mux.no, g.ID)'
    BY ZenonT(30), <1>1, <2>2 DEF NotYetRecorded
  <2>4. mux.no <= mux.no
    BY <1>2
  <2>5. SessionSound'
    BY ZenonT(30), <1>1, <2>1, <2>2, <2>4 DEF SessionSound, HandSound, NotYetRecorded
  <2> QED
    BY Zenon, <1>1, <1>3, <2>5 DEF RecordingInv, VideosApart, Gapless
<1>6. CASE AsksNext
  <2>1. /\ session'.video # <<>> /\ session'.at = "write"
        /\ Recordable(session.video) /\ session.video[1].muxer = mux.no
    BY <1>6, Zenon DEF RecordingInv, SessionSound, AsksNext, HasSegment
  <2>2. \A j \in 1..Len(session.video) : session.video[j].ID < n
    <3> SUFFICES ASSUME NEW j \in 1..Len(session.video)
                 PROVE  session.video[j].ID < n
      OBVIOUS
    <3>1. session.video[j].ID < mux.nextSegmentID
      BY Zenon, <2>1 DEF Recordable
    <3>2. session.video \in Seq(Segment)
      BY Zenon DEF RecordingTypes, Sessions
    <3>3. session.video[j] \in Segment
      BY <3>2
    <3>4. session.video[j].ID \in Nat
      BY Zenon, <3>3 DEF Segment
    <3> QED
      BY <1>2, <3>1, <3>4
  <2>3. Recordable(session.video)'
    BY ZenonT(30), <1>1, <2>1, <2>2 DEF Recordable, NotYetRecorded, Gapless
  <2>4. mux.no <= mux.no
    BY <1>2
  <2>5. SessionSound'
    BY Zenon, <2>1, <2>3, <2>4 DEF SessionSound, HandSound
  <2> QED
    BY Zenon, <1>1, <1>3, <2>5 DEF RecordingInv, VideosApart, Gapless
<1> QED
  BY Zenon, <1>5, <1>6

\* GetMuxer and RecordNext: a call of NextSegment
LEMMA NextSegmentKeeps ==
    ASSUME RecordingTypes, RecordingInv, UNCHANGED <<mux, prevSeg, saving, saved>>,
           NEW held \in Held, session' = [NextSegment(held) EXCEPT !.muxer = mux.no],
           \/ session.at = "get" /\ held = "first held"
           \/ session.at = "check" /\ held = "next held" /\ session.muxer = mux.no
    PROVE  RecordingInv'
<1>1. session.at \in {"get", "check"}
  BY Zenon
<1>2. PlaylistOwn /\ SessionSound
  BY Zenon DEF RecordingInv
<1>3. session.at = "get" => session.video = <<>>
  BY Zenon DEF RecordingInv, SessionSound
<1>4. session.at = "check" => session.video # <<>>
  BY Zenon DEF RecordingInv, SessionSound
<1>5. CASE NextSegment(held) = [session EXCEPT !.at = held]
  <2>1. session'.at = held /\ session'.muxer = mux.no /\ session'.video = session.video
    BY <1>5, Zenon DEF RecordingTypes, Sessions
  <2>2. Videos' = Videos
    BY Zenon DEF Videos
  <2>3. mux.no <= mux.no
    BY MuxNumbers, Zenon
  <2>4. session.video # <<>> => Recordable(session.video) /\ session.video[1].muxer = mux.no
    BY <1>2, <1>3, Zenon DEF SessionSound
  <2>5. SessionSound'
    BY <1>3, <1>4, <2>1, <2>2, <2>3, <2>4, Zenon
       DEF SessionSound, HandSound, Held, Recordable, NotYetRecorded, Gapless
  <2> QED
    BY <2>2, <2>5, Zenon DEF RecordingInv, PlaylistOwn, RecordedBefore, VideosApart, Gapless
<1>6. ASSUME NEW g \in Segment,
             NextSegment(held) = Answered(g),
             g.muxer = mux.no,
             g.ID < mux.nextSegmentID,
             PrevID < g.ID \/ PrevID >= mux.nextSegmentID
      PROVE  RecordingInv'
  <2> DEFINE n == mux.nextSegmentID
  <2>1. session' = [Answered(g) EXCEPT !.muxer = mux.no]
    BY <1>6, Zenon
  <2>2. /\ session'.got = g /\ session'.muxer = mux.no /\ session'.video = session.video
        /\ session'.at = IF session.at = "get" THEN "info" ELSE "write"
    BY <1>1, <2>1, Zenon DEF RecordingTypes, Sessions, Answered
  <2>3. AsksFirst \/ AsksNext
    BY <1>1, Zenon DEF AsksFirst, AsksNext
  <2>4. AsksNext => session.muxer = mux.no
    BY Zenon DEF AsksNext
  <2>5. HasSegment'
    BY <1>1, <1>3, <1>4, <2>2, Zenon DEF HasSegment
  <2>6. n \in Nat /\ n >= n
    BY MuxNumbers, Zenon
  <2>7. PlaylistOwn'
    BY <1>2, Zenon DEF PlaylistOwn
  <2>8. mux'.nextSegmentID = n /\ mux'.no = mux.no
    BY Zenon
  <2> QED
    BY <1>6, <2>2, <2>3, <2>4, <2>5, <2>6, <2>7, <2>8, AnsweredKeeps, Zenon
<1> QED
  BY <1>1, <1>2, <1>5, <1>6, NextSegmentCases, Zenon

\* A video and the segment that follows its last one
LEMMA FollowingRecordable ==
    ASSUME NEW v \in Seq(Segment), NEW g \in Segment, NEW m \in Nat,
           mux.no \in Nat, mux.nextSegmentID \in Nat,
           g.muxer = m, m <= mux.no, m = mux.no => g.ID < mux.nextSegmentID,
           v = <<>> => NotYetRecorded(m, g.ID),
           v # <<>> => Recordable(v) /\ v[1].muxer = m /\ g.ID = LastSegment(v).ID + 1
    PROVE  Recordable(Append(v, g)) /\ Append(v, g)[1].muxer = m
<1> DEFINE w == Append(v, g)
<1>1. /\ Len(w) = Len(v) + 1 /\ w[Len(w)] = g
      /\ \A j \in 1..Len(v) : w[j] = v[j]
  OBVIOUS
<1>2. Len(v) \in Nat /\ g.ID \in Nat
  BY DEF Segment
<1> HIDE DEF w
<1>3. CASE v = <<>>
  <2>1. Len(v) = 0
    BY Zenon, <1>3
  <2>2. Len(w) = 1 /\ w[1] = g
    BY <1>1, <2>1
  <2>3. \A j \in 1..Len(w) : j = 1
    BY <2>2
  <2> QED
    BY <1>2, <1>3, <2>2, <2>3 DEF Recordable, Gapless, w
<1>4. CASE v # <<>>
  <2>1. /\ Len(v) \in Nat \ {0} /\ LastSegment(v) = v[Len(v)] /\ v[1] \in Segment
    BY Zenon, <1>4, LastInSeq
  <2>2. v[1].ID \in Nat
    BY Zenon, <2>1, SMTT(30) DEF Segment
  <2>3. Gapless(v) /\ NotYetRecorded(v[1].muxer, v[1].ID) /\ v[1].muxer = m
    BY Zenon, <1>4 DEF Recordable
  <2>4. LastSegment(v).ID = v[1].ID + Len(v) - 1
    BY <2>1, <2>3 DEF Gapless
  <2>5. g.ID = v[1].ID + Len(w) - 1
    <3>1. g.ID = LastSegment(v).ID + 1
      BY Zenon, <1>4
    <3>2. Len(w) = Len(v) + 1
      BY Zenon, <1>1
    <3>3. g.ID = (v[1].ID + Len(v) - 1) + 1
      BY Zenon, <2>4, <3>1
    <3> QED
      BY <1>2, <2>2, <3>2, <3>3
  <2>6. w[1] = v[1]
    BY <1>1, <2>1
  <2>7. Gapless(w)
    <3> SUFFICES ASSUME NEW j \in 1..Len(w)
                 PROVE  w[j].muxer = w[1].muxer /\ w[j].ID = w[1].ID + j - 1
      BY Zenon DEF Gapless
    <3>1. CASE j \in 1..Len(v)
      BY Zenon, <1>1, <2>3, <2>6, <3>1 DEF Gapless
    <3>2. CASE j = Len(w)
      BY Zenon, <1>1, <2>3, <2>5, <2>6, <3>2
    <3> QED
      BY <1>1, <1>2, <3>1, <3>2
  <2>8. m = mux.no => \A j \in 1..Len(w) : w[j].ID < mux.nextSegmentID
    <3> SUFFICES ASSUME m = mux.no, NEW j \in 1..Len(w)
                 PROVE  w[j].ID < mux.nextSegmentID
      OBVIOUS
    <3>1. CASE j \in 1..Len(v)
      BY Zenon, <1>1, <1>4, <2>3, <3>1 DEF Recordable
    <3>2. CASE j = Len(w)
      BY Zenon, <1>1, <3>2
    <3> QED
      BY <1>1, <1>2, <3>1, <3>2
  <2> QED
    BY Zenon, <2>3, <2>6, <2>7, <2>8 DEF Recordable, w
<1> QED
  BY Zenon, <1>3, <1>4

LEMMA WriteSegmentKeeps ==
    ASSUME RecordingTypes, RecordingInv, WriteSegment
    PROVE  RecordingInv'
<1> DEFINE video == Append(session.video, session.got)
<1>1. /\ session.video \in Seq(Segment) /\ session.muxer \in Nat
      /\ mux.no \in Nat /\ mux.nextSegmentID \in Nat
  BY Zenon DEF RecordingTypes, Sessions
<1>2. /\ session.got \in Segment
      /\ session.got.muxer = session.muxer
      /\ session.muxer <= mux.no
      /\ session.muxer = mux.no => session.got.ID < mux.nextSegmentID
      /\ session.video = <<>> => NotYetRecorded(session.muxer, session.got.ID)
      /\ session.video # <<>> => Recordable(session.video) /\ session.video[1].muxer = session.muxer
  BY Zenon DEF WriteSegment, RecordingInv, SessionSound, HandSound
<1>3. session.video # <<>> => session.got.ID = LastSegment(session.video).ID + 1
  BY Zenon DEF WriteSegment, Follows
<1>4. Recordable(video) /\ video[1].muxer = session.muxer
  BY <1>1, <1>2, <1>3, FollowingRecordable
<1>5. video \in Seq(Segment) /\ video # <<>>
  BY Zenon, AppendType DEF WriteSegment, RecordingInv
<1>6. mux' = mux /\ saved' = saved
  BY Zenon DEF WriteSegment
<1>7. \/ Generated(video)
      \/ /\ session' = [session EXCEPT !.at = "check", !.got = None, !.video = video]
         /\ prevSeg' = prevSeg /\ saving' = saving
  BY Zenon DEF WriteSegment
<1> HIDE DEF video
<1>8. CASE Generated(video)
  BY Zenon, <1>4, <1>5, <1>6, <1>8, GeneratedKeeps
<1>9. CASE /\ session' = [session EXCEPT !.at = "check", !.got = None, !.video = video]
           /\ prevSeg' = prevSeg /\ saving' = saving
  <2>1. session'.at = "check" /\ session'.video = video /\ session'.muxer = session.muxer
    BY Zenon, <1>9 DEF RecordingTypes, Sessions
  <2>2. Videos' = Videos
    BY ZenonT(30), <1>6, <1>9 DEF Videos
  <2>3. SessionSound'
    BY ZenonT(30), <1>2, <1>4, <1>5, <1>6, <2>1, <2>2
       DEF SessionSound, HandSound, Recordable, NotYetRecorded, Gapless
  <2> QED
    BY ZenonT(30), <1>6, <1>9, <2>2, <2>3 DEF RecordingInv, PlaylistOwn, RecordedBefore, VideosApart, Gapless
<1> QED
  BY Zenon, <1>7, <1>8, <1>9

LEMMA PublishKeeps ==
    ASSUME RecordingTypes, RecordingInv, Publish
    PROVE  RecordingInv'
<1> DEFINE g == [muxer |-> mux.no, ID |-> mux.nextSegmentID, start |-> mux.since, end |-> now]
           all == Append(mux.segments, g)
           kept == IF Len(all) > Window THEN Tail(all) ELSE all
           n == mux.nextSegmentID + 1
<1>1. mux.no \in Nat /\ mux.nextSegmentID \in Nat /\ n \in Nat /\ n >= mux.nextSegmentID
  BY DEF RecordingTypes
<1>2. g \in Segment /\ g.muxer = mux.no /\ g.ID = mux.nextSegmentID /\ g.ID < n
  BY DEF RecordingTypes, Segment
<1>3. mux'.segments = kept /\ mux'.nextSegmentID = n /\ mux'.no = mux.no
  BY Zenon DEF Publish, RecordingTypes
<1>4. UNCHANGED <<prevSeg, saving, saved>>
  BY Zenon DEF Publish, fileVars
<1>5. \/ session' = session
      \/ /\ session' = Answered(g) /\ session.at \in Held /\ session.muxer = mux.no
         /\ g.ID > PrevID
  BY Zenon DEF Publish
<1>6. PlaylistOwn'
  <2> DEFINE Own(h) == h.muxer = mux.no /\ h.ID < n
  <2>1. \A i \in 1..Len(mux.segments) : Own(mux.segments[i])
    <3> SUFFICES ASSUME NEW i \in 1..Len(mux.segments)
                 PROVE  Own(mux.segments[i])
      OBVIOUS
    <3>1. mux.segments[i].muxer = mux.no /\ mux.segments[i].ID < mux.nextSegmentID
      BY Zenon DEF RecordingInv, PlaylistOwn
    <3>2. mux.segments[i] \in Segment
      BY DEF RecordingTypes
    <3>3. mux.segments[i].ID \in Nat
      BY Zenon, <3>2 DEF Segment
    <3> QED
      BY <1>1, <3>1, <3>3
  <2>2. Own(g)
    BY Zenon, <1>2
  <2>3. mux.segments \in Seq(Segment)
    BY Zenon DEF RecordingTypes
  <2> HIDE DEF Own, g
  <2>4. /\ all \in Seq(Segment) /\ Len(all) = Len(mux.segments) + 1 /\ all[Len(all)] = g
        /\ \A i \in 1..Len(mux.segments) : all[i] = mux.segments[i]
    BY <1>2, <2>3
  <2>5. \A i \in 1..Len(all) : Own(all[i])
    BY <2>1, <2>2, <2>3, <2>4
  <2> HIDE DEF all
  <2>6. /\ Len(Tail(all)) = Len(all) - 1
        /\ \A i \in 1..Len(all) - 1 : Tail(all)[i] = all[i + 1]
    BY <2>3, <2>4
  <2>7. \A i \in 1..Len(kept) : Own(kept[i])
    BY <2>3, <2>4, <2>5, <2>6
  <2> HIDE DEF kept
  <2> QED
    BY Zenon, <1>3, <2>7 DEF PlaylistOwn, Own
<1> HIDE DEF g, n
<1>7. Videos' = Videos
  BY Zenon, <1>4 DEF Videos
<1>8. CASE session' = session
  <2>1. RecordedBefore'
    <3> SUFFICES ASSUME NEW v \in Videos, NEW i \in 1..Len(v)
                 PROVE  /\ v[i].muxer <= mux.no
                        /\ v[i].muxer = mux.no => v[i].ID <= prevSeg /\ prevSeg < n
      BY Zenon, <1>3, <1>4, <1>7 DEF RecordedBefore
    <3>1. /\ v[i].muxer <= mux.no
          /\ v[i].muxer = mux.no => v[i].ID <= prevSeg /\ prevSeg < mux.nextSegmentID
      BY Zenon DEF RecordingInv, RecordedBefore
    <3>2. prevSeg \in Nat
      BY Zenon DEF RecordingTypes
    <3> QED
      BY <1>1, <3>1, <3>2
  <2>2. session.video # <<>> => Recordable(session.video)'
    <3> SUFFICES ASSUME session.video # <<>>
                 PROVE  Recordable(session.video)'
      OBVIOUS
    <3>1. Recordable(session.video)
      BY Zenon DEF RecordingInv, SessionSound
    <3>2. \A j \in 1..Len(session.video) : session.video[j].ID \in Nat
      <4>1. session.video \in Seq(Segment)
        BY Zenon DEF RecordingTypes, Sessions
      <4>2. \A j \in 1..Len(session.video) : session.video[j] \in Segment
        BY <4>1
      <4> QED
        BY Zenon, <4>2 DEF Segment
    <3>3. session.video[1].muxer = mux.no => \A j \in 1..Len(session.video) : session.video[j].ID < n
      BY <1>1, <3>1, <3>2 DEF Recordable
    <3> QED
      BY ZenonT(30), <1>3, <1>7, <1>8, <3>1, <3>3 DEF Recordable, NotYetRecorded, Gapless
  <2>3. HandSound'
    <3> SUFFICES ASSUME session.at \in {"info", "write"}
                 PROVE  /\ session.got \in Segment
                        /\ session.got.muxer = session.muxer
                        /\ session.muxer = mux.no => session.got.ID < n
                        /\ session.video = <<>> => NotYetRecorded(session.muxer, session.got.ID)'
      BY Zenon, <1>3, <1>8 DEF HandSound
    <3>1. HandSound
      BY Zenon DEF RecordingInv, SessionSound
    <3>2. /\ session.got \in Segment
          /\ session.got.muxer = session.muxer
          /\ session.muxer = mux.no => session.got.ID < mux.nextSegmentID
          /\ session.video = <<>> => NotYetRecorded(session.muxer, session.got.ID)
      BY Zenon, <3>1 DEF HandSound
    <3>3. session.muxer = mux.no => session.got.ID < n
      BY ZenonT(30), <1>1, <3>2, LessThanNext DEF n
    <3> QED
      BY ZenonT(30), <1>7, <1>8, <3>2, <3>3 DEF NotYetRecorded
  <2>4. SessionSound'
    BY <1>3, <1>8, <2>2, <2>3, Zenon DEF RecordingInv, SessionSound
  <2> QED
    BY Zenon, <1>6, <1>7, <2>1, <2>4 DEF RecordingInv, VideosApart, Gapless
<1>9. CASE /\ session' = Answered(g) /\ session.at \in Held /\ session.muxer = mux.no
           /\ g.ID > PrevID
  <2>1. /\ session'.got = g /\ session'.muxer = mux.no /\ session'.video = session.video
        /\ session'.at = IF session.at = "first held" THEN "info" ELSE "write"
    BY <1>9, Zenon DEF RecordingTypes, Sessions, Answered, Held
  <2>2. session.at = "first held" => session.video = <<>>
    BY Zenon DEF RecordingInv, SessionSound
  <2>3. session.at = "next held" => session.video # <<>>
    BY Zenon DEF RecordingInv, SessionSound
  <2>4. AsksFirst \/ AsksNext
    BY <1>9, Zenon DEF AsksFirst, AsksNext, Held
  <2>5. HasSegment'
    BY <1>9, <2>1, <2>2, <2>3, Zenon DEF HasSegment, Held
  <2>6. PrevID < g.ID
    <3>1. session.at \in {"get", "first held", "check", "next held"}
      BY <1>9, Zenon DEF Held
    <3>2. PrevID \in Nat
      BY <3>1, PrevIDType, Zenon DEF RecordingInv
    <3>3. g.ID > PrevID /\ g.ID \in Nat
      BY Zenon, <1>9, <1>2 DEF Segment
    <3> HIDE <1>9
    <3> QED
      BY Zenon, <3>2, <3>3
  <2>7. /\ g \in Segment /\ g.muxer = mux.no /\ g.ID < n /\ n \in Nat /\ n >= mux.nextSegmentID
        /\ mux'.nextSegmentID = n /\ mux'.no = mux.no
    BY ZenonT(30), <1>1, <1>2, <1>3
  <2>8. session.muxer = mux.no
    BY Zenon, <1>9
  <2> QED
    BY <1>4, <1>6, <2>1, <2>4, <2>5, <2>6, <2>7, <2>8, AnsweredKeeps, Zenon
<1> QED
  BY Zenon, <1>5, <1>8, <1>9

\* The muxer of an earlier start has no more to say about what is recorded.
LEMMA MuxerStartsKeeps ==
    ASSUME RecordingTypes, RecordingInv, MuxerStarts
    PROVE  RecordingInv'
<1>1. /\ mux'.no = mux.no + 1 /\ mux'.segments = <<>>
      /\ UNCHANGED <<session, prevSeg, saving, saved>>
  BY Zenon DEF MuxerStarts, fileVars
<1>2. Videos' = Videos
  BY Zenon, <1>1 DEF Videos
<1>3. mux.no \in Nat /\ session.muxer \in Nat /\ session.muxer <= mux.no
  BY Zenon DEF RecordingTypes, Sessions, RecordingInv, SessionSound
<1>4. session.muxer <= mux'.no /\ session.muxer # mux'.no
  BY <1>1, <1>3
<1>5. \A m \in Nat : m <= mux.no => m <= mux'.no /\ m # mux'.no
  BY <1>1, <1>3
<1>6. PlaylistOwn'
  BY <1>1 DEF PlaylistOwn
<1>7. RecordedBefore'
  <2> SUFFICES ASSUME NEW v \in Videos, NEW i \in 1..Len(v)
               PROVE  v[i].muxer <= mux'.no /\ v[i].muxer # mux'.no
    BY Zenon, <1>2 DEF RecordedBefore
  <2>1. v[i].muxer \in Nat
    BY Zenon, VideosType
  <2>2. v[i].muxer <= mux.no
    BY Zenon DEF RecordingInv, RecordedBefore
  <2> QED
    BY Zenon, <1>5, <2>1, <2>2
<1>8. session.video # <<>> => Recordable(session.video)' /\ session.video[1].muxer = session.muxer
  BY <1>1, <1>2, <1>4, Zenon
     DEF RecordingInv, SessionSound, Recordable, NotYetRecorded, Gapless
<1>9. SessionSound'
  BY <1>1, <1>2, <1>4, <1>8, Zenon DEF RecordingInv, SessionSound, HandSound, NotYetRecorded
<1> QED
  BY ZenonT(30), <1>2, <1>6, <1>7, <1>9 DEF RecordingInv, VideosApart, Gapless

LEMMA MuxerClosesKeeps ==
    ASSUME RecordingTypes, RecordingInv, MuxerCloses
    PROVE  RecordingInv'
<1>1. mux' = [mux EXCEPT !.open = FALSE] /\ UNCHANGED saved
  BY Zenon DEF MuxerCloses
<1>2. /\ mux'.no = mux.no /\ mux'.segments = mux.segments
      /\ mux'.nextSegmentID = mux.nextSegmentID
  BY Zenon, <1>1 DEF RecordingTypes
<1>3. CASE session.muxer = mux.no /\ session.at = "next held"
  <2>1. session.video \in Seq(Segment) /\ session.video # <<>> /\ Recordable(session.video)
    BY <1>3, Zenon DEF RecordingInv, SessionSound, RecordingTypes, Sessions
  <2>2. Generated(session.video)
    BY <1>3, Zenon DEF MuxerCloses
  <2> QED
    BY ZenonT(30), <1>1, <2>1, <2>2, GeneratedKeeps
<1>4. CASE ~(session.muxer = mux.no /\ session.at = "next held")
  <2>1. session' = Crashed \/ session' = session
    BY <1>4, Zenon DEF MuxerCloses
  <2>2. UNCHANGED <<prevSeg, saving>>
    BY <1>4, Zenon DEF MuxerCloses
  <2>3. Videos' = Videos
    BY Zenon, <1>1, <2>2 DEF Videos
  <2>4. SessionSound'
    <3>1. CASE session' = session
      BY <1>2, <2>3, <3>1, Zenon
         DEF RecordingInv, SessionSound, HandSound, Recordable, NotYetRecorded, Gapless
    <3>2. CASE session' = Crashed
      <4>1. session'.at \in {"exit", "sleep"} /\ session'.video = <<>> /\ session'.muxer = 0
        BY Zenon, <3>2 DEF Crashed, RecordingTypes, Sessions
      <4>2. session'.muxer <= mux'.no
        BY <1>2, <4>1 DEF RecordingTypes
      <4> QED
        BY <4>1, <4>2, Zenon DEF SessionSound, HandSound
    <3> QED
      BY Zenon, <2>1, <3>1, <3>2
  <2> QED
    BY <1>2, <2>2, <2>3, <2>4 DEF RecordingInv, PlaylistOwn, RecordedBefore, VideosApart, Gapless
<1> QED
  BY <1>3, <1>4, Zenon

LEMMA SaveRecordingKeeps ==
    ASSUME RecordingTypes, RecordingInv, NEW video \in saving, NEW written \in BOOLEAN,
           SaveRecording(video, written)
    PROVE  RecordingInv'
<1> DEFINE r == [video |-> video, written |-> written,
                 events |-> Queried(StartTime(video), EndTime(video))]
           R == [video : Seq(Segment), written : BOOLEAN, events : SUBSET Senders]
<1>1. saved \in Seq(R) /\ saved' = Append(saved, r) /\ saving' = saving \ {video}
  BY Zenon DEF RecordingTypes, SaveRecording
<1>2. r.video = video
  OBVIOUS
<1> HIDE DEF r, R
<1>3. /\ Len(saved) \in Nat /\ Len(saved') = Len(saved) + 1
      /\ saved'[Len(saved) + 1] = r
      /\ \A i \in 1..Len(saved) : saved'[i] = saved[i]
  BY <1>1
<1>4. {saved'[i].video : i \in 1..Len(saved')} = {saved[i].video : i \in 1..Len(saved)} \cup {video}
  BY <1>2, <1>3
<1>5. Videos' = Videos
  BY Zenon, <1>1, <1>4 DEF Videos
<1>6. UNCHANGED <<session, prevSeg, mux>>
  BY Zenon DEF SaveRecording
<1> QED
  BY <1>5, <1>6, Zenon
     DEF RecordingInv, PlaylistOwn, SessionSound, HandSound, RecordedBefore, VideosApart, Recordable,
         NotYetRecorded, Gapless

\* Steps that leave the session, the muxer and the videos alone
LEMMA ElsewhereKeeps ==
    ASSUME RecordingInv, UNCHANGED <<session, prevSeg, mux, saving, saved>>
    PROVE  RecordingInv'
<1>1. Videos' = Videos
  BY Zenon DEF Videos
<1> QED
  BY <1>1, Zenon
     DEF RecordingInv, PlaylistOwn, SessionSound, HandSound, RecordedBefore, VideosApart, Recordable,
         NotYetRecorded, Gapless

LEMMA NextSegmentSameMuxer ==
    ASSUME session \in Sessions, session.muxer = mux.no, NEW held
    PROVE  NextSegment(held) = [NextSegment(held) EXCEPT !.muxer = mux.no]
BY Zenon DEF NextSegment, Answered, Sessions

LEMMA RecordingNext ==
    ASSUME RecordingTypes, RecordingInv, [Next]_vars
    PROVE  RecordingInv'
<1> USE DEF loopVars, fileVars
<1>1. CASE \/ Tick \/ Stop \/ ContextDone
           \/ \E s \in Senders : SendEvent(s)
           \/ UNCHANGED vars
  BY ZenonT(30), <1>1, ElsewhereKeeps DEF Tick, Stop, ContextDone, SendEvent, vars
<1>2. ASSUME NEW s \in Senders, AcceptEvent(s)
      PROVE  RecordingInv'
  <2>1. UNCHANGED <<mux, prevSeg, saving, saved>>
    BY Zenon, <1>2 DEF AcceptEvent
  <2>2. CASE session' = session
    BY Zenon, <2>1, <2>2, ElsewhereKeeps
  <2>3. CASE session' = [NoSession EXCEPT !.at = "get"]
    <3>1. session'.at = "get" /\ session'.video = <<>> /\ session'.muxer = 0
      BY Zenon, <2>3 DEF NoSession
    <3>2. session'.muxer <= mux.no
      BY <3>1 DEF RecordingTypes
    <3> QED
      BY ZenonT(30), <2>1, <3>1, <3>2, ResetKeeps
  <2> QED
    BY ZenonT(30), <1>2, <2>2, <2>3 DEF AcceptEvent
<1>3. CASE TimerFires
  <2>1. /\ session'.at = session.at /\ session'.muxer = session.muxer
        /\ session'.got = session.got /\ session'.video = session.video
        /\ UNCHANGED <<mux, prevSeg, saving, saved>>
    BY Zenon, <1>3 DEF TimerFires, RecordingTypes, Sessions
  <2>2. Videos' = Videos
    BY Zenon, <2>1 DEF Videos
  <2> QED
    BY <2>1, <2>2, ZenonT(30)
       DEF RecordingInv, PlaylistOwn, SessionSound, HandSound, RecordedBefore, VideosApart,
           Recordable, NotYetRecorded, Gapless
<1>4. CASE SessionExits \/ WakeUp
  <2>1. /\ session'.at \in {"none", "get", "exit"} /\ session'.muxer = session.muxer
        /\ session'.video = session.video /\ session.at \in {"exit", "sleep"}
        /\ UNCHANGED <<mux, prevSeg, saving, saved>>
    BY ZenonT(30), <1>4 DEF SessionExits, WakeUp, RecordingTypes, Sessions
  <2>2. session'.video = <<>> /\ session'.muxer <= mux.no
    BY <2>1, Zenon DEF RecordingInv, SessionSound
  <2> QED
    BY ZenonT(30), <2>1, <2>2, ResetKeeps
<1>5. CASE StreamInfo
  <2>1. /\ session.at = "info" /\ session'.at = "write" /\ session'.muxer = session.muxer
        /\ session'.got = session.got /\ session'.video = session.video
        /\ UNCHANGED <<mux, prevSeg, saving, saved>>
    BY Zenon, <1>5 DEF StreamInfo, RecordingTypes, Sessions
  <2>2. Videos' = Videos
    BY Zenon, <2>1 DEF Videos
  <2> QED
    BY <2>1, <2>2, ZenonT(30)
       DEF RecordingInv, PlaylistOwn, SessionSound, HandSound, RecordedBefore, VideosApart,
           Recordable, NotYetRecorded, Gapless
<1>6. CASE StreamInfoFails \/ SkippedSegment \/ FileFails
  BY Zenon, <1>6, CrashedKeeps DEF StreamInfoFails, SkippedSegment, FileFails
<1>7. CASE GetMuxer
  <2>1. UNCHANGED <<mux, prevSeg, saving, saved>> /\ session.at = "get" /\ "first held" \in Held
    BY <1>7, Zenon DEF GetMuxer, Held
  <2>2. CASE session' = [NextSegment("first held") EXCEPT !.muxer = mux.no]
    BY <2>1, <2>2, NextSegmentKeeps, Zenon
  <2>3. CASE session' = Crashed
    BY <2>1, <2>3, CrashedKeeps, Zenon
  <2> QED
    BY <1>7, <2>2, <2>3, Zenon DEF GetMuxer
<1>8. CASE RecordNext
  <2>1. UNCHANGED <<mux, saved>> /\ session.at = "check" /\ "next held" \in Held
    BY <1>8, Zenon DEF RecordNext, Held
  <2>2. CASE Generated(session.video)
    <3>1. session.video \in Seq(Segment) /\ session.video # <<>> /\ Recordable(session.video)
      BY <2>1, Zenon DEF RecordingInv, SessionSound, RecordingTypes, Sessions
    <3> QED
      BY <2>1, <2>2, <3>1, GeneratedKeeps, Zenon
  <2>3. CASE /\ session' = NextSegment("next held") /\ session.muxer = mux.no
             /\ UNCHANGED <<prevSeg, saving>>
    <3>1. NextSegment("next held") = [NextSegment("next held") EXCEPT !.muxer = mux.no]
      BY <2>3, NextSegmentSameMuxer, Zenon DEF RecordingTypes
    <3> QED
      BY <2>1, <2>3, <3>1, NextSegmentKeeps, Zenon
  <2> QED
    BY <1>8, <2>2, <2>3, Zenon DEF RecordNext
<1>9. CASE WriteSegment
  BY Zenon, <1>9, WriteSegmentKeeps
<1>10. CASE MuxerStarts
  BY ZenonT(30), <1>10, MuxerStartsKeeps
<1>11. CASE Publish
  BY Zenon, <1>11, PublishKeeps
<1>12. CASE MuxerCloses
  BY Zenon, <1>12, MuxerClosesKeeps
<1>13. ASSUME NEW video \in saving, NEW written \in BOOLEAN, SaveRecording(video, written)
       PROVE  RecordingInv'
  BY Zenon, <1>13, SaveRecordingKeeps
<1> QED
  BY Zenon, <1>1, <1>2, <1>3, <1>4, <1>5, <1>6, <1>7, <1>8, <1>9, <1>10, <1>11, <1>12, <1>13, SMTT(30)
     DEF Next, LoopStep, SessionStep

-----------------------------------------------------------------------------
LEMMA RecordedOnce ==
    ASSUME RecordingTypes, RecordingInv
    PROVE  SegmentsRecordedOnce
<1>1. RecordingContiguous
  <2> SUFFICES ASSUME NEW i \in 1..Len(saved), NEW j \in 1..Len(saved[i].video) - 1
               PROVE  /\ saved[i].video[j + 1].muxer = saved[i].video[j].muxer
                      /\ saved[i].video[j + 1].ID = saved[i].video[j].ID + 1
    BY Zenon DEF RecordingContiguous
  <2> DEFINE v == saved[i].video
  <2>1. v \in Videos
    BY Zenon DEF Videos
  <2> HIDE DEF v
  <2>2. Gapless(v) /\ v \in Seq(Segment)
    BY Zenon, <2>1, VideosType DEF RecordingInv
  <2>3. j \in 1..Len(v) - 1
    BY Zenon DEF v
  <2>4. j \in 1..Len(v) /\ j + 1 \in 1..Len(v) /\ 1 \in 1..Len(v)
    BY <2>2, <2>3
  <2>5. /\ v[j].muxer = v[1].muxer /\ v[j].ID = v[1].ID + j - 1
        /\ v[j + 1].muxer = v[1].muxer /\ v[j + 1].ID = v[1].ID + (j + 1) - 1
    BY Zenon, <2>2, <2>4, SMTT(30) DEF Gapless
  <2>6. v[1].ID \in Nat
    BY Zenon, <2>1, <2>4, VideosType
  <2>7. v[j + 1].muxer = v[j].muxer
    BY <2>5, Zenon
  <2>8. v[j + 1].ID = v[j].ID + 1
    <3> DEFINE id == v[1].ID
    <3>1. id \in Nat /\ j \in Nat /\ v[j].ID = id + j - 1 /\ v[j + 1].ID = id + (j + 1) - 1
      BY <2>3, <2>5, <2>6
    <3> HIDE DEF id
    <3> QED
      BY <3>1
  <2> QED
    BY Zenon, <2>7, <2>8 DEF v
<1>2. NoSegmentTwice
  <2>1. \A v \in Videos : DOMAIN v = 1..Len(v)
    BY VideosType
  <2>2. ASSUME NEW v \in Videos, NEW w \in Videos, v # w
        PROVE  Range(v) \cap Range(w) = {}
    BY Zenon, <2>1, <2>2 DEF RecordingInv, VideosApart, Range
  <2> QED
    BY Zenon, <2>2 DEF NoSegmentTwice, Videos
<1> QED
  BY Zenon, <1>1, <1>2 DEF SegmentsRecordedOnce

\* Every saved video is gapless and no segment is in two recordings
\* (Recorder.prevSeg, generateVideo), for every number of muxers whose IDs begin
\* again, every size of the playlist and every sequence of crashes.
THEOREM AlwaysRecordedOnce == Spec => []SegmentsRecordedOnce
<1>1. Init => RecordingTypes /\ RecordingInv
  BY Zenon, TypesInit, RecordingInit
<1>2. RecordingTypes /\ RecordingInv /\ [Next]_vars => RecordingTypes' /\ RecordingInv'
  BY Zenon, TypesNext, RecordingNext DEF RecordingInv
<1>3. RecordingTypes /\ RecordingInv => SegmentsRecordedOnce
  BY Zenon, RecordedOnce
<1> QED
  BY <1>1, <1>2, <1>3, PTL DEF Spec

-----------------------------------------------------------------------------
(* The timer *)

\* The timer that runs is the one of the event that ends last.
TimerInv ==
    /\ snd \in [Senders -> [at : {"idle", "sending", "accepted", "refused"}, time : Int, rec : Nat]]
    /\ timerEnd \in Int
    /\ timer \in {None, timerEnd}
    /\ \A s \in Senders : snd[s].at = "accepted" => EventEnd(s) <= timerEnd

LEMMA TimerInit == Init => TimerInv
BY RecorderAssumption DEF Init, TimerInv

LEMMA TimerNext ==
    ASSUME RecordingTypes, TimerInv, [Next]_vars
    PROVE  TimerInv'
<1> USE DEF loopVars
<1>1. ASSUME NEW s \in Senders, SendEvent(s)
      PROVE  TimerInv'
  <2>1. PICK d \in RecDurations :
          snd' = [snd EXCEPT ![s] = [at |-> IF ctxDone THEN "refused" ELSE "sending",
                                     time |-> now - Offset, rec |-> d]]
    BY <1>1, Zenon DEF SendEvent
  <2>2. d \in Nat /\ now - Offset \in Int
    BY RecorderAssumption DEF RecordingTypes
  <2>3. UNCHANGED <<timerEnd, timer>>
    BY Zenon, <1>1 DEF SendEvent
  <2> QED
    BY Zenon, <2>1, <2>2, <2>3 DEF TimerInv, EventEnd
<1>2. ASSUME NEW s \in Senders, AcceptEvent(s)
      PROVE  TimerInv'
  <2>1. snd' = [snd EXCEPT ![s].at = "accepted"] /\ timerEnd' = LaterEnd(s) /\ timer' = timerEnd'
    BY Zenon, <1>2 DEF AcceptEvent
  <2>2. \A t \in Senders : snd[t].time \in Int /\ snd[t].rec \in Nat /\ EventEnd(t) \in Int
    BY DEF TimerInv, EventEnd
  <2>3. \A t \in Senders : EventEnd(t)' = EventEnd(t)
    BY Zenon, <2>1 DEF TimerInv, EventEnd
  <2>4. timerEnd' \in Int /\ timerEnd <= timerEnd' /\ EventEnd(s) <= timerEnd'
    BY <2>1, <2>2 DEF TimerInv, LaterEnd
  <2>5. \A t \in Senders : snd'[t].at = "accepted" => t = s \/ snd[t].at = "accepted"
    BY Zenon, <2>1 DEF TimerInv
  <2>6. ASSUME NEW t \in Senders, snd'[t].at = "accepted"
        PROVE  EventEnd(t)' <= timerEnd'
    <3>1. CASE t = s
      BY Zenon, <2>3, <2>4, <3>1
    <3>2. CASE EventEnd(t) <= timerEnd
      BY <2>2, <2>3, <2>4, <3>2 DEF TimerInv
    <3> QED
      BY Zenon, <2>5, <2>6, <3>1, <3>2 DEF TimerInv
  <2>7. snd' \in [Senders -> [at : {"idle", "sending", "accepted", "refused"}, time : Int, rec : Nat]]
    BY Zenon, <2>1 DEF TimerInv
  <2> QED
    BY Zenon, <2>1, <2>4, <2>6, <2>7 DEF TimerInv
<1>3. CASE TimerFires
  BY Zenon, <1>3 DEF TimerFires, TimerInv, EventEnd
<1>4. CASE UNCHANGED <<snd, timerEnd, timer>>
  BY Zenon, <1>4 DEF TimerInv, EventEnd
<1> QED
  BY <1>1, <1>2, <1>3, <1>4, Zenon
     DEF Next, LoopStep, SessionStep, Tick, Stop, SessionExits, ContextDone, MuxerStarts, Publish,
         MuxerCloses, GetMuxer, StreamInfo, StreamInfoFails, SkippedSegment, WriteSegment,
         RecordNext, WakeUp, FileFails, SaveRecording, vars

\* Only the timer cancels a session.
LEMMA OthersDoNotCancel ==
    ASSUME RecordingTypes, [Next]_vars, ~TimerFires
    PROVE  session'.canceled = session.canceled \/ session'.canceled = FALSE
<1> USE DEF loopVars
<1>1. /\ Crashed.canceled = session.canceled
      /\ \A g : Answered(g).canceled = session.canceled
      /\ \A held : NextSegment(held).canceled = session.canceled
      /\ \A held, m : [NextSegment(held) EXCEPT !.muxer = m].canceled = session.canceled
  BY Zenon DEF RecordingTypes, Sessions, Crashed, Answered, NextSegment
<1>2. CASE session' = session
  BY Zenon, <1>2
<1>3. ASSUME NEW s \in Senders, AcceptEvent(s)
      PROVE  session'.canceled = session.canceled \/ session'.canceled = FALSE
  BY <1>3, Zenon DEF AcceptEvent, NoSession
<1>4. CASE SessionExits \/ StreamInfo \/ WakeUp
  BY ZenonT(30), <1>4 DEF SessionExits, StreamInfo, WakeUp, RecordingTypes, Sessions
<1>5. CASE GetMuxer \/ StreamInfoFails \/ SkippedSegment \/ FileFails \/ Publish
  BY <1>1, <1>5, ZenonT(30) DEF GetMuxer, StreamInfoFails, SkippedSegment, FileFails, Publish
<1>6. ASSUME NEW video, Generated(video)
      PROVE  session'.canceled = session.canceled
  BY Zenon, <1>6 DEF Generated, NoSession
<1>7. CASE WriteSegment
  <2>1. CASE session' = [session EXCEPT !.at = "check", !.got = None,
                                        !.video = Append(session.video, session.got)]
    BY Zenon, <2>1 DEF RecordingTypes, Sessions
  <2> QED
    BY <1>6, <1>7, <2>1, Zenon DEF WriteSegment
<1>8. CASE RecordNext \/ MuxerCloses
  BY <1>1, <1>6, <1>8, Zenon DEF RecordNext, MuxerCloses
<1> QED
  BY <1>2, <1>3, <1>4, <1>5, <1>7, <1>8, Zenon
     DEF Next, LoopStep, SessionStep, Tick, Stop, SendEvent, ContextDone, MuxerStarts, SaveRecording,
         vars

\* The recorder cancels a session only when every event that it accepted has ended
\* (start), for every number of events and whatever their durations.
THEOREM AlwaysCanceledWhenDue == Spec => CanceledWhenDue
<1>1. Init => RecordingTypes /\ RecordingInv /\ TimerInv
  BY Zenon, TypesInit, RecordingInit, TimerInit
<1>2. RecordingTypes /\ RecordingInv /\ TimerInv /\ [Next]_vars
        => RecordingTypes' /\ RecordingInv' /\ TimerInv'
  BY Zenon, TypesNext, RecordingNext, TimerNext DEF RecordingInv
<1>3. RecordingTypes /\ TimerInv /\ [Next]_vars
        => [session'.canceled /\ ~session.canceled => \A s \in Accepted : EventEnd(s) <= now]_vars
  <2> SUFFICES ASSUME RecordingTypes, TimerInv, [Next]_vars, session'.canceled, ~session.canceled
               PROVE  \A s \in Accepted : EventEnd(s) <= now
    OBVIOUS
  <2>1. TimerFires
    BY OthersDoNotCancel, Zenon
  <2>2. timer = timerEnd /\ timer <= now
    BY Zenon, <2>1 DEF TimerFires, TimerInv
  <2> SUFFICES ASSUME NEW s \in Accepted
               PROVE  EventEnd(s) <= now
    OBVIOUS
  <2>3. EventEnd(s) <= timerEnd /\ EventEnd(s) \in Int
    BY DEF TimerInv, Accepted, EventEnd
  <2>4. timerEnd \in Int /\ now \in Int
    BY DEF TimerInv, RecordingTypes
  <2> QED
    BY <2>2, <2>3, <2>4
<1> QED
  BY <1>1, <1>2, <1>3, PTL DEF Spec, CanceledWhenDue
=============================================================================
