------------------------------ MODULE Recorder ------------------------------
(***************************************************************************)
(* The recorder of a monitor (pkg/monitor/recorder.go).  Detectors send    *)
(* events to the goroutine of start, which keeps one recording session     *)
(* alive until the last of them has ended.  The session asks the HLS muxer *)
(* of the main input for segments, writes them to a video, and starts the  *)
(* next video when one has reached its maximum length.  The data file of a *)
(* finished video, with the events of its time range, is written by a      *)
(* goroutine of its own.                                                   *)
(*                                                                         *)
(* The muxer is what HLSPlaylist.tla and VideoServer.tla describe, reduced *)
(* to what NextSegment and StreamInfo show of it.  A video is the sequence *)
(* of its segments; a data file is its time range and its events.          *)
(***************************************************************************)
EXTENDS Integers, Sequences, FiniteSetsExt

CONSTANTS
    Senders,        \* calls of SendEvent, one event each
    RecDurations,   \* Event.RecDuration
    Offset,         \* the timestamp offset of the monitor
    VideoLength,    \* the maximum video length of the monitor
    Window,         \* segments that the playlist keeps
    FirstID,        \* ID of the first segment of a muxer
    MaxMuxers,      \* bound: times the input is (re)started
    MaxFailures,    \* bound: file operations that fail
    MaxInputs,      \* bound: events, starts of the input and failures together
    MaxTime,        \* bound: the clock
    MaxSegment,     \* bound: the duration of a segment
    None

ASSUME RecorderAssumption ==
    /\ RecDurations \subseteq Nat \ {0}
    /\ Offset \in Nat
    /\ VideoLength \in Nat
    /\ Window \in Nat \ {0}
    /\ FirstID \in Nat \ {0}
    /\ MaxMuxers \in Nat /\ MaxFailures \in Nat
    /\ MaxInputs \in Nat /\ MaxTime \in Nat
    /\ MaxSegment \in Nat \ {0}

VARIABLES
    now,            \* the clock
    snd,            \* the goroutines that call Monitor.SendEvent
    ctxDone,        \* Monitor.ctx is done
    loop,           \* where the goroutine of start is
    isRecording, timerEnd,      \* variables of start
    timer,          \* triggerTimer: when it fires, None when it never will
    events,         \* Recorder.events
    session,        \* the goroutine of runRecordingSession
    prevSeg,        \* Recorder.prevSeg
    mux,            \* the HLS muxer of the input
    saving,         \* calls of saveRecording that were started
    saved,          \* and those that have returned
    failures

loopVars == <<loop, isRecording, timerEnd, timer, events>>
fileVars == <<saving, saved, failures>>
vars == <<now, snd, ctxDone, loopVars, session, prevSeg, mux, fileVars>>

Segment == [muxer : Nat, ID : Nat, start : Nat, end : Nat]

LastSegment(video) == video[Len(video)]

NoSession == [at |-> "none", canceled |-> FALSE, muxer |-> 0, got |-> None, video |-> <<>>]

Init ==
    /\ now = 0
    /\ snd = [s \in Senders |-> [at |-> "idle", time |-> 0, rec |-> 0]]
    /\ ctxDone = FALSE
    /\ loop = "select"
    /\ isRecording = FALSE
    /\ timerEnd = -Offset
    /\ timer = None
    /\ events = {}
    /\ session = NoSession
    /\ prevSeg = 0
    /\ mux = [no |-> 0, open |-> FALSE, segments |-> <<>>, nextSegmentID |-> FirstID, since |-> 0]
    /\ saving = {}
    /\ saved = <<>>
    /\ failures = 0

EventEnd(s) == snd[s].time + snd[s].rec

Sent == {s \in Senders : snd[s].at # "idle"}

\* A behaviour has room for one more input of this weight; an event counts for two.
RoomFor(weight) == 2 * Cardinality(Sent) + mux.no + failures + weight <= MaxInputs

Accepted == {s \in Senders : snd[s].at = "accepted"}

\* The session's context is a child of the monitor's.
Canceled == session.canceled \/ ctxDone

-----------------------------------------------------------------------------
(* Time and the monitor *)

Tick ==
    /\ now < MaxTime
    /\ mux.open => now - mux.since < MaxSegment
    /\ now' = now + 1
    /\ UNCHANGED <<snd, ctxDone, loopVars, session, prevSeg, mux, fileVars>>

\* Monitor.stop cancels the context, and waits.
Stop ==
    /\ ~ctxDone
    /\ ctxDone' = TRUE
    /\ UNCHANGED <<now, snd, loopVars, session, prevSeg, mux, fileVars>>

\* Monitor.SendEvent and Recorder.sendEvent, up to the send on eventChan.
SendEvent(s) ==
    /\ snd[s].at = "idle" /\ RoomFor(2)
    /\ \E d \in RecDurations :
          snd' = [snd EXCEPT ![s] = [at |-> IF ctxDone THEN "refused" ELSE "sending",
                                     time |-> now - Offset, rec |-> d]]
    /\ UNCHANGED <<now, ctxDone, loopVars, session, prevSeg, mux, fileVars>>

-----------------------------------------------------------------------------
(* The goroutine of start *)

\* Mutant of LaterEnd: the last event sets the timer.
LastEnd(s) == EventEnd(s)

LaterEnd(s) == IF EventEnd(s) > timerEnd THEN EventEnd(s) ELSE timerEnd

\* An event starts a session, or only renews the timer.
AcceptEvent(s) ==
    /\ loop = "select"
    /\ snd[s].at = "sending"
    /\ snd' = [snd EXCEPT ![s].at = "accepted"]
    /\ events' = events \cup {s}
    /\ timerEnd' = LaterEnd(s)
    /\ timer' = timerEnd'
    /\ isRecording' = TRUE
    /\ session' = IF isRecording THEN session ELSE [NoSession EXCEPT !.at = "get"]
    /\ UNCHANGED <<now, ctxDone, loop, prevSeg, mux, fileVars>>

TimerFires ==
    /\ loop = "select"
    /\ timer # None
    /\ timer <= now
    /\ timer' = None
    /\ session' = [session EXCEPT !.canceled = TRUE]
    /\ UNCHANGED <<now, snd, ctxDone, loop, isRecording, timerEnd, events, prevSeg, mux, fileVars>>

\* The session's goroutine hands over onSessionExit.
SessionExits ==
    /\ session.at = "exit"
    /\ loop \in {"select", "wait"}
    /\ loop' = IF loop = "wait" THEN "done" ELSE "select"
    /\ isRecording' = FALSE
    /\ session' = [session EXCEPT !.at = "none"]
    /\ UNCHANGED <<now, snd, ctxDone, timerEnd, timer, events, prevSeg, mux, fileVars>>

\* Mutant of ContextDone: start waits for a session that has already exited.
ContextDoneWaits ==
    /\ loop = "select"
    /\ ctxDone
    /\ loop' = IF timerEnd > -Offset THEN "wait" ELSE "done"
    /\ UNCHANGED <<now, snd, ctxDone, isRecording, timerEnd, timer, events, session, prevSeg, mux,
                   fileVars>>

\* The monitor's context is done: start waits for the session, then returns.
ContextDone ==
    /\ loop = "select"
    /\ ctxDone
    /\ loop' = IF isRecording THEN "wait" ELSE "done"
    /\ UNCHANGED <<now, snd, ctxDone, isRecording, timerEnd, timer, events, session, prevSeg, mux,
                   fileVars>>

-----------------------------------------------------------------------------
(* The muxer *)

\* The input process starts: a new muxer, whose segments count from FirstID.
MuxerStarts ==
    /\ ~mux.open
    /\ ~ctxDone
    /\ mux.no < MaxMuxers /\ RoomFor(1)
    /\ mux' = [no |-> mux.no + 1, open |-> TRUE, segments |-> <<>>, nextSegmentID |-> FirstID,
               since |-> now]
    /\ UNCHANGED <<now, snd, ctxDone, loopVars, session, prevSeg, fileVars>>

Held == {"first held", "next held"}

\* The session's call of NextSegment returned segment g.
Answered(g) ==
    [session EXCEPT !.at = IF session.at \in {"get", "first held"} THEN "info" ELSE "write",
                    !.got = g]

\* The prevID of the session's call of NextSegment
PrevID == IF session.at \in {"get", "first held"} THEN prevSeg ELSE LastSegment(session.video).ID

\* segmentFinalized
Publish ==
    LET g == [muxer |-> mux.no, ID |-> mux.nextSegmentID, start |-> mux.since, end |-> now]
        all == Append(mux.segments, g)
    IN  /\ mux.open
        /\ now > mux.since
        /\ mux' = [mux EXCEPT !.segments = IF Len(all) > Window THEN Tail(all) ELSE all,
                              !.nextSegmentID = @ + 1,
                              !.since = now]
        /\ session' = IF session.at \in Held /\ session.muxer = mux.no /\ g.ID > PrevID
                      THEN Answered(g)
                      ELSE session
        /\ UNCHANGED <<now, snd, ctxDone, loopVars, prevSeg, fileVars>>

\* The first cached segment that a call of NextSegment may be given
Cached(id) ==
    LET fit == {k \in 1..Len(mux.segments) : id < mux.segments[k].ID \/ id >= mux.nextSegmentID}
    IN  IF fit = {} THEN 0 ELSE Min(fit)

\* NextSegment of a muxer that is open: answered, or put on hold
NextSegment(held) ==
    IF Cached(PrevID) > 0
    THEN Answered(mux.segments[Cached(PrevID)])
    ELSE [session EXCEPT !.at = held]

-----------------------------------------------------------------------------
(* The goroutine of the session *)

\* runRecordingSession after runRecording failed: it sleeps, unless the session is
\* already canceled.
Crashed == [session EXCEPT !.at = IF Canceled THEN "exit" ELSE "sleep", !.muxer = 0, !.got = None, !.video = <<>>]

\* Mutant of Generated: the recorder goes on from the first segment.
GeneratedFirst(video) ==
    /\ prevSeg' = video[1].ID
    /\ saving' = saving \cup {video}
    /\ session' = [NoSession EXCEPT !.at = IF Canceled THEN "exit" ELSE "get",
                                    !.canceled = session.canceled]

\* generateVideo returned without an error: the data file is saved by another
\* goroutine, and the session goes on unless it was canceled.
Generated(video) ==
    /\ prevSeg' = LastSegment(video).ID
    /\ saving' = saving \cup {video}
    /\ session' = [NoSession EXCEPT !.at = IF Canceled THEN "exit" ELSE "get",
                                    !.canceled = session.canceled]

\* runRecording: HLSMuxer and NextSegment
GetMuxer ==
    /\ session.at = "get"
    /\ session' = IF mux.open
                  THEN [NextSegment("first held") EXCEPT !.muxer = mux.no]
                  ELSE Crashed
    /\ UNCHANGED <<now, snd, ctxDone, loopVars, prevSeg, mux, fileVars>>

\* runRecording: StreamInfo asks the muxer that is registered now.  Before its
\* first sample it has no information, and is asked again until the session is
\* canceled; once it is closed it may be found or not.
StreamInfo ==
    /\ session.at = "info"
    /\ mux.open \/ mux.no = session.muxer
    /\ session' = [session EXCEPT !.at = "write"]
    /\ UNCHANGED <<now, snd, ctxDone, loopVars, prevSeg, mux, fileVars>>

StreamInfoFails ==
    /\ session.at = "info"
    /\ \/ ~mux.open
       \/ Canceled /\ mux.segments = <<>>
    /\ session' = Crashed
    /\ UNCHANGED <<now, snd, ctxDone, loopVars, prevSeg, mux, fileVars>>

\* A directory or a file cannot be created or written.
FileFails ==
    /\ session.at \in {"info", "write"}
    /\ failures < MaxFailures /\ RoomFor(1)
    /\ failures' = failures + 1
    /\ session' = Crashed
    /\ UNCHANGED <<now, snd, ctxDone, loopVars, prevSeg, mux, saving, saved>>

\* generateVideo: the segment is the one after the last that was written.
Follows(g) == session.video # <<>> => g.ID = LastSegment(session.video).ID + 1

\* generateVideo: a segment was skipped.
SkippedSegment ==
    /\ session.at = "write"
    /\ ~Follows(session.got)
    /\ session' = Crashed
    /\ UNCHANGED <<now, snd, ctxDone, loopVars, prevSeg, mux, fileVars>>

\* generateVideo: writeSegment, and the end of the video after the segment that
\* starts after stopTime.
WriteSegment ==
    LET video == Append(session.video, session.got)
    IN  /\ session.at = "write"
        /\ Follows(session.got)
        /\ IF session.got.start > video[1].start + VideoLength
           THEN Generated(video)
           ELSE /\ session' = [session EXCEPT !.at = "check", !.got = None, !.video = video]
                /\ UNCHANGED <<prevSeg, saving>>
        /\ UNCHANGED <<now, snd, ctxDone, loopVars, mux, saved, failures>>

\* generateVideo: the loop ends when the session is canceled or the muxer was
\* closed, and else asks for the next segment.
RecordNext ==
    /\ session.at = "check"
    /\ IF Canceled \/ ~mux.open \/ mux.no # session.muxer
       THEN Generated(session.video)
       ELSE /\ session' = NextSegment("next held")
            /\ UNCHANGED <<prevSeg, saving>>
    /\ UNCHANGED <<now, snd, ctxDone, loopVars, mux, saved, failures>>

\* The muxer is closed: the playlist goroutine ends, and a call of NextSegment
\* that it holds fails.
MuxerCloses ==
    /\ mux.open
    /\ mux' = [mux EXCEPT !.open = FALSE]
    /\ CASE session.muxer = mux.no /\ session.at = "first held" ->
              session' = Crashed /\ UNCHANGED <<prevSeg, saving>>
         [] session.muxer = mux.no /\ session.at = "next held" -> Generated(session.video)
         [] OTHER -> UNCHANGED <<session, prevSeg, saving>>
    /\ UNCHANGED <<now, snd, ctxDone, loopVars, saved, failures>>

\* runRecordingSession after a crash: the sleep is over, or the session canceled.
WakeUp ==
    /\ session.at = "sleep"
    /\ \E at \in {"get"} \cup (IF Canceled THEN {"exit"} ELSE {}) :
          session' = [session EXCEPT !.at = at]
    /\ UNCHANGED <<now, snd, ctxDone, loopVars, prevSeg, mux, fileVars>>

-----------------------------------------------------------------------------
(* saveRecording *)

\* The time range of a recording: only its start is moved by the offset.
StartTime(video) == video[1].start - Offset
EndTime(video) == LastSegment(video).end

\* Mutant of Pruned: the events that are still to come are removed too.
PrunedAll(start) == {}

\* Events.QueryAndPrune: what is returned, and what is kept
Queried(start, end) == {s \in events : snd[s].time >= start /\ snd[s].time < end}
Pruned(start) == {s \in events : snd[s].time >= start}

\* The events are taken under eventsLock, then the data file is written.
SaveRecording(video, written) ==
    /\ video \in saving
    /\ saving' = saving \ {video}
    /\ events' = Pruned(StartTime(video))
    /\ saved' = Append(saved, [video |-> video, written |-> written,
                               events |-> Queried(StartTime(video), EndTime(video))])
    /\ ~written => failures < MaxFailures /\ RoomFor(1)
    /\ failures' = IF written THEN failures ELSE failures + 1
    /\ UNCHANGED <<now, snd, ctxDone, loop, isRecording, timerEnd, timer, session, prevSeg, mux>>

-----------------------------------------------------------------------------
LoopStep == (\E s \in Senders : AcceptEvent(s)) \/ TimerFires \/ SessionExits \/ ContextDone

SessionStep ==
    \/ GetMuxer \/ StreamInfo \/ StreamInfoFails \/ SkippedSegment
    \/ WriteSegment \/ RecordNext \/ WakeUp

Next ==
    \/ Tick \/ Stop
    \/ \E s \in Senders : SendEvent(s)
    \/ LoopStep
    \/ MuxerStarts \/ Publish \/ MuxerCloses
    \/ SessionStep \/ FileFails
    \/ \E video \in saving, written \in BOOLEAN : SaveRecording(video, written)

Spec == Init /\ [][Next]_vars

\* Goroutines that can go on do so.  Stopping the monitor cancels its input
\* process, which closes the muxer (PathRemovedIfAnswered of VideoServer.tla).
Fairness ==
    /\ WF_vars(LoopStep)
    /\ WF_vars(SessionStep)
    /\ WF_vars(ctxDone /\ MuxerCloses)

FairSpec == Spec /\ Fairness

-----------------------------------------------------------------------------
(* Properties *)

\* The types of the variables; a session waits for a muxer only where
\* runRecording does, and has a segment in hand only between NextSegment and
\* writeSegment.
TypeOK ==
    /\ now \in 0..MaxTime
    /\ \A s \in Senders :
          /\ snd[s].at \in {"idle", "sending", "accepted", "refused"}
          /\ snd[s].time \in Int /\ snd[s].rec \in Nat
    /\ ctxDone \in BOOLEAN
    /\ loop \in {"select", "wait", "done"}
    /\ isRecording \in BOOLEAN
    /\ timerEnd \in Int
    /\ timer \in {None, timerEnd}
    /\ events \subseteq Accepted
    /\ session.at \in {"none", "get", "info", "write", "check", "sleep", "exit"} \cup Held
    /\ session.canceled \in BOOLEAN
    /\ session.muxer \in 0..mux.no
    /\ session.at \in {"info", "write"} <=> session.got \in Segment
    /\ session.video \in Seq(Segment)
    /\ prevSeg \in Nat
    /\ mux.segments \in Seq(Segment) /\ Len(mux.segments) <= Window
    /\ saving \subseteq Seq(Segment)
    /\ failures \in 0..MaxFailures
    /\ isRecording <=> session.at # "none"

\* A video is gapless: its segments come from one muxer and have consecutive
\* IDs, although NextSegment skips what has left the playlist (generateVideo).
RecordingContiguous ==
    \A i \in 1..Len(saved) :
        LET video == saved[i].video
        IN  \A j \in 1..Len(video) - 1 :
                /\ video[j + 1].muxer = video[j].muxer
                /\ video[j + 1].ID = video[j].ID + 1

\* No segment is in two recordings, over crashed recordings, new sessions and
\* restarts of the muxer that begin its IDs again (Recorder.prevSeg).
NoSegmentTwice ==
    LET videos == saving \cup {saved[i].video : i \in 1..Len(saved)}
    IN  \A v, w \in videos : v # w => Range(v) \cap Range(w) = {}

\* A video is gapless, and no segment is in two of them.
SegmentsRecordedOnce == RecordingContiguous /\ NoSegmentTwice

\* The data file of a recording has every event of its time range, unless the
\* data file of a later recording was written first: its saveRecording has then
\* removed the events before its own start (QueryAndPrune).
EventsSaved ==
    [][\A video \in saving \ saving' :
          \A s \in Accepted :
              \/ snd[s].time < StartTime(video) \/ snd[s].time >= EndTime(video)
              \/ s \in saved'[Len(saved')].events
              \/ \E i \in 1..Len(saved) : StartTime(saved[i].video) > snd[s].time]_vars

\* Start cancels a session only when every event it was sent has ended, whatever
\* timers were replaced in between.
CanceledWhenDue ==
    [][session'.canceled /\ ~session.canceled
         => \A s \in Accepted : EventEnd(s) <= now]_vars

\* After Monitor.stop the goroutine of start returns, wherever its session is:
\* it, its session and the muxer that is closed only come to rest when it has.
RecorderStops ==
    ctxDone /\ ~ENABLED (LoopStep \/ SessionStep \/ MuxerCloses) => loop = "done"

\* "Event is a recording trigger event": while an event that was accepted has not
\* ended, a session that is not canceled records it.  It does not hold: an event
\* that comes after the timer canceled the session and before the session has
\* exited finds isRecording set, and nobody starts another session.
EventTriggersRecording ==
    loop = "select" /\ ~ctxDone /\ (\E s \in Accepted : EventEnd(s) > now)
        => isRecording /\ ~session.canceled

\* "Stop monitor": after the context is canceled, Monitor.stop waits for start
\* and for the detectors that send events, all of which return.  It does not hold:
\* a sender that found the context alive waits for a receiver that has returned.
StopReturns == ctxDone ~> loop = "done" /\ \A s \in Senders : snd[s].at # "sending"

=============================================================================
