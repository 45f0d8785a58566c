------------------------------ MODULE Monitors ------------------------------
(***************************************************************************)
(* The monitor manager (monitor.Manager), the input loops of the monitors  *)
(* (InputProcess), the FFmpeg process of each (ffmpeg.process), its        *)
(* watchdog (addons/watchdog) and its detectors (addons/motion,            *)
(* addons/doods2), with processes that exit, crash and freeze, and         *)
(* requests that set, restart and delete monitors.                         *)
(*                                                                         *)
(* A configuration is the set of inputs it enables; the empty set is that  *)
(* of a disabled monitor.  The requests of the manager run under one       *)
(* mutex, so one is enough.  Configurations are in memory only: a file     *)
(* that cannot be written or removed changes nothing here.  Of the paths   *)
(* of the video server there is what an input sees: see VideoServer.       *)
(***************************************************************************)
EXTENDS Naturals, FiniteSets

CONSTANTS
    Ids,         \* of monitors
    Inputs,      \* "main" and "sub"
    Configs      \* configurations

None == {"none"}   \* no configuration

ASSUME MonitorsAssumption == Configs \subseteq SUBSET Inputs /\ None \notin Configs

Keys == Ids \X Inputs

VARIABLES
    raw,       \* Manager.rawConfigs
    running,   \* Manager.runningMonitors: the configuration each was started with
    canceled,  \* the context of a monitor is canceled
    mgr,       \* the request that holds Manager.mu
    recorder,  \* whether the recorder of a monitor runs
    loop,      \* InputProcess.start
    runCtx,    \* processCTX of the current run
    os,        \* the process
    alive,     \* number of processes that run
    stopper,   \* the goroutine of process.Start
    path,      \* the path in the video server
    muxer,     \* whether the path has a muxer
    wd,        \* the watchdog of the current run
    feed,      \* its goroutine that waits for segments
    late,      \* a watchdog of an earlier run whose timer had fired
    detector,  \* the detector of the last run
    lagging    \* a detector of an earlier run that has not ended

managerVars == <<raw, running, canceled, mgr, recorder>>
detectorVars == <<detector, lagging>>
inputVars == <<loop, runCtx, os, alive, stopper, path, muxer, wd, feed, late, detectorVars>>
monitorVars == <<managerVars, inputVars>>

Free == [op |-> "free", todo |-> {}]

\* Nothing was started.
MonitorsStart ==
    /\ running = [m \in Ids |-> None]
    /\ canceled = [m \in Ids |-> FALSE]
    /\ recorder = [m \in Ids |-> FALSE]
    /\ loop = [k \in Keys |-> "none"]
    /\ runCtx = [k \in Keys |-> "none"]
    /\ os = [k \in Keys |-> "none"]
    /\ alive = [k \in Keys |-> 0]
    /\ stopper = [k \in Keys |-> "none"]
    /\ path = [k \in Keys |-> "none"]
    /\ muxer = [k \in Keys |-> FALSE]
    /\ wd = [k \in Keys |-> "none"]
    /\ feed = [k \in Keys |-> "none"]
    /\ late = [k \in Keys |-> FALSE]
    /\ detector = [k \in Keys |-> "none"]
    /\ lagging = [k \in Keys |-> "none"]

\* NewManager has read the files; StartMonitors has the mutex.
MonitorsInit ==
    /\ raw \in [Ids -> Configs \union {None}]
    /\ mgr = [op |-> "start", todo |-> {m \in Ids : raw[m] # None}]
    /\ MonitorsStart

-----------------------------------------------------------------------------
(* The requests.                                                           *)

\* unsafeStartMonitor and Monitor.start.
StartMonitor(m) ==
    /\ mgr.op \in {"start", "restarted"} /\ m \in mgr.todo
    /\ running' = [running EXCEPT ![m] = raw[m]]
    /\ canceled' = [canceled EXCEPT ![m] = FALSE]
    /\ recorder' = [recorder EXCEPT ![m] = raw[m] # {}]
    /\ loop' = [k \in Keys |-> IF k[1] = m /\ k[2] \in raw[m] THEN "check" ELSE loop[k]]
    /\ late' = [k \in Keys |-> late[k] /\ k[1] # m]
    /\ mgr' = IF mgr.todo = {m} THEN Free ELSE [mgr EXCEPT !.todo = @ \ {m}]
    /\ UNCHANGED <<raw, runCtx, os, alive, stopper, path, muxer, wd, feed, detectorVars>>

NothingToStart ==
    /\ mgr.op = "start" /\ mgr.todo = {}
    /\ mgr' = Free
    /\ UNCHANGED <<raw, running, canceled, recorder, inputVars>>

RestartMonitor(m) ==
    /\ mgr = Free /\ raw[m] # None
    /\ IF running[m] = None
       THEN mgr' = [op |-> "restarted", todo |-> {m}] /\ UNCHANGED canceled
       ELSE /\ mgr' = [op |-> "restart", todo |-> {m}]
            /\ canceled' = [canceled EXCEPT ![m] = TRUE]
    /\ UNCHANGED <<raw, running, recorder, inputVars>>

\* If the file cannot be written, nothing changes.
MonitorSet(m) ==
    /\ mgr = Free
    /\ \E c \in Configs : raw' = [raw EXCEPT ![m] = c]
    /\ UNCHANGED <<running, canceled, mgr, recorder, inputVars>>

\* A monitor that was set and not yet started: ErrNotExist.
MonitorDelete(m) ==
    /\ mgr = Free /\ running[m] # None
    /\ mgr' = [op |-> "delete", todo |-> {m}]
    /\ canceled' = [canceled EXCEPT ![m] = TRUE]
    /\ UNCHANGED <<raw, running, recorder, inputVars>>

\* Run ends: StopMonitors, one after the other.
StopMonitors ==
    /\ mgr = Free
    /\ mgr' = [op |-> "stop", todo |-> {m \in Ids : running[m] # None}]
    /\ UNCHANGED <<raw, running, canceled, recorder, inputVars>>

StopMonitor(m) ==
    /\ mgr.op = "stop" /\ m \in mgr.todo
    /\ ~\E n \in mgr.todo : canceled[n]
    /\ canceled' = [canceled EXCEPT ![m] = TRUE]
    /\ UNCHANGED <<raw, running, mgr, recorder, inputVars>>

\* Mutant of Waited: the monitor is not waited for.
WaitedNot(m) == TRUE

\* WG.Wait in Monitor.stop: the recorder, the inputs, and the detectors of all
\* their runs.
Waited(m) ==
    /\ ~recorder[m]
    /\ \A i \in Inputs :
        loop[<<m, i>>] = "none" /\ detector[<<m, i>>] = "none" /\ lagging[<<m, i>>] = "none"

\* The monitor has stopped, and the request goes on.
Stopped(m) ==
    /\ mgr.op \in {"restart", "delete", "stop"} /\ m \in mgr.todo /\ canceled[m] /\ Waited(m)
    /\ running' = [running EXCEPT ![m] = None]
    /\ canceled' = [canceled EXCEPT ![m] = FALSE]
    /\ mgr' = CASE mgr.op = "restart" -> [op |-> "restarted", todo |-> {m}]
                [] mgr.op = "delete" -> Free
                [] OTHER -> [mgr EXCEPT !.todo = @ \ {m}]
    /\ raw' = IF mgr.op = "delete" THEN [raw EXCEPT ![m] = None] ELSE raw
    /\ UNCHANGED <<recorder, inputVars>>

\* The recorder ends when the monitor is stopped: see Recorder.
RecorderEnds(m) ==
    /\ recorder[m] /\ canceled[m]
    /\ recorder' = [recorder EXCEPT ![m] = FALSE]
    /\ UNCHANGED <<raw, running, canceled, mgr, inputVars>>

-----------------------------------------------------------------------------
(* The loop of an input.                                                   *)

RunDone(k) == runCtx[k] = "canceled" \/ canceled[k[1]]

\* The end of runInputProcess: processCTX is canceled, for the path and for the
\* watchdog, whose timer may have fired at the same time.
EndRun(k, next) ==
    /\ loop' = [loop EXCEPT ![k] = next]
    /\ runCtx' = [runCtx EXCEPT ![k] = "none"]
    /\ wd' = [wd EXCEPT ![k] = "none"]
    /\ late' \in IF wd[k] = "watch" THEN {late, [late EXCEPT ![k] = TRUE]} ELSE {late}
    /\ feed' = [feed EXCEPT ![k] = "none"]
    /\ path' = [path EXCEPT ![k] = IF @ = "live" THEN "closing" ELSE @]
    /\ muxer' = [muxer EXCEPT ![k] = FALSE]
    /\ UNCHANGED detectorVars

CheckStopped(k) ==
    /\ loop[k] = "check" /\ canceled[k[1]]
    /\ loop' = [loop EXCEPT ![k] = "none"]
    /\ UNCHANGED <<managerVars, runCtx, os, alive, stopper, path, muxer, wd, feed, late, detectorVars>>

\* newVideoServerPath and the hooks, which start the watchdog and, if one is
\* configured, a detector.  Bound: of the detectors of earlier runs, at most one
\* has not ended.
NewPath(k) ==
    /\ loop[k] = "check" /\ ~canceled[k[1]] /\ path[k] = "none"
    /\ detector[k] = "none" \/ lagging[k] = "none"
    /\ loop' = [loop EXCEPT ![k] = "start"]
    /\ runCtx' = [runCtx EXCEPT ![k] = "live"]
    /\ path' = [path EXCEPT ![k] = "live"]
    /\ wd' = [wd EXCEPT ![k] = "warmup"]
    /\ detector' \in {[detector EXCEPT ![k] = "none"], [detector EXCEPT ![k] = "runs"]}
    /\ lagging' = IF detector[k] = "none" THEN lagging ELSE [lagging EXCEPT ![k] = detector[k]]
    /\ UNCHANGED <<managerVars, os, alive, stopper, muxer, feed, late>>

\* The path of the last run is still there (ErrPathAlreadyExist), or its name or
\* configuration is not valid.
NewPathFails(k) ==
    /\ loop[k] = "check" /\ ~canceled[k[1]]
    /\ loop' = [loop EXCEPT ![k] = "sleep"]
    /\ UNCHANGED <<managerVars, runCtx, os, alive, stopper, path, muxer, wd, feed, late, detectorVars>>

\* process.Start, whether or not the context is canceled already.
ProcessStart(k) ==
    /\ loop[k] = "start"
    /\ loop' = [loop EXCEPT ![k] = "wait"]
    /\ os' = [os EXCEPT ![k] = "running"]
    /\ alive' = [alive EXCEPT ![k] = @ + 1]
    /\ stopper' = [stopper EXCEPT ![k] = "select"]
    /\ UNCHANGED <<managerVars, runCtx, path, muxer, wd, feed, late, detectorVars>>

ProcessStartFails(k) ==
    /\ loop[k] = "start"
    /\ EndRun(k, "sleep")
    /\ UNCHANGED <<managerVars, os, alive, stopper>>

\* cmd.Wait returns, and the goroutine that could stop the process ends.  The
\* exit status 255 is not an error: the next run begins at once.
WaitReturns(k) ==
    /\ loop[k] = "wait" /\ os[k] \in {"exited", "crashed"}
    /\ EndRun(k, IF os[k] = "exited" THEN "check" ELSE "sleep")
    /\ os' = [os EXCEPT ![k] = "none"]
    /\ alive' = [alive EXCEPT ![k] = @ - 1]
    /\ stopper' = [stopper EXCEPT ![k] = "none"]
    /\ UNCHANGED managerVars

\* After a second, or when the monitor is stopped.
SleepEnds(k) ==
    /\ loop[k] = "sleep"
    /\ loop' = [loop EXCEPT ![k] = "check"]
    /\ UNCHANGED <<managerVars, runCtx, os, alive, stopper, path, muxer, wd, feed, late, detectorVars>>

\* The video server removes the path when the context of the run is done.
PathRemoved(k) ==
    /\ path[k] = "closing"
    /\ path' = [path EXCEPT ![k] = "none"]
    /\ UNCHANGED <<managerVars, loop, runCtx, os, alive, stopper, muxer, wd, feed, late, detectorVars>>

-----------------------------------------------------------------------------
(* The process, and process.Stop.                                          *)

procOnly == UNCHANGED <<managerVars, loop, runCtx, alive, path, muxer, wd, feed, late, detectorVars>>

Freeze(k) == os[k] = "running" /\ os' = [os EXCEPT ![k] = "frozen"] /\ UNCHANGED stopper /\ procOnly

ExitsItself(k) ==
    /\ os[k] = "running"
    /\ os' \in {[os EXCEPT ![k] = "exited"], [os EXCEPT ![k] = "crashed"]}
    /\ UNCHANGED stopper /\ procOnly

Interrupt(k) ==
    /\ stopper[k] = "select" /\ RunDone(k)
    /\ stopper' = [stopper EXCEPT ![k] = "interrupt"]
    /\ UNCHANGED os /\ procOnly

\* Mutant of Kill: the timeout is waited for again.
KillNot(k) == FALSE

\* The timeout after the interrupt.
Kill(k) ==
    /\ stopper[k] = "interrupt"
    /\ stopper' = [stopper EXCEPT ![k] = "kill"]
    /\ UNCHANGED os /\ procOnly

\* An interrupted process exits with status 255, unless it is frozen; a killed
\* one does in any case.
ExitsOnSignal(k) ==
    /\ \/ stopper[k] \in {"interrupt", "kill"} /\ os[k] = "running" /\ os' = [os EXCEPT ![k] = "exited"]
       \/ stopper[k] = "kill" /\ os[k] \in {"running", "frozen"} /\ os' = [os EXCEPT ![k] = "crashed"]
    /\ UNCHANGED stopper /\ procOnly

-----------------------------------------------------------------------------
(* The watchdog.  A timer that was set again is another timer: "watch" and *)
(* "again" tell one from the next.                                         *)

Watching(k) == wd[k] \in {"watch", "again"}

watchOnly == UNCHANGED <<managerVars, loop, os, alive, stopper, path, detectorVars>>

WarmupEnds(k) ==
    /\ wd[k] = "warmup"
    /\ wd' = [wd EXCEPT ![k] = "watch"] /\ feed' = [feed EXCEPT ![k] = "sleep"]
    /\ UNCHANGED <<runCtx, muxer, late>> /\ watchOnly

\* The process publishes to the path, which gets a muxer; the muxer ends with the
\* connection of the process, or by an error.
MuxerStarts(k) ==
    /\ path[k] = "live" /\ os[k] = "running" /\ ~muxer[k]
    /\ muxer' = [muxer EXCEPT ![k] = TRUE]
    /\ UNCHANGED <<runCtx, wd, feed, late>> /\ watchOnly

\* WaitForSegFinalized returns when the muxer ends, too.
MuxerEnds(k) ==
    /\ muxer[k] /\ muxer' = [muxer EXCEPT ![k] = FALSE]
    /\ feed' = [feed EXCEPT ![k] = IF @ = "wait" THEN "offer" ELSE @]
    /\ UNCHANGED <<runCtx, wd, late>> /\ watchOnly

\* d.muxer after a second; if there is none, it is asked for again.
FeedAsks(k) ==
    /\ feed[k] = "sleep" /\ muxer[k]
    /\ feed' = [feed EXCEPT ![k] = "wait"]
    /\ UNCHANGED <<runCtx, muxer, wd, late>> /\ watchOnly

SegFinalized(k) ==
    /\ feed[k] = "wait" /\ os[k] = "running"
    /\ feed' = [feed EXCEPT ![k] = "offer"]
    /\ UNCHANGED <<runCtx, muxer, wd, late>> /\ watchOnly

\* The watchdog receives from keepAlive and sets its timer again.
KeepAlive(k) ==
    /\ Watching(k) /\ feed[k] = "offer"
    /\ feed' = [feed EXCEPT ![k] = "sleep"]
    /\ wd' = [wd EXCEPT ![k] = IF @ = "watch" THEN "again" ELSE "watch"]
    /\ UNCHANGED <<runCtx, muxer, late>> /\ watchOnly

\* Mutant of OnFreeze: the watchdog only writes to the log.
OnFreezeLogs(k) == UNCHANGED runCtx

\* i.Cancel: the context of the run that is current now.
OnFreeze(k) == runCtx' = [runCtx EXCEPT ![k] = IF @ = "live" THEN "canceled" ELSE @]

\* The timer: the process is frozen, or only slow.
WatchdogFires(k) ==
    /\ Watching(k) /\ ~RunDone(k)
    /\ OnFreeze(k)
    /\ wd' = [wd EXCEPT ![k] = "none"] /\ feed' = [feed EXCEPT ![k] = "none"]
    /\ UNCHANGED <<muxer, late>> /\ watchOnly

WatchdogEnds(k) ==
    /\ wd[k] # "none" /\ RunDone(k)
    /\ wd' = [wd EXCEPT ![k] = "none"] /\ feed' = [feed EXCEPT ![k] = "none"]
    /\ UNCHANGED <<runCtx, muxer, late>> /\ watchOnly

\* The watchdog of an earlier run finds its timer, and not the end of its context.
LateWatchdogFires(k) ==
    /\ late[k] /\ late' = [late EXCEPT ![k] = FALSE]
    /\ OnFreeze(k)
    /\ UNCHANGED <<muxer, wd, feed>> /\ watchOnly

LateWatchdogEnds(k) ==
    /\ late[k] /\ late' = [late EXCEPT ![k] = FALSE]
    /\ UNCHANGED <<runCtx, muxer, wd, feed>> /\ watchOnly

-----------------------------------------------------------------------------
(* The detectors.  Their goroutines join the wait group of the monitor;    *)
(* the process of a detector ends like that of an input.                   *)

detectOnly == UNCHANGED <<managerVars, loop, runCtx, os, alive, stopper, path, muxer, wd, feed, late>>

\* Monitor.SendEvent looks at the context of the monitor, and sendEvent offers
\* the event to the recorder.
DetectorSends(k) ==
    /\ ~canceled[k[1]]
    /\ \/ detector[k] = "runs" /\ detector' = [detector EXCEPT ![k] = "sends"] /\ UNCHANGED lagging
       \/ lagging[k] = "runs" /\ lagging' = [lagging EXCEPT ![k] = "sends"] /\ UNCHANGED detector
    /\ detectOnly

\* The recorder takes the event, if it has not ended.
EventTaken(k) ==
    /\ recorder[k[1]]
    /\ \/ detector[k] = "sends" /\ detector' = [detector EXCEPT ![k] = "runs"] /\ UNCHANGED lagging
       \/ lagging[k] = "sends" /\ lagging' = [lagging EXCEPT ![k] = "runs"] /\ UNCHANGED detector
    /\ detectOnly

\* The context of its run is done.
DetectorEnds(k) ==
    /\ detector[k] = "runs" /\ (runCtx[k] = "none" \/ RunDone(k))
    /\ detector' = [detector EXCEPT ![k] = "none"]
    /\ UNCHANGED lagging /\ detectOnly

LaggingEnds(k) ==
    /\ lagging[k] = "runs"
    /\ lagging' = [lagging EXCEPT ![k] = "none"]
    /\ UNCHANGED detector /\ detectOnly

-----------------------------------------------------------------------------
ManagerStep ==
    \/ NothingToStart
    \/ \E m \in Ids : StartMonitor(m) \/ StopMonitor(m) \/ Stopped(m)

LoopStep(k) ==
    \/ CheckStopped(k) \/ NewPath(k) \/ NewPathFails(k) \/ ProcessStart(k) \/ ProcessStartFails(k)
    \/ WaitReturns(k) \/ SleepEnds(k)

MonitorsNext ==
    \/ ManagerStep
    \/ StopMonitors
    \/ \E m \in Ids : RestartMonitor(m) \/ MonitorSet(m) \/ MonitorDelete(m) \/ RecorderEnds(m)
    \/ \E k \in Keys :
        \/ LoopStep(k) \/ PathRemoved(k)
        \/ Freeze(k) \/ ExitsItself(k) \/ Interrupt(k) \/ Kill(k) \/ ExitsOnSignal(k)
        \/ WarmupEnds(k) \/ MuxerStarts(k) \/ MuxerEnds(k) \/ FeedAsks(k) \/ SegFinalized(k) \/ KeepAlive(k)
        \/ WatchdogFires(k) \/ WatchdogEnds(k) \/ LateWatchdogFires(k) \/ LateWatchdogEnds(k)
        \/ DetectorSends(k) \/ EventTaken(k) \/ DetectorEnds(k) \/ LaggingEnds(k)

\* Goroutines go on, a timer that is not set again fires, the video server
\* removes paths, a recorder ends, a detector ends with its run, and a process
\* that is killed dies.  Nothing is assumed of a process that is not killed.
MonitorsFairness ==
    /\ WF_monitorVars(ManagerStep)
    /\ \A m \in Ids : WF_monitorVars(RecorderEnds(m))
    /\ \A k \in Keys :
        /\ WF_monitorVars(LoopStep(k)) /\ WF_monitorVars(PathRemoved(k))
        /\ WF_monitorVars(Interrupt(k)) /\ WF_monitorVars(Kill(k)) /\ WF_monitorVars(stopper[k] = "kill" /\ ExitsOnSignal(k))
        /\ WF_monitorVars(WarmupEnds(k))
        /\ WF_monitorVars(wd[k] = "watch" /\ WatchdogFires(k)) /\ WF_monitorVars(wd[k] = "again" /\ WatchdogFires(k))
        /\ WF_monitorVars(DetectorEnds(k)) /\ WF_monitorVars(LaggingEnds(k))

MonitorsSpec == MonitorsInit /\ [][MonitorsNext]_monitorVars /\ MonitorsFairness

-----------------------------------------------------------------------------
(* Properties.                                                             *)

\* An input never has two processes, through crashes, restarts by the watchdog
\* and restarts of the monitor; and once a request to stop, restart or delete a
\* monitor is past its stop, no process of the monitor runs and none of its loops
\* will start one.
OneProcess ==
    \A k \in Keys :
        /\ alive[k] <= 1
        /\ running[k[1]] = None => alive[k] = 0 /\ loop[k] = "none"

\* A detector offers an event, and the recorder has ended.
EventLost(k) == ~recorder[k[1]] /\ canceled[k[1]] /\ "sends" \in {detector[k], lagging[k]}

\* Monitor.stop returns, and with it the request to restart, delete or stop, and
\* Manager.mu is free again, whatever the processes do.  There is one way not to:
\* an event that a detector offers when the recorder ends (sendEvent has no way
\* out), and then the request hangs.
RequestsReturn ==
    mgr.op \in {"restart", "delete", "restarted", "start", "stop"}
        ~> mgr = Free \/ mgr = [op |-> "stop", todo |-> {}] \/ \E k \in Keys : EventLost(k)

\* A process that is frozen is stopped by the watchdog: it "detects and restarts
\* frozen processes".
FrozenRestarted == \A k \in Keys : os[k] = "frozen" ~> os[k] = "none"
=============================================================================
