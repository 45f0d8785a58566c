------------------------------ MODULE Logging -------------------------------
(***************************************************************************)
(* The logger with its store and a LogFeed request: SaveLogs subscribes and *)
(* saves each entry it takes before it takes the next; LogFeed writes it to *)
(* a websocket, and gives up when the write fails or the user may no longer *)
(* see the logs.  LogToWriter is LogFeed without giving up.  The process    *)
(* may be killed between any two steps and started again on the same files. *)
(***************************************************************************)
EXTENDS Logger, LogStore

CONSTANTS
    Store,         \* the subscriber of SaveLogs
    MaxInputs      \* bound: what the environment does, weighted

ASSUME StoreAssumption == Store \in Subscribers

VARIABLES
    restarts,      \* restarts so far
    zeroSaved      \* SaveLogs read its closed feed (once at most here)

vars == <<loggerVars, storeVars, restarts, zeroSaved>>

\* One bound for the inputs of a behaviour, so that few of one kind leave room
\* for more of another: ticks, Log calls and purges count once; a failed save, a
\* restart and a LogFeed request twice.
Inputs ==
    (now - ChunkDuration) + logged
        + purges + 2 * (failures + restarts)
        + 2 * Cardinality({s \in Subscribers \ {Store} : sub[s] # "idle"})

RoomFor(weight) == Inputs + weight <= MaxInputs

\* The clock starts past chunk 0, which only the zero entry belongs to.
Init ==
    /\ LoggerInit(ChunkDuration)
    /\ StoreInit
    /\ restarts = 0
    /\ zeroSaved = FALSE

-----------------------------------------------------------------------------
(* SaveLogs.                                                                *)

StartSave(entry) ==
    /\ save' = [at |-> "open", entry |-> entry]
    /\ UNCHANGED <<data, msg, encoder, prevEntryTime, purging, reopened, shifted, garbled, failures, purges>>

SaverTakes ==
    /\ Send(Store)
    /\ StartSave(logger.entry)
    /\ UNCHANGED <<restarts, zeroSaved>>

\* A closed feed yields the zero entry, and SaveLogs saves it.
SaverTakesZero ==
    /\ sub[Store] = "closed"
    /\ save = Idle
    /\ ~zeroSaved
    /\ zeroSaved' = TRUE
    /\ StartSave(NoEntry)
    /\ UNCHANGED <<loggerVars, restarts>>

SaverSaves ==
    /\ SaveStep
    /\ failures' > failures => RoomFor(2)
    /\ IF save' = Idle /\ sub[Store] = "handle"
       THEN Handled(Store, "read")
       ELSE UNCHANGED loggerVars
    /\ UNCHANGED <<restarts, zeroSaved>>

SaverStep ==
    \/ /\ Subscribe(Store)
       /\ UNCHANGED <<storeVars, restarts, zeroSaved>>
    \/ SaverTakes
    \/ SaverTakesZero
    \/ SaverSaves
    \/ /\ save = Idle
       /\ SubscriberStep(Store)
       /\ UNCHANGED <<storeVars, restarts, zeroSaved>>

-----------------------------------------------------------------------------
(* LogFeed.                                                                 *)

ReaderStep(s) ==
    /\ \/ Send(s)
       \/ Handled(s, "read")
       \/ Handled(s, "unsubscribe")
       \/ SubscriberStep(s)
    /\ UNCHANGED <<storeVars, restarts, zeroSaved>>

-----------------------------------------------------------------------------

\* purge runs in its own goroutine, which stops with the context.
Purge ==
    /\ (~ctxDone /\ RoomFor(1) /\ PurgeData) \/ PurgeMsg
    /\ UNCHANGED <<loggerVars, restarts, zeroSaved>>

\* The process is killed, or stops by itself, and is started again.
Restart ==
    /\ RoomFor(2)
    /\ restarts' = restarts + 1
    /\ zeroSaved' = FALSE
    /\ LoggerRestarts
    /\ StoreRestarts

Environment ==
    /\ \/ RoomFor(1) /\ Tick
       \/ Stop
       \/ RoomFor(1) /\ \E c \in Callers : Log(c)
       \/ \E c \in Callers : LogCanceled(c)
       \/ RoomFor(2) /\ \E s \in Subscribers \ {Store} : Subscribe(s)
    /\ UNCHANGED <<storeVars, restarts, zeroSaved>>

LoggerSteps ==
    /\ LoggerStep
    /\ UNCHANGED <<storeVars, restarts, zeroSaved>>

Next ==
    \/ Environment
    \/ LoggerSteps
    \/ SaverStep
    \/ \E s \in Subscribers \ {Store} : ReaderStep(s)
    \/ Purge
    \/ Restart

Spec == Init /\ [][Next]_vars

\* Go's scheduler runs every goroutine that can run, a select takes a ready
\* case, and file and websocket writes return.  Nothing makes anyone log, the
\* clock pass, the process stop or the store purge.
Fairness ==
    /\ WF_vars(LoggerSteps)
    /\ WF_vars(SaverStep)
    /\ \A s \in Subscribers \ {Store} : WF_vars(ReaderStep(s))
    /\ \A c \in Callers : WF_vars(LogCanceled(c) /\ UNCHANGED <<storeVars, restarts, zeroSaved>>)

FairSpec == Spec /\ Fairness

TypeOK ==
    /\ LoggerTypeOK
    /\ StoreTypeOK
    /\ restarts \in Nat
    /\ zeroSaved \in BOOLEAN

\* A call of Log returns, whatever subscribers come and go meanwhile and even
\* when the context is canceled while it waits.
LogReturns == \A c \in Callers : call[c] # NoEntry ~> call[c] = NoEntry

\* Once the context is canceled the goroutine of Start ends, as wg.Wait in main
\* expects: every subscriber unsubscribes, however it learns of the end.
LoggerStops == ctxDone ~> (logger.at = "done" \/ ~ctxDone)

\* Nobody who logs waits for ever, and neither does who stops the logger.
CallsReturn == LogReturns /\ LoggerStops
=============================================================================
