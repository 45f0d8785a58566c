------------------------------- MODULE Logger -------------------------------
(***************************************************************************)
(* The logger, pkg/log/log.go: one goroutine receives the entries of every  *)
(* Log call and hands each to the subscribers one after the other.  All its *)
(* channels are unbuffered, so a send and its receive are one step here.    *)
(*                                                                          *)
(* A subscriber is LogToWriter, SaveLogs or a LogFeed request (web/routes). *)
(* What it does with an entry is the composition's business (Logging); here *)
(* it is in "handle" meanwhile and receives nothing.                        *)
(***************************************************************************)
EXTENDS Integers, Sequences

CONSTANTS
    Callers,      \* goroutines that call Log
    Subscribers,
    MaxEntries,   \* bound: calls of Log
    MaxTime       \* bound: clock

VARIABLES
    now,          \* time.Now
    ctxDone,      \* Logger.Ctx is canceled
    call,         \* the entry a caller is blocked on in Log
    logger,       \* where the goroutine of Start is
    subs,         \* its set of subscribers
    sub,          \* where each subscriber is
    logged,       \* number of Log calls so far: the ids given
    fed,          \* history: the entries the goroutine received
    joined,       \* history: Len(fed) when the subscriber was accepted
    received      \* history: the entries a subscriber took in its loop

loggerVars ==
    <<now, ctxDone, call, logger, subs, sub, logged, fed, joined, received>>

NoEntry == [id |-> 0, time |-> 0]

Select == [at |-> "select"]

LoggerInit(start) ==
    /\ now = start
    /\ ctxDone = FALSE
    /\ call = [c \in Callers |-> NoEntry]
    /\ logger = Select
    /\ subs = {}
    /\ sub = [s \in Subscribers |-> "idle"]
    /\ logged = 0
    /\ fed = <<>>
    /\ joined = [s \in Subscribers |-> 0]
    /\ received = [s \in Subscribers |-> <<>>]

Tick ==
    /\ now < MaxTime
    /\ now' = now + 1
    /\ UNCHANGED <<ctxDone, call, logger, subs, sub, logged, fed, joined, received>>

\* main cancels the context, once.
Stop ==
    /\ ~ctxDone
    /\ ctxDone' = TRUE
    /\ UNCHANGED <<now, call, logger, subs, sub, logged, fed, joined, received>>

-----------------------------------------------------------------------------
(* Callers of Log.                                                          *)

\* The entry takes its time before it is its turn.
Log(c) ==
    /\ call[c] = NoEntry
    /\ logged < MaxEntries
    /\ logged' = logged + 1
    /\ call' = [call EXCEPT ![c] = [id |-> logged + 1, time |-> now]]
    /\ UNCHANGED <<now, ctxDone, logger, subs, sub, fed, joined, received>>

LogCanceled(c) ==
    /\ call[c] # NoEntry
    /\ ctxDone
    /\ call' = [call EXCEPT ![c] = NoEntry]
    /\ UNCHANGED <<now, ctxDone, logger, subs, sub, logged, fed, joined, received>>

-----------------------------------------------------------------------------
(* The goroutine of Start.                                                  *)

\* Handing an entry to the subscribers in "to", or back to the select.
SendTo(entry, to) ==
    IF to = {} THEN Select ELSE [at |-> "send", entry |-> entry, to |-> to]

Feed(c) ==
    /\ logger.at = "select"
    /\ call[c] # NoEntry
    /\ call' = [call EXCEPT ![c] = NoEntry]
    /\ fed' = Append(fed, call[c])
    /\ logger' = SendTo(call[c], subs)
    /\ UNCHANGED <<now, ctxDone, subs, sub, logged, joined, received>>

AcceptSub(s) ==
    /\ logger.at = "select"
    /\ sub[s] = "subscribe"
    /\ subs' = subs \cup {s}
    /\ sub' = [sub EXCEPT ![s] = "read"]
    /\ joined' = [joined EXCEPT ![s] = Len(fed)]
    /\ UNCHANGED <<now, ctxDone, call, logger, logged, fed, received>>

\* Mutant of AcceptUnsub: the channel is closed and stays in the set.
AcceptUnsubKept(s) ==
    /\ logger.at = "select"
    /\ sub[s] = "unsubscribe"
    /\ sub' = [sub EXCEPT ![s] = "done"]
    /\ UNCHANGED <<now, ctxDone, call, logger, subs, logged, fed, joined, received>>

AcceptUnsub(s) ==
    /\ logger.at = "select"
    /\ sub[s] = "unsubscribe"
    /\ subs' = subs \ {s}
    /\ sub' = [sub EXCEPT ![s] = "done"]
    /\ UNCHANGED <<now, ctxDone, call, logger, logged, fed, joined, received>>

\* With subscribers left it sleeps and selects again, which changes nothing.
Exit ==
    /\ logger.at = "select"
    /\ ctxDone
    /\ subs = {}
    /\ logger' = [at |-> "done"]
    /\ UNCHANGED <<now, ctxDone, call, subs, sub, logged, fed, joined, received>>

Sending(s) == logger.at = "send" /\ s \in logger.to

\* The subscriber is in its select and takes the entry.
Send(s) ==
    /\ Sending(s)
    /\ sub[s] = "read"
    /\ logger' = SendTo(logger.entry, logger.to \ {s})
    /\ sub' = [sub EXCEPT ![s] = "handle"]
    /\ received' = [received EXCEPT ![s] = Append(@, logger.entry)]
    /\ UNCHANGED <<now, ctxDone, call, subs, logged, fed, joined>>

\* Mutant of SendToUnsubscribing: unSubscribe does not read the feed.
SendToUnsubscribingNever(s) ==
    /\ FALSE
    /\ UNCHANGED loggerVars

\* unSubscribe reads the feed until its request is accepted.
SendToUnsubscribing(s) ==
    /\ Sending(s)
    /\ sub[s] = "unsubscribe"
    /\ logger' = SendTo(logger.entry, logger.to \ {s})
    /\ UNCHANGED <<now, ctxDone, call, subs, sub, logged, fed, joined, received>>

-----------------------------------------------------------------------------
(* Subscribers.                                                             *)

Subscribe(s) ==
    /\ sub[s] = "idle"
    /\ sub' = [sub EXCEPT ![s] = "subscribe"]
    /\ UNCHANGED <<now, ctxDone, call, logger, subs, logged, fed, joined, received>>

\* Subscribe finds the context canceled: it returns a closed feed.
SubscribeCanceled(s) ==
    /\ sub[s] = "subscribe"
    /\ ctxDone
    /\ sub' = [sub EXCEPT ![s] = "closed"]
    /\ UNCHANGED <<now, ctxDone, call, logger, subs, logged, fed, joined, received>>

\* The loop's other case: the context is done, and the deferred cancel runs.
SeeDone(s) ==
    /\ sub[s] \in {"read", "closed"}
    /\ ctxDone
    /\ sub' = [sub EXCEPT ![s] = IF @ = "read" THEN "unsubscribe" ELSE "done"]
    /\ UNCHANGED <<now, ctxDone, call, logger, subs, logged, fed, joined, received>>

\* The entry is dealt with; the loop goes on, or a LogFeed request that may no
\* longer see the logs, or whose client is gone, returns.
Handled(s, next) ==
    /\ sub[s] = "handle"
    /\ sub' = [sub EXCEPT ![s] = next]
    /\ UNCHANGED <<now, ctxDone, call, logger, subs, logged, fed, joined, received>>

\* A new process: nobody is logging or subscribed.
LoggerRestarts ==
    /\ ctxDone' = FALSE
    /\ call' = [c \in Callers |-> NoEntry]
    /\ logger' = Select
    /\ subs' = {}
    /\ sub' = [s \in Subscribers |-> "idle"]
    /\ fed' = <<>>
    /\ joined' = [s \in Subscribers |-> 0]
    /\ received' = [s \in Subscribers |-> <<>>]
    /\ UNCHANGED <<now, logged>>

LoggerStep ==
    \/ \E c \in Callers : Feed(c)
    \/ \E s \in Subscribers : \/ AcceptSub(s)
                              \/ AcceptUnsub(s)
                              \/ SendToUnsubscribing(s)
    \/ Exit

SubscriberStep(s) == SubscribeCanceled(s) \/ SeeDone(s)

-----------------------------------------------------------------------------

LoggerTypeOK ==
    LET Entries == [id : 0 .. MaxEntries, time : 0 .. MaxTime]
    IN  /\ now \in 0 .. MaxTime
        /\ ctxDone \in BOOLEAN
        /\ call \in [Callers -> Entries]
        /\ logger \in [at : {"select", "done"}]
                \cup [at : {"send"}, entry : Entries, to : SUBSET Subscribers]
        /\ subs \subseteq Subscribers
        /\ sub \in [Subscribers -> {"idle", "subscribe", "closed", "read",
                                    "handle", "unsubscribe", "done"}]
        /\ logged \in 0 .. MaxEntries
        /\ fed \in Seq(Entries)
        /\ joined \in [Subscribers -> Nat]
        /\ received \in [Subscribers -> Seq(Entries)]

\* What the goroutine has received since it accepted a subscriber.
FedSince(s) == SubSeq(fed, joined[s] + 1, Len(fed))

\* Every subscriber takes the entries in the order of the feed and without a
\* gap, from the one after its subscription on; and one that is reading has
\* taken all of them but the one being handed out.
FeedInOrder ==
    \A s \in Subscribers :
        LET n == Len(received[s])
        IN  /\ n <= Len(FedSince(s))
            /\ received[s] = SubSeq(FedSince(s), 1, n)
            /\ sub[s] \in {"read", "handle"} =>
                   n = Len(FedSince(s)) - (IF Sending(s) THEN 1 ELSE 0)

\* Nothing is sent on a channel that unSubscribe has had closed.
NoSendOnClosed == \A s \in Subscribers : Sending(s) => sub[s] # "done"

\* Subscribers get every entry in order as long as they listen, and none after.
FeedSound == FeedInOrder /\ NoSendOnClosed
=============================================================================
