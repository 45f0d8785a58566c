--------------------------- MODULE StorageManager ---------------------------
(***************************************************************************)
(* The storage manager: the loop that removes the oldest day when the disk *)
(* is full (storage.Manager), the cached disk usage it shares with the     *)
(* status page (storage.disk, addons/status), and the general              *)
(* configuration that says how much space there is (ConfigGeneral).        *)
(***************************************************************************)
EXTENDS RecordingTree, Integers

CONSTANTS
    Pages,          \* goroutines that update the usage for the status page
    PruneInterval,  \* 10 minutes: between two rounds, and the age of usage a round accepts
    PageAge,        \* 2 minutes: the age the status page accepts
    Spaces,         \* values of diskSpace, in recordings; 0: no limit, NotANumber: a text
    Saved,          \* the recordings that are saved, in this order
    MaxOther,       \* what else there may be in the storage directory (the logs), in recordings
    MaxTime,        \* bound on the clock
    WritesFail      \* whether writing the configuration may fail

NotANumber == -1

ASSUME StorageAssumption ==
    /\ PruneInterval \in Nat /\ PageAge \in Nat /\ MaxTime \in Nat /\ MaxOther \in Nat
    /\ Spaces \subseteq Nat \union {NotANumber} /\ Spaces # {}
    /\ WritesFail \in BOOLEAN

VARIABLES
    now,
    cache,        \* disk.cache and disk.lastUpdate
    updateLock,   \* disk.updateLock: who holds it
    generalLock,  \* ConfigGeneral.mu: who holds it
    space,        \* diskSpace
    proc,         \* who asks for the usage: what comes next, and what was measured
    path,         \* prune: the path it looks at
    due,          \* when the next round begins
    found,        \* history: recordings saved when the path was found to be empty
    saved,        \* number of recordings that were saved
    setter        \* the request that sets the configuration

managerVars == <<now, cache, updateLock, generalLock, space, proc, path, due, found, saved, setter>>

Pruner == "pruner"
Procs == Pages \union {Pruner}
Nobody == "nobody"

ManagerStart ==
    /\ now = 0
    /\ cache = [percent |-> 0, at |-> -(PruneInterval + 1)]
    /\ updateLock = Nobody /\ generalLock = Nobody
    /\ space \in Spaces
    /\ proc = [p \in Procs |-> [pc |-> "idle", maxTime |-> 0, used |-> 0, percent |-> 0]]
    /\ path = <<>> /\ due = PruneInterval /\ found = 0 /\ saved = 0
    /\ setter = "idle"

ManagerInit == dirs = {} /\ files = {} /\ ManagerStart

Goto(p, pc) == proc' = [proc EXCEPT ![p].pc = pc]

-----------------------------------------------------------------------------
(* disk.usage                                                              *)

Fresh(maxTime) == cache.at > maxTime

\* The call and the first look at the cache.
Usage(p, maxAge) ==
    /\ proc[p].pc = "idle"
    /\ proc' = [proc EXCEPT ![p] = [pc |-> IF Fresh(now - maxAge) THEN "return" ELSE "wait",
                                    maxTime |-> now - maxAge, used |-> 0,
                                    percent |-> IF Fresh(now - maxAge) THEN cache.percent ELSE 0]]
    /\ UNCHANGED <<treeVars, now, cache, updateLock, generalLock, space, path, found, saved, setter>>

\* The update lock, and the second look.
LockUpdate(p) ==
    /\ proc[p].pc = "wait" /\ updateLock = Nobody
    /\ IF Fresh(proc[p].maxTime)
       THEN /\ proc' = [proc EXCEPT ![p].pc = "return", ![p].percent = cache.percent]
            /\ UNCHANGED updateLock
       ELSE Goto(p, "walk") /\ updateLock' = p
    /\ UNCHANGED <<treeVars, now, cache, generalLock, space, path, due, found, saved, setter>>

\* diskUsageBytes: the recordings, and whatever else is in the storage directory.
Walk(p) ==
    /\ proc[p].pc = "walk"
    /\ \E other \in 0..MaxOther :
           proc' = [proc EXCEPT ![p].pc = "space", ![p].used = Cardinality(files) + other]
    /\ UNCHANGED <<treeVars, now, cache, updateLock, generalLock, space, path, due, found, saved, setter>>

Percent(used) == IF used = 0 \/ space = 0 THEN 0 ELSE (used * 100) \div space

\* general.DiskSpace needs the lock of the configuration, and fails if the
\* space is not a number.
DiskSpace(p) ==
    /\ proc[p].pc = "space" /\ generalLock = Nobody
    /\ IF space = NotANumber
       THEN Goto(p, "error") /\ updateLock' = Nobody
       ELSE /\ proc' = [proc EXCEPT ![p].pc = "store", ![p].percent = Percent(proc[p].used)]
            /\ UNCHANGED updateLock
    /\ UNCHANGED <<treeVars, now, cache, generalLock, space, path, due, found, saved, setter>>

Store(p) ==
    /\ proc[p].pc = "store"
    /\ cache' = [percent |-> proc[p].percent, at |-> now]
    /\ updateLock' = Nobody
    /\ Goto(p, "return")
    /\ UNCHANGED <<treeVars, now, generalLock, space, path, due, found, saved, setter>>

UsageStep(p) == LockUpdate(p) \/ Walk(p) \/ DiskSpace(p) \/ Store(p)

-----------------------------------------------------------------------------
(* The loop that prunes.                                                   *)

PruneBegins == now >= due /\ Usage(Pruner, PruneInterval) /\ UNCHANGED due

pruneOnly == UNCHANGED <<now, cache, updateLock, generalLock, space, saved, setter>>

RoundEnds == Goto(Pruner, "idle") /\ path' = <<>> /\ due' = now + PruneInterval

PruneDecides ==
    /\ proc[Pruner].pc \in {"return", "error"}
    /\ IF proc[Pruner].pc = "error" \/ proc[Pruner].percent < 99
       THEN RoundEnds
       ELSE Goto(Pruner, "find") /\ path' = <<>> /\ UNCHANGED due
    /\ UNCHANGED <<treeVars, found>> /\ pruneOnly

\* The first entry of a directory.  An empty directory is to be removed; the
\* directory of recordings itself is kept.
FindOldest ==
    /\ proc[Pruner].pc = "find" /\ Len(path) < 3
    /\ IF ~Exists(path) \/ (Entries(path) = {} /\ path = <<>>) THEN RoundEnds /\ UNCHANGED found
       ELSE IF Entries(path) # {}
       THEN /\ path' = Append(path, CHOOSE n \in Entries(path) : \A k \in Entries(path) : n <= k)
            /\ UNCHANGED <<due, found, proc>>
       ELSE Goto(Pruner, "empty") /\ found' = saved /\ UNCHANGED <<due, path>>
    /\ UNCHANGED treeVars /\ pruneOnly

\* The directory that was found to be empty goes with what is in it by now, and
\* the search starts again.
RemoveEmpty ==
    /\ proc[Pruner].pc = "empty"
    /\ RemoveAll(path) /\ path' = <<>> /\ Goto(Pruner, "find")
    /\ found' = 0 /\ UNCHANGED due /\ pruneOnly

\* Mutant of RemoveDay: the month goes, too.
RemoveDayMonth ==
    /\ proc[Pruner].pc = "find" /\ Len(path) = 3
    /\ RemoveAll(Front(path)) /\ RoundEnds
    /\ UNCHANGED found /\ pruneOnly

RemoveDay ==
    /\ proc[Pruner].pc = "find" /\ Len(path) = 3
    /\ RemoveAll(path) /\ RoundEnds
    /\ UNCHANGED found /\ pruneOnly

\* Removing either fails, with some of the files gone.
RemoveFails ==
    /\ proc[Pruner].pc = "empty" \/ (proc[Pruner].pc = "find" /\ Len(path) = 3)
    /\ \E gone \in SUBSET {f \in files : IsPrefix(path, f)} : files' = files \ gone
    /\ RoundEnds /\ found' = 0
    /\ UNCHANGED dirs /\ pruneOnly

-----------------------------------------------------------------------------
(* The status page, the recorder, the configuration, the clock.            *)

\* updateDiskUnsafe.
GetStatus(p) == now - cache.at > PageAge /\ Usage(p, PageAge) /\ UNCHANGED due

PageReturns(p) ==
    /\ proc[p].pc \in {"return", "error"}
    /\ Goto(p, "idle")
    /\ UNCHANGED <<treeVars, now, cache, updateLock, generalLock, space, path, due, found, saved, setter>>

RecordingStarted ==
    /\ saved < Len(Saved) /\ Front(Saved[saved + 1]) \notin dirs
    /\ MkdirAll(Front(Saved[saved + 1]))
    /\ UNCHANGED managerVars

RecordingStored ==
    /\ saved < Len(Saved) /\ SaveFile(Saved[saved + 1])
    /\ saved' = saved + 1
    /\ UNCHANGED <<now, cache, updateLock, generalLock, space, proc, path, due, found, setter>>

\* ConfigGeneral.Set.
SetLocks ==
    /\ setter = "idle" /\ generalLock = Nobody
    /\ generalLock' = "setter" /\ setter' = "write"
    /\ UNCHANGED <<treeVars, now, cache, updateLock, space, proc, path, due, found, saved>>

\* Mutant of SetWrites: the lock is not given back.
SetWritesKeeps ==
    /\ setter = "write"
    /\ space' \in Spaces /\ setter' = "done"
    /\ UNCHANGED <<treeVars, now, cache, updateLock, generalLock, proc, path, due, found, saved>>

SetWrites ==
    /\ setter = "write"
    /\ space' \in Spaces /\ generalLock' = Nobody /\ setter' = "done"
    /\ UNCHANGED <<treeVars, now, cache, updateLock, proc, path, due, found, saved>>

\* The file cannot be written: Set returns without unlocking.
SetFails ==
    /\ WritesFail /\ setter = "write"
    /\ setter' = "failed"
    /\ UNCHANGED <<treeVars, now, cache, updateLock, generalLock, space, proc, path, due, found, saved>>

Tick ==
    /\ now < MaxTime /\ now' = now + 1
    /\ UNCHANGED <<treeVars, cache, updateLock, generalLock, space, proc, path, due, found, saved, setter>>

PruneStep == UsageStep(Pruner) \/ PruneDecides \/ FindOldest \/ RemoveEmpty \/ RemoveDay \/ RemoveFails
PageStep(p) == UsageStep(p) \/ PageReturns(p)
SetStep == SetWrites \/ SetFails

ManagerNext ==
    \/ PruneBegins \/ PruneStep
    \/ \E p \in Pages : GetStatus(p) \/ PageStep(p)
    \/ RecordingStarted \/ RecordingStored \/ SetLocks \/ SetStep \/ Tick

ManagerSpec == ManagerInit /\ [][ManagerNext]_<<treeVars, managerVars>>

-----------------------------------------------------------------------------
(* Properties.                                                             *)

Day(f) == (f[1] * 10 + f[2]) * 10 + f[3]

\* While recordings are made, all that stays is of later days than what the loop
\* removes, unless removing fails.  A day goes alone, and none that is older stays;
\* with a directory that was found to be empty go only recordings saved since.
RemovesOldest ==
    proc[Pruner].pc \in {"find", "empty"} =>
        LET gone == files \ files' IN
        /\ path \notin dirs' => \A f \in gone, g \in files' : Day(f) < Day(g)
        /\ IF proc[Pruner].pc = "find"
           THEN \A f, g \in gone : Day(f) = Day(g) /\ \A h \in files' : Day(f) <= Day(h)
           ELSE gone \subseteq {Saved[i] : i \in found + 1 .. saved}

\* What a walk replaces is too old for the one who walks.
WalksIfNeeded == cache' # cache => \E p \in Procs : proc[p].pc = "store" /\ cache.at <= proc[p].maxTime

\* A round removes the oldest day and nothing else, but for what is saved in a
\* directory while it is removed as empty; and nobody walks the storage for a
\* value that was updated while they waited for the update lock.
PruneSound == [][RemovesOldest /\ WalksIfNeeded]_<<treeVars, managerVars>>

\* The loop, the status page and the requests never wait for each other forever:
\* when none of them can take a step they are done and no lock is held.  Only a
\* configuration that could not be written stops them, because Set keeps its lock:
\* then who is not done waits for that lock in DiskSpace, or for who does.
ManagerAtRest ==
    ~ENABLED (PruneStep \/ SetStep \/ \E p \in Pages : PageStep(p)) =>
        IF setter # "failed"
        THEN updateLock = Nobody /\ generalLock = Nobody /\ \A p \in Procs : proc[p].pc = "idle"
        ELSE \A p \in Procs : \/ proc[p].pc = "idle"
                              \/ proc[p].pc = "space" /\ updateLock = p
                              \/ proc[p].pc = "wait" /\ updateLock \in Procs
=============================================================================
