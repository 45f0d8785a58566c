------------------------------- MODULE Groups -------------------------------
(***************************************************************************)
(* The manager of the groups of monitors (pkg/group) and the requests that *)
(* set, delete and list groups (pkg/web/routes.go), with the files that a  *)
(* restart reads.  Requests run concurrently; the manager has a lock, and  *)
(* every group has one.                                                    *)
(***************************************************************************)
EXTENDS Naturals, FiniteSets

CONSTANTS
    GroupReqs,      \* requests that may run at the same time
    GroupIds,
    GroupConfigs,   \* what a configuration says, besides the id
    MaxGroupOps,    \* bound on the number of requests
    MaxGroupCrashes \* bound on the number of crashes

None == "none"     \* no group, or no file
Cut == "cut"       \* a file that was truncated and not yet written
Free == "free"
Down == "down"     \* in place of the holder: the application did not start

ASSUME GroupsAssumption == {Free, Down} \cap GroupReqs = {}

VARIABLES
    groups,      \* Manager.Groups: the configuration of every group
    groupFiles,  \* the files
    managerMu,   \* who holds Manager.mu
    leaked,      \* the groups whose own lock is held by nobody who runs
    greq,        \* the requests
    answered,    \* for every id: what the last answered request made of it
    faults,      \* the ids for which a write or a removal failed, or was cut by a crash
    groupOps, groupCrashes

groupVars == <<groups, groupFiles, managerMu, leaked, greq, answered, faults, groupOps, groupCrashes>>

NoRequest == [op |-> "idle", id |-> None, config |-> None, pc |-> "idle"]

GroupsInit ==
    /\ groups = [g \in GroupIds |-> None]
    /\ groupFiles = groups /\ answered = groups
    /\ managerMu = Free /\ leaked = {} /\ faults = {}
    /\ greq = [r \in GroupReqs |-> NoRequest]
    /\ groupOps = 0 /\ groupCrashes = 0

\* A request comes in.
Request(r, op, id, config) ==
    /\ greq[r] = NoRequest /\ groupOps < MaxGroupOps /\ managerMu # Down
    /\ groupOps' = groupOps + 1
    /\ greq' = [greq EXCEPT ![r] = [op |-> op, id |-> id, config |-> config, pc |-> "begin"]]
    /\ UNCHANGED <<groups, groupFiles, managerMu, leaked, answered, faults, groupCrashes>>

RequestConfigs(r) == Request(r, "configs", None, None)
RequestSet(r) == \E g \in GroupIds, c \in GroupConfigs : Request(r, "set", g, c)
RequestDelete(r) == \E g \in GroupIds : Request(r, "delete", g, None)

At(r, op, pc) == greq[r].op = op /\ greq[r].pc = pc
GoOn(r, pc) == greq' = [greq EXCEPT ![r].pc = pc]

\* The operation returns, and its deferred Unlock runs.
Answer(r) == greq' = [greq EXCEPT ![r] = NoRequest] /\ managerMu' = Free

\* Every operation begins with the lock of the manager.
LockManager(r) ==
    /\ greq[r].pc = "begin" /\ managerMu = Free
    /\ managerMu' = r /\ GoOn(r, "locked")
    /\ UNCHANGED <<groups, groupFiles, leaked, answered, faults, groupOps, groupCrashes>>

\* GroupSet: an existing group is changed under its lock.
SetMemory(r) ==
    /\ At(r, "set", "locked")
    /\ groups[greq[r].id] # None => greq[r].id \notin leaked
    /\ groups' = [groups EXCEPT ![greq[r].id] = greq[r].config]
    /\ GoOn(r, "write")
    /\ UNCHANGED <<groupFiles, managerMu, leaked, answered, faults, groupOps, groupCrashes>>

\* os.WriteFile truncates the file, and writes it.
SetTruncates(r) ==
    /\ At(r, "set", "write")
    /\ groupFiles' = [groupFiles EXCEPT ![greq[r].id] = Cut]
    /\ GoOn(r, "truncated")
    /\ UNCHANGED <<groups, managerMu, leaked, answered, faults, groupOps, groupCrashes>>

SetWritten(r) ==
    /\ At(r, "set", "truncated")
    /\ groupFiles' = [groupFiles EXCEPT ![greq[r].id] = groups[greq[r].id]]
    /\ answered' = [answered EXCEPT ![greq[r].id] = greq[r].config]
    /\ faults' = faults \ {greq[r].id}
    /\ Answer(r)
    /\ UNCHANGED <<groups, leaked, groupOps, groupCrashes>>

\* The file cannot be opened, or not be written: GroupSet returns with the
\* lock of the group, and without that of the manager.
SetFileFails(r) ==
    /\ At(r, "set", "write") \/ At(r, "set", "truncated")
    /\ leaked' = leaked \union {greq[r].id}
    /\ faults' = faults \union {greq[r].id}
    /\ Answer(r)
    /\ UNCHANGED <<groups, groupFiles, answered, groupOps, groupCrashes>>

\* Mutant of DeleteGroup: the file stays.
DeleteGroupMemory(r) ==
    /\ At(r, "delete", "locked")
    /\ groups' = [groups EXCEPT ![greq[r].id] = None]
    /\ leaked' = leaked \ {greq[r].id}
    /\ answered' = [answered EXCEPT ![greq[r].id] = None]
    /\ faults' = faults \ {greq[r].id}
    /\ Answer(r)
    /\ UNCHANGED <<groupFiles, groupOps, groupCrashes>>

\* GroupDelete: ErrGroupNotExist, or the group and its file go.  A group that is
\* deleted takes its lock with it.
DeleteGroup(r) ==
    /\ At(r, "delete", "locked")
    /\ groups[greq[r].id] # None => groupFiles[greq[r].id] # None
    /\ groups' = [groups EXCEPT ![greq[r].id] = None]
    /\ IF groups[greq[r].id] = None THEN UNCHANGED <<groupFiles, leaked, answered, faults>>
       ELSE /\ groupFiles' = [groupFiles EXCEPT ![greq[r].id] = None]
            /\ leaked' = leaked \ {greq[r].id}
            /\ answered' = [answered EXCEPT ![greq[r].id] = None]
            /\ faults' = faults \ {greq[r].id}
    /\ Answer(r)
    /\ UNCHANGED <<groupOps, groupCrashes>>

\* The file cannot be removed, or is missing because it could not be written.
DeleteFails(r) ==
    /\ At(r, "delete", "locked") /\ groups[greq[r].id] # None
    /\ groups' = [groups EXCEPT ![greq[r].id] = None]
    /\ leaked' = leaked \ {greq[r].id}
    /\ faults' = faults \union {greq[r].id}
    /\ Answer(r)
    /\ UNCHANGED <<groupFiles, answered, groupOps, groupCrashes>>

\* Configs takes the lock of every group, and keeps that of the manager.
Configs(r) ==
    /\ At(r, "configs", "locked") /\ leaked = {}
    /\ Answer(r)
    /\ UNCHANGED <<groups, groupFiles, leaked, answered, faults, groupOps, groupCrashes>>

\* The process is killed, and NewManager reads the files; it fails, and with
\* it the application, if one of them cannot be parsed.
GroupsRestart ==
    /\ groupCrashes < MaxGroupCrashes /\ groupCrashes' = groupCrashes + 1
    /\ groups' = groupFiles
    /\ managerMu' = IF Cut \in {groupFiles[g] : g \in GroupIds} THEN Down ELSE Free
    /\ leaked' = {} /\ greq' = [r \in GroupReqs |-> NoRequest]
    /\ UNCHANGED <<groupFiles, answered, faults, groupOps>>

GroupStep(r) ==
    \/ LockManager(r) \/ SetMemory(r) \/ SetTruncates(r) \/ SetWritten(r) \/ SetFileFails(r)
    \/ DeleteGroup(r) \/ DeleteFails(r) \/ Configs(r)

GroupsNext == GroupsRestart \/ \E r \in GroupReqs : RequestConfigs(r) \/ RequestSet(r) \/ RequestDelete(r) \/ GroupStep(r)

GroupsSpec == GroupsInit /\ [][GroupsNext]_groupVars

-----------------------------------------------------------------------------
(* Properties.                                                             *)

\* What the requests that were answered without an error made of a group is in
\* its file, whatever other requests, failures for other groups and restarts
\* came between; and it is what the manager tells, unless it is being set.
GroupsDurable ==
    managerMu # Down => \A g \in GroupIds \ faults :
        ~(\E r \in GroupReqs : greq[r].op = "set" /\ greq[r].id = g /\ greq[r].pc \in {"write", "truncated"})
        => groupFiles[g] = answered[g] /\ groups[g] = answered[g]

\* The places where a request cannot go on: it is answered, or it waits for the
\* lock of the manager, of the group it sets, or of one of the groups it lists.
Waits(r) ==
    \/ greq[r] = NoRequest
    \/ greq[r].pc = "begin" /\ managerMu # Free
    \/ At(r, "set", "locked") /\ groups[greq[r].id] # None /\ greq[r].id \in leaked
    \/ At(r, "configs", "locked") /\ leaked # {}

\* No request waits forever: when none can go on, all are answered.  Only a
\* group whose file could not be written stops them, because GroupSet keeps its
\* lock: then the holder of the manager's lock waits for it, and the others for
\* the holder.
GroupsAnswer ==
    (\A r \in GroupReqs : Waits(r)) =>
        \A r \in GroupReqs :
            \/ greq[r] = NoRequest
            \/ /\ leaked # {} /\ managerMu \in GroupReqs /\ greq[managerMu].pc = "locked"
               /\ r = managerMu \/ greq[r].pc = "begin"

\* What was answered is kept, and everything is answered.
GroupsSound == GroupsDurable /\ GroupsAnswer
=============================================================================
