------------------------------ MODULE MCStorage -----------------------------
(***************************************************************************)
(* One of: a query for recordings while they are saved and deleted; the    *)
(* loop that prunes, the status page and the configuration; two requests   *)
(* about two groups, with failures and a restart.                          *)
(***************************************************************************)
EXTENDS Crawler, StorageManager, Groups

VARIABLE part

mcVars == <<treeVars, crawlVars, managerVars, groupVars, part>>

NoQuery ==
    /\ query = CHOOSE q \in Queries : TRUE
    /\ reads = <<>> /\ result = Pending /\ changes = 0
    /\ seen = {} /\ always = {} /\ removed = FALSE

Init ==
    /\ GroupsInit
    /\ \/ part = "crawler" /\ CrawlInit /\ ManagerStart /\ space = 1
       \/ part = "manager" /\ NoQuery /\ ManagerInit
       \/ part = "groups" /\ NoQuery /\ ManagerInit /\ space = 1

Next ==
    /\ UNCHANGED part
    /\ \/ part = "crawler" /\ CrawlNext /\ UNCHANGED <<managerVars, groupVars>>
       \/ part = "manager" /\ ManagerNext /\ UNCHANGED <<crawlVars, groupVars>>
       \/ part = "groups" /\ GroupsNext /\ UNCHANGED <<treeVars, crawlVars, managerVars>>

Spec == Init /\ [][Next]_mcVars

\* Two monitors, two days of a month, two months, two years.
MCRecordingFiles ==
    {<<1, 1, 1, 1, 1>>, <<1, 1, 1, 2, 2>>, <<1, 1, 2, 1, 1>>, <<1, 2, 1, 1, 1>>, <<2, 1, 1, 1, 1>>, <<2, 1, 1, 2, 1>>}

MCTrees == {t \in SUBSET MCRecordingFiles : Cardinality(t) \in {0, 2, 3}}

MCNewFiles == {<<2, 1, 1, 1, 2>>, <<1, 1, 2, 2, 3>>}

\* At a recording, between two, before the first of a month, after the last.
MCQueries ==
    [time : {<<1, 1, 1, 11>>, <<1, 1, 2, 0>>, <<1, 3, 1, 0>>, <<2, 1, 1, 99>>},
     limit : {2}, reverse : BOOLEAN, monitors : {{}, {1}}]

\* The second day is in another month: what is left of the first is pruned.
MCSaved == <<<<1, 1, 1, 1, 1>>, <<1, 1, 2, 1, 1>>, <<1, 2, 1, 1, 1>>>>

MCSpaces == {1, 2, NotANumber}
=============================================================================
