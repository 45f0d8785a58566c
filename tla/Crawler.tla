------------------------------- MODULE Crawler ------------------------------
(***************************************************************************)
(* Looking for recordings (storage.Crawler.RecordingByQuery): the          *)
(* recordings before or after a time, while recordings are saved and       *)
(* deleted.                                                                *)
(*                                                                         *)
(* A query reads a directory once and keeps what it read.  The search is a *)
(* function of what was read: it gives the result, an error, or the        *)
(* directory that it needs to read next; a step of the query reads that    *)
(* directory.                                                              *)
(***************************************************************************)
EXTENDS RecordingTree

CONSTANTS
    Queries,     \* time: <<year, month, day, name>>, limit, reverse, monitors
    Trees,       \* the recordings that are there in the beginning
    NewFiles,    \* recordings that may be saved
    MaxChanges   \* changes of the directory during the query

VARIABLES
    query,
    reads,    \* what the query has read: path -> names
    result,
    changes,  \* number of changes
    seen,     \* history: recordings that were there some time during the query
    always,   \* history: recordings that were there all the time
    removed   \* history: whether a directory was removed

crawlVars == <<query, reads, result, changes, seen, always, removed>>

\* The name of a recording: its time and its monitor.
Name(f) == f[5] * 10 + f[4]

-----------------------------------------------------------------------------
(* The search.  q: the query; c: what was read; p: the path of a directory *)
(* or of a file, whose depth is 4.                                         *)

Gone == {0}   \* reading failed

Need(p) == [kind |-> "need", path |-> p, list |-> <<>>]
Node(p) == [kind |-> "node", path |-> p, list |-> <<>>]
Nil == [kind |-> "nil", path |-> <<>>, list |-> <<>>]
Error == [kind |-> "error", path |-> <<>>, list |-> <<>>]
List(names) == [kind |-> "list", path |-> <<>>, list |-> SetToSortSeq(names, <)]

MonitorSelected(q, monitor) == q.monitors = {} \/ monitor \in q.monitors

\* The files of a day: the directories of the selected monitors in turn.
FindAllFiles(q, c, p) ==
    LET monitors == {n \in c[p] : MonitorSelected(q, n)}
        unread == {n \in monitors : Append(p, n) \notin DOMAIN c}
    IN  IF \E n \in monitors \ unread : c[Append(p, n)] = Gone THEN Error
        ELSE IF unread # {} THEN Need(Append(p, CHOOSE n \in unread : \A k \in unread : n <= k))
        ELSE List({Name(p \o <<n, t>>) : <<n, t>> \in UNION {{n} \X c[Append(p, n)] : n \in monitors}})

Children(q, c, p) ==
    IF p \notin DOMAIN c THEN Need(p)
    ELSE IF c[p] = Gone THEN Error
    ELSE IF Len(p) = 3 THEN FindAllFiles(q, c, p)
    ELSE List(c[p])

\* The children in the direction of the search, the next one first.
ChildByName(q, names, name) ==
    IF q.reverse
    THEN SelectSeq(names, LAMBDA n : n > name)
    ELSE Reverse(SelectSeq(names, LAMBDA n : n < name))

RECURSIVE Sibling(_, _, _)

\* The first file of a directory in the direction of the search.  If it is
\* empty, the first one after it.
RECURSIVE FindFileDeep(_, _, _)
FindFileDeep(q, c, p) ==
    IF Len(p) = 4 THEN Node(p)
    ELSE LET ch == Children(q, c, p) IN
         IF ch.kind # "list" THEN ch
         ELSE IF ch.list = <<>> THEN Sibling(q, c, p)
         ELSE FindFileDeep(q, c, Append(p, IF q.reverse THEN Head(ch.list) ELSE Last(ch.list)))

\* Mutant of Climb: the search stays in the directory.
ClimbNot(q, c, p) == Nil

\* After the last child: the sibling of the parent.
Climb(q, c, p) == Sibling(q, c, p)

Sibling(q, c, p) ==
    IF p = <<>> THEN Nil
    ELSE LET ch == Children(q, c, Front(p))
             next == ChildByName(q, ch.list, Last(p)) IN
         IF ch.kind # "list" THEN ch
         ELSE IF Last(p) \notin Range(ch.list) THEN Error
         ELSE IF next = <<>> THEN Climb(q, c, Front(p))
         ELSE FindFileDeep(q, c, Append(Front(p), Head(next)))

\* A recording at the time of the query: its sibling.
ExactMatch(q, c, p) == Sibling(q, c, p)

\* From p, which matches the time exactly, to the file at the time or the next.
RECURSIVE FindFrom(_, _, _)
FindFrom(q, c, p) ==
    LET ch == Children(q, c, p)
        name == q.time[Len(p) + 1]
        next == ChildByName(q, ch.list, name) IN
    IF ch.kind # "list" THEN ch
    ELSE IF name \in Range(ch.list)
    THEN IF Len(p) = 3 THEN ExactMatch(q, c, Append(p, name)) ELSE FindFrom(q, c, Append(p, name))
    ELSE IF next = <<>> THEN Sibling(q, c, p)
    ELSE FindFileDeep(q, c, Append(p, Head(next)))

FindVideo(q, c) == FindFrom(q, c, <<>>)

\* From a file to the next, until the limit is reached.
RECURSIVE Collect(_, _, _, _)
Collect(q, c, file, found) ==
    IF file.kind = "nil" THEN [kind |-> "done", found |-> found]
    ELSE IF file.kind # "node" THEN file
    ELSE IF Len(found) + 1 = q.limit THEN [kind |-> "done", found |-> Append(found, file.path)]
    ELSE Collect(q, c, Sibling(q, c, file.path), Append(found, file.path))

RecordingByQuery(q, c) ==
    IF q.limit = 0 THEN [kind |-> "done", found |-> <<>>] ELSE Collect(q, c, FindVideo(q, c), <<>>)

-----------------------------------------------------------------------------
Pending == [kind |-> "pending"]

CrawlInit ==
    /\ query \in Queries
    /\ files \in Trees
    /\ dirs = (UNION {Prefixes(Front(f)) : f \in files}) \ {<<>>}
    /\ reads = [p \in {} |-> {}]
    /\ result = Pending
    /\ changes = 0
    /\ seen = files /\ always = files /\ removed = FALSE

\* The search goes on until it needs a directory that was not read.
CrawlStep ==
    /\ result = Pending
    /\ LET r == RecordingByQuery(query, reads)
       IN  IF r.kind = "need"
           THEN /\ reads' = [p \in DOMAIN reads \union {r.path} |->
                                IF p # r.path THEN reads[p]
                                ELSE IF Exists(p) THEN Entries(p) ELSE Gone]
                /\ UNCHANGED result
           ELSE result' = r /\ UNCHANGED reads
    /\ UNCHANGED <<treeVars, query, changes, seen, always, removed>>

Change ==
    /\ result = Pending /\ changes < MaxChanges /\ changes' = changes + 1
    /\ seen' = seen \union files'
    /\ always' = always \intersect files'
    /\ UNCHANGED <<query, reads, result>>

RecordingBegins == \E f \in NewFiles : Front(f) \notin dirs /\ MkdirAll(Front(f)) /\ Change /\ UNCHANGED removed

RecordingSaved == \E f \in NewFiles \ files : SaveFile(f) /\ Change /\ UNCHANGED removed

\* DeleteRecording, as far as the event data is concerned.
RecordingDeleted ==
    \E f \in files : files' = files \ {f} /\ UNCHANGED dirs /\ Change /\ UNCHANGED removed

\* The storage manager removes a day.
DayPruned ==
    \E p \in {d \in dirs : Len(d) = 3} : RemoveAll(p) /\ Change /\ removed' = TRUE

CrawlNext == CrawlStep \/ RecordingBegins \/ RecordingSaved \/ RecordingDeleted \/ DayPruned

CrawlSpec == CrawlInit /\ [][CrawlNext]_<<treeVars, crawlVars>>

-----------------------------------------------------------------------------
(* Properties.                                                             *)

Key(p) == ((p[1] * 10 + p[2]) * 10 + p[3]) * 100 + p[4]

PathOf(f) == SubSeq(f, 1, 3) \o <<Name(f)>>

Beyond(a, b) == IF query.reverse THEN Key(a) > Key(b) ELSE Key(a) < Key(b)

\* The recordings of a set that the query asks for.
Asked(set) == {PathOf(f) : f \in {g \in set : MonitorSelected(query, g[4]) /\ Beyond(PathOf(g), query.time)}}

\* RecordingByQuery returns recordings of the selected monitors beyond the time,
\* in order, none twice, not more than the limit, and each one was there some
\* time during the query.
CrawlSound ==
    result.kind = "done" =>
        /\ Len(result.found) <= query.limit
        /\ \A i \in 1..Len(result.found) : result.found[i] \in Asked(seen)
        /\ \A i \in 1..(Len(result.found) - 1) : Beyond(result.found[i + 1], result.found[i])

\* No recording that was there all the time is passed over, across the borders
\* of days, months and years, across empty directories and whatever changes
\* during the query: the timeline in the browser has no holes.
CrawlComplete ==
    result.kind = "done" =>
        \A p \in Asked(always) :
            \/ p \in Range(result.found)
            \/ Len(result.found) = query.limit /\ (query.limit = 0 \/ Beyond(p, Last(result.found)))

\* A query fails only if a directory was removed while it ran, and never because
\* a file has no place among its siblings (ErrNoSibling).
CrawlFailsOnlyIfRemoved == result.kind = "error" => removed /\ \E p \in DOMAIN reads : reads[p] = Gone

\* A query is answered with exactly what was asked for, while recordings come
\* and go.
CrawlExact == CrawlSound /\ CrawlComplete /\ CrawlFailsOnlyIfRemoved
=============================================================================
