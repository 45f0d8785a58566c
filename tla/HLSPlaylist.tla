----------------------------- MODULE HLSPlaylist -----------------------------
(***************************************************************************)
(* The playlist goroutine of the HLS muxer (pkg/video/hls/playlist.go).    *)
(*                                                                         *)
(* One goroutine owns the list of segments and parts.  It serves, one at a *)
(* time, the requests of clients (HTTP handlers, the recorder, the         *)
(* watchdog) and the two synchronous calls of the segmenter, which runs in *)
(* the goroutine that writes the stream.  Requests that cannot be answered *)
(* yet are put on hold and looked at again when a part or a segment is     *)
(* finalized.                                                              *)
(*                                                                         *)
(* The segmenter is represented by what it promises (SegmenterContract     *)
(* states it, Segmenter shows it): consecutive segment IDs, increasing part*)
(* IDs, and segments made of the parts finalized since the last segment.   *)
(*                                                                         *)
(* A part is its ID, a name is the ID it is printed from: partsByName and  *)
(* segmentsByName are the sets of their keys.  Media content is left out.  *)
(***************************************************************************)
EXTENDS SegmenterContract, FiniteSetsExt, Functions

CONSTANTS
    Clients,        \* goroutines that send requests to the playlist
    SegmentCount,   \* playlist.segmentCount, hlsSegmentCount in the server
    InitialGaps,    \* 7: the gaps put before the first segment
    Durations,      \* rendered durations of segments, in tenths of a second
    MaxSegmentID,   \* bound: the last segment ID that is produced
    MaxClosedID,    \* bound: the same once the muxer is closed
    MaxParts,       \* bound: the most parts a segment is cut into
    Requests        \* the requests clients make

ASSUME PlaylistAssumption ==
    /\ SegmentCount \in Nat
    /\ InitialGaps \in Nat \ {0}
    /\ FirstSegmentID = InitialGaps
    /\ Durations \subseteq Nat
    /\ MaxSegmentID \in Nat /\ MaxClosedID \in Nat
    /\ MaxParts \in Nat
    /\ \A req \in Requests : req.op = "nextSegment" => req.prevID \in Nat

VARIABLES
    segments,           \* p.segments: gaps, then segments
    segmentsByName,     \* the keys of p.segmentsByName
    segmentDeleteCount, \* p.segmentDeleteCount
    parts,              \* p.parts
    partsByName,        \* the keys of p.partsByName
    nextSegmentID,      \* p.nextSegmentID
    nextSegmentParts,   \* p.nextSegmentParts
    nextPartID,         \* p.nextPartID
    ctxDone,            \* p.ctx was cancelled
    running,            \* the goroutine has not returned
    cl,                 \* what each client is doing
    res                 \* the last response each client got

playlistVars == <<segments, segmentsByName, segmentDeleteCount, parts,
                  partsByName, nextSegmentID, nextSegmentParts, nextPartID>>
clientVars == <<cl, res>>
vars == <<playlistVars, contractVars, clientVars, ctxDone, running>>

-----------------------------------------------------------------------------
(* Requests, responses and clients *)

Idle == [st |-> "idle"]

\* The file name "part<id>.mp4" of a URL, and the name of a part without the
\* extension.  strings.TrimSuffix(name, ".mp4") turns the first into the
\* second.
FileName(id) == [id |-> id, mp4 |-> TRUE]
partName(id) == [id |-> id, mp4 |-> FALSE]
TrimSuffix(name) == [name EXCEPT !.mp4 = FALSE]

StatusOK == 200
StatusBadRequest == 400
StatusNotFound == 404
StatusInternalServerError == 500
Panic == -1     \* the handler dereferences a nil pointer

Response(status) == [status |-> status]
NoResponse == Response(0)
SegmentResponse(seg) == [status |-> StatusOK, ID |-> seg.ID]

OnHold(op) == {c \in Clients : cl[c].st = "hold" /\ cl[c].req.op = op}

playlistsOnHold == OnHold("blockingPlaylist")
partsOnHold == OnHold("part")
segFinalOnHold == OnHold("waitForSegFinal")
nextSegmentsOnHold == OnHold("nextSegment")

-----------------------------------------------------------------------------
(* The queries of the playlist, on explicit state *)

Gap(d) == [gap |-> TRUE, dur |-> d]
Segment(id, ps, d) == [gap |-> FALSE, ID |-> id, Parts |-> ps, dur |-> d]

hasContent(segs) == Len(segs) >= 1

\* Mutant of SearchStep: the part index is not reset when the search moves on.
SearchStepKeepIndex(at, s) ==
    IF at.found \/ s.gap THEN at
    ELSE IF at.seg # s.ID THEN at
    ELSE IF at.part >= Len(s.Parts) THEN [at EXCEPT !.seg = @ + 1]
    ELSE [at EXCEPT !.found = TRUE]

\* The loop of hasPart, for one entry: the position looked for moves along the
\* segments.  A part index past the end of a segment means part 0 of the one
\* that follows.
SearchStep(at, s) ==
    IF at.found \/ s.gap THEN at
    ELSE IF at.seg # s.ID THEN at
    ELSE IF at.part >= Len(s.Parts)
    THEN [seg |-> at.seg + 1, part |-> 0, found |-> FALSE]
    ELSE [at EXCEPT !.found = TRUE]

\* The positions looked for, before the loop and after each entry.
Search(segs, msn, part) ==
    LET scan[i \in 0..Len(segs)] ==
            IF i = 0 THEN [seg |-> msn, part |-> part, found |-> FALSE]
            ELSE SearchStep(scan[i - 1], segs[i])
    IN  scan

hasPart(segs, nextID, nextParts, msn, part) ==
    LET end == Search(segs, msn, part)[Len(segs)]
    IN  /\ hasContent(segs)
        /\ \/ end.found
           \/ end.seg = nextID /\ end.part < Len(nextParts)

\* Mutant of Round: the fraction is cut off.
Truncate(tenths) == tenths \div 10

\* math.Round of a duration in tenths of a second to whole seconds
Round(tenths) == (tenths + 5) \div 10

targetDuration(segs) == Max({0} \cup {Round(segs[i].dur) : i \in DOMAIN segs})

\* The cumulated duration of the first n entries
Cumulated(segs, n) ==
    LET cur[i \in 0..n] == IF i = 0 THEN 0 ELSE cur[i - 1] + segs[i].dur
    IN  cur[n]

\* Shown are the leading entries whose cumulated duration is below the skip
\* boundary; as many are kept at the end of a delta update.
Skipped(segs, isDeltaUpdate) ==
    LET skipBoundary == 10 * 6 * targetDuration(segs)
        shown == Max({0} \cup {n \in 1..Len(segs) : Cumulated(segs, n) < skipBoundary})
    IN  IF isDeltaUpdate THEN Len(segs) - shown ELSE 0

\* What a client reads in the playlist: the media sequence number of the first
\* entry, how many entries are skipped, the URIs of the entries listed, the
\* parts listed and the part of the preload hint.
fullPlaylist(isDeltaUpdate) ==
    LET skipped == Skipped(segments, isDeltaUpdate)
        listed == {i \in 1..Len(segments) : i > skipped}
        withParts == {i \in listed : Len(segments) - i < 2 /\ ~segments[i].gap}
    IN [targetDuration |-> targetDuration(segments),
        mediaSequence  |-> segmentDeleteCount,
        skipped        |-> skipped,
        segmentURIs    |-> {segments[i].ID : i \in {j \in listed : ~segments[j].gap}},
        partURIs       |-> (UNION {Range(segments[i].Parts) : i \in withParts})
                             \cup Range(nextSegmentParts),
        preloadHint    |-> nextPartID]

-----------------------------------------------------------------------------
(* Clients *)

\* A goroutine calls playlistReader, segmentReader, waitForSegFinalized or
\* nextSegment and offers its request on the channel.
Call(c, req) ==
    /\ cl[c] = Idle
    /\ cl' = [cl EXCEPT ![c] = [st |-> "call", req |-> req]]
    /\ res' = [res EXCEPT ![c] = NoResponse]
    /\ UNCHANGED <<playlistVars, contractVars, ctxDone, running>>

\* The select of a call may take <-p.ctx.Done() instead of sending.
CallCanceled(c) ==
    /\ cl[c].st = "call"
    /\ ctxDone
    /\ cl' = [cl EXCEPT ![c] = Idle]
    /\ res' = [res EXCEPT ![c] = Response(StatusInternalServerError)]
    /\ UNCHANGED <<playlistVars, contractVars, ctxDone, running>>

-----------------------------------------------------------------------------
(* The select loop of start(): requests *)

\* The goroutine receives the request of client c
Receive(c, op) ==
    /\ running
    /\ cl[c].st = "call"
    /\ cl[c].req.op = op

Respond(c, r) ==
    /\ cl' = [cl EXCEPT ![c] = Idle]
    /\ res' = [res EXCEPT ![c] = r]

Hold(c) ==
    /\ cl' = [cl EXCEPT ![c].st = "hold"]
    /\ UNCHANGED res

\* case req := <-p.chPlaylist
ServePlaylist(c) ==
    /\ Receive(c, "playlist")
    /\ Respond(c, Response(IF hasContent(segments) THEN StatusOK ELSE StatusNotFound))
    /\ UNCHANGED <<playlistVars, contractVars, ctxDone, running>>

\* case req := <-p.chSegment
ServeSegment(c) ==
    /\ Receive(c, "segment")
    /\ Respond(c, Response(IF cl[c].req.ID \in segmentsByName
                           THEN StatusOK ELSE StatusNotFound))
    /\ UNCHANGED <<playlistVars, contractVars, ctxDone, running>>

\* case req := <-p.chBlockingPlaylist
ServeBlockingPlaylist(c) ==
    LET msn == cl[c].req.msn
        part == cl[c].req.part
    IN  /\ Receive(c, "blockingPlaylist")
        /\ IF msn > nextSegmentID + 1
           THEN Respond(c, Response(StatusBadRequest))
           ELSE IF hasPart(segments, nextSegmentID, nextSegmentParts, msn, part)
           THEN Respond(c, Response(StatusOK))
           ELSE Hold(c)
        /\ UNCHANGED <<playlistVars, contractVars, ctxDone, running>>

\* case req := <-p.chBlockingPart: the file name of the request is looked up
\* without its extension and compared with the next part's name as it is.
ServePart(c) ==
    LET name == cl[c].req.partName
    IN  /\ Receive(c, "part")
        /\ IF \E id \in partsByName : TrimSuffix(name) = partName(id)
           THEN Respond(c, Response(StatusOK))
           ELSE IF name = partName(nextPartID)
           THEN /\ cl' = [cl EXCEPT ![c] = [st |-> "hold",
                            req |-> cl[c].req, partID |-> nextPartID]]
                /\ UNCHANGED res
           ELSE Respond(c, Response(StatusNotFound))
        /\ UNCHANGED <<playlistVars, contractVars, ctxDone, running>>

\* case res := <-p.chWaitForSegFinal
ServeWaitForSegFinal(c) ==
    /\ Receive(c, "waitForSegFinal")
    /\ Hold(c)
    /\ UNCHANGED <<playlistVars, contractVars, ctxDone, running>>

\* The cached segments that answer a NextSegment request at once
NextSegmentIndexes(prevID) ==
    {i \in 1..Len(segments) :
        /\ ~segments[i].gap
        /\ prevID < segments[i].ID \/ prevID >= nextSegmentID}

\* case req := <-p.chNextSegment.  early is history: no segment was there when the
\* request was put on hold.
ServeNextSegment(c) ==
    LET found == NextSegmentIndexes(cl[c].req.prevID)
    IN  /\ Receive(c, "nextSegment")
        /\ IF found # {}
           THEN Respond(c, SegmentResponse(segments[Min(found)]))
           ELSE /\ cl' = [cl EXCEPT ![c] = [st |-> "hold",
                            req |-> cl[c].req, early |-> segmentsByName = {}]]
                /\ UNCHANGED res
        /\ UNCHANGED <<playlistVars, contractVars, ctxDone, running>>

-----------------------------------------------------------------------------
(* The select loop of start(): calls of the segmenter *)

\* checkPending: maps are walked in any order, and the walk (of the playlist
\* requests as of the part requests) returns at the first request that is not
\* ready.  A and B are the requests of each kind that get their answer.
CheckPending(segs, nextID, nextParts, nextPart, A, B) ==
    LET ready == {c \in playlistsOnHold :
                    hasPart(segs, nextID, nextParts, cl[c].req.msn, cl[c].req.part)}
        readyParts == {c \in partsOnHold : nextPart > cl[c].partID}
        allAnswered == ~hasContent(segs) \/ A = playlistsOnHold
    IN  /\ IF hasContent(segs)
           THEN A \subseteq ready /\ (ready = playlistsOnHold => A = ready)
           ELSE A = {}
        /\ IF allAnswered
           THEN B \subseteq readyParts /\ (readyParts = partsOnHold => B = readyParts)
           ELSE B = {}

\* The answers of checkPending.  The part of a held request is looked up by
\* the name it was requested with.
PendingResponse(c, names) ==
    IF c \in playlistsOnHold \/ \E id \in names : cl[c].req.partName = partName(id)
    THEN Response(StatusOK)
    ELSE Response(Panic)

LastID == IF ctxDone THEN MaxClosedID ELSE MaxSegmentID

\* case req := <-p.chPartFinalized, called by the segmenter at the end of a
\* part (Segment.writeH264, Segment.writeAAC, Segment.finalize)
PartFinalized ==
    LET nextParts == Append(nextSegmentParts, partID)
        names == partsByName \cup {partID}
    IN  /\ running
        /\ segID <= LastID /\ Len(segParts) < MaxParts
        /\ FinalizePart
        /\ partsByName' = names
        /\ parts' = Append(parts, partID)
        /\ nextSegmentParts' = nextParts
        /\ nextPartID' = partID + 1
        /\ \E A \in SUBSET playlistsOnHold, B \in SUBSET partsOnHold :
              /\ CheckPending(segments, nextSegmentID, nextParts, partID + 1, A, B)
              /\ cl' = [c \in Clients |-> IF c \in A \cup B THEN Idle ELSE cl[c]]
              /\ res' = [c \in Clients |-> IF c \in A \cup B
                                           THEN PendingResponse(c, names)
                                           ELSE res[c]]
        /\ UNCHANGED <<segments, segmentsByName, segmentDeleteCount,
                       nextSegmentID, ctxDone, running>>

\* The initial gaps, required by iOS, have the duration of the first segment.
WithGaps(segs, d) ==
    IF Len(segs) = 0 THEN [i \in 1..InitialGaps |-> Gap(d)] ELSE segs

\* The head of the list is dropped when the list is longer than segmentCount:
\* one entry, whatever the excess.
DeleteHead(all) == Len(all) > SegmentCount

\* Mutant of DeleteCount: deleted gaps are not counted.
DeleteCountSegments(all) ==
    IF DeleteHead(all) /\ ~all[1].gap THEN segmentDeleteCount + 1 ELSE segmentDeleteCount

DeleteCount(all) ==
    IF DeleteHead(all) THEN segmentDeleteCount + 1 ELSE segmentDeleteCount

\* Mutant of DeletedParts: the parts of the deleted segment stay.
DeletedPartsNone(all) == <<>>

\* The parts of the deleted segment; a gap has none.
DeletedParts(all) ==
    IF DeleteHead(all) /\ ~all[1].gap THEN all[1].Parts ELSE <<>>

\* The held NextSegment requests that a new segment answers
Awaited(id) == {c \in nextSegmentsOnHold : id > cl[c].req.prevID}

\* segmentFinalized(segment)
SegmentFinalized(d) ==
    LET seg == Segment(segID, segParts, d)
        all == Append(WithGaps(segments, d), seg)
        newSegments == IF DeleteHead(all) THEN Tail(all) ELSE all
        names == partsByName \ Range(DeletedParts(all))
    IN  /\ running
        /\ segID <= LastID
        /\ FinalizeSegment
        /\ segments' = newSegments
        /\ segmentsByName' = (segmentsByName \cup {segID})
                \ (IF DeleteHead(all) /\ ~all[1].gap THEN {all[1].ID} ELSE {})
        /\ nextSegmentID' = segID + 1
        /\ nextSegmentParts' = <<>>
        /\ partsByName' = names
        /\ parts' = SubSeq(parts, Len(DeletedParts(all)) + 1, Len(parts))
        /\ segmentDeleteCount' = DeleteCount(all)
        /\ \E A \in SUBSET playlistsOnHold, B \in SUBSET partsOnHold :
              LET answered == A \cup B \cup segFinalOnHold \cup Awaited(segID)
              IN  /\ CheckPending(newSegments, segID + 1, <<>>, nextPartID, A, B)
                  /\ cl' = [c \in Clients |-> IF c \in answered THEN Idle ELSE cl[c]]
                  /\ res' = [c \in Clients |->
                        CASE c \in A \cup B -> PendingResponse(c, names)
                          [] c \in segFinalOnHold -> Response(StatusOK)
                          [] c \in Awaited(segID) -> SegmentResponse(seg)
                          [] OTHER -> res[c]]
        /\ UNCHANGED <<nextPartID, ctxDone, running>>

\* The select of partFinalized and onSegmentFinalized may take
\* <-p.ctx.Done(): the segmenter goes on, the playlist is not told.  (Once
\* the playlist has returned there is nobody left to notice.)
FinalizedDropped ==
    /\ ctxDone /\ running
    /\ segID <= LastID
    /\ \/ Len(segParts) < MaxParts /\ FinalizePart
       \/ FinalizeSegment
    /\ UNCHANGED <<playlistVars, clientVars, ctxDone, running>>

-----------------------------------------------------------------------------
(* The end of the playlist *)

\* The muxer is closed.
Cancel ==
    /\ ~ctxDone
    /\ ctxDone' = TRUE
    /\ UNCHANGED <<playlistVars, contractVars, clientVars, running>>

\* Mutant of Released: the walk over the NextSegment callers stops after one.
ReleasedFirst == playlistsOnHold \cup partsOnHold \cup segFinalOnHold
    \cup {c \in nextSegmentsOnHold : c = CHOOSE d \in nextSegmentsOnHold : TRUE}

Released == playlistsOnHold \cup partsOnHold \cup segFinalOnHold
                \cup nextSegmentsOnHold

\* case <-p.ctx.Done(): cleanup answers every request on hold.
Cleanup ==
    /\ running /\ ctxDone
    /\ running' = FALSE
    /\ cl' = [c \in Clients |-> IF c \in Released THEN Idle ELSE cl[c]]
    /\ res' = [c \in Clients |->
                CASE c \notin Released -> res[c]
                  [] c \in segFinalOnHold -> Response(StatusOK)
                  [] OTHER -> Response(StatusInternalServerError)]
    /\ UNCHANGED <<playlistVars, contractVars, ctxDone>>

-----------------------------------------------------------------------------

Init ==
    /\ ContractInit
    /\ segments = <<>> /\ segmentsByName = {} /\ segmentDeleteCount = 0
    /\ parts = <<>> /\ partsByName = {}
    /\ nextSegmentID = 0 /\ nextSegmentParts = <<>> /\ nextPartID = 0
    /\ ctxDone = FALSE /\ running = TRUE
    /\ cl = [c \in Clients |-> Idle]
    /\ res = [c \in Clients |-> NoResponse]

Serve(c) ==
    \/ ServePlaylist(c)
    \/ ServeSegment(c)
    \/ ServeBlockingPlaylist(c)
    \/ ServePart(c)
    \/ ServeWaitForSegFinal(c)
    \/ ServeNextSegment(c)

Next ==
    \/ \E c \in Clients, req \in Requests : Call(c, req)
    \/ \E c \in Clients : CallCanceled(c)
    \/ \E c \in Clients : Serve(c)
    \/ PartFinalized
    \/ \E d \in Durations : SegmentFinalized(d)
    \/ FinalizedDropped
    \/ Cancel
    \/ Cleanup

Spec == Init /\ [][Next]_vars

\* The goroutines run: the playlist serves the calls it is offered and a
\* cancelled context is noticed.  Nothing is assumed of the stream.
FairSpec ==
    /\ Spec
    /\ WF_vars(Cleanup)
    /\ \A c \in Clients : WF_vars(Serve(c)) /\ WF_vars(CallCanceled(c))

-----------------------------------------------------------------------------
(* Properties *)

Entries == [gap : {TRUE}, dur : Durations]
             \cup [gap : {FALSE}, ID : Nat, Parts : Seq(Nat), dur : Durations]

\* Type invariant.
TypeOK ==
    /\ segments \in Seq(Entries)
    /\ segmentsByName \subseteq Nat
    /\ segmentDeleteCount \in Nat
    /\ parts \in Seq(Nat)
    /\ partsByName \subseteq Nat
    /\ nextSegmentID \in Nat
    /\ nextSegmentParts \in Seq(Nat)
    /\ nextPartID \in Nat
    /\ ctxDone \in BOOLEAN
    /\ running \in BOOLEAN
    /\ segID \in Nat /\ segParts \in Seq(Nat) /\ partID \in Nat

\* The media sequence number of a listed segment, which clients compute from
\* EXT-X-MEDIA-SEQUENCE and the position of the segment, is its ID, which is
\* what hasPart compares _HLS_msn with; and the segment that is being written
\* will get the number that follows the last one listed.
MediaSequence ==
    ~ctxDone =>
        /\ \A i \in 1..Len(segments) :
              ~segments[i].gap => segments[i].ID = segmentDeleteCount + i - 1
        /\ hasContent(segments) => nextSegmentID = segmentDeleteCount + Len(segments)

PartsOf(s) == IF s.gap THEN <<>> ELSE s.Parts

\* The parts of the entries of a list, in order
PartsIn(segs) ==
    LET upTo[i \in 0..Len(segs)] ==
            IF i = 0 THEN <<>> ELSE upTo[i - 1] \o PartsOf(segs[i])
    IN  upTo[Len(segs)]

\* Every URI in a playlist, delta update or not, is served, the maps keep
\* nothing else, and p.parts is the parts of the listed segments followed by
\* those of the next one, so that deleting the head takes its own parts.
ListedIsServed ==
    ~ctxDone =>
        /\ segmentsByName = fullPlaylist(FALSE).segmentURIs
        /\ parts = PartsIn(segments) \o nextSegmentParts
        /\ partsByName = Range(parts)
        /\ \A isDeltaUpdate \in BOOLEAN :
              LET pl == fullPlaylist(isDeltaUpdate)
              IN pl.segmentURIs \subseteq segmentsByName
                    /\ pl.partURIs \subseteq partsByName

\* The part positions <<segment ID, index>> a client can have
Available ==
    (UNION {{<<segments[i].ID, k - 1>> : k \in 1..Len(segments[i].Parts)} :
               i \in {j \in 1..Len(segments) : ~segments[j].gap}})
    \cup {<<nextSegmentID, k - 1>> : k \in 1..Len(nextSegmentParts)}

\* A blocking reload is answered when the playlist has the requested part or a
\* later one, counting parts across segments: an index past the end of a
\* segment is the first part of the segment after it (the comment in hasPart).
\* Requests for segments that have left the window are not answered.
BlockingReload ==
    ~ctxDone /\ hasContent(segments) =>
        \A msn \in 0..MaxSegmentID + 1, part \in 0..MaxParts :
            hasPart(segments, nextSegmentID, nextSegmentParts, msn, part) <=>
                /\ msn \in segmentsByName \cup {nextSegmentID}
                /\ \E p \in Available :
                      p[1] > msn \/ (p[1] = msn /\ p[2] >= part)

\* A blocking reload whose part has arrived stays on hold only behind another
\* one whose part has not: checkPending stops at the first that is not ready.
ReadyHeldOnlyBehindUnready ==
    LET ready == {c \in playlistsOnHold :
                    hasPart(segments, nextSegmentID, nextSegmentParts,
                            cl[c].req.msn, cl[c].req.part)}
    IN ready # {} => ready # playlistsOnHold

\* A NextSegment caller is on hold only as long as the same call, made now, would
\* have to wait, too.  The exception is a caller that came before the first segment
\* with the ID of an earlier muxer, which is ahead of all IDs here: a new call is
\* answered with the oldest segment, the one on hold waits until the IDs have
\* caught up.
HeldNextSegmentsUpToDate ==
    ~ctxDone =>
        \A c \in nextSegmentsOnHold :
            \/ NextSegmentIndexes(cl[c].req.prevID) = {}
            \/ cl[c].early /\ cl[c].req.prevID >= nextSegmentID

\* The preload hint names no part that is listed already, and no part that
\* will be finalized has a smaller ID.
PreloadHintAhead ==
    ~ctxDone =>
        /\ nextPartID \notin fullPlaylist(FALSE).partURIs
        /\ nextPartID <= partID /\ partID <= nextPartID + 1

\* A delta update leaves out only old entries: the two last ones, which are
\* listed with their parts, are always there.  (The segmenter cuts segments of
\* more than half a second, so that the target duration is not zero.)
DeltaKeepsNewest ==
    Len(segments) >= 2 /\ (\A i \in 1..Len(segments) : segments[i].dur > 5) =>
        Skipped(segments, TRUE) + 2 <= Len(segments)

\* Clients get what they ask for when it is there, and not before: the numbers
\* they compute are the IDs that requests are compared with, a blocking reload is
\* answered exactly if its part or a later one is there and is kept on hold only
\* by another that cannot be answered yet, a NextSegment call waits only as long
\* as a new one would (but for calls that came before the first segment with the
\* ID of an earlier muxer), and the hint is ahead.
RequestsOnTime ==
    /\ MediaSequence
    /\ BlockingReload
    /\ ReadyHeldOnlyBehindUnready
    /\ HeldNextSegmentsUpToDate
    /\ PreloadHintAhead

\* Once the muxer is closed every call returns, on hold or not.
CancelReleasesAll ==
    \A c \in Clients :
        (ctxDone /\ cl[c] # Idle) ~> (cl[c] = Idle)

\* The refinement mapping: the media window a client sees.
windowLo == segmentDeleteCount
windowHi == segmentDeleteCount + Len(segments)
windowEntry == [n \in windowLo .. windowHi - 1 |-> segments[n - windowLo + 1]]

Window == INSTANCE MediaWindow WITH
    lo <- windowLo, hi <- windowHi, entry <- windowEntry, Entry <- Entries

\* The playlist implements the media window.
WindowSpec == Window!WindowSpec
=============================================================================
