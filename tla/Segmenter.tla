------------------------------ MODULE Segmenter ------------------------------
(***************************************************************************)
(* The segmenter of the HLS muxer (pkg/video/hls/segmenter.go, segment.go, *)
(* part.go): it cuts the samples of a stream into parts and segments and   *)
(* hands them to the playlist.                                             *)
(*                                                                         *)
(* One call of writeH264 or writeAAC may hand over a part and a segment.   *)
(* The hand-over is a synchronous call into the playlist goroutine, and    *)
(* other goroutines may run between two of them: `pc` says where in the    *)
(* call the writer is.                                                     *)
(*                                                                         *)
(* Time is counted in steps of 5 ms, the step of findCompatiblePartDuration*)
(* (300 ms are 60 steps).  A sample has its number, its decode and its     *)
(* presentation time; its data is left out and its size is one unit.       *)
(***************************************************************************)
EXTENDS Integers, Sequences, FiniteSets, SequencesExt

CONSTANTS
    Streams,        \* the sets of tracks a stream may have
    SegmentDuration, PartDuration,      \* hlsSegmentDuration, hlsPartDuration
    SegmentMaxSize,                     \* hlsSegmentMaxSize
    FrameDurations, \* differences of the decode times of two video samples
    AudioDuration,  \* time of one audio sample
    ReorderDelay,   \* PTS - DTS of an IDR sample
    MuxerStartTime, \* the wall clock when the muxer was made
    FirstSegmentID, \* 7
    MaxSkipped,     \* bound: video samples before the first IDR
    MaxSamples,     \* bound: video samples written
    MaxAudio,       \* bound: audio samples written beside video
    MaxAudioOnly,   \* bound: audio samples written without video
    MaxSPSChanges   \* bound: times the encoder changes the SPS

ASSUME SegmenterAssumption ==
    /\ Streams \subseteq SUBSET {"video", "audio"}
    /\ SegmentDuration \in Nat /\ PartDuration \in Nat \ {0}
    /\ FrameDurations \subseteq Int
    /\ FirstSegmentID \in Nat

VARIABLES
    tracks,                 \* the tracks of the stream
    videoFirstIDRReceived,
    nextVideoSample,        \* the sample that waits for its successor
    nextAudioSample,        \* one is waiting
    currentSegment, nextSegmentID, nextPartID,
    firstSegmentFinalized, sampleDurations, adjustedPartDuration,
    videoSPS,               \* the SPS the current segment was made with
    sps,                    \* videoTrack.SafeSPS()
    pc,                     \* where the writer is in its call
    clock,                  \* decode time of the last video sample received
    skipped,                \* video samples received before the first IDR
    written,                \* video samples accepted so far
    heard,                  \* audio samples received so far
    lastSegment             \* the last segment given to onSegmentFinalized

partVars == <<sampleDurations, adjustedPartDuration, firstSegmentFinalized>>
queueVars == <<videoFirstIDRReceived, nextVideoSample, nextAudioSample>>
inputVars == <<sps, clock, skipped, written, heard>>
idVars == <<nextSegmentID, nextPartID>>
vars == <<tracks, partVars, queueVars, inputVars, idVars, currentSegment, videoSPS,
          pc, lastSegment>>

VideoTrackExist == "video" \in tracks
AudioTrackExist == "audio" \in tracks
AudioBound == IF VideoTrackExist THEN MaxAudio ELSE MaxAudioOnly

None == [none |-> TRUE]
IsNone(x) == x = None

-----------------------------------------------------------------------------
(* Part durations *)

\* Integer division of Go, a \in Nat, which truncates towards zero
Quotient(a, b) == IF b > 0 THEN a \div b ELSE -(a \div (-b))

\* The division by zero of a sample without duration is up to the caller.
partDurationIsCompatible(partDuration, sampleDuration) ==
    LET q == Quotient(partDuration, sampleDuration)
        f == IF q * sampleDuration # partDuration THEN q + 1 ELSE q
    IN  /\ sampleDuration <= partDuration
        /\ 100 * partDuration > 85 * f * sampleDuration

FiveSeconds == 1000

\* The first step of the loop of findCompatiblePartDuration at which ok holds,
\* or the step at which the loop gives up
LeastOf(from, ok(_)) ==
    CHOOSE i \in from..FiveSeconds :
        /\ i = FiveSeconds \/ ok(i)
        /\ \A j \in from..(i - 1) : ~ok(j)

findCompatiblePartDuration(minPartDuration, sds) ==
    LeastOf(minPartDuration, LAMBDA i : \A sd \in sds : partDurationIsCompatible(i, sd))

-----------------------------------------------------------------------------
(* Parts and segments *)

newPart(id) == [id |-> id, video |-> <<>>, audio |-> 0]

newSegment(id, startDTS, partID) ==
    [ID |-> id, startDTS |-> startDTS, Parts |-> <<>>, size |-> 0,
     part |-> newPart(partID)]

\* VideoSample.duration: NextDTS - DTS
Duration(sample) == sample.nextDTS - sample.dts

TotalDuration(samples) ==
    LET sum[i \in 0..Len(samples)] ==
            IF i = 0 THEN 0 ELSE sum[i - 1] + Duration(samples[i])
    IN  sum[Len(samples)]

\* Mutant of PartLength: audio samples count as well.
PartLengthBoth(part) == TotalDuration(part.video) + part.audio * AudioDuration

\* MuxerPart.duration
PartLength(part) ==
    IF VideoTrackExist THEN TotalDuration(part.video) ELSE part.audio * AudioDuration

IsEmpty(part) == Len(part.video) = 0 /\ part.audio = 0

\* Mutant of SwitchPart: the part is not kept.
SwitchPartForgotten(seg, long, partID) ==
    IF long THEN [seg EXCEPT !.part = newPart(partID)] ELSE seg

\* Mutant of SwitchPart: the new part takes no ID of its own.
SwitchPartSameID(seg, long, partID) ==
    IF long
    THEN [seg EXCEPT !.Parts = Append(@, seg.part), !.part = newPart(seg.part.id)]
    ELSE seg

\* Segment.writeH264 and writeAAC after the sample was added: the part is
\* finalized and given to the playlist when it is long enough.
SwitchPart(seg, long, partID) ==
    IF long
    THEN [seg EXCEPT !.Parts = Append(@, seg.part), !.part = newPart(partID)]
    ELSE seg

-----------------------------------------------------------------------------
(* The environment: the encoder sends a new SPS *)

ChangeSPS ==
    /\ sps < MaxSPSChanges
    /\ sps' = sps + 1
    /\ UNCHANGED <<partVars, queueVars, clock, skipped, written, heard, idVars,
                   currentSegment, videoSPS, pc, lastSegment>>

-----------------------------------------------------------------------------
(* writeH264 *)

Ready == pc.at = "ready"

\* Samples are skipped until the first IDR.
SkipH264(d) ==
    /\ Ready /\ VideoTrackExist
    /\ ~videoFirstIDRReceived
    /\ skipped < MaxSkipped
    /\ skipped' = skipped + 1
    /\ clock' = clock + d
    /\ UNCHANGED <<partVars, queueVars, sps, written, heard, idVars,
                   currentSegment, videoSPS, pc, lastSegment>>

\* The first IDR.  The DTS extractor is given dts, which is 0, in place of
\* pts: the sample's decode time is 0 however many samples came before it.
FirstIDR ==
    /\ Ready /\ VideoTrackExist
    /\ ~videoFirstIDRReceived
    /\ videoFirstIDRReceived' = TRUE
    /\ videoSPS' = sps
    /\ written' = 1
    /\ nextVideoSample' = [n |-> 1, dts |-> 0, pts |-> clock + ReorderDelay, idr |-> TRUE]
    /\ UNCHANGED <<partVars, nextAudioSample, sps, clock, skipped, heard, idVars,
                   currentSegment, pc, lastSegment>>

\* The DTS extractor rejects the sample: the error ends the muxer.
ExtractFails ==
    /\ Ready /\ VideoTrackExist
    /\ pc' = [at |-> "failed"]
    /\ videoFirstIDRReceived' = TRUE
    /\ videoSPS' = IF videoFirstIDRReceived THEN videoSPS ELSE sps
    /\ UNCHANGED <<partVars, nextVideoSample, nextAudioSample, inputVars, idVars,
                   currentSegment, lastSegment>>

\* adjustPartDuration looks for another part duration only before the first
\* segment is finalized.
Adjusts(du) == ~firstSegmentFinalized /\ du \notin sampleDurations

\* Two samples with the same decode time: the search divides by zero.
DividesByZero(du) == Adjusts(du) /\ du = 0

AdjustPartDuration(du) ==
    /\ sampleDurations' =
           IF Adjusts(du) THEN sampleDurations \cup {du} ELSE sampleDurations
    /\ adjustedPartDuration' =
           IF Adjusts(du) /\ ~DividesByZero(du)
           THEN findCompatiblePartDuration(PartDuration, sampleDurations \cup {du})
           ELSE adjustedPartDuration

\* The condition to switch to a new segment
SwitchSegment(idr, seg, nextDTS) ==
    /\ idr
    /\ nextDTS - seg.startDTS >= SegmentDuration \/ videoSPS # sps

\* writeH264Entry, up to the end of Segment.writeH264: the new sample waits,
\* the one that waited is written.
WriteH264(d, idr) ==
    LET first == IsNone(currentSegment)
        sample == [n |-> nextVideoSample.n, dts |-> nextVideoSample.dts,
                   idr |-> nextVideoSample.idr, nextDTS |-> clock + d]
        partID == IF first THEN nextPartID + 1 ELSE nextPartID
        seg == IF first THEN newSegment(nextSegmentID, sample.dts, nextPartID)
                        ELSE currentSegment
        full == seg.size + 1 > SegmentMaxSize
        added == [seg EXCEPT !.part.video = Append(@, sample), !.size = @ + 1]
        long == PartLength(added.part) >= adjustedPartDuration'
    IN  /\ Ready /\ VideoTrackExist
        /\ videoFirstIDRReceived
        /\ written < MaxSamples
        /\ clock' = clock + d
        /\ written' = written + 1
        /\ nextVideoSample' = [n |-> written + 1, dts |-> clock + d,
                               pts |-> clock + d + ReorderDelay, idr |-> idr]
        /\ nextSegmentID' = IF first THEN nextSegmentID + 1 ELSE nextSegmentID
        /\ AdjustPartDuration(Duration(sample))
        /\ IF full \/ DividesByZero(Duration(sample))
           THEN /\ currentSegment' = seg
                /\ nextPartID' = partID
                /\ pc' = [at |-> IF DividesByZero(Duration(sample)) THEN "divide" ELSE "failed"]
           ELSE /\ currentSegment' = SwitchPart(added, long, partID)
                /\ nextPartID' = IF long THEN partID + 1 ELSE partID
                /\ pc' = IF SwitchSegment(idr, seg, clock + d)
                         THEN [at |-> "finalize", sps |-> sps]
                         ELSE pc
        /\ UNCHANGED <<firstSegmentFinalized, videoFirstIDRReceived, nextAudioSample,
                       sps, skipped, heard, videoSPS, lastSegment>>

RenderedDuration(seg, next) == next.dts - seg.startDTS

\* Segment.finalize: the last part, if it has samples, is given to the
\* playlist.
FinalizeLastPart ==
    /\ pc.at = "finalize"
    /\ ~IsEmpty(currentSegment.part)
    /\ currentSegment' = [currentSegment EXCEPT
                            !.Parts = Append(@, currentSegment.part), !.part = None]
    /\ pc' = [pc EXCEPT !.at = "segment"]
    /\ UNCHANGED <<partVars, queueVars, inputVars, idVars, videoSPS, lastSegment>>

\* The rest of writeH264Entry: the duration of the segment, the call of
\* onSegmentFinalized and the next segment.
HandOverSegment ==
    LET changed == videoSPS # pc.sps
    IN  /\ \/ pc.at = "segment"
           \/ pc.at = "finalize" /\ IsEmpty(currentSegment.part)
        /\ lastSegment' =
              [ID |-> currentSegment.ID, Parts |-> currentSegment.Parts,
               RenderedDuration |-> RenderedDuration(currentSegment, nextVideoSample)]
        /\ currentSegment' = newSegment(nextSegmentID, nextVideoSample.pts, nextPartID)
        /\ nextSegmentID' = nextSegmentID + 1
        /\ nextPartID' = nextPartID + 1
        /\ firstSegmentFinalized' = ~changed
        /\ videoSPS' = pc.sps
        /\ sampleDurations' = IF changed THEN {} ELSE sampleDurations
        /\ pc' = [at |-> "ready"]
        /\ UNCHANGED <<adjustedPartDuration, queueVars, inputVars>>

-----------------------------------------------------------------------------
(* writeAAC *)

\* The condition to switch to a new segment when there is no video track:
\* startDTS is the sample's PTS, from which the start time was not taken away.
SwitchAudioSegment(seg, nextPTS) ==
    nextPTS - MuxerStartTime - seg.startDTS >= SegmentDuration

\* A sample takes the place of the one that waits, and is dropped or waits
\* itself when there is no current segment to write to.
QueueAAC ==
    /\ Ready /\ AudioTrackExist
    /\ heard < AudioBound
    /\ heard' = heard + 1
    /\ nextAudioSample' = (~VideoTrackExist \/ videoFirstIDRReceived)
    /\ nextAudioSample => VideoTrackExist /\ IsNone(currentSegment)
    /\ UNCHANGED <<partVars, videoFirstIDRReceived, nextVideoSample, sps, clock, skipped,
                   written, idVars, currentSegment, videoSPS, pc, lastSegment>>

\* The sample that waited is written to the current segment.  With a video
\* track a part may be switched, at the part duration that is not adjusted.
\* Without one the segment may be switched: rendering a part that has no
\* video sample is an index out of range.
WriteAAC ==
    LET first == IsNone(currentSegment)
        nextPTS == MuxerStartTime + heard * AudioDuration
        partID == IF first THEN nextPartID + 1 ELSE nextPartID
        seg == IF first
               THEN newSegment(nextSegmentID, nextPTS - AudioDuration, nextPartID)
               ELSE currentSegment
        full == seg.size + 1 > SegmentMaxSize
        added == [seg EXCEPT !.part.audio = @ + 1, !.size = @ + 1]
        long == VideoTrackExist /\ PartLength(added.part) >= PartDuration
    IN  /\ Ready /\ AudioTrackExist
        /\ heard < AudioBound
        /\ nextAudioSample
        /\ VideoTrackExist => ~first
        /\ heard' = heard + 1
        /\ nextSegmentID' = IF first THEN nextSegmentID + 1 ELSE nextSegmentID
        /\ IF full
           THEN /\ currentSegment' = seg
                /\ nextPartID' = partID
                /\ pc' = [at |-> "failed"]
           ELSE /\ currentSegment' = SwitchPart(added, long, partID)
                /\ nextPartID' = IF long THEN partID + 1 ELSE partID
                /\ pc' = IF ~VideoTrackExist /\ SwitchAudioSegment(seg, nextPTS)
                         THEN [at |-> "panic"]
                         ELSE pc
        /\ UNCHANGED <<partVars, queueVars, sps, clock, skipped, written, videoSPS,
                       lastSegment>>

-----------------------------------------------------------------------------
(* The specification *)

Init ==
    /\ tracks \in Streams
    /\ videoFirstIDRReceived = FALSE
    /\ nextVideoSample = None
    /\ nextAudioSample = FALSE
    /\ currentSegment = None
    /\ nextSegmentID = FirstSegmentID
    /\ nextPartID = 0
    /\ firstSegmentFinalized = FALSE
    /\ sampleDurations = {}
    /\ adjustedPartDuration = 0
    /\ videoSPS = 0
    /\ sps = 0
    /\ pc = [at |-> "ready"]
    /\ clock = 0
    /\ skipped = 0
    /\ written = 0
    /\ heard = 0
    /\ lastSegment = None

Next ==
    /\ \/ ChangeSPS
       \/ \E d \in FrameDurations : SkipH264(d)
       \/ FirstIDR
       \/ ExtractFails
       \/ \E d \in FrameDurations, idr \in BOOLEAN : WriteH264(d, idr)
       \/ FinalizeLastPart
       \/ HandOverSegment
       \/ QueueAAC
       \/ WriteAAC
    /\ UNCHANGED tracks

Spec == Init /\ [][Next]_vars

-----------------------------------------------------------------------------
(* Properties *)

Sample == [n : Nat, dts : Int, nextDTS : Int, idr : BOOLEAN]
Part == [id : Nat, video : Seq(Sample), audio : Nat]

\* Types, and the places the writer can be in.
TypeOK ==
    /\ pc.at \in {"ready", "finalize", "segment", "failed", "divide", "panic"}
    /\ videoFirstIDRReceived \in BOOLEAN /\ nextAudioSample \in BOOLEAN
    /\ nextSegmentID >= FirstSegmentID /\ nextPartID \in Nat
    /\ firstSegmentFinalized \in BOOLEAN
    /\ sampleDurations \subseteq Int /\ adjustedPartDuration \in Nat
    /\ videoSPS \in 0..sps /\ sps \in 0..MaxSPSChanges
    /\ IsNone(currentSegment) \/ currentSegment.Parts \in Seq(Part)

SamplesOf(parts) == FlattenSeq([i \in DOMAIN parts |-> parts[i].video])

\* The parts of the last segment handed over, and those of the current one
OldParts == IF IsNone(lastSegment) THEN <<>> ELSE lastSegment.Parts
NewParts == IF IsNone(currentSegment) THEN <<>>
            ELSE currentSegment.Parts \o
                 IF IsNone(currentSegment.part) THEN <<>> ELSE <<currentSegment.part>>

\* Every part that is rendered has a video sample, whatever the order in which
\* audio and video arrive, and a stream without video is never rendered:
\* generateVideoTraf reads the first video sample without looking whether
\* there is one.
RenderedPartsHaveVideo ==
    /\ pc.at # "panic"
    /\ \A i \in DOMAIN OldParts : OldParts[i].video # <<>>
    /\ ~IsNone(currentSegment) =>
          \A i \in DOMAIN currentSegment.Parts : currentSegment.Parts[i].video # <<>>

\* Every segment starts with an IDR sample: the playlist declares its segments
\* independent.
SegmentsStartWithIDR ==
    LET StartsWithIDR(samples) == samples # <<>> => samples[1].idr
    IN  StartsWithIDR(SamplesOf(OldParts)) /\ StartsWithIDR(SamplesOf(NewParts))

\* No accepted sample is lost, repeated or moved when parts and segments are
\* switched, and the decode times have no gap: the samples of the last and the
\* current segment, and the one that waits, have consecutive numbers up to the
\* last one written, and each ends where the next begins.
SamplesContiguous ==
    LET samples == SamplesOf(OldParts) \o SamplesOf(NewParts)
        n == Len(samples)
    IN  samples # <<>> /\ pc.at \notin {"failed", "divide"} =>
          /\ samples[n].n + 1 = nextVideoSample.n /\ nextVideoSample.n = written
          /\ samples[n].nextDTS = nextVideoSample.dts
          /\ \A i \in 1..(n - 1) : /\ samples[i + 1].n = samples[i].n + 1
                                   /\ samples[i + 1].dts = samples[i].nextDTS

\* The duration listed for a segment is that of its samples.  A segment other
\* than the first starts at the presentation time of its first sample, so it
\* falls short by the time that sample is displayed after it is decoded.
RenderedDurationExact ==
    ~IsNone(lastSegment) =>
        lastSegment.RenderedDuration =
            TotalDuration(SamplesOf(lastSegment.Parts))
            - (IF lastSegment.ID = FirstSegmentID THEN 0 ELSE ReorderDelay)

\* What is rendered is what was written: no sample lost, repeated or moved, no
\* part without video, every segment independent and as long as it says.
RenderedExact ==
    /\ RenderedPartsHaveVideo
    /\ SegmentsStartWithIDR
    /\ SamplesContiguous
    /\ RenderedDurationExact

\* A part that is not the last of its segment is not shorter than 85% of any
\* other part, the rule of iOS that adjustPartDuration works for.
PartsWithin85 ==
    LET Complete(parts) == {TotalDuration(parts[i].video) : i \in 1..(Len(parts) - 1)}
        lengths == Complete(OldParts) \cup Complete(NewParts)
    IN  \A a, b \in lengths : 100 * a >= 85 * b

\* As long as every sample has had the same duration and none came before the
\* first IDR, the part duration that adjustPartDuration finds keeps the rule.
SteadyPartsWithin85 ==
    LET samples == SamplesOf(OldParts) \o SamplesOf(NewParts)
        durations == sampleDurations \cup {samples[i].nextDTS - samples[i].dts :
                                              i \in DOMAIN samples}
    IN  skipped = 0 /\ Cardinality(durations) <= 1 => PartsWithin85

\* The segmenter keeps the promise the playlist relies on.
Contract == INSTANCE SegmenterContract WITH
    segID <- IF IsNone(currentSegment) THEN nextSegmentID ELSE currentSegment.ID,
    segParts <- IF IsNone(currentSegment) THEN <<>>
                ELSE [i \in DOMAIN currentSegment.Parts |-> currentSegment.Parts[i].id],
    partID <- IF IsNone(currentSegment) \/ IsNone(currentSegment.part)
              THEN nextPartID ELSE currentSegment.part.id

\* IDs of segments and parts are handed out as SegmenterContract states: what
\* onPartFinalized and onSegmentFinalized are called with, in order.
ContractSpec == Contract!ContractSpec
=============================================================================
