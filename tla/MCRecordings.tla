---------------------------- MODULE MCRecordings ----------------------------
(***************************************************************************)
(* A recording of two samples in two segments, requests for it with        *)
(* ranges around the end of the generated part, two requests to delete it  *)
(* or one and a retry; or the cache with three recordings and room for     *)
(* two.                                                                    *)
(***************************************************************************)
EXTENDS MP4Muxer, RecordingFiles, VideoCache

VARIABLE part

mcVars == <<fileVars, cacheVars, part>>

\* Two requests to delete, or one and a retry.
Init ==
    /\ FilesInit /\ CacheInit /\ part \in {"files", "cache"}
    /\ Len(deleter) + writer.retries = 2

Next ==
    \/ part = "files" /\ FilesNext /\ UNCHANGED <<cacheVars, part>>
    \/ part = "cache" /\ CacheNext /\ UNCHANGED <<fileVars, part>>

Spec == Init /\ [][Next]_mcVars

MCSizes == <<2, 1>>

Spec1(first, last) == [first |-> first, last |-> last]

\* A range that ends at the end of the file, one that begins in
\* the generated part and one behind it, two that go back across its end.
MCRangeSpecs ==
    {<<Spec1(2, -1)>>, <<Spec1(1, 6)>>, <<Spec1(6, 6)>>, <<Spec1(0, 2), Spec1(7, -1)>>,
     <<Spec1(1, 6), Spec1(3, 5)>>, <<Spec1(9, 9)>>}

Kind(audio, sync, size, dur, off) ==
    [audio |-> audio, sync |-> sync, size |-> size, dur |-> dur, off |-> off]

MCInfos == {StreamInfo(TRUE, 7, 3, 2), StreamInfo(FALSE, 9, 4, 0)}

MCSampleKinds ==
    {Kind(FALSE, TRUE, 3, 5, 2), Kind(FALSE, FALSE, 2, 5, 9), Kind(FALSE, FALSE, 2, 7, 0),
     Kind(TRUE, FALSE, 1, 3, 0)}

\* The second header is longer than a record.
MCHeaders ==
    {[sps |-> <<1, 2>>, pps |-> <<3>>, config |-> <<>>, start |-> 5],
     [sps |-> [i \in 1..15 |-> i % 4], pps |-> <<1, 2, 3>>, config |-> <<1, 1>>, start |-> -3]}

MetaSample(audio, sync, t) ==
    [audio |-> audio, sync |-> sync, pts |-> t, dts |-> t - 9, next |-> t + 3, offset |-> 200, size |-> 3 * t]

MCMetaSamples == {<<>>, <<MetaSample(TRUE, FALSE, 5), MetaSample(FALSE, TRUE, 7)>>}

-----------------------------------------------------------------------------
(* The formats, which have no state: properties of the initial states, or  *)
(* of the steps from them.                                                 *)

\* parseRange: the ranges of a response are the bytes each spec of the header
\* asks for, and together never longer than the video.
RangesExact == Init => RangesCorrect

\* customformat.Reader reads whatever prefix of a meta file is there, however
\* much it has grown since its size was asked for: the header and the samples
\* whose records were complete then.
MetaReadable == MetaCorrect

\* Every box of the mp4 package writes as many bytes as its Size() says.
BoxSizesExact == BoxSizesCorrect

\* A segment that customformat.Writer stores and GenerateMP4 muxes plays back:
\* the tables lead a player to the data, the sync samples and the times of the
\* samples the segmenter handed over.
RecordingPlaysBack == RecordingCorrect

\* The frame of a thumbnail is where its table says, although the offset is a
\* number in the source of GenerateThumbnailVideo.
ThumbnailPlaysBack == ThumbnailCorrect

\* The data offsets generatePart adds up by hand lead to the video and the audio
\* data, with and without an audio track and audio samples.
PartPlaysBack == PartCorrect

\* A response is the bytes that were asked for, all of them.
ResponseExact == RangesExact /\ BodyExact /\ BodyWhole

\* What is stored can be read, and what is generated from it can be played: see
\* the parts.
PlaysBack ==
    [][Init => /\ MetaReadable
               /\ BoxSizesExact
               /\ RecordingPlaysBack
               /\ ThumbnailPlaysBack
               /\ PartPlaysBack]_mcVars
=============================================================================
