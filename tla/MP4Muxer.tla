------------------------------ MODULE MP4Muxer ------------------------------
(***************************************************************************)
(* The MP4 files the NVR makes: the video of a recording                   *)
(* (mp4muxer.GenerateMP4), the one frame video a thumbnail is made from    *)
(* (GenerateThumbnailVideo), the initialization file and the parts of the  *)
(* HLS stream (hls.generateInit, hls.generatePart).                        *)
(*                                                                         *)
(* All of them refer to media data by its offset in a file that is not     *)
(* written yet: the sizes of the boxes are added up by hand or by Size().  *)
(* The properties read the tables the way a player does and compare with   *)
(* where Marshal puts the data.                                            *)
(***************************************************************************)
EXTENDS MP4Boxes, CustomFormat

CONSTANTS
    Second,          \* nanoseconds in a second, made small
    VideoTimescale,  \* hls.VideoTimescale: time units in a second, made small
    AudioClockRate,  \* the clock rate of the audio track, made small
    Word             \* the number of values of a uint32, made small

ASSUME MP4Assumption ==
    /\ Second \in Nat \ {0} /\ VideoTimescale \in Nat \ {0}
    /\ AudioClockRate \in Nat \ {0} /\ Word \in Nat \ {0}

\* math.Round rounds half away from zero.
NanoToTimescale(value, timescale) ==
    IF value >= 0
    THEN (2 * value * timescale + Second) \div (2 * Second)
    ELSE -((2 * (-value) * timescale + Second) \div (2 * Second))

\* Stream information: whether there is audio, and the lengths of the SPS,
\* the PPS and the audio configuration.
StreamInfo(audio, sps, pps, config) == [audio |-> audio, sps |-> sps, pps |-> pps, config |-> config]

-----------------------------------------------------------------------------
(* The muxer of recordings.                                                *)

NoTables ==
    [stts |-> <<>>, stss |-> <<>>, ctts |-> <<>>, stsc |-> <<>>, stsz |-> <<>>, stco |-> <<>>]

NewMuxer(start) ==
    [start |-> start, end |-> 0, first |-> TRUE, dtsShift |-> 0, mdatPos |-> 0,
     video |-> NoTables, audio |-> NoTables, prev |-> "none"]

\* A run of equal values is one entry.
RunLength(table, value) ==
    IF table # <<>> /\ Last(table)[2] = value
    THEN [table EXCEPT ![Len(table)][1] = @ + 1]
    ELSE Append(table, <<1, value>>)

\* Mutant of AddToChunk: the chunks of the other track do not end this one.
AddToChunkLong(t, same, pos, size) ==
    IF same \/ t.stco # <<>>
    THEN [t EXCEPT !.stsc[Len(t.stsc)][2] = @ + 1, !.stsz = Append(@, size)]
    ELSE [t EXCEPT !.stco = Append(@, pos), !.stsc = Append(@, <<Len(t.stco) + 1, 1>>),
                   !.stsz = Append(@, size)]

\* A sample that follows one of its own track goes into the same chunk.
AddToChunk(t, same, pos, size) ==
    IF same
    THEN [t EXCEPT !.stsc[Len(t.stsc)][2] = @ + 1, !.stsz = Append(@, size)]
    ELSE [t EXCEPT !.stco = Append(@, pos), !.stsc = Append(@, <<Len(t.stco) + 1, 1>>),
                   !.stsz = Append(@, size)]

WriteVideoSample(m, s) ==
    LET delta == NanoToTimescale(s.next - s.dts, VideoTimescale) % Word
        pts == NanoToTimescale(s.pts - m.start, VideoTimescale)
        dts == NanoToTimescale(s.dts - m.start, VideoTimescale)
        shift == IF m.first THEN pts - dts ELSE m.dtsShift
        t == AddToChunk(m.video, m.prev = "video", m.mdatPos, s.size)
    IN  [m EXCEPT !.first = FALSE, !.dtsShift = shift, !.prev = "video", !.end = s.next,
                  !.mdatPos = (@ + s.size) % Word,
                  !.video = [t EXCEPT !.stts = RunLength(@, delta),
                                      !.ctts = RunLength(@, pts - (dts + shift)),
                                      !.stss = IF s.sync THEN Append(@, Len(t.stsz)) ELSE @]]

WriteAudioSample(m, s) ==
    LET delta == NanoToTimescale(s.next - s.pts, AudioClockRate) % Word
        t == AddToChunk(m.audio, m.prev = "audio", m.mdatPos, s.size)
    IN  [m EXCEPT !.prev = "audio", !.mdatPos = (@ + s.size) % Word,
                  !.audio = [t EXCEPT !.stts = RunLength(@, delta)]]

WriteSample(m, s) == IF s.audio THEN WriteAudioSample(m, s) ELSE WriteVideoSample(m, s)

GenerateDinf == Boxes(Dinf, << Boxes(Dref, <<URL(<<0, 0, 1>>, 0)>>) >>)

GenerateVideoStsd(info) ==
    Boxes(Stsd, << Boxes(Avc1, <<AvcC(<<info.sps>>, <<info.pps>>, 0, <<>>)>>) >>)

GenerateVideoMinf(info, t) ==
    Boxes(Minf, << Vmhd, GenerateDinf,
        Boxes(Stbl, << GenerateVideoStsd(info), Stts(Len(t.stts)), Stss(Len(t.stss)), Ctts(Len(t.ctts)),
                       Stsc(Len(t.stsc)), Stsz(Len(t.stsz)), Stco(Len(t.stco)) >>) >>)

\* 12 is the length of "VideoHandler" and of "SoundHandler".
GenerateVideoTrak(info, t) ==
    Boxes(Trak, << Tkhd(0), Boxes(Mdia, <<Mdhd(0), Hdlr(12), GenerateVideoMinf(info, t)>>) >>)

GenerateAudioMinf(info, t) ==
    Boxes(Minf, << Vmhd, GenerateDinf,
        Boxes(Stbl, << Boxes(Stsd, << Boxes(Mp4a, <<Esds(info.config)>>) >>), Stts(Len(t.stts)),
                       Stsc(Len(t.stsc)), Stsz(Len(t.stsz)), Stco(Len(t.stco)) >>) >>)

GenerateAudioTrak(info, t) ==
    IF ~info.audio
    THEN Free
    ELSE Boxes(Trak, << Tkhd(0), Boxes(Mdia, <<Mdhd(0), Hdlr(12), GenerateAudioMinf(info, t)>>) >>)

\* Chunk offsets counted from the start of the media data become offsets in
\* the file: after ftyp, moov and the header of mdat.
PatchOffsets(t, moov) ==
    [t EXCEPT !.stco = [i \in 1..Len(@) |-> (@[i] + 20 + BoxesSize(moov) + 8) % Word]]

\* The file without the media data, and the size of the media data.
GenerateMP4(start, samples, info) ==
    LET m == FoldLeft(WriteSample, NewMuxer(start), samples)
        moov == Boxes(Moov, <<Mvhd(0), GenerateVideoTrak(info, m.video), GenerateAudioTrak(info, m.audio)>>)
    IN  [moov |-> moov,
         size |-> BoxesMarshal(Ftyp(1)) + BoxesMarshal(moov) + 8,
         duration |-> m.end - start,
         video |-> PatchOffsets(m.video, moov),
         audio |-> PatchOffsets(m.audio, moov),
         mdatSize |-> m.mdatPos]

-----------------------------------------------------------------------------
(* The thumbnail: a file with one frame.                                   *)

ThumbnailMinf(info) ==
    Boxes(Minf, << Vmhd, GenerateDinf,
        Boxes(Stbl, <<GenerateVideoStsd(info), Stts(1), Stsc(1), Stsz(1), Stco(1)>>) >>)

ThumbnailTrak(info) ==
    Boxes(Trak, << Tkhd(0), Boxes(Mdia, <<Mdhd(0), Hdlr(12), ThumbnailMinf(info)>>) >>)

\* The size of everything before mdat, added up by hand.
ThumbnailMdatOffset(info) == 610 + info.pps + info.sps

GenerateThumbnailVideo(info) ==
    LET moov == Boxes(Moov, <<Mvhd(0), ThumbnailTrak(info)>>)
    IN  [moov |-> moov,
         stco |-> ThumbnailMdatOffset(info) + 8,
         dataStart |-> BoxesMarshal(Ftyp(1)) + BoxesMarshal(moov) + 8]

-----------------------------------------------------------------------------
(* HLS: the initialization file and the parts.                             *)

InitVideoTrack(info) ==
    Boxes(Trak, << Tkhd(0), Boxes(Mdia, << Mdhd(0), Hdlr(12),
        Boxes(Minf, << Vmhd, GenerateDinf,
            Boxes(Stbl, << Boxes(Stsd, << Boxes(Avc1, <<AvcC(<<info.sps>>, <<info.pps>>, 0, <<>>), Btrt>>) >>),
                           Stts(0), Stsc(0), Stsz(0), Stco(0) >>) >>) >>) >>)

InitAudioTrack(info) ==
    Boxes(Trak, << Tkhd(0), Boxes(Mdia, << Mdhd(0), Hdlr(12),
        Boxes(Minf, << Smhd, GenerateDinf,
            Boxes(Stbl, << Boxes(Stsd, << Boxes(Mp4a, <<Esds(info.config), Btrt>>) >>),
                           Stts(0), Stsc(0), Stsz(0), Stco(0) >>) >>) >>) >>)

InitMvex(video, info) ==
    Boxes(Mvex, (IF video THEN <<Trex>> ELSE <<>>) \o (IF info.audio THEN <<Trex>> ELSE <<>>))

GenerateInit(video, info) ==
    Boxes(Moov, <<Mvhd(0)>> \o (IF video THEN <<InitVideoTrack(info)>> ELSE <<>>)
                            \o (IF info.audio THEN <<InitAudioTrack(info)>> ELSE <<>>)
                            \o <<InitMvex(video, info)>>)

\* trun flags of a video fragment: data offset, duration, size, flags and
\* composition time offset of the samples.
GenerateVideoTraf(samples) == Boxes(Traf, <<Tfhd(<<2, 0, 0>>), Tfdt(1), Trun(<<0, 15, 1>>, samples)>>)

GenerateAudioTraf(samples) == Boxes(Traf, <<Tfhd(<<2, 0, 0>>), Tfdt(1), Trun(<<0, 3, 1>>, samples)>>)

\* Where mdat begins, added up by hand.
PartMdatOffset(audioTrack, nvideo, naudio) ==
    LET audioOffset == 24 + (nvideo * 16 + 20) + 44
    IN  IF audioTrack /\ naudio # 0 THEN audioOffset + 44 + naudio * 8 + 20 ELSE audioOffset

\* video, audio: the sizes of the samples.  The data of the audio samples is
\* written even when there is no audio track.
GeneratePart(audioTrack, video, audio) ==
    LET withAudio == audioTrack /\ audio # <<>>
        moof == Boxes(Moof, <<Mfhd, GenerateVideoTraf(Len(video))>>
                              \o (IF withAudio THEN <<GenerateAudioTraf(Len(audio))>> ELSE <<>>))
        mdat == Mdat(Total(video) + Total(audio))
        mdatOffset == PartMdatOffset(audioTrack, Len(video), Len(audio))
    IN  [moof |-> moof, mdat |-> mdat,
         videoOffset |-> mdatOffset + 8,
         audioOffset |-> IF withAudio THEN mdatOffset + 8 + Total(video) ELSE 0,
         withAudio |-> withAudio,
         dataStart |-> BoxesMarshal(moof) + 8]

-----------------------------------------------------------------------------
(* What a player reads.                                                    *)

\* The number of samples in chunk c: the last entry that starts at or before it.
SamplesInChunk(t, c) ==
    LET e == CHOOSE i \in 1..Len(t.stsc) :
                 /\ t.stsc[i][1] <= c
                 /\ \A j \in (i + 1)..Len(t.stsc) : t.stsc[j][1] > c
    IN  t.stsc[e][2]

SamplesBefore(t, c) == Total([i \in 1..(c - 1) |-> SamplesInChunk(t, i)])

\* The offset in the file of the i-th sample of the track.
PlayerOffset(t, i) ==
    LET c == CHOOSE c \in 1..Len(t.stco) : SamplesBefore(t, c) < i /\ i <= SamplesBefore(t, c + 1)
    IN  t.stco[c] + Total([k \in 1..(i - 1 - SamplesBefore(t, c)) |-> t.stsz[SamplesBefore(t, c) + k]])

\* The value of the i-th sample in a table of runs.
PlayerEntry(table, i) ==
    LET before(n) == Total([k \in 1..n |-> table[k][1]])
        e == CHOOSE e \in 1..Len(table) : before(e - 1) < i /\ i <= before(e)
    IN  table[e][2]

PlayerDTS(t, i) == Total([k \in 1..(i - 1) |-> PlayerEntry(t.stts, k)])

-----------------------------------------------------------------------------
(* The inputs: what the segmenter hands over.                              *)

CONSTANTS
    Infos,       \* stream informations
    SampleKinds, \* samples without times: audio, sync, size, duration and pts - dts
    MaxSamples,  \* samples in a recording
    StartTime    \* the start time of a recording

\* One track of a segment: samples without gaps.
TrackOf(kinds, audio) ==
    LET k == SelectSeq(kinds, LAMBDA x : x.audio = audio)
        time(i) == StartTime + Total([j \in 1..(i - 1) |-> k[j].dur])
    IN  [i \in 1..Len(k) |->
            [audio |-> audio, sync |-> k[i].sync, size |-> k[i].size,
             dts |-> time(i), pts |-> time(i) + k[i].off, next |-> time(i) + k[i].dur]]

Recordings ==
    {[video |-> TrackOf(kinds, FALSE), audio |-> TrackOf(kinds, TRUE)] :
        kinds \in UNION {[1..n -> SampleKinds] : n \in 0..MaxSamples}}

\* What the reader of the meta file finds.
Stored(segment) ==
    LET h == [sps |-> <<1>>, pps |-> <<>>, config |-> <<2>>, start |-> StartTime]
        records == WriteSegment(0, <<segment>>)
        file == HeaderMarshal(h) \o FlattenSeq([i \in 1..Len(records) |-> SampleMarshal(records[i])])
    IN  ReadMeta(file, Len(file)).samples

\* Where mdat has the data of a sample of the segment.
StoredAt(segment, s) ==
    LET records == WriteSegment(0, <<segment>>)
    IN  (CHOOSE r \in Range(records) : r.audio = s.audio /\ r.pts = s.pts /\ r.next = s.next).offset

Near(a, b, dist) == a - b <= dist /\ b - a <= dist

-----------------------------------------------------------------------------
(* Properties.                                                             *)

\* Every box the code defines writes as many bytes as its Size() says, in both
\* versions, with any flags and any number of entries: "The size must be known
\* before marshaling since the box header contains the size" (mp4/box.go).
BoxSizesCorrect ==
    LET n == 0..3
        v == {0, 1}
        flags == {<<a, b, c>> : a \in {0, 2}, b \in {0, 1, 2, 4, 8, 15}, c \in {0, 1, 2, 4, 8, 16, 32, 63}}
    IN  \A b \in {Mfhd, Smhd, Vmhd, Dref, Stsd, Avc1, Mp4a, Btrt, Trex, Free}
                 \union {Ftyp(i) : i \in n} \union {Hdlr(i) : i \in n} \union {Mdat(i) : i \in n}
                 \union {Mdhd(i) : i \in v} \union {Mvhd(i) : i \in v} \union {Tkhd(i) : i \in v}
                 \union {URL(<<0, 0, f>>, i) : f \in v, i \in n} \union {Esds(i) : i \in n}
                 \union {AvcC(<<i, 1>>, <<j>>, r, <<i>>) : i \in n, j \in n, r \in v}
                 \union {Ctts(i) : i \in n} \union {Stco(i) : i \in n} \union {Stsc(i) : i \in n}
                 \union {Stss(i) : i \in n} \union {Stsz(i) : i \in n} \union {Stts(i) : i \in n}
                 \union {Elst(i, j) : i \in v, j \in n} \union {Tfdt(i) : i \in v}
                 \union {Tfhd(f) : f \in flags} \union {Trun(f, i) : f \in flags, i \in n} :
            b.size = Total(b.fields)

\* A segment that is written to the two files, read back and muxed plays back:
\* whatever the order of its audio and video samples, the tables lead a player
\* to the data of the sample, to the sync samples, and to its time (durations
\* are rounded one by one, so the error is half a unit for each sample before).
RecordingCorrect ==
    \A info \in Infos, segment \in Recordings :
        LET f == GenerateMP4(StartTime, Stored(segment), info)
            video == segment.video
            audio == segment.audio
        IN  /\ HeadersExact(f.moov)
            /\ \A i \in 1..Len(video) :
                 /\ PlayerOffset(f.video, i) = f.size + StoredAt(segment, video[i])
                 /\ f.video.stsz[i] = video[i].size
                 /\ i \in Range(f.video.stss) <=> video[i].sync
                 /\ Near(2 * Second * (PlayerDTS(f.video, i) + PlayerEntry(f.video.ctts, i)),
                         2 * VideoTimescale * (video[i].pts - video[1].pts), Second * (i + 2))
            /\ \A i \in 1..Len(audio) :
                 /\ PlayerOffset(f.audio, i) = f.size + StoredAt(segment, audio[i])
                 /\ Near(2 * Second * PlayerDTS(f.audio, i),
                         2 * AudioClockRate * (audio[i].pts - audio[1].pts), Second * (i - 1))

\* The frame of a thumbnail is where its table says, although the offset is a
\* number in the source: FFmpeg finds the frame for every SPS and PPS.
ThumbnailCorrect ==
    \A info \in Infos :
        LET f == GenerateThumbnailVideo(info)
        IN  HeadersExact(f.moov) /\ f.stco = f.dataStart

\* The data offsets of a part, counted from its moof, lead to the video and the
\* audio data, with and without an audio track and audio samples; the boxes of
\* the initialization file have the sizes their headers say.
PartCorrect ==
    LET sizes == UNION {[1..n -> {1, 5}] : n \in 0..2}
    IN  /\ \A audioTrack \in BOOLEAN, video \in sizes \ {<<>>}, audio \in sizes :
             LET p == GeneratePart(audioTrack, video, audio)
             IN  /\ HeadersExact(p.moof) /\ HeadersExact(p.mdat)
                 /\ p.videoOffset = p.dataStart
                 /\ p.withAudio => p.audioOffset = p.dataStart + Total(video)
        /\ \A video \in BOOLEAN, info \in Infos : HeadersExact(GenerateInit(video, info))
=============================================================================
