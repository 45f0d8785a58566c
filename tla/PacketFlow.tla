------------------------------ MODULE PacketFlow ------------------------------
(***************************************************************************)
(* The way of a packet from a publisher to its readers.  The goroutine     *)
(* that reads the publisher's connection (readFuncTCP) puts a packet into  *)
(* one of a few buffers that it reuses, cleans and decodes it, remuxes its *)
(* NALUs (pkg/video/stream.go), forwards it to RTSP readers, and pushes it *)
(* to the ring buffer of the HLS muxer, whose goroutine (hls_muxer.go)     *)
(* pulls it, and decodes audio there.  Both goroutines work at the same    *)
(* time: the steps on the ring buffer are those of RingBuffer.             *)
(*                                                                         *)
(* The publisher (ffmpeg) sends access units in packets of its own choice, *)
(* in order and without loss: they arrive over TCP.                        *)
(***************************************************************************)
EXTENDS RTPH264, RTPMPEG4Audio, RingBuffer

CONSTANTS
    Videos,     \* streams: sequences of access units [time, nalus]
    Audio,      \* packets of the audio track, [lens, data, marker]
    FragLens,   \* sizes of the fragments that the publisher makes
    FirstStamp, \* the timestamp at time 0
    MaxAlone    \* bound: pushes of RingAlone

ASSUME PacketFlowAssumption ==
    1 \in Producers /\ FirstStamp \in 0..TimeWord - 1 /\ FragLens \subseteq Nat \ {0}

VARIABLES
    video,      \* the stream
    next,       \* the next access unit, NALU and byte that the publisher sends
    seq,        \* sequence number of the next packet of the video track
    heard,      \* packets of the audio track sent so far
    packets,    \* tcpRTPPacketBuffer
    cur,        \* rtpPacketMultiBuffer.cur: packets received
    cleaner,    \* the cleaner of the video track
    track,      \* SPS and PPS of the video track
    out,        \* what the reading goroutine still has to push, of the last packet
    forwarded,  \* packets given to RTSP readers, and the timestamps with which they came
    items,      \* what was pushed, by the number of the push
    muxed,      \* items the muxer has processed
    videoInitialPTS, \* of runInner, Nil until the first picture
    writeErr,   \* the muxer ended because a frame or an AU could not be written
    frames,     \* groups that the muxer got
    sound,      \* AUs that the muxer got
    audioDec,   \* aacDecoder
    full,       \* Size packets were received before the muxer processed an audio packet
    pubErr      \* the publisher's connection was closed for an error

flowVars == <<video, next, seq, heard, packets, cur, cleaner, track, out, forwarded, items,
              muxed, videoInitialPTS, writeErr, frames, sound, audioDec, full, pubErr>>
vars == <<flowVars, ringVars>>

\* The parameters in the SDP
Announced == [sps |-> <<"SPS", 0>>, pps |-> <<"PPS", 0>>]

Init ==
    /\ RingInit
    /\ video \in Videos
    /\ next = [unit |-> 1, nalu |-> 1, pos |-> 0]
    /\ seq = 0 /\ heard = 0 /\ cur = 0 /\ muxed = 0
    /\ packets = [i \in 0..Size - 1 |-> Nil]
    /\ cleaner = NewCleaner
    /\ track = Announced
    /\ out = <<>> /\ forwarded = <<>> /\ items = <<>> /\ frames = <<>> /\ sound = <<>>
    /\ audioDec = NewAudioDecoder
    /\ full = FALSE /\ pubErr = FALSE /\ writeErr = FALSE
    /\ videoInitialPTS = Nil

(***************************************************************************)
(* The stream of a path                                                    *)
(***************************************************************************)

OfType(nalu, typs) == nalu[1] \in typs

LastOf(nalus, typ, default) ==
    FoldLeft(LAMBDA acc, nalu : IF OfType(nalu, {typ}) THEN nalu ELSE acc, default, nalus)

UpdateH264TrackParameters(t, nalus) ==
    [sps |-> LastOf(nalus, "SPS", t.sps), pps |-> LastOf(nalus, "PPS", t.pps)]

\* A new slice: the buffer of the decoder may be overwritten.
RemuxH264NALUs(t, nalus) ==
    FlattenSeq([i \in DOMAIN nalus |->
        CASE OfType(nalus[i], {"SPS", "PPS", "AUD"}) -> <<>>
          [] OfType(nalus[i], {"IDR"}) -> <<t.sps, t.pps, nalus[i]>>
          [] OTHER -> <<nalus[i]>>])

\* newStreamTrackH264: the track and the data after an output of the cleaner
WriteData(t, output) ==
    LET g == output.group
        t2 == UpdateH264TrackParameters(t, g.nalus)
        nalus == RemuxH264NALUs(t2, g.nalus) IN
    [track |-> t2,
     data |-> [track |-> "video",
               group |-> IF g = NoGroup \/ nalus = <<>> THEN NoGroup ELSE [pts |-> g.pts, nalus |-> nalus]]]

(***************************************************************************)
(* The reading goroutine                                                   *)
(***************************************************************************)

\* It reads the next packet when it has handled the last one.
\* Bound: nothing is read after an overrun, about which RingAlone tells more.
CanRead ==
    /\ video # <<>> /\ out = <<>> /\ producer[1].pc = "idle" /\ ~pubErr
    /\ closer = "idle" /\ ~overrun

\* tcpRTPPacketBuffer.next, Unmarshal
Buffered(pkt) ==
    /\ packets' = [packets EXCEPT ![cur % Size] = pkt]
    /\ cur' = cur + 1
    /\ full' = (full \/ \E i \in muxed + 1..Len(items) :
                            items[i].track = "audio" /\ cur - items[i].at >= Size)

\* OnPacketRTP for every output of the cleaner
WriteAll(outputs) ==
    FoldLeft(LAMBDA acc, o :
               LET w == WriteData(acc.track, o) IN
               [track |-> w.track, data |-> Append(acc.data, w.data)],
             [track |-> track, data |-> <<>>], outputs)

\* A packet of the video track: cleaner.Process, OnPacketRTP
ReceiveVideo(payload, marker) ==
    LET pkt == [seq |-> seq, ts |-> (FirstStamp + video[next.unit].time) % TimeWord, marker |-> marker,
                payload |-> payload] IN
    /\ Buffered(pkt)
    /\ seq' = seq + 1
    /\ \E r \in Process(cleaner, pkt) :
         /\ cleaner' = r.c
         /\ pubErr' = r.err
         /\ \E written \in {WriteAll(r.out)} : track' = written.track /\ out' = written.data
         /\ forwarded' = forwarded \o [i \in DOMAIN r.out |-> [pkt |-> r.out[i].pkt, stamp |-> pkt.ts,
                                                         anew |-> r.c.encoder]]
    /\ UNCHANGED <<video, heard, items, muxed, videoInitialPTS, writeErr, frames, sound, audioDec, ringVars>>

\* The NALU that the publisher has reached, and whether it is the last of its unit
NALU == video[next.unit].nalus[next.nalu]
LastNALU(n) == next.nalu + n - 1 = Len(video[next.unit].nalus)
Advance(n) ==
    next' = IF LastNALU(n) THEN [unit |-> next.unit + 1, nalu |-> 1, pos |-> 0]
            ELSE [next EXCEPT !.nalu = @ + n, !.pos = 0]

\* One NALU in a packet
SendSingle ==
    /\ CanRead /\ next.unit <= Len(video) /\ next.pos = 0
    /\ ReceiveVideo(Single(NALU), LastNALU(1))
    /\ Advance(1)

\* Two NALUs in a packet
SendAggregated ==
    /\ CanRead /\ next.unit <= Len(video) /\ next.pos = 0
    /\ next.nalu < Len(video[next.unit].nalus)
    /\ LET payload == STAPA(SubSeq(video[next.unit].nalus, next.nalu, next.nalu + 1)) IN
       /\ PayloadSize(payload) <= PayloadMaxSize
       /\ ReceiveVideo(payload, LastNALU(2))
    /\ Advance(2)

\* A fragment of a NALU: the first one is never the last one.
SendFragment(n) ==
    LET pos == IF next.pos = 0 THEN 1 ELSE next.pos
        end == next.pos # 0 /\ pos + n >= Len(NALU) IN
    /\ CanRead /\ next.unit <= Len(video)
    /\ next.pos = 0 => 1 + n < Len(NALU)
    /\ ReceiveVideo(FUA(NALU[1], next.pos = 0, end, SubSeq(NALU, pos + 1, IF end THEN Len(NALU) ELSE pos + n)),
                    end /\ LastNALU(1))
    /\ IF end THEN Advance(1) ELSE next' = [next EXCEPT !.pos = pos + n]

\* A packet of the audio track: the ring buffer gets the packet itself.
SendAudio ==
    /\ CanRead /\ heard < Len(Audio)
    /\ Buffered(Audio[heard + 1])
    /\ heard' = heard + 1
    /\ out' = <<[track |-> "audio", at |-> cur]>>
    /\ UNCHANGED <<video, next, seq, cleaner, track, forwarded, items, muxed, videoInitialPTS, writeErr,
                   frames, sound, audioDec, pubErr, ringVars>>

\* readerData: Push takes an index for the next of the outputs.
PushNext ==
    /\ out # <<>>
    /\ PushIndex(1)
    /\ items' = Append(items, Head(out))
    /\ out' = Tail(out)
    /\ UNCHANGED <<video, next, seq, heard, packets, cur, cleaner, track, forwarded, muxed,
                   videoInitialPTS, writeErr, frames, sound, audioDec, full, pubErr>>

PushGoesOn ==
    /\ video # <<>>
    /\ PushStore(1) \/ PushSignal(1) \/ PushBroadcast(1)
    /\ UNCHANGED flowVars

(***************************************************************************)
(* The goroutine of the muxer                                              *)
(***************************************************************************)

\* runInner calls Pull when it has processed the last item.
MuxerPulls ==
    /\ video # <<>>
    /\ muxed = Len(pulled)
    /\ Pull
    /\ UNCHANGED flowVars

\* The beginning of the video is the PTS of the first picture.
WriteH264(group) ==
    LET first == IF videoInitialPTS = Nil THEN group.pts ELSE videoInitialPTS IN
    /\ videoInitialPTS' = first
    /\ \/ /\ frames' = Append(frames, [group EXCEPT !.pts = @ - first])
          /\ UNCHANGED <<consumer, writeErr>>
       \/ /\ consumer' = "returned" /\ writeErr' = TRUE
          /\ UNCHANGED frames

\* The AUs up to the first that cannot be written
WriteAAC(aus) ==
    \E n \in 0..Len(aus) :
        /\ sound' = sound \o SubSeq(aus, 1, n)
        /\ IF n < Len(aus) THEN consumer' = "returned" /\ writeErr' = TRUE
           ELSE UNCHANGED <<consumer, writeErr>>

\* One round of runInner after Pull; an error ends it.
MuxerProcesses ==
    LET data == items[pulled[muxed + 1]]
        r == AudioDecode(audioDec, packets[data.at % Size]) IN
    /\ video # <<>>
    /\ muxed < Len(pulled)
    /\ consumer # "returned"
    /\ muxed' = muxed + 1
    /\ CASE data.track = "video" ->
              /\ IF data.group = NoGroup THEN UNCHANGED <<frames, videoInitialPTS, consumer, writeErr>>
                 ELSE WriteH264(data.group)
              /\ UNCHANGED <<sound, audioDec>>
         [] packets[data.at % Size] \notin Range(Audio) \/ r.err \notin {"", AudioMore} ->
              /\ consumer' = "returned"
              /\ UNCHANGED <<frames, videoInitialPTS, sound, audioDec, writeErr>>
         [] OTHER ->
              /\ audioDec' = r.d
              /\ IF r.err = "" THEN WriteAAC(r.aus) ELSE UNCHANGED <<sound, consumer, writeErr>>
              /\ UNCHANGED <<frames, videoInitialPTS>>
    /\ UNCHANGED <<video, next, seq, heard, packets, cur, cleaner, track, out, forwarded, items, full,
                   pubErr, readIndex, writeIndex, closed, buffer, value, producer, closer, pushes,
                   pulled, overrun>>

\* The muxer is closed, at any time.
MuxerCloses == video # <<>> /\ Close /\ UNCHANGED flowVars

\* Without a stream: the ring buffer alone, and producers that push anything
RingAlone == video = <<>> /\ RingNext /\ pushes' <= MaxAlone /\ UNCHANGED flowVars

Next ==
    \/ RingAlone
    \/ SendSingle \/ SendAggregated \/ SendAudio \/ \E n \in FragLens : SendFragment(n)
    \/ PushNext \/ PushGoesOn \/ MuxerPulls \/ MuxerProcesses \/ MuxerCloses

Spec == Init /\ [][Next]_vars

(***************************************************************************)
(* Properties                                                              *)
(***************************************************************************)

\* The access units that hold pictures, and the parameters before or in the k-th unit
Pictures(nalus) == SelectSeq(nalus, LAMBDA nalu : ~OfType(nalu, {"SPS", "PPS", "AUD"}))
PictureUnits == SelectSeq([k \in DOMAIN video |-> k], LAMBDA k : Pictures(video[k].nalus) # <<>>)
Latest(k, typ) ==
    LET sent == FlattenSeq([i \in 1..k |-> video[i].nalus])
        at == {i \in DOMAIN sent : OfType(sent[i], {typ})} IN
    IF at # {} THEN sent[CHOOSE i \in at : \A j \in at : j <= i]
    ELSE IF typ = "SPS" THEN Announced.sps ELSE Announced.pps

\* The decoder takes groups of fewer than MaxNALUsPerGroup NALUs.
SmallUnits == \A k \in DOMAIN video : Len(video[k].nalus) < MaxNALUsPerGroup

\* The muxer gets the pictures of every access unit, in order, none missing, none
\* twice, with the time that has passed since the first, which is right to the
\* nanosecond, however the publisher
\* packs and splits NALUs, whether packets are encoded anew or not, and although
\* timestamps wrap and go back.  An IDR comes after the newest parameters, and
\* parameters come with an IDR only (remuxH264NALUs).  The ring buffer must not be
\* overrun.
FramesIntact ==
    ~overrun /\ SmallUnits =>
        /\ Len(frames) <= Len(PictureUnits)
        /\ \A i \in DOMAIN frames :
             LET k == PictureUnits[i]
                 nalus == frames[i].nalus IN
             /\ 9 * frames[i].pts - 100000 * (video[k].time - video[PictureUnits[1]].time) \in -9..9
             /\ Pictures(nalus) = Pictures(video[k].nalus)
             /\ \A j \in DOMAIN nalus :
                  /\ OfType(nalus[j], {"IDR"}) =>
                       j > 2 /\ nalus[j - 1] = Latest(k, "PPS") /\ nalus[j - 2] = Latest(k, "SPS")
                  /\ OfType(nalus[j], {"SPS", "PPS"}) =>
                       \E i2 \in j + 1..Len(nalus) : i2 <= j + 2 /\ OfType(nalus[i2], {"IDR"})

\* A unit that the decoder can take reaches the muxer, whatever came before it:
\* "ignore decode errors" (cleaner.go).  It does not: the buffer of the decoder is
\* not emptied when a group is too big, and every group after it is too big as well.
LaterUnitsArrive ==
    out = <<>> /\ next.unit > Len(video) /\ producer[1].pc = "idle" /\ muxed = Len(items) /\ ~overrun /\ ~writeErr =>
        \A k \in DOMAIN video :
            Len(video[k].nalus) < MaxNALUsPerGroup /\ Pictures(video[k].nalus) # <<>> =>
                \E i \in DOMAIN frames : Pictures(frames[i].nalus) = Pictures(video[k].nalus)

\* The encoder loses the end of a NALU that fills its fragments exactly.
FragmentsExactly(nalu) == Len(nalu) >= PayloadMaxSize /\ (Len(nalu) - 1) % (PayloadMaxSize - 2) = 0

\* What an RTSP reader decodes from the packets it is given
ReaderGroups ==
    LET add(groups, r) == [d |-> r.d, groups |-> IF r.err = "" THEN Append(groups, r.nalus) ELSE groups] IN
    FoldLeft(LAMBDA acc, f : add(acc.groups, DecodeUntilMarker(acc.d, f.pkt.payload, f.pkt.marker, f.pkt.ts)),
             [d |-> NewDecoder, groups |-> <<>>], forwarded).groups

\* RTSP readers are given packets that fit into the buffer of WritePacketRTP, with
\* consecutive sequence numbers, and decode every unit from them.  In the unit in
\* which the cleaner begins to encode, NALUs already forwarded are sent again.
ForwardedDecodes ==
    /\ \A i \in DOMAIN forwarded :
         PayloadSize(forwarded[i].pkt.payload) <= PayloadMaxSize /\ forwarded[i].pkt.seq = i - 1
    /\ SmallUnits /\ (\A k \in DOMAIN video : \A nalu \in Range(video[k].nalus) : ~FragmentsExactly(nalu)) =>
         \A k \in DOMAIN ReaderGroups : IsSuffix(video[k].nalus, ReaderGroups[k])

\* A packet has the publisher's timestamp or, if it was encoded anew, one that is at
\* most a tick before it, and errors do not add up.  Encoding must begin in the
\* first unit (if it begins later the timestamps jump: the encoder adds the time
\* since the first unit to the timestamp of the packet with which it began), and
\* the time since then fit into a timestamp.
StampsKept ==
    /\ cleaner.encoder => cleaner.initialTimestamp = (FirstStamp + video[1].time) % TimeWord
    /\ \A k \in DOMAIN video : video[k].time - video[1].time \in 0..TimeWord - 1
    =>
    \A i \in DOMAIN forwarded :
        (forwarded[i].stamp - forwarded[i].pkt.ts) % TimeWord \in
            IF forwarded[i].anew THEN 0..1 ELSE {0}

\* Outside of a fragmented NALU or AU no parts are left over, which would be put in
\* front of the next one; inside, the size is the one of the parts, so that the
\* buffer that is allocated for them is filled.
FragmentsFresh ==
    LET fresh(d) ==
            IF d.fragmentedMode
            THEN d.fragmentedSize = Len(FlattenSeq(d.fragmentedParts)) /\ d.fragmentedParts # <<>>
            ELSE d.fragmentedParts = <<>> IN
    fresh(cleaner.dec) /\ fresh(audioDec)

\* Audio packets are decoded by the muxer from the buffer into which they were read.
\* It is reused, but not before Size more packets have been received: until then the
\* AUs are those that were sent, and the muxer does not fail but for its segments.
SoundIntact ==
    ~overrun /\ ~full =>
        /\ IsPrefix(FlattenSeq(sound), FlattenSeq([i \in DOMAIN Audio |-> Audio[i].data]))
        /\ consumer = "returned" => closer # "idle" \/ writeErr

\* Pictures and sound arrive whole and in order, and nothing is left over in the
\* decoders.
MediaIntact == FramesIntact /\ SoundIntact /\ FragmentsFresh

\* What RTSP readers are given decodes, with the publisher's timestamps or ones a
\* tick before them.
ForwardedIntact == ForwardedDecodes /\ StampsKept
===============================================================================
