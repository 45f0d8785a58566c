------------------------------- MODULE RTPH264 --------------------------------
(***************************************************************************)
(* H264 in RTP packets: the encoder and the decoder of                     *)
(* gortsplib/pkg/rtph264, the timestamps of gortsplib/pkg/rtptimedec and   *)
(* the cleaner of gortsplib/pkg/rtpcleaner, which encodes a stream anew    *)
(* once it meets a packet that is too big.                                 *)
(*                                                                         *)
(* A NALU is a sequence whose first element is its type.  A payload is a   *)
(* record with the kind of packet: "single" (one NALU), "STAPA" (several), *)
(* "FUA" (a fragment) and "other" (the types that are not supported).      *)
(***************************************************************************)
EXTENDS H264

CONSTANTS
    PayloadMaxSize,     \* Encoder.PayloadMaxSize; the cleaner's limit without headers
    MaxNALUsPerGroup,   \* h264.MaxNALUsPerGroup
    TimeWord,           \* values of an RTP timestamp, 2^32 in the code
    TimeJump            \* the difference that is taken for an overflow, 2^24 - 1

ASSUME RTPH264Assumption ==
    /\ PayloadMaxSize \in Nat /\ PayloadMaxSize > 3
    /\ MaxNALUsPerGroup \in Nat
    /\ TimeWord \in Nat /\ TimeJump \in Nat /\ 2 * TimeJump < TimeWord

Sum(seq) == FoldLeft(LAMBDA a, b : a + b, 0, seq)

PayloadSize(p) ==
    CASE p.kind = "single" -> Len(p.nalu)
      [] p.kind = "STAPA" -> 1 + Sum([i \in DOMAIN p.nalus |-> 2 + Len(p.nalus[i])])
      [] p.kind = "FUA" -> 2 + Len(p.data)
      [] OTHER -> 1

(***************************************************************************)
(* Encoder                                                                 *)
(***************************************************************************)

Single(nalu) == [kind |-> "single", nalu |-> nalu]
STAPA(nalus) == [kind |-> "STAPA", nalus |-> nalus]
FUA(typ, start, end, data) ==
    [kind |-> "FUA", typ |-> typ, start |-> start, end |-> end, data |-> data]

\* The last packet gets the remainder of the division, also if it is 0.
WriteFragmented(nalu) ==
    LET le == PayloadMaxSize - 2
        full == (Len(nalu) - 1) \div le
        last == (Len(nalu) - 1) % le
        count == IF last > 0 THEN full + 1 ELSE full IN
    [i \in 1..count |->
        FUA(nalu[1], i = 1, i = count,
            SubSeq(nalu, 2 + (i - 1) * le, IF i = count THEN 1 + (i - 1) * le + last ELSE 1 + i * le))]

WriteBatch(nalus) ==
    IF Len(nalus) # 1 THEN <<STAPA(nalus)>>
    ELSE IF Len(nalus[1]) < PayloadMaxSize THEN <<Single(nalus[1])>>
    ELSE WriteFragmented(nalus[1])

\* Mutant of AddToBatch: the size of a batch without its next NALU is compared.
AddToBatchLate(acc, nalu) ==
    IF PayloadSize(STAPA(acc.batch)) <= PayloadMaxSize
    THEN [acc EXCEPT !.batch = Append(@, nalu)]
    ELSE [rets |-> IF acc.batch = <<>> THEN acc.rets ELSE acc.rets \o WriteBatch(acc.batch),
          batch |-> <<nalu>>]

\* The loop of Encode that splits NALUs into batches; lenAggregated
AddToBatch(acc, nalu) ==
    IF PayloadSize(STAPA(Append(acc.batch, nalu))) <= PayloadMaxSize
    THEN [acc EXCEPT !.batch = Append(@, nalu)]
    ELSE [rets |-> IF acc.batch = <<>> THEN acc.rets ELSE acc.rets \o WriteBatch(acc.batch),
          batch |-> <<nalu>>]

\* The payloads; the last one gets the marker.
Encode(nalus) ==
    LET loop == FoldLeft(AddToBatch, [rets |-> <<>>, batch |-> <<>>], nalus) IN
    loop.rets \o WriteBatch(loop.batch)

(***************************************************************************)
(* Timestamps                                                              *)
(***************************************************************************)

\* Go's division, towards zero
Quotient(a, b) == IF a >= 0 THEN a \div b ELSE -((-a) \div b)

\* Ticks of the 90 kHz clock, nine of which are 100000 ns, in whole nanoseconds
Nanoseconds(ticks) == Quotient(ticks * 100000, 9)

NewTimeDecoder == [first |-> TRUE, add |-> 0, prev |-> 0]

\* Mutant of DecodeTime: a timestamp that goes back over the overflow is not seen.
DecodeTimeForward(t, ts) ==
    LET diff == ts - t.prev
        add == IF diff < -TimeJump THEN t.add + TimeWord ELSE t.add IN
    IF t.first THEN [t |-> [first |-> FALSE, add |-> -ts, prev |-> ts], pts |-> 0]
    ELSE [t |-> [first |-> FALSE, add |-> add, prev |-> ts], pts |-> Nanoseconds(ts + add)]

\* rtptimedec.Decode
DecodeTime(t, ts) ==
    LET diff == ts - t.prev
        add == IF diff < -TimeJump THEN t.add + TimeWord
               ELSE IF diff > TimeJump THEN t.add - TimeWord
               ELSE t.add IN
    IF t.first THEN [t |-> [first |-> FALSE, add |-> -ts, prev |-> ts], pts |-> 0]
    ELSE [t |-> [first |-> FALSE, add |-> add, prev |-> ts], pts |-> Nanoseconds(ts + add)]

(***************************************************************************)
(* Decoder.  It returns the decoder after a packet, and the NALUs with     *)
(* their time, or an error.                                                *)
(***************************************************************************)

NewDecoder ==
    [firstPacketReceived |-> FALSE, fragmentedMode |-> FALSE, fragmentedParts |-> <<>>,
     fragmentedSize |-> 0, naluBuffer |-> <<>>, time |-> NewTimeDecoder]

Error(d, err) == [d |-> d, err |-> err]
MorePackets == "ErrMorePacketsNeeded"
NoPrevious == "ErrNonStartingPacketAndNoPrevious"

\* NALUs that are not wrapped in Annex-B: finalize returns them as they are.
Decoded(d, nalus, ts) ==
    LET r == DecodeTime(d.time, ts) IN
    [d |-> [d EXCEPT !.time = r.t, !.firstPacketReceived = TRUE], err |-> "", nalus |-> nalus,
     pts |-> r.pts]

Unfragmented(d) == [d EXCEPT !.fragmentedMode = FALSE, !.fragmentedParts = <<>>]

DecodeFragmented(d, p, ts) ==
    LET size == d.fragmentedSize + Len(p.data)
        more == [d EXCEPT !.fragmentedSize = size, !.fragmentedParts = Append(@, p.data)] IN
    IF p.kind # "FUA" \/ (p.kind = "FUA" /\ p.start) THEN Error(Unfragmented(d), "ErrFUinvalid")
    ELSE IF size > MaxNALUSize THEN Error([Unfragmented(d) EXCEPT !.fragmentedSize = size], "NALUtoBig")
    ELSE IF ~p.end THEN Error(more, MorePackets)
    ELSE Decoded(Unfragmented(more), <<FlattenSeq(more.fragmentedParts)>>, ts)

DecodeUnfragmented(d, p, ts) ==
    CASE p.kind = "single" -> Decoded(d, <<p.nalu>>, ts)
      [] p.kind = "STAPA" ->
           IF p.nalus = <<>> THEN Error(d, "ErrSTAPnaluMissing") ELSE Decoded(d, p.nalus, ts)
      [] p.kind = "FUA" ->
           IF ~p.start THEN Error(d, IF d.firstPacketReceived THEN "ErrFUinvalid" ELSE NoPrevious)
           ELSE IF p.end THEN Error(d, "ErrFUinvalid")
           ELSE Error([d EXCEPT !.fragmentedSize = Len(p.data) + 1,
                                !.fragmentedParts = @ \o << <<p.typ>>, p.data>>,
                                !.fragmentedMode = TRUE, !.firstPacketReceived = TRUE],
                      MorePackets)
      [] OTHER -> Error(d, "ErrTypeUnsupported")

Decode(d, p, ts) ==
    IF d.fragmentedMode THEN DecodeFragmented(d, p, ts) ELSE DecodeUnfragmented(d, p, ts)

\* What comes of a packet that was decoded: its NALUs join the buffer, which is
\* not emptied by a group that is too big.
Grouped(r, marker) ==
    LET group == r.d.naluBuffer \o r.nalus IN
    IF r.err # "" THEN r
    ELSE IF Len(group) >= MaxNALUsPerGroup THEN Error(r.d, "MaxNALUs")
    ELSE IF ~marker THEN Error([r.d EXCEPT !.naluBuffer = group], MorePackets)
    ELSE [r EXCEPT !.d.naluBuffer = <<>>, !.nalus = group]

DecodeUntilMarker(d, p, marker, ts) == Grouped(Decode(d, p, ts), marker)

(***************************************************************************)
(* Cleaner.  A packet is a record with its sequence number, timestamp,     *)
(* marker and payload; an output also has the NALUs of a group and their   *)
(* time, or NoGroup.                                                       *)
(***************************************************************************)

NoGroup == [pts |-> -1, nalus |-> <<>>]
NewCleaner == [dec |-> NewDecoder, encoder |-> FALSE, sequenceNumber |-> 0, initialTimestamp |-> 0]

Output(pkt, group) == [pkt |-> pkt, group |-> group]

\* encodeTimestamp, without the initial one: nanoseconds in ticks again, cut off.
\* They are floating-point numbers: where the result is a whole number it may come
\* out a little too small, and one that is no uint32 wraps or is the nearest that
\* is, which depends on the processor.
EncodeTimestamp(pts) ==
    LET ticks == Quotient(pts * 9, 100000)
        whole == pts * 9 = ticks * 100000
        nearest == IF ticks < 0 THEN 0 ELSE TimeWord - 1 IN
    {ticks}
        \cup {t \in {IF ticks > 0 THEN ticks - 1 ELSE ticks + 1} : whole /\ ticks # 0}
        \cup {t \in {nearest} : ticks \notin 0 .. TimeWord - 1}

\* The outputs for the packets of Encoder.Encode: the group goes with the last one.
Packets(c, payloads, group, stamp) ==
    LET n == Len(payloads) IN
    [i \in 1..n |->
        Output([seq |-> c.sequenceNumber + i - 1, ts |-> (c.initialTimestamp + stamp) % TimeWord,
                marker |-> i = n, payload |-> payloads[i]],
               IF i = n THEN group ELSE NoGroup)]

\* "check if we need to re-encode"
StartEncoder(c, pkt) ==
    IF ~c.encoder /\ PayloadSize(pkt.payload) > PayloadMaxSize
    THEN [c EXCEPT !.encoder = TRUE, !.sequenceNumber = pkt.seq, !.initialTimestamp = pkt.ts]
    ELSE c

\* The cleaner after a packet that was decoded with the result r, its outputs, or
\* an error that ends the connection; stamp is what encodeTimestamp returns
Cleaned(c, pkt, r, stamp) ==
    LET next == [c EXCEPT !.dec = r.d]
        group == [pts |-> r.pts, nalus |-> r.nalus]
        reencoded(out) == [c |-> [next EXCEPT !.sequenceNumber = @ + Len(out)], err |-> FALSE, out |-> out] IN
    IF r.err # "" THEN
        IF ~c.encoder THEN [c |-> next, err |-> FALSE, out |-> <<Output(pkt, NoGroup)>>]
        ELSE [c |-> next, err |-> r.err \notin {MorePackets, NoPrevious}, out |-> <<>>]
    ELSE IF c.encoder THEN reencoded(Packets(c, Encode(r.nalus), group, stamp))
    ELSE [c |-> next, err |-> FALSE, out |-> <<Output(pkt, group)>>]

\* processH264: the results that it may have
Process(c0, pkt) ==
    LET c == StartEncoder(c0, pkt)
        r == DecodeUntilMarker(c.dec, pkt.payload, pkt.marker, pkt.ts) IN
    {Cleaned(c, pkt, r, stamp) : stamp \in IF r.err = "" THEN EncodeTimestamp(r.pts) ELSE {0}}
===============================================================================
