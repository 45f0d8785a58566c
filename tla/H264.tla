--------------------------------- MODULE H264 ---------------------------------
(***************************************************************************)
(* Algorithms of gortsplib/pkg/h264 and gortsplib/pkg/bits: the Annex-B    *)
(* and AVCC stream formats, the removal of anti-competition bytes, reading *)
(* of bits, and the extraction of decoding timestamps (DTS).  Loops over a *)
(* buffer are folds over its positions, whose accumulator holds the local  *)
(* variables of the loop.  Positions of a buffer start at 0 in the code    *)
(* and at 1 here, where a position is a number of bytes before it.         *)
(***************************************************************************)
EXTENDS Integers, Sequences, SequencesExt, FiniteSets

CONSTANT MaxNALUSize

ASSUME H264Assumption == MaxNALUSize \in Nat

\* What an operator returns instead of a result; a slice out of range panics.
Failed == [err |-> TRUE]
Panics == [err |-> TRUE, panic |-> TRUE]
Returns(v) == [err |-> FALSE, value |-> v]

Drop(s, n) == SubSeq(s, n + 1, Len(s))

(***************************************************************************)
(* Annex-B: NALUs separated by 0 0 1 or 0 0 0 1                            *)
(***************************************************************************)

\* bytes.Count: occurrences that do not overlap; the delimiters cannot.
Occurrences(byts, delim) ==
    Cardinality({i \in 0..Len(byts) - Len(delim) : SubSeq(byts, i + 1, i + Len(delim)) = delim})

\* The zeros before the first byte that is no zero
LeadingZeros(byts) ==
    CHOOSE n \in 0..Len(byts) :
        /\ \A i \in 1..n : byts[i] = 0
        /\ n < Len(byts) => byts[n + 1] # 0

Delimiter(zeros) == [i \in 1..zeros |-> 0] \o <<1>>

\* The entries that AnnexBUnmarshal has allocated and not filled
NilNALU == <<>>

\* The body of the second loop of AnnexBUnmarshal, for the i-th byte
SplitNALU(byts, zeroCount, acc, i) ==
    IF byts[i] = 0 THEN
        [acc EXCEPT !.delimStart = IF acc.zeros = 0 THEN i - 1 ELSE @, !.zeros = @ + 1]
    ELSE IF byts[i] = 1 /\ acc.zeros = zeroCount THEN
        LET nalu == SubSeq(byts, acc.start + 1, acc.delimStart) IN
        [acc EXCEPT !.failed = @ \/ nalu = <<>> \/ Len(nalu) > MaxNALUSize,
                    !.nalus = Append(@, nalu), !.start = i, !.zeros = 0]
    ELSE [acc EXCEPT !.zeros = 0]

\* It looks for delimiters behind the first one, also if there is none because
\* the buffer ends with its zeros.
AnnexBUnmarshal(byts) ==
    LET zeroCount == LeadingZeros(byts)
        start == zeroCount + 1
        n == Occurrences(Drop(byts, start), Delimiter(zeroCount))
        loop == FoldLeft(LAMBDA acc, i : SplitNALU(byts, zeroCount, acc, i),
                         [start |-> start, zeros |-> 0, delimStart |-> 0, nalus |-> <<>>, failed |-> FALSE],
                         [i \in 1..Len(byts) - start |-> start + i])
        last == Drop(byts, loop.start)
        filled == Append(loop.nalus, last) IN
    IF zeroCount < Len(byts) /\ byts[zeroCount + 1] # 1 THEN Failed
    ELSE IF zeroCount \notin {2, 3} THEN Failed
    ELSE IF zeroCount = Len(byts) THEN Panics
    ELSE IF loop.failed \/ Len(last) \notin 1 .. MaxNALUSize THEN Failed
    ELSE Returns(filled \o [i \in 1..n + 1 - Len(filled) |-> NilNALU])

AnnexBMarshal(nalus) == FlattenSeq([i \in DOMAIN nalus |-> Delimiter(3) \o nalus[i]])

(***************************************************************************)
(* AVCC: every NALU after its length in four bytes                         *)
(***************************************************************************)

PutUint32(n) == [i \in 1 .. 4 |-> (n \div 256 ^ (4 - i)) % 256]
Uint32(bytes) == FoldLeft(LAMBDA acc, b : 256 * acc + b, 0, bytes)

AVCCMarshal(nalus) ==
    FlattenSeq([i \in DOMAIN nalus |-> PutUint32(Len(nalus[i])) \o nalus[i]])

\* One round of the loop of AVCCUnmarshal, which takes all that is left of the
\* buffer for the size of the NALU
AVCCStep(buf, acc) ==
    LET left == Len(buf) - acc.pos - 4
        le == Uint32(SubSeq(buf, acc.pos + 1, acc.pos + 4)) IN
    IF acc.err \/ (acc.pos = Len(buf) /\ acc.nalus # <<>>) THEN acc
    ELSE IF left < 0 THEN [acc EXCEPT !.err = TRUE]
    ELSE IF left < le \/ left > MaxNALUSize THEN [acc EXCEPT !.err = TRUE]
    ELSE [acc EXCEPT !.nalus = Append(@, SubSeq(buf, acc.pos + 5, acc.pos + 4 + le)),
                     !.pos = @ + 4 + le]

AVCCUnmarshal(buf) ==
    LET loop == FoldLeft(LAMBDA acc, i : AVCCStep(buf, acc),
                         [pos |-> 0, nalus |-> <<>>, err |-> FALSE],
                         [i \in 1..Len(buf) \div 4 + 1 |-> i]) IN
    IF loop.err THEN Failed ELSE Returns(loop.nalus)

(***************************************************************************)
(* Anti-competition bytes: the 3 of 0 0 3 x, where x is at most 3          *)
(***************************************************************************)

RemoveStep(nalu, acc, i) ==
    CASE acc.step = 2 /\ nalu[i] = 3 -> [acc EXCEPT !.step = 3]
      [] acc.step = 3 /\ nalu[i] <= 3 ->
           [step |-> 0, start |-> i,
            ret |-> acc.ret \o SubSeq(nalu, acc.start + 1, i - 4) \o <<0, 0, nalu[i]>>]
      [] acc.step \in {0, 1} /\ nalu[i] = 0 -> [acc EXCEPT !.step = @ + 1]
      [] OTHER -> [acc EXCEPT !.step = 0]

AntiCompetitionRemove(nalu) ==
    LET loop == FoldLeftDomain(LAMBDA acc, i : RemoveStep(nalu, acc, i),
                               [step |-> 0, start |-> 0, ret |-> <<>>], nalu) IN
    loop.ret \o Drop(nalu, loop.start)

\* What an encoder does (H.264, 7.4.1): a 3 before a byte up to 3 after two zeros.
AntiCompetitionAdd(rbsp) ==
    FoldLeft(LAMBDA acc, b :
               LET n == Len(acc) IN
               IF n >= 2 /\ acc[n] = 0 /\ acc[n - 1] = 0 /\ b <= 3 THEN acc \o <<3, b>>
               ELSE Append(acc, b),
             <<>>, rbsp)

(***************************************************************************)
(* Bits                                                                    *)
(***************************************************************************)

\* The bit at a position, the most significant one of a byte first
Bit(buf, pos) == (buf[pos \div 8 + 1] \div 2^(7 - (pos % 8))) % 2

\* The rest of the first byte, whole bytes, and the beginning of the last one
ReadBits(buf, pos, n) ==
    LET res == 8 - (pos % 8)
        first == buf[pos \div 8 + 1]
        whole == (n - res) \div 8
        rest == (n - res) % 8
        v == FoldLeft(LAMBDA acc, b : acc * 256 + b, first % 2^res,
                      SubSeq(buf, pos \div 8 + 2, pos \div 8 + 1 + whole)) IN
    IF n > Len(buf) * 8 - pos THEN Failed
    ELSE IF n < res THEN Returns((first \div 2^(res - n)) % 2^n)
    ELSE IF rest = 0 THEN Returns(v)
    ELSE Returns(v * 2^rest + buf[(pos + n - 1) \div 8 + 1] \div 2^(8 - rest))

\* The value and the position after it
ReadGolombUnsigned(buf, pos) ==
    LET ones == {p \in pos..Len(buf) * 8 - 1 : Bit(buf, p) = 1}
        one == CHOOSE p \in ones : \A q \in ones : p <= q
        zeros == one - pos
        code == ReadBits(buf, one + 1, zeros) IN
    IF ones = {} THEN Failed
    ELSE IF zeros > 32 \/ Len(buf) * 8 - (one + 1) < zeros THEN Failed
    ELSE Returns([v |-> 2^zeros - 1 + (IF zeros = 0 THEN 0 ELSE code.value),
                  pos |-> one + 1 + zeros])

ReadGolombSigned(buf, pos) ==
    LET r == ReadGolombUnsigned(buf, pos)
        vi == r.value.v IN
    IF r.err THEN Failed
    ELSE Returns([v |-> IF vi % 2 = 1 THEN (vi + 1) \div 2 ELSE -(vi \div 2), pos |-> r.value.pos])

(***************************************************************************)
(* DTS extraction.  A frame is a group of NALUs: whether it holds an IDR,  *)
(* its picture order count (POC) or NoPOC, the output delay of its SEI or  *)
(* NoSEI, and its PTS.  An SPS tells how the DTS is found.                 *)
(***************************************************************************)

NoPOC == -1
NoSEI == -1

NewDTSExtractor == [prevPTS |-> 0, prevDTS |-> 0, prevPOCDiff |-> 0, expectedPOC |-> 0, firstDelay |-> NoSEI]

\* math.Round of a / b
RoundDiv(a, b) ==
    LET n == IF b < 0 THEN -a ELSE a
        d == IF b < 0 THEN -b ELSE b IN
    IF n >= 0 THEN (2 * n + d) \div (2 * d) ELSE -((d - 2 * n) \div (2 * d))

\* Mutant of GetPOCDiff: a difference that wraps forwards is missed.
GetPOCDiffBack(poc1, poc2, maxPOC) ==
    LET diff == poc1 - poc2 IN
    IF diff > maxPOC \div 2 - 1 THEN diff - maxPOC ELSE diff

\* maxPOC is 2^(Log2MaxPicOrderCntLsbMinus4 + 4).
GetPOCDiff(poc1, poc2, maxPOC) ==
    LET diff == poc1 - poc2
        half == maxPOC \div 2 IN
    IF diff < -(half - 1) THEN diff + maxPOC
    ELSE IF diff > half - 1 THEN diff - maxPOC
    ELSE diff

\* The ratio of pocDiff and prevPOCDiff is the one of the distances of DTS and PTS.
DTSOfDiff(d, frame, sps, pocDiff) ==
    IF pocDiff = 0 THEN frame.pts - sps.offset
    ELSE IF pocDiff = -(sps.reorder * 2) THEN frame.pts
    ELSE IF d.prevPOCDiff = 0
    THEN d.prevPTS - sps.offset + RoundDiv(frame.pts - d.prevPTS, pocDiff \div 2 + 1)
    ELSE frame.pts - sps.offset
         + RoundDiv((d.prevDTS - d.prevPTS + sps.offset) * pocDiff, d.prevPOCDiff)

\* The expected POC is stored even if the frame has none.
ComputeFromPOC(d, frame, sps) ==
    LET expected == IF frame.idr THEN 0 ELSE (d.expectedPOC + 2) % sps.maxPOC
        pocDiff == IF frame.idr THEN 0 ELSE GetPOCDiff(frame.poc, expected, sps.maxPOC)
        fails == ~frame.idr /\ (frame.poc = NoPOC \/ (pocDiff = -2 /\ sps.reorder # 1 /\ d.prevPOCDiff = 0)) IN
    [d |-> [d EXCEPT !.expectedPOC = expected], pocDiff |-> pocDiff, err |-> fails,
     dts |-> IF fails THEN 0 ELSE DTSOfDiff(d, frame, sps, pocDiff)]

\* Of the frames with an IDR, the delay of the first one is used for all (nvenc).
ComputeFromSEI(d, frame, sps) ==
    LET keeps == frame.idr /\ sps.nvenc
        delay == IF keeps /\ d.firstDelay # NoSEI THEN d.firstDelay ELSE frame.delay IN
    IF frame.delay = NoSEI THEN [d |-> d, pocDiff |-> 0, err |-> FALSE, dts |-> frame.pts]
    ELSE [d |-> [d EXCEPT !.firstDelay = IF keeps THEN delay ELSE @], pocDiff |-> 0, err |-> FALSE,
          dts |-> frame.pts - (delay \div 2) * sps.tick]

\* sps.kind: "poc" if the SPS has timing and restrictions and a POC type that is
\* not 2, "sei" if it has timing and HRD parameters.
ExtractInner(d, frame, sps) ==
    CASE sps.kind = "poc" -> ComputeFromPOC(d, frame, sps)
      [] sps.kind = "sei" -> ComputeFromSEI(d, frame, sps)
      [] OTHER -> [d |-> d, pocDiff |-> 0, err |-> FALSE, dts |-> frame.pts]

\* The extractor after a frame, and the DTS unless it fails
Extract(d, frame, sps) ==
    LET r == ExtractInner(d, frame, sps) IN
    IF r.err \/ r.dts > frame.pts THEN [d |-> r.d, err |-> TRUE, dts |-> 0]
    ELSE [d |-> [r.d EXCEPT !.prevPTS = frame.pts, !.prevDTS = r.dts, !.prevPOCDiff = r.pocDiff],
          err |-> FALSE, dts |-> r.dts]

\* All frames in the order in which they are decoded
ExtractAll(frames, sps) ==
    FoldLeft(LAMBDA acc, frame :
               LET r == Extract(acc.d, frame, sps) IN
               [d |-> r.d, dts |-> Append(acc.dts, IF r.err THEN Failed ELSE Returns(r.dts))],
             [d |-> NewDTSExtractor, dts |-> <<>>], frames).dts

(***************************************************************************)
(* Properties.  Each one compares an algorithm with what it is for, over   *)
(* all inputs of a bounded size.                                           *)
(***************************************************************************)

\* Sequences with at most n bytes
Buffers(bytes, n) == SeqOf(bytes, n)

\* NALUs without a delimiter, and without the trailing zero that would belong to it
PlainNALUs(bytes, n) ==
    {nalu \in Buffers(bytes, n) \ {<<>>} : nalu[Len(nalu)] # 0 /\ Occurrences(nalu, Delimiter(3)) = 0}

\* What AnnexBMarshal writes is read back NALU by NALU, also where a NALU holds
\* zeros and ones that look like the beginning of a delimiter.
AnnexBCorrect ==
    \A nalus \in Buffers(PlainNALUs({0, 1, 9}, 3), 2) \ {<<>>} :
        AnnexBUnmarshal(AnnexBMarshal(nalus)) = Returns(nalus)

\* NALUs of a few bytes, and some around the limit
AVCCNALUs == Buffers({0, 1}, 2) \cup {[i \in 1 .. n |-> 1] : n \in MaxNALUSize - 6 .. MaxNALUSize + 1}

\* What AVCCMarshal puts together (the samples of a segment) AVCCUnmarshal takes
\* apart again if what comes after the first length is no longer than a NALU may
\* be, and otherwise refuses, also if every NALU of it is short; and no buffer is
\* taken apart in a way that AVCCMarshal would not put together.
AVCCCorrect ==
    /\ \A nalus \in Buffers(AVCCNALUs, 3) \ {<<>>} :
         AVCCUnmarshal(AVCCMarshal(nalus)) =
             IF Len(AVCCMarshal(nalus)) - 4 <= MaxNALUSize THEN Returns(nalus) ELSE Failed
    /\ \A buf \in Buffers(0..1, 10) :
         ~AVCCUnmarshal(buf).err => AVCCMarshal(AVCCUnmarshal(buf).value) = buf

\* AntiCompetitionRemove undoes what the encoder did, for payloads in which no run
\* of zeros needs a second byte (it restarts the search after a byte it removed,
\* and gives up at a third zero).
AntiCompetitionCorrect ==
    \A rbsp \in Buffers({0, 2, 3, 7}, 6) :
        (\A i \in 1..Len(rbsp) - 2 : SubSeq(rbsp, i, i + 2) # <<0, 0, 0>>)
            /\ (\A i \in 1..Len(rbsp) - 4 :
                  SubSeq(rbsp, i, i + 1) = <<0, 0>> /\ rbsp[i + 2] <= 3 =>
                      rbsp[i + 3] # 0 \/ rbsp[i + 4] # 0) =>
            AntiCompetitionRemove(AntiCompetitionAdd(rbsp)) = rbsp

\* Reading bits across bytes gives the number those bits spell.
ReadBitsCorrect ==
    \A buf \in Buffers({0, 90, 129, 255}, 3) \ {<<>>}, pos \in 0..23 : \A n \in 1..24 - pos :
        pos + n <= 8 * Len(buf) =>
            ReadBits(buf, pos, n) =
                Returns(FoldLeft(LAMBDA acc, p : 2 * acc + Bit(buf, p), 0,
                                 [k \in 1..n |-> pos + k - 1]))

\* Decoding orders of n frames in which no frame waits for more than r later ones:
\* order[k] is the place of the k-th decoded frame on the screen.
DecodingOrders(n, r) ==
    {order \in [1..n -> 0..n - 1] :
        /\ order[1] = 0
        /\ \A i, j \in 1..n : i # j => order[i] # order[j]
        /\ \A k \in 1..n : order[k] + r >= k - 1}

\* The DTS of a stream with a constant frame rate: the k-th frame is decoded k
\* ticks after the first, whatever the reordering, also when the POC, which is
\* known modulo maxPOC, wraps.
DTSCorrect ==
    \A r \in 1..2, maxPOC \in {8, 16} : \A order \in DecodingOrders(6, r) :
        2 * r < maxPOC \div 2 /\ (\A k \in 1..6 : 2 * (order[k] - (k - 1)) < maxPOC \div 2) =>
        LET tick == 10
            frames == [k \in 1..6 |->
                         [idr |-> k = 1, poc |-> (2 * order[k]) % maxPOC, delay |-> NoSEI,
                          pts |-> 100 + tick * order[k]]]
            sps == [kind |-> "poc", reorder |-> r, offset |-> r * tick, maxPOC |-> maxPOC] IN
        ExtractAll(frames, sps) = [k \in 1..6 |-> Returns(100 + tick * (k - 1) - r * tick)]
===============================================================================
