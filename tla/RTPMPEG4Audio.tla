----------------------------- MODULE RTPMPEG4Audio ----------------------------
(***************************************************************************)
(* AAC in RTP packets (gortsplib/pkg/rtpmpeg4audio/decoder.go).  A packet  *)
(* has the lengths of its access units (AUs) and the bytes after the       *)
(* AU-headers, of which a length may be longer.  AUs are not wrapped in    *)
(* ADTS.                                                                   *)
(***************************************************************************)
EXTENDS Integers, Sequences, SequencesExt

CONSTANT MaxAccessUnitSize

NewAudioDecoder == [fragmentedMode |-> FALSE, fragmentedParts |-> <<>>, fragmentedSize |-> 0]

AudioError(d, err) == [d |-> d, err |-> err]
AudioMore == "ErrMorePacketsNeeded"

NoFragments(d) == [d EXCEPT !.fragmentedMode = FALSE, !.fragmentedParts = <<>>]

AudioFragmented(d, lens, data, marker) ==
    LET size == d.fragmentedSize + lens[1]
        more == [d EXCEPT !.fragmentedSize = size, !.fragmentedParts = Append(@, SubSeq(data, 1, lens[1]))] IN
    IF Len(lens) # 1 THEN AudioError(NoFragments(d), "ErrFragMultipleAU")
    ELSE IF Len(data) < lens[1] THEN AudioError(d, "ErrShortPayload")
    ELSE IF size > MaxAccessUnitSize
    THEN AudioError([NoFragments(d) EXCEPT !.fragmentedSize = size], "AUsizeToBig")
    ELSE IF ~marker THEN AudioError(more, AudioMore)
    ELSE [d |-> NoFragments(more), err |-> "", aus |-> <<FlattenSeq(more.fragmentedParts)>>]

\* The AUs of a packet that holds whole ones
SplitAUs(lens, data) ==
    FoldLeft(LAMBDA acc, n :
               [aus |-> Append(acc.aus, SubSeq(data, acc.pos + 1, acc.pos + n)), pos |-> acc.pos + n],
             [aus |-> <<>>, pos |-> 0], lens)

AudioUnfragmented(d, lens, data, marker) ==
    LET split == SplitAUs(lens, data) IN
    IF marker THEN
        IF split.pos > Len(data) THEN AudioError(d, "ErrShortPayload")
        ELSE [d |-> d, err |-> "", aus |-> split.aus]
    ELSE IF Len(lens) # 1 THEN AudioError(d, "ErrFragMultipleAU")
    ELSE IF Len(data) < lens[1] THEN AudioError(d, "ErrShortPayload")
    ELSE AudioError([d EXCEPT !.fragmentedSize = lens[1], !.fragmentedMode = TRUE,
                              !.fragmentedParts = Append(@, SubSeq(data, 1, lens[1]))], AudioMore)

AudioDecode(d, pkt) ==
    IF d.fragmentedMode THEN AudioFragmented(d, pkt.lens, pkt.data, pkt.marker)
    ELSE AudioUnfragmented(d, pkt.lens, pkt.data, pkt.marker)

(***************************************************************************)
(* AU-headers: sizeLength bits of a size, with indexLength bits of an      *)
(* index in the first and indexDeltaLength bits in the others              *)
(***************************************************************************)

\* The first loop of readAUHeaders: the size of dataLens
HeaderCount(headersLen, size, index, delta) ==
    FoldLeft(LAMBDA acc, k : IF acc.i >= headersLen THEN acc
                             ELSE [i |-> acc.i + size + (IF acc.i = 0 THEN index ELSE delta),
                                   count |-> acc.count + 1],
             [i |-> 0, count |-> 0], [k \in 1..headersLen |-> k]).count

\* The second loop, on a buffer of avail bits: how many lengths it stores, how
\* many bits it reads, and whether there were enough
HeaderReads(headersLen, size, index, delta, avail) ==
    FoldLeft(LAMBDA acc, k :
               LET bits == size + (IF acc.stored = 0 THEN index ELSE delta) IN
               IF acc.left <= 0 \/ acc.failed THEN acc
               ELSE IF acc.pos + bits > avail THEN [acc EXCEPT !.failed = TRUE]
               ELSE [acc EXCEPT !.left = @ - bits, !.pos = @ + bits, !.stored = @ + 1],
             [left |-> headersLen, pos |-> 0, stored |-> 0, failed |-> FALSE],
             [k \in 1..headersLen |-> k])

\* The loops of readAUHeaders agree: no length is stored past the end of dataLens,
\* and the headers that were read end within the payload, of which Decode skips
\* headersLen bits rounded up to bytes.
AUHeadersCorrect ==
    \A headersLen \in 1..20, size \in 1..6, index \in 0..3, delta \in 0..3, bytes \in 0..4 :
        LET r == HeaderReads(headersLen, size, index, delta, 8 * bytes) IN
        /\ r.stored <= HeaderCount(headersLen, size, index, delta)
        /\ ~r.failed => /\ r.stored = HeaderCount(headersLen, size, index, delta)
                        /\ (headersLen + 7) \div 8 <= bytes
===============================================================================
