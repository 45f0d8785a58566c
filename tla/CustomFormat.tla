---------------------------- MODULE CustomFormat ----------------------------
(***************************************************************************)
(* The format recordings are stored in (video/customformat): a meta file   *)
(* with a header and one record for each sample, and an mdat file with the *)
(* media data.  A meta file is read while it is written and after the      *)
(* program died in the middle of a write.                                  *)
(*                                                                         *)
(* Bytes are digits of base Byte; numbers keep the width in digits they    *)
(* have in the file.                                                       *)
(***************************************************************************)
EXTENDS Integers, Sequences, SequencesExt, FiniteSets

CONSTANT Byte   \* the number of values of a byte, made small

ASSUME ByteAssumption == Byte \in Nat /\ Byte >= 4

\* The result of a function that returns an error, or panics.
Failed == [failed |-> TRUE]
Panicked == [panicked |-> TRUE]

\* binary.BigEndian.PutUintN of a value of any sign, and UintN.
BigEndian(value, width) == [i \in 1..width |-> ((value % (Byte ^ width)) \div (Byte ^ (width - i))) % Byte]

Number(bytes) == FoldLeft(LAMBDA n, b : n * Byte + b, 0, bytes)

Signed(bytes) ==
    LET n == Number(bytes) IN IF 2 * n < Byte ^ Len(bytes) THEN n ELSE n - Byte ^ Len(bytes)

MarshalArray(value) == BigEndian(Len(value), 2) \o value

\* The version is 0.
HeaderMarshal(h) ==
    <<0>> \o MarshalArray(h.sps) \o MarshalArray(h.pps) \o MarshalArray(h.config) \o BigEndian(h.start, 8)

HeaderSize(h) == 15 + Len(h.sps) + Len(h.pps) + Len(h.config)

\* The array at position pos of a file: where it ends and its value.  ReadFull
\* fails at the end of the file.
UnmarshalArray(file, pos) ==
    IF pos + 2 > Len(file)
    THEN Failed
    ELSE LET size == Number(SubSeq(file, pos + 1, pos + 2))
         IN  IF pos + 2 + size > Len(file)
             THEN Failed
             ELSE [pos |-> pos + 2 + size, value |-> SubSeq(file, pos + 3, pos + 2 + size)]

HeaderUnmarshal(file) ==
    LET sps == IF Len(file) < 1 THEN Failed
               ELSE IF file[1] # 0 THEN Failed ELSE UnmarshalArray(file, 1)
        pps == IF sps = Failed THEN Failed ELSE UnmarshalArray(file, sps.pos)
        config == IF pps = Failed THEN Failed ELSE UnmarshalArray(file, pps.pos)
    IN  IF config = Failed \/ config.pos + 8 > Len(file)
        THEN Failed
        ELSE [size |-> config.pos + 8,
              header |-> [sps |-> sps.value, pps |-> pps.value, config |-> config.value,
                          start |-> Signed(SubSeq(file, config.pos + 1, config.pos + 8))]]

SampleSize == 33

SampleMarshal(s) ==
    <<(IF s.audio THEN 1 ELSE 0) + (IF s.sync THEN 2 ELSE 0)>>
        \o BigEndian(s.pts, 8) \o BigEndian(s.dts, 8) \o BigEndian(s.next, 8)
        \o BigEndian(s.offset, 4) \o BigEndian(s.size, 4)

SampleUnmarshal(b) ==
    [audio |-> b[1] % 2 = 1, sync |-> (b[1] \div 2) % 2 = 1,
     pts |-> Signed(SubSeq(b, 2, 9)), dts |-> Signed(SubSeq(b, 10, 17)), next |-> Signed(SubSeq(b, 18, 25)),
     offset |-> Number(SubSeq(b, 26, 29)), size |-> Number(SubSeq(b, 30, 33))]

\* The number of samples of a meta file that was fileSize bytes long when its
\* size was asked for.  Division rounds towards zero.
SampleCount(fileSize, headerSize) ==
    IF fileSize >= headerSize
    THEN (fileSize - headerSize) \div SampleSize
    ELSE -((headerSize - fileSize) \div SampleSize)

\* NewReader and ReadAllSamples: the header and the samples of a file that may
\* have grown since its size was asked for.  make panics on a negative length.
ReadMeta(file, fileSize) ==
    LET h == HeaderUnmarshal(file)
        count == SampleCount(fileSize, h.size)
    IN  IF h = Failed THEN Failed
        ELSE IF count < 0 THEN Panicked
        ELSE IF h.size + count * SampleSize > Len(file) THEN Failed
        ELSE [header |-> h.header,
              samples |-> [i \in 1..count |->
                              SampleUnmarshal(SubSeq(file, h.size + (i - 1) * SampleSize + 1,
                                                           h.size + i * SampleSize))]]

\* The samples of a segment in the order of their times: DTS for video and PTS
\* for audio.  (The sort is not stable: samples with the same time may swap.)
SortSamples(parts) ==
    SortSeq(FlattenSeq([i \in 1..Len(parts) |-> parts[i].video \o parts[i].audio]),
            LAMBDA a, b : (IF a.audio THEN a.pts ELSE a.dts) < (IF b.audio THEN b.pts ELSE b.dts))

\* WriteSegment: the records, with the offset of their data in mdat.
WriteSegment(mdatPos, parts) ==
    LET sorted == SortSamples(parts)
        Before(i) == FoldLeft(LAMBDA n, s : n + s.size, mdatPos, SubSeq(sorted, 1, i - 1))
    IN  [i \in 1..Len(sorted) |->
            [sorted[i] EXCEPT !.dts = IF sorted[i].audio THEN 0 ELSE @,
                              !.sync = ~sorted[i].audio /\ @] @@ [offset |-> Before(i)]]

-----------------------------------------------------------------------------
CONSTANTS
    Headers,     \* headers of meta files
    MetaSamples  \* sequences of samples

\* Whatever prefix of a meta file is there, and however much it has grown since
\* its size was asked for, reading it gives the header and the samples whose
\* records were complete then; a file without a whole header is an error.  The
\* one exception is a size taken so early that it misses a record's length of
\* the header: the length of the list of samples is then negative.
\* ("Data must remain valid in case of a system failure. Samples should be
\* readable as soon as they are written", doc.go.)
MetaCorrect ==
    \A h \in Headers, samples \in MetaSamples :
        LET file == HeaderMarshal(h) \o FlattenSeq([i \in 1..Len(samples) |-> SampleMarshal(samples[i])])
            H == HeaderSize(h)
        IN  \A length \in 0..Len(file), back \in {0, 1, SampleSize} :
                LET size == IF back > length THEN 0 ELSE length - back
                    r == ReadMeta(SubSeq(file, 1, length), size)
                IN  IF length < H THEN r = Failed
                    ELSE IF size + SampleSize <= H THEN r = Panicked
                    ELSE r = [header |-> h,
                              samples |-> SubSeq(samples, 1, IF size < H THEN 0
                                                             ELSE (size - H) \div SampleSize)]
=============================================================================
