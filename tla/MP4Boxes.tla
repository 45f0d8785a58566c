------------------------------ MODULE MP4Boxes ------------------------------
(***************************************************************************)
(* The ISO base media boxes of pkg/video/mp4.                              *)
(*                                                                         *)
(* A box is written as a header, whose first field is the size of the box, *)
(* followed by its fields and its children.  The size is computed by       *)
(* Size() before anything is written and the fields are written by         *)
(* Marshal(), two functions that nothing but discipline keeps together.    *)
(* Here a box is the number Size() returns and the widths, in bytes, of    *)
(* the fields Marshal() writes; the values of fields are left out.         *)
(***************************************************************************)
EXTENDS Naturals, Sequences, SequencesExt

Total(widths) == FoldLeft(LAMBDA a, b : a + b, 0, widths)

Times(n, width) == [i \in 1..n |-> width]

\* A tree of boxes: the box, the size in its header (Size) and the bytes that
\* Marshal writes for it and its children: the header of 8 bytes, the fields
\* unless the box is empty, the children.  exact: every header in the tree
\* holds the number of bytes its box takes.
Tree(type, size, fields, children) ==
    LET total == size + 8 + Total([i \in 1..Len(children) |-> children[i].total])
        written == 8 + (IF total # 8 THEN Total(fields) ELSE 0)
                     + Total([i \in 1..Len(children) |-> children[i].written])
    IN  [type |-> type, size |-> size, fields |-> fields, total |-> total, written |-> written,
         exact |-> total = written /\ \A i \in 1..Len(children) : children[i].exact]

Box(type, size, fields) == Tree(type, size, fields, <<>>)

\* A FullBox has a version and three bytes of flags.
MarshalFull == <<1, 1, 1, 1>>

GetFlags(flags) == flags[1] * 65536 + flags[2] * 256 + flags[3]

\* flag is a power of two.
CheckFlag(flags, flag) == (GetFlags(flags) \div flag) % 2 = 1

\* One field of the given width for each of the flags that is set.
Optional(flags, widthOf) ==
    FlattenSeq([i \in 1..Len(widthOf) |->
        IF CheckFlag(flags, widthOf[i][1]) THEN <<widthOf[i][2]>> ELSE <<>>])

-----------------------------------------------------------------------------
(* Boxes that only hold other boxes.                                       *)

Container(type) == Box(type, 0, <<>>)

Dinf == Container("dinf")
Free == Container("free")
Mdia == Container("mdia")
Minf == Container("minf")
Moof == Container("moof")
Moov == Container("moov")
Mvex == Container("mvex")
Stbl == Container("stbl")
Traf == Container("traf")
Trak == Container("trak")

-----------------------------------------------------------------------------
(* Headers.                                                                *)

Ftyp(brands) == Box("ftyp", 4 + 4 + brands * 4, <<4, 4>> \o Times(brands, 4))

\* name is the length of the handler's name, which is written with a zero.
Hdlr(name) == Box("hdlr", 4 + 9 + 3 * 4 + name, MarshalFull \o <<4, 4>> \o Times(3, 4) \o <<name + 1>>)

Mdat(data) == Box("mdat", data, <<data>>)

\* Times are 32 bits wide in version 0 and 64 bits wide in version 1.
TimeWidth(version) == IF version = 0 THEN 4 ELSE 8

Mdhd(version) ==
    Box("mdhd", IF version = 0 THEN 24 ELSE 36,
        MarshalFull \o Times(2, TimeWidth(version)) \o <<4, TimeWidth(version), 1, 1, 2>>)

Mfhd == Box("mfhd", 8, MarshalFull \o <<4>>)

Mvhd(version) ==
    Box("mvhd", IF version = 0 THEN 100 ELSE 112,
        MarshalFull \o Times(2, TimeWidth(version)) \o <<4, TimeWidth(version), 4, 2, 2>>
            \o Times(2, 4) \o Times(9, 4) \o Times(6, 4) \o <<4>>)

Tkhd(version) ==
    Box("tkhd", IF version = 0 THEN 84 ELSE 96,
        MarshalFull \o Times(2, TimeWidth(version)) \o <<4, 4, TimeWidth(version)>>
            \o Times(2, 4) \o Times(4, 2) \o Times(9, 4) \o <<4, 4>>)

Smhd == Box("smhd", 8, MarshalFull \o <<2, 2>>)

Vmhd == Box("vmhd", 12, MarshalFull \o <<2>> \o Times(3, 2))

Dref == Box("dref", 8, MarshalFull \o <<4>>)

\* The location is written unless the flag says that the media is in the file.
URL(flags, location) ==
    Box("url ", IF CheckFlag(flags, 1) THEN 4 ELSE location + 5,
        MarshalFull \o (IF CheckFlag(flags, 1) THEN <<>> ELSE <<location + 1>>))

-----------------------------------------------------------------------------
(* Sample descriptions.                                                    *)

Stsd == Box("stsd", 8, MarshalFull \o <<4>>)

SampleEntry == Times(6, 1) \o <<2>>

Avc1 ==
    Box("avc1", 78, SampleEntry \o <<2, 2>> \o Times(3, 4) \o <<2, 2, 4, 4, 4, 2, 32, 2, 2>>)

Mp4a == Box("mp4a", 28, SampleEntry \o <<2>> \o Times(3, 2) \o <<2, 2, 2, 2, 4>>)

ParameterSets(lengths) ==
    FlattenSeq([i \in 1..Len(lengths) |-> <<2, lengths[i]>>])

\* sps, pps, ext: the lengths of the parameter sets.  Whether the fields of
\* the high profiles are there is decided by Reserved3, not by
\* HighProfileFieldsEnabled, in Size and in Marshal alike.
AvcC(sps, pps, reserved3, ext) ==
    Box("avcC",
        7 + Total([i \in 1..Len(sps) |-> sps[i] + 2]) + Total([i \in 1..Len(pps) |-> pps[i] + 2])
            + (IF reserved3 # 0 THEN 4 + Total([i \in 1..Len(ext) |-> ext[i] + 2]) ELSE 0),
        Times(6, 1) \o ParameterSets(sps) \o <<1>> \o ParameterSets(pps)
            \o (IF reserved3 # 0 THEN Times(4, 1) \o ParameterSets(ext) ELSE <<>>))

\* The configuration of AAC, with its four nested descriptors.
Esds(config) == Box("esds", 41 + config, MarshalFull \o <<8, 18, 5, config, 6>>)

Btrt == Box("btrt", 12, <<4, 4, 4>>)

-----------------------------------------------------------------------------
(* Tables of samples.                                                      *)

Ctts(entries) == Box("ctts", 8 + entries * 8, MarshalFull \o <<4>> \o Times(entries * 2, 4))
Stco(entries) == Box("stco", 8 + entries * 4, MarshalFull \o <<4>> \o Times(entries, 4))
Stsc(entries) == Box("stsc", 8 + entries * 12, MarshalFull \o <<4>> \o Times(entries * 3, 4))
Stss(entries) == Box("stss", 8 + entries * 4, MarshalFull \o <<4>> \o Times(entries, 4))
Stsz(entries) == Box("stsz", 12 + entries * 4, MarshalFull \o <<4, 4>> \o Times(entries, 4))
Stts(entries) == Box("stts", 8 + entries * 8, MarshalFull \o <<4>> \o Times(entries * 2, 4))

Elst(version, entries) ==
    Box("elts", 8 + entries * (IF version = 0 THEN 12 ELSE 20),
        MarshalFull \o <<4>>
            \o FlattenSeq(Times(entries, <<TimeWidth(version), TimeWidth(version), 2, 2>>)))

-----------------------------------------------------------------------------
(* Fragments.                                                              *)

Tfdt(version) == Box("tfdt", 4 + TimeWidth(version), MarshalFull \o <<TimeWidth(version)>>)

TfhdFields == << <<1, 8>>, <<2, 4>>, <<8, 4>>, <<16, 4>>, <<32, 4>> >>

Tfhd(flags) ==
    Box("tfhd",
        4 + 4 + Total([i \in 1..5 |-> IF CheckFlag(flags, TfhdFields[i][1]) THEN TfhdFields[i][2] ELSE 0]),
        MarshalFull \o <<4>> \o Optional(flags, TfhdFields))

Trex == Box("trex", 24, MarshalFull \o Times(5, 4))

TrunFields == << <<1, 4>>, <<4, 4>> >>
TrunEntryFields == << <<256, 4>>, <<512, 4>>, <<1024, 4>>, <<2048, 4>> >>

Trun(flags, entries) ==
    Box("trun",
        8 + (IF CheckFlag(flags, 1) THEN 4 ELSE 0) + (IF CheckFlag(flags, 4) THEN 4 ELSE 0)
            + entries * Total([i \in 1..4 |-> IF CheckFlag(flags, TrunEntryFields[i][1]) THEN 4 ELSE 0]),
        MarshalFull \o <<4>> \o Optional(flags, TrunFields)
            \o FlattenSeq(Times(entries, Optional(flags, TrunEntryFields))))

-----------------------------------------------------------------------------
(* Trees of boxes.                                                         *)

Boxes(box, children) == Tree(box.type, box.size, box.fields, children)

BoxesSize(b) == b.total

BoxesMarshal(b) == b.written

HeadersExact(b) == b.exact
=============================================================================
