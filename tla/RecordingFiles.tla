--------------------------- MODULE RecordingFiles ---------------------------
(***************************************************************************)
(* The life of a recording on disk: the recorder writes it (generateVideo, *)
(* saveRecording), requests read it through the video reader and its cache *)
(* while it grows (web.RecordingVideo, storage.NewVideoReader), and a      *)
(* request may delete it at any time (storage.DeleteRecording).  When the  *)
(* writing fails it is tried again: with the same first segment, and so    *)
(* under the same name and with the same samples, over what is there.      *)
(*                                                                         *)
(* A byte is known by its position: byte p of the video made of n samples  *)
(* is byte p of its generated part if p < MetaSize(n), and byte            *)
(* p - MetaSize(n) of mdat otherwise.  A file that is deleted stays        *)
(* readable through the handles that are open.                             *)
(***************************************************************************)
EXTENDS Integers, Sequences, SequencesExt, FiniteSets

CONSTANTS
    Sizes,        \* the sizes of the samples, in the order they are written
    SegmentEnds,  \* the numbers of the samples that end a segment
    HeaderBytes,  \* the size of the header of the meta file
    RecordBytes,  \* the size of a sample's record in it
    Requests,     \* requests for the video at the same time
    RangeSpecs,   \* the Range headers requests have: sequences of specs
    Buffer,       \* the size of the buffer a response is copied with
    MaxDeletes,   \* requests to delete the recording
    MaxRetries    \* times the recording is tried again

ASSUME RecordingFilesAssumption ==
    /\ Sizes \in Seq(Nat \ {0}) /\ SegmentEnds \subseteq 1..Len(Sizes) /\ Len(Sizes) \in SegmentEnds
    /\ HeaderBytes \in Nat \ {0} /\ RecordBytes \in Nat \ {0} /\ Buffer \in Nat \ {0}

VARIABLES
    meta, mdat, \* the lengths of the files
    linked,     \* the names in the directory
    writer,     \* the recorder: what it does next, the samples it has written, the
                \* thumbnails it makes, the retries until its session ends; (history)
                \* it was tried again, a file was made anew
    cache,      \* the cached number of samples, or -1
    req,        \* the requests
    deleter     \* the requests to delete: what is left to remove, and (history)
                \* whether the recording was finished when the request came

fileVars == <<meta, mdat, linked, writer, cache, req, deleter>>

Sum(s) == FoldLeft(LAMBDA a, b : a + b, 0, s)

DataSize(n) == Sum(SubSeq(Sizes, 1, n))

\* The size of what GenerateMP4 makes of n samples.
MetaSize(n) == 3 + n

\* (fileSize - headerSize) / sampleSize, rounded towards zero.
Count(fileSize) ==
    IF fileSize >= HeaderBytes
    THEN (fileSize - HeaderBytes) \div RecordBytes
    ELSE -((HeaderBytes - fileSize) \div RecordBytes)

NoRequest ==
    [pc |-> "idle", size |-> 0, n |-> 0, specs |-> <<>>, todo |-> <<>>, left |-> 0, i |-> 0, pos |-> 0,
     file |-> -1, exact |-> TRUE]

Ended(how) == [NoRequest EXCEPT !.pc = how]

FilesInit ==
    /\ meta = 0 /\ mdat = 0 /\ linked = {}
    /\ \E retries \in 0..MaxRetries :
        writer = [pc |-> "open", n |-> 0, thumbs |-> 1, retries |-> retries, retried |-> FALSE, again |-> FALSE]
    /\ cache = -1
    /\ req = [r \in Requests |-> NoRequest]
    /\ \E deletes \in 0..MaxDeletes :
        deleter = [d \in 1..deletes |-> [pc |-> "idle", names |-> {}, finished |-> FALSE]]

-----------------------------------------------------------------------------
(* The recorder.                                                           *)

writerOnly == UNCHANGED <<cache, req, deleter>>

Max2(a, b) == IF a < b THEN b ELSE a

\* A file that is there is not truncated; one that was removed is made anew, and
\* what is left of it is with the requests that have it open.
OpenMeta ==
    /\ writer.pc = "open"
    /\ linked' = linked \union {"meta"}
    /\ meta' = IF "meta" \in linked THEN meta ELSE 0
    /\ writer' = [writer EXCEPT !.pc = "open mdat", !.again = @ \/ meta' < meta]
    /\ UNCHANGED mdat /\ writerOnly

OpenMdat ==
    /\ writer.pc = "open mdat"
    /\ linked' = linked \union {"mdat"}
    /\ mdat' = IF "mdat" \in linked THEN mdat ELSE 0
    /\ writer' = [writer EXCEPT !.pc = "header", !.again = @ \/ mdat' < mdat]
    /\ req' = [r \in Requests |-> IF mdat' < mdat /\ req[r].pc = "send" /\ req[r].file < 0
                                  THEN [req[r] EXCEPT !.file = mdat] ELSE req[r]]
    /\ UNCHANGED <<meta, cache, deleter>>

\* Writing goes on where the writer is, over what an earlier try has left.
NewWriter ==
    /\ writer.pc = "header"
    /\ meta' = Max2(meta, HeaderBytes)
    /\ writer' = [writer EXCEPT !.pc = "data"]
    /\ UNCHANGED <<mdat, linked>> /\ writerOnly

WriteData ==
    /\ writer.pc = "data"
    /\ mdat' = Max2(mdat, DataSize(writer.n + 1))
    /\ writer' = [writer EXCEPT !.pc = "record"]
    /\ UNCHANGED <<meta, linked>> /\ writerOnly

RecordEnd(n) == HeaderBytes + n * RecordBytes

\* The record refers to data that is in mdat.  After a segment the recording
\* goes on or ends.
WriteRecord ==
    /\ writer.pc = "record"
    /\ meta' = Max2(meta, RecordEnd(writer.n + 1))
    /\ \E pc \in (IF writer.n + 1 < Len(Sizes) THEN {"data"} ELSE {})
                 \union (IF writer.n + 1 \in SegmentEnds THEN {"save"} ELSE {}) :
           writer' = [writer EXCEPT !.pc = pc, !.n = @ + 1]
    /\ UNCHANGED <<mdat, linked>> /\ writerOnly

\* saveRecording; a file that cannot be written may be there all the same.
SaveRecording ==
    /\ writer.pc = "save"
    /\ linked' \in {linked, linked \union {"json"}}
    /\ writer' = [writer EXCEPT !.pc = "done"]
    /\ UNCHANGED <<meta, mdat>> /\ writerOnly

\* A thumbnail is made at the same time, for every try; FFmpeg may fail.
GenerateThumbnail ==
    /\ writer.thumbs > 0 /\ writer' = [writer EXCEPT !.thumbs = @ - 1]
    /\ linked' \in {linked, linked \union {"jpeg"}}
    /\ UNCHANGED <<meta, mdat>> /\ writerOnly

\* A write that fails or a program that dies leaves a part of what it wrote;
\* generateVideo returns an error, and nothing is saved.  So it does when a segment
\* was skipped.
WriteFails ==
    /\ \/ /\ writer.pc = "header" /\ mdat' = mdat
          /\ meta' \in {Max2(meta, p) : p \in 0..(HeaderBytes - 1)}
       \/ /\ writer.pc = "data" /\ meta' = meta
          /\ mdat' \in {Max2(mdat, p) : p \in DataSize(writer.n)..(DataSize(writer.n + 1) - 1)}
       \/ /\ writer.pc = "record" /\ mdat' = mdat
          /\ meta' \in {Max2(meta, p) : p \in RecordEnd(writer.n)..(RecordEnd(writer.n + 1) - 1)}
       \/ writer.pc \in {"open", "open mdat"} /\ UNCHANGED <<meta, mdat>>
    /\ writer' = [writer EXCEPT !.pc = "failed"]
    /\ UNCHANGED linked /\ writerOnly

\* runRecordingSession tries again after three seconds, unless the session is
\* canceled.
Retry ==
    /\ writer.pc = "failed"
    /\ writer' = IF writer.retries = 0 THEN [writer EXCEPT !.pc = "done"]
                 ELSE [writer EXCEPT !.pc = "open", !.n = 0, !.thumbs = @ + 1, !.retries = @ - 1, !.retried = TRUE]
    /\ UNCHANGED <<meta, mdat, linked>> /\ writerOnly

\* Mutant of WriterStep: the record is written before the data.
WriterStepRecordFirst ==
    \/ OpenMeta \/ OpenMdat \/ SaveRecording \/ GenerateThumbnail \/ WriteFails \/ Retry
    \/ NewWriter
    \/ /\ writer.pc = "data" /\ meta' = Max2(meta, RecordEnd(writer.n + 1)) /\ writer' = [writer EXCEPT !.pc = "record"]
       /\ UNCHANGED <<mdat, linked>> /\ writerOnly
    \/ /\ writer.pc = "record" /\ mdat' = Max2(mdat, DataSize(writer.n + 1))
       /\ writer' = [writer EXCEPT !.pc = IF writer.n + 1 < Len(Sizes) THEN "data" ELSE "save", !.n = @ + 1]
       /\ UNCHANGED <<meta, linked>> /\ writerOnly

WriterStep ==
    \/ OpenMeta \/ OpenMdat \/ NewWriter \/ WriteData \/ WriteRecord
    \/ SaveRecording \/ GenerateThumbnail \/ WriteFails \/ Retry

-----------------------------------------------------------------------------
(* A request for the video.                                                *)

filesOnly == UNCHANGED <<meta, mdat, linked, writer, deleter>>

Set(r, f) == req' = [req EXCEPT ![r] = f]

\* cache.get, when the next request comes.
Request(r) ==
    /\ req[r].pc \in {"idle", "panicked", "refused", "sent", "cut"}
    /\ Set(r, [NoRequest EXCEPT !.pc = IF cache >= 0 THEN "open" ELSE "stat",
                          !.n = IF cache >= 0 THEN cache ELSE 0])
    /\ UNCHANGED cache /\ filesOnly

\* os.Stat.  After an error of NewVideoReader the handler goes on with a reader that
\* is nil: here and below a request that fails panics, and net/http recovers.
StatMeta(r) ==
    /\ req[r].pc = "stat"
    /\ Set(r, IF "meta" \in linked THEN [req[r] EXCEPT !.pc = "read", !.size = meta] ELSE Ended("panicked"))
    /\ UNCHANGED cache /\ filesOnly

\* os.Open, NewReader, ReadAllSamples and GenerateMP4.  The file may be a new one by
\* now, with fewer records.
ReadVideoMetadata(r) ==
    /\ req[r].pc = "read"
    /\ LET n == Count(req[r].size)
       IN  Set(r, IF "meta" \notin linked \/ n < 0 \/ meta < RecordEnd(n) THEN Ended("panicked")
                  ELSE [req[r] EXCEPT !.pc = "add", !.size = 0, !.n = n])
    /\ UNCHANGED cache /\ filesOnly

\* cache.add: a key that is there stays.
CacheAdd(r) ==
    /\ req[r].pc = "add"
    /\ cache' = IF cache < 0 THEN req[r].n ELSE cache
    /\ Set(r, [req[r] EXCEPT !.pc = "open"])
    /\ filesOnly

\* Another recording takes the place in the cache.
CacheEvict ==
    /\ cache >= 0 /\ cache' = -1
    /\ UNCHANGED req /\ filesOnly

Min2(a, b) == IF a < b THEN a ELSE b

\* One spec of a Range header: first and last byte, or the length of a suffix.
\* -1 stands for a number that is not given.
ParseSpec(s, size) ==
    IF s.first = -1
    THEN <<[start |-> size - Min2(s.last, size), length |-> Min2(s.last, size)]>>
    ELSE IF s.first >= size
    THEN <<>>
    ELSE <<[start |-> s.first,
            length |-> IF s.last = -1 THEN size - s.first ELSE Min2(s.last, size - 1) - s.first + 1]>>

Invalid(s) == (s.first = -1 /\ s.last = -1) \/ (s.first >= 0 /\ s.last >= 0 /\ s.first > s.last)

\* errors
InvalidRange == <<[start |-> -1, length |-> 0]>>
NoOverlap == <<[start |-> -2, length |-> 0]>>

\* A spec that begins after the end of the file is left out, and an invalid one
\* only counts if it begins before (the loop goes on before it looks at the end).
ParseRange(specs, size) ==
    IF \E i \in 1..Len(specs) : Invalid(specs[i]) /\ specs[i].first < size
    THEN InvalidRange
    ELSE LET rs == FlattenSeq([i \in 1..Len(specs) |-> ParseSpec(specs[i], size)])
         IN  IF specs # <<>> /\ rs = <<>> THEN NoOverlap ELSE rs

SumRangesSize(ranges) == Sum([i \in 1..Len(ranges) |-> ranges[i].length])

\* The ranges ServeMP4Content sends: the whole video without a usable Range.
Ranges(specs, size) ==
    LET rs == ParseRange(specs, size)
    IN  IF rs = InvalidRange \/ rs = NoOverlap THEN rs
        ELSE IF rs = <<>> \/ SumRangesSize(rs) > size THEN <<[start |-> 0, length |-> size]>>
        ELSE rs

\* Opening mdat, and what ServeMP4Content does before it sends the body.  A request
\* may have preconditions: one that does not hold ends it (304, 412), or makes its
\* ranges void.
ServeMP4Content(r) ==
    /\ req[r].pc = "open"
    /\ IF "mdat" \notin linked THEN Set(r, Ended("panicked"))
       ELSE \/ Set(r, Ended("refused"))
            \/ \E specs \in RangeSpecs \union {<<>>} :
                 LET rs == Ranges(specs, MetaSize(req[r].n) + DataSize(req[r].n))
                 IN  Set(r, IF rs \in {InvalidRange, NoOverlap} THEN Ended("refused")
                            ELSE [req[r] EXCEPT !.pc = "send", !.specs = specs,
                                                !.todo = Tail(rs), !.i = rs[1].start, !.left = rs[1].length])
    /\ UNCHANGED cache /\ filesOnly

\* What Read(p) does when p has len bytes: n bytes, whether they are the ones
\* at the reading index, and the new position in mdat.
ReadMdat(q, pos, len) == Min2(len, (IF q.file < 0 THEN mdat ELSE q.file) - pos)

EndOfFile == [n |-> 0, exact |-> TRUE, pos |-> -1]

\* Mutant of Read: mdat is not moved to the reading index.
ReadNoSeek(q, len) ==
    LET M == MetaSize(q.n) IN
    IF q.i >= M + DataSize(q.n) THEN EndOfFile
    ELSE IF q.i < M
    THEN LET n2 == IF len <= M - q.i THEN 0 ELSE ReadMdat(q, q.pos, len - (M - q.i))
         IN  [n |-> Min2(len, M - q.i) + n2, exact |-> n2 = 0 \/ q.pos = 0, pos |-> q.pos + n2]
    ELSE [n |-> ReadMdat(q, q.pos, len), exact |-> q.pos = q.i - M, pos |-> q.pos + ReadMdat(q, q.pos, len)]

Read(q, len) ==
    LET M == MetaSize(q.n) IN
    IF q.i >= M + DataSize(q.n) THEN EndOfFile
    ELSE IF q.i = M THEN EndOfFile
    ELSE IF q.i < M /\ len <= M - q.i
    THEN [n |-> len, exact |-> TRUE, pos |-> q.pos]
    ELSE IF q.i < M
    THEN LET n2 == ReadMdat(q, q.pos, len - (M - q.i))
         IN  IF n2 <= 0 THEN EndOfFile
             ELSE [n |-> M - q.i + n2, exact |-> q.pos = 0, pos |-> q.pos + n2]
    ELSE LET n == ReadMdat(q, q.i - M, len)
         IN  IF n <= 0 THEN EndOfFile ELSE [n |-> n, exact |-> TRUE, pos |-> q.i - M + n]

\* io.CopyN: reads of at most Buffer bytes until the range is sent or a read
\* fails; then the next range.
CopyN(r) ==
    /\ req[r].pc = "send"
    /\ LET q == req[r]
           got == Read(q, Min2(q.left, Buffer))
       IN  IF q.left = 0
           THEN IF q.todo = <<>>
                THEN Set(r, Ended("sent"))
                ELSE Set(r, [q EXCEPT !.todo = Tail(q.todo), !.i = q.todo[1].start, !.left = q.todo[1].length])
           ELSE IF got = EndOfFile
           THEN Set(r, [q EXCEPT !.pc = "cut"])
           ELSE Set(r, [q EXCEPT !.left = @ - got.n, !.i = @ + got.n, !.pos = got.pos,
                                 !.exact = @ /\ got.exact])
    /\ UNCHANGED cache /\ filesOnly

RequestStep(r) ==
    \/ Request(r)
    \/ StatMeta(r) \/ ReadVideoMetadata(r) \/ CacheAdd(r) \/ ServeMP4Content(r) \/ CopyN(r)

-----------------------------------------------------------------------------
(* A request to delete the recording.                                      *)

deleteOnly == UNCHANGED <<meta, mdat, writer, cache, req>>

\* fs.ReadDir.
DeleteRecording(d) ==
    /\ deleter[d].pc = "idle"
    /\ deleter' = [deleter EXCEPT ![d] = [pc |-> IF linked = {} THEN "not found" ELSE "remove", names |-> linked,
                                            finished |-> writer.pc = "done" /\ writer.thumbs = 0]]
    /\ UNCHANGED linked /\ deleteOnly

\* os.Remove, in the order of the names; an error does not end the loop.
RemoveFile(d) ==
    /\ deleter[d].pc = "remove"
    /\ LET name == CHOOSE n \in deleter[d].names :
                       \A m \in deleter[d].names : <<n, m>> \notin {<<"json", "jpeg">>, <<"mdat", "jpeg">>,
                           <<"meta", "jpeg">>, <<"mdat", "json">>, <<"meta", "json">>, <<"meta", "mdat">>}
           rest == deleter[d].names \ {name}
       IN  /\ linked' = linked \ {name}
           /\ deleter' = [deleter EXCEPT ![d].pc = IF rest = {} THEN "done" ELSE "remove", ![d].names = rest]
    /\ deleteOnly

FilesNext ==
    \/ WriterStep
    \/ CacheEvict
    \/ \E r \in Requests : RequestStep(r)
    \/ \E d \in DOMAIN deleter : DeleteRecording(d) \/ RemoveFile(d)

FilesSpec == FilesInit /\ [][FilesNext]_fileVars

-----------------------------------------------------------------------------
(* Properties.                                                             *)

\* However the recording grows, stops, breaks off or is tried again while requests
\* come, the metadata a request uses, fresh or cached, refers to data that is in
\* mdat: writeVideoSample and writeAudioSample write the data first ("Data must
\* remain valid in case of a system failure", customformat/doc.go).  The exception
\* is a recording that was deleted before it was tried again: the cache has the
\* samples of the files that are gone.
SamplesBacked ==
    ~writer.again =>
        /\ cache >= 0 => DataSize(cache) <= mdat
        /\ \A r \in Requests : DataSize(req[r].n) <= mdat

\* The ranges of a response read across the end of the generated part at most
\* once, before anything else of mdat is read.
Crosses(range, M) == range.start < M /\ range.start + range.length > M
Forward(ranges, M) ==
    \A i, j \in 1..Len(ranges) :
        i < j /\ Crosses(ranges[j], M) => ranges[i].start + ranges[i].length <= M

RangesOf(q) == Ranges(q.specs, MetaSize(q.n) + DataSize(q.n))

\* Every byte of a response is the byte of the video at that position, while
\* the recording grows or is deleted: for responses of one range, and of ranges
\* that do not come back across the end of the generated part.
BodyExact ==
    \A r \in Requests :
        req[r].pc \in {"send", "cut"} /\ Forward(RangesOf(req[r]), MetaSize(req[r].n)) => req[r].exact

\* A read begins exactly where the generated part ends.
ReadAtBorder(range, M) ==
    range.start <= M /\ M < range.start + range.length /\ (M - range.start) % Buffer = 0

\* A response is as long as its Content-Length says, even if the recording is
\* deleted while it is sent, unless one of its reads begins exactly where the
\* generated part ends: VideoReader.Read takes that for the end of the file.
\* Again a recording that was made anew is an exception.
BodyWhole ==
    \A r \in Requests :
        req[r].pc = "cut" /\ ~writer.again =>
            \E i \in 1..Len(RangesOf(req[r])) : ReadAtBorder(RangesOf(req[r])[i], MetaSize(req[r].n))

\* The event data tells the crawler that there is a recording: until somebody
\* asks to delete it, its two files are complete ("Event data is only generated
\* If video was saved successfully", crawler.go).  They may have more of the same
\* samples, from a try that came further before it failed.
ListedIsWhole ==
    "json" \in linked /\ (\A d \in DOMAIN deleter : deleter[d].pc \in {"idle", "not found"}) =>
        /\ {"meta", "mdat"} \subseteq linked
        /\ writer.n \in SegmentEnds
        /\ meta >= RecordEnd(writer.n) /\ mdat >= DataSize(writer.n)
        /\ ~writer.retried => meta = RecordEnd(writer.n) /\ mdat = DataSize(writer.n)

\* A request to delete a finished recording leaves nothing of it, even if
\* another one runs at the same time.
DeleteLeavesNothing ==
    \A d \in DOMAIN deleter : deleter[d].pc = "done" /\ deleter[d].finished => linked = {}

\* The files of a recording are sound while it is written, listed, read and
\* deleted.
FilesSound == SamplesBacked /\ ListedIsWhole /\ DeleteLeavesNothing

\* parseRange gives the bytes the header asks for that the file has.
Asked(s, size) ==
    {p \in 0..(size - 1) : IF s.first = -1 THEN p >= size - s.last
                           ELSE p >= s.first /\ (s.last = -1 \/ p <= s.last)}

\* The ranges of a response are the bytes each spec of the header asks for, and
\* together they are never longer than the video.
RangesCorrect ==
    \A size \in 0..4, a, b \in [first : -1..5, last : -1..5] :
        LET rs == Ranges(<<a, b>>, size)
            bytes(i) == rs[i].start..(rs[i].start + rs[i].length - 1)
        IN  rs \notin {InvalidRange, NoOverlap} =>
              /\ SumRangesSize(rs) <= size
              /\ \/ rs = <<[start |-> 0, length |-> size]>>
                 \/ {bytes(i) : i \in 1..Len(rs)} \ {{}} = {Asked(a, size), Asked(b, size)} \ {{}}
=============================================================================
