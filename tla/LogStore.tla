------------------------------ MODULE LogStore ------------------------------
(***************************************************************************)
(* The log store, pkg/log/store.go: entries are kept in chunks, one per     *)
(* span of time, each a data file of fixed-size records and a message file  *)
(* the records point into.  The saver goroutine (SaveLogs) appends, the     *)
(* purge loop removes the oldest chunk, and Query reads backwards in time,  *)
(* finding its starting point by binary search.                             *)
(*                                                                          *)
(* A message is its entry's id and takes one cell of the message file, so   *)
(* offsets count cells; the record keeps the id too (it stands for source,  *)
(* level and monitor), so a record that reads another entry's message shows.*)
(* A write may fail with nothing written or be cut short: then what follows  *)
(* in the file is not where the records, or their index, say.                *)
(***************************************************************************)
EXTENDS Integers, Sequences, FiniteSets, FiniteSetsExt, Functions

CONSTANTS
    ChunkDuration   \* chunkDuration, in clock ticks

ASSUME ChunkDurationAssumption == ChunkDuration \in Nat \ {0}

VARIABLES
    data,           \* the .data files: chunk -> sequence of records
    msg,            \* the .msg files: chunk -> sequence of messages
    encoder,        \* Store.encoder
    prevEntryTime,  \* Store.prevEntryTime
    save,           \* where saveLog is, and its entry
    purging,        \* the chunk whose message file purge is about to remove
    reopened,       \* history: chunks whose message file was opened again
    shifted,        \* history: chunks with messages behind one that was cut short
    garbled,        \* history: chunks with records behind one that was cut short
    failures,       \* saves that failed so far
    purges          \* chunks purged so far

storeVars ==
    <<data, msg, encoder, prevEntryTime, save, purging, reopened, shifted, garbled,
      failures, purges>>

Entry == [id : Nat, time : Nat]

\* Neither an encoder nor a purge: chunk IDs are natural numbers.
None == -1

\* filePos is the offset of the message file, msgPos what the encoder takes for
\* it; torn: the last record in the data file was cut short.
NilEncoder == [chunk |-> None, msgPos |-> 0, filePos |-> 0, torn |-> FALSE, links |-> {}]

Idle == [at |-> "idle"]

\* The files with an empty one added.
AddFile(files, c) == [x \in DOMAIN files \cup {c} |-> IF x = c THEN <<>> ELSE files[x]]

\* Chunk IDs order as the strings do: they are padded to one length.
timeToID(time) == time \div ChunkDuration

StoreInit ==
    /\ data = <<>>
    /\ msg = <<>>
    /\ encoder = NilEncoder
    /\ prevEntryTime = 0
    /\ save = Idle
    /\ purging = None
    /\ reopened = {}
    /\ shifted = {}
    /\ garbled = {}
    /\ failures = 0
    /\ purges = 0

-----------------------------------------------------------------------------
(* Reading a chunk.                                                         *)

\* newChunkDecoder: both files can be opened and the version is there.
Opens(c) == c \in DOMAIN data /\ c \in DOMAIN msg

\* decodeEntry finds the message of record i within the message file.
Readable(c, i) == data[c][i + 1].off < Len(msg[c])

\* The messages of a chunk's records, as decodeEntry reads them.
decode(c, i) ==
    LET r == data[c][i + 1]
    IN  [id |-> r.id, time |-> r.time, msg |-> msg[c][r.off + 1]]

\* Mutant of search: a record of the very time asked for is passed over.
SearchPast(c, t) ==
    LET n == Len(data[c])
        between[l \in 0 .. n, r \in -1 .. n - 1] ==
            IF l > r
            THEN l
            ELSE LET i == (l + r) \div 2
                 IN  IF decode(c, i).time <= t THEN between[i + 1, r] ELSE between[l, i - 1]
    IN  between[0, n - 1]

\* The index of the record of time t, or where it would be; -1 is an error.
search(c, t) ==
    LET n == Len(data[c])
        between[l \in 0 .. n, r \in -1 .. n - 1] ==
            IF l > r
            THEN l
            ELSE LET i == (l + r) \div 2
                     found == decode(c, i).time
                 IN  CASE ~Readable(c, i) -> -1
                       [] found < t -> between[i + 1, r]
                       [] found > t -> between[l, i - 1]
                       [] OTHER     -> i
    IN  between[0, n - 1]

\* What one chunk adds to the entries found so far: its records from the last
\* one, or from the one before t, backwards, as long as they can be decoded and
\* the limit allows.
queryChunk(c, t, limit, wanted, entries) ==
    IF ~Opens(c)
    THEN entries
    ELSE LET n == IF t = 0 THEN Len(data[c]) ELSE search(c, t)
             stop == Min({n + 1} \cup {k \in 1 .. n : ~Readable(c, n - k)})
             back == [k \in 1 .. stop - 1 |-> decode(c, n - k)]
             found == entries \o SelectSeq(back, LAMBDA e : e.id \in wanted)
         IN  IF limit = 0 \/ Len(found) <= limit THEN found ELSE SubSeq(found, 1, limit)

\* From the newest to the oldest.
listChunksBefore(t) ==
    LET older == {c \in DOMAIN data : t = 0 \/ c <= timeToID(t)}
    IN  [i \in 1 .. Cardinality(older) |->
            CHOOSE c \in older : Cardinality({d \in older : d > c}) = i - 1]

\* Newest chunk first; the time only matters in the first one.
Query(t, limit, wanted) ==
    LET chunks == listChunksBefore(t)
        after[k \in 0 .. Len(chunks)] ==
            IF k = 0
            THEN <<>>
            ELSE queryChunk(chunks[k], IF k = 1 THEN t ELSE 0, limit, wanted, after[k - 1])
    IN  after[Len(chunks)]

-----------------------------------------------------------------------------
(* saveLog, one step per change to the files.                               *)

\* newChunkEncoder returns an error: saveLog stores what came with it.
SaveFails == /\ encoder' = NilEncoder
             /\ prevEntryTime' = 0
             /\ save' = Idle

\* The encoder of a chunk starts at the end of its records, and at the start
\* of its messages.
NewEncoder(c) ==
    [chunk |-> c, msgPos |-> 0, filePos |-> 0, torn |-> FALSE, links |-> {"data", "msg"}]

\* A file cannot be opened, or the version not be written.
OpenFails ==
    /\ save.at \in {"open", "created"}
    /\ timeToID(save.entry.time) # encoder.chunk
    /\ SaveFails
    /\ failures' = failures + 1
    /\ UNCHANGED <<data, msg, purging, reopened, shifted, garbled, purges>>

\* The entry belongs to the chunk that is open.
SaveToOpenChunk ==
    /\ save.at = "open"
    /\ timeToID(save.entry.time) = encoder.chunk
    /\ save' = [save EXCEPT !.at = "encode"]
    /\ UNCHANGED <<data, msg, encoder, prevEntryTime, purging, reopened, shifted, garbled, failures, purges>>

\* newChunkEncoder of a chunk with no data file: it writes the version.
SaveCreatesData ==
    LET c == timeToID(save.entry.time)
    IN  /\ save.at = "open"
        /\ c # encoder.chunk
        /\ c \notin DOMAIN data
        /\ data' = AddFile(data, c)
        /\ encoder' = NilEncoder
        /\ prevEntryTime' = 0
        /\ save' = [save EXCEPT !.at = "created"]
        /\ UNCHANGED <<msg, purging, reopened, shifted, garbled, failures, purges>>

\* ... and then opens both files, the message file created if need be.
SaveOpensCreated ==
    LET c == timeToID(save.entry.time)
    IN  /\ save.at = "created"
        /\ IF c \in DOMAIN data
           THEN /\ msg' = IF c \in DOMAIN msg THEN msg ELSE AddFile(msg, c)
                /\ encoder' = NewEncoder(c)
                /\ reopened' = reopened \cup ({c} \cap DOMAIN msg)
                /\ save' = [save EXCEPT !.at = "encode"]
                /\ UNCHANGED prevEntryTime
           ELSE SaveFails /\ UNCHANGED <<msg, reopened>>
        /\ UNCHANGED <<data, purging, shifted, garbled, failures, purges>>

\* newChunkEncoder of a chunk that exists: its last record is decoded for the
\* time the next one must exceed; a chunk with no record, or no message for it,
\* fails.
SaveReopens ==
    LET c == timeToID(save.entry.time)
    IN  /\ save.at = "open"
        /\ c # encoder.chunk
        /\ c \in DOMAIN data
        /\ IF Opens(c) /\ data[c] # <<>> /\ Readable(c, Len(data[c]) - 1)
           THEN /\ encoder' = NewEncoder(c)
                /\ prevEntryTime' = decode(c, Len(data[c]) - 1).time
                /\ reopened' = reopened \cup {c}
                /\ save' = [save EXCEPT !.at = "encode"]
           ELSE SaveFails /\ UNCHANGED reopened
        /\ UNCHANGED <<data, msg, purging, shifted, garbled, failures, purges>>

\* A write into an open file reaches the chunk only while the file has a name.
MsgWritten(m) ==
    IF "msg" \in encoder.links
    THEN [msg EXCEPT ![encoder.chunk] =
              IF encoder.filePos < Len(@)
              THEN [@ EXCEPT ![encoder.filePos + 1] = m]
              ELSE Append(@, m)]
    ELSE msg

\* The time of an entry is moved past the one saved before it.
LaterTime(time) == IF time <= prevEntryTime THEN prevEntryTime + 1 ELSE time

\* Mutant of EncodeMsg: the record gets the offset behind its message.
EncodeMsgBehind ==
    /\ save.at = "encode"
    /\ msg' = MsgWritten(save.entry.id)
    /\ encoder' = [encoder EXCEPT !.msgPos = @ + 1, !.filePos = @ + 1]
    /\ save' = [at |-> "write",
                entry |-> [save.entry EXCEPT !.time = LaterTime(@)],
                off |-> encoder'.msgPos]
    /\ UNCHANGED <<data, prevEntryTime, purging, reopened, shifted, garbled, failures, purges>>

\* encodeEntry: the message goes out before the record that points to it.
EncodeMsg ==
    /\ save.at = "encode"
    /\ msg' = MsgWritten(save.entry.id)
    /\ encoder' = [encoder EXCEPT !.msgPos = @ + 1, !.filePos = @ + 1]
    /\ save' = [at |-> "write",
                entry |-> [save.entry EXCEPT !.time = LaterTime(@)],
                off |-> encoder.msgPos]
    /\ UNCHANGED <<data, prevEntryTime, purging, reopened, shifted, garbled, failures, purges>>

\* The record of the entry saveLog is writing.
Record == [id |-> save.entry.id, time |-> save.entry.time, off |-> save.off]

\* An offset past the end of the message file
FarOffset == 65536

\* Behind a record that was cut short the fields are bytes of two others: the time
\* may be before those of the records so far, the message may not be there.
Garbled == [id : {save.entry.id}, time : {0, save.entry.time}, off : {0, FarOffset}]

\* A record reaches the chunk only while the data file has a name.
AppendOneOf(records) ==
    IF "data" \in encoder.links
    THEN /\ \E r \in records : data' = [data EXCEPT ![encoder.chunk] = Append(@, r)]
         /\ garbled' = IF encoder.torn THEN garbled \cup {encoder.chunk} ELSE garbled
    ELSE UNCHANGED <<data, garbled>>

WriteData ==
    /\ save.at = "write"
    /\ AppendOneOf(IF encoder.torn THEN Garbled ELSE {Record})
    /\ prevEntryTime' = save.entry.time
    /\ save' = Idle
    /\ UNCHANGED <<msg, encoder, purging, reopened, shifted, failures, purges>>

\* Either write fails, or the source or monitor ID is too long: the entry is
\* given up, and what was written of it stays.
EncodeFails ==
    /\ save.at \in {"encode", "write"}
    /\ failures' = failures + 1
    /\ save' = Idle
    /\ UNCHANGED <<data, msg, encoder, prevEntryTime, purging, reopened, shifted, garbled, purges>>

\* Part of a message, which is that of no entry
CutMessage == 0

\* The write of the message is cut short: the file's offset moves, msgPos does not.
MsgCutShort ==
    /\ save.at = "encode"
    /\ msg' = MsgWritten(CutMessage)
    /\ encoder' = [encoder EXCEPT !.filePos = @ + 1]
    /\ shifted' = shifted \cup {encoder.chunk}
    /\ failures' = failures + 1
    /\ save' = Idle
    /\ UNCHANGED <<data, prevEntryTime, purging, reopened, garbled, purges>>

\* The write of the record is cut short: the records that follow are not where
\* their index says.  Two of them may make up a record.
RecordCutShort ==
    /\ save.at = "write"
    /\ \/ UNCHANGED <<data, garbled>>
       \/ encoder.torn /\ AppendOneOf(Garbled)
    /\ encoder' = [encoder EXCEPT !.torn = TRUE]
    /\ failures' = failures + 1
    /\ save' = Idle
    /\ UNCHANGED <<msg, prevEntryTime, purging, reopened, shifted, purges>>

SaveStep ==
    \/ SaveToOpenChunk
    \/ SaveCreatesData
    \/ SaveOpensCreated
    \/ SaveReopens
    \/ OpenFails
    \/ EncodeMsg
    \/ WriteData
    \/ EncodeFails
    \/ MsgCutShort
    \/ RecordCutShort

-----------------------------------------------------------------------------
(* purge: the files take too much of the disk, so the oldest chunk goes,    *)
(* its data file first.  A file that is open keeps its content, unnamed.    *)

PurgeData ==
    /\ purging = None
    /\ DOMAIN data # {}
    /\ LET c == Min(DOMAIN data)
       IN  /\ data' = Restrict(data, DOMAIN data \ {c})
           /\ purging' = c
           /\ encoder' = IF encoder.chunk = c
                         THEN [encoder EXCEPT !.links = @ \ {"data"}]
                         ELSE encoder
    /\ purges' = purges + 1
    /\ UNCHANGED <<msg, prevEntryTime, save, reopened, shifted, garbled, failures>>

PurgeMsg ==
    /\ purging # None
    /\ msg' = Restrict(msg, DOMAIN msg \ {purging})
    /\ encoder' = IF encoder.chunk = purging
                  THEN [encoder EXCEPT !.links = @ \ {"msg"}]
                  ELSE encoder
    /\ purging' = None
    /\ UNCHANGED <<data, prevEntryTime, save, reopened, shifted, garbled, failures, purges>>

\* The process goes away between any two steps; the files stay.
StoreRestarts ==
    /\ encoder' = NilEncoder
    /\ prevEntryTime' = 0
    /\ save' = Idle
    /\ purging' = None
    /\ UNCHANGED <<data, msg, reopened, shifted, garbled, failures, purges>>

-----------------------------------------------------------------------------
(* What a chunk promises its readers.                                       *)

\* The records of a chunk are in strictly increasing order of time, whatever
\* order entries arrive in and however often the chunk is opened again: the
\* binary search of Query depends on it.  Behind a record that was cut short
\* nothing is in order.
TimesIncrease ==
    \A c \in DOMAIN data \ garbled :
        \A i, j \in DOMAIN data[c] : i < j => data[c][i].time < data[c][j].time

\* A record never points past the end of its message file, in every state a
\* crash can leave behind: the message is written before the record, and purge
\* takes the records away before the messages.
RecordsReadable ==
    \A c \in DOMAIN data \ garbled :
        Opens(c) => \A i \in DOMAIN data[c] : data[c][i].off < Len(msg[c])

\* A record of one of the chunks reads the message it was saved with.
ReadsOwnMessage(chunks) ==
    \A c \in chunks :
        Opens(c) => \A i \in DOMAIN data[c] :
                        /\ data[c][i].off < Len(msg[c])
                        /\ msg[c][data[c][i].off + 1] = data[c][i].id

\* In a chunk whose files were written by one encoder, no write cut short, every
\* record reads its own message, entries that were given up included.
MessagesIntact == ReadsOwnMessage(DOMAIN data \ (reopened \cup shifted \cup garbled))

\* A chunk can be searched by time, and everything that is found can be read,
\* wherever the process was killed, unless a record was cut short in it.
ChunksSound == TimesIncrease /\ RecordsReadable

\* Every saved entry can be read back with the message it was logged with, where
\* every write was whole.
SavedMessagesKept == ReadsOwnMessage(DOMAIN data \ (shifted \cup garbled))

\* Every record's time lies in the span of its chunk: no entry was moved over
\* the end of it.
TimesInChunk ==
    \A c \in DOMAIN data :
        \A i \in DOMAIN data[c] : timeToID(data[c][i].time) = c

\* The records on disk that a query can list: those of chunks with both files
Saved(wanted) ==
    {p \in UNION {{c} \X DOMAIN data[c] : c \in {d \in DOMAIN data : Opens(d)}} :
        data[p[1]][p[2]].id \in wanted}

\* A query without limit lists each wanted record on disk once, the newest first.
\* It needs the times to be in their chunks.
ListsSaved(wanted) ==
    LET all == Query(0, 0, wanted)
    IN  /\ Len(all) = Cardinality(Saved(wanted))
        /\ \A p \in Saved(wanted) : \E k \in 1 .. Len(all) :
               LET saved == data[p[1]][p[2]]
               IN  all[k].id = saved.id /\ all[k].time = saved.time
        /\ \A k \in 1 .. Len(all) - 1 : all[k].time > all[k + 1].time

\* Asking for the entries before the last one received, one page at a time, gives
\* each entry that a single query lists, and none twice, for any page size.
PagesComplete(wanted, limit) ==
    LET all == Query(0, 0, wanted)
    IN  \A k \in 1 .. Len(all) :
            Query(all[k].time, limit, wanted)
                = SubSeq(all, k + 1, IF k + limit < Len(all) THEN k + limit ELSE Len(all))

\* Queries and pages show what is on disk, for any filter.
PagingComplete ==
    TimesInChunk /\ garbled = {} =>
        \A wanted \in {0 .. 3, {1, 3}} :
            /\ ListsSaved(wanted)
            /\ \A limit \in 1 .. 2 : PagesComplete(wanted, limit)

StoreTypeOK ==
    /\ DOMAIN data \subseteq Nat
    /\ \A c \in DOMAIN data :
           data[c] \in Seq([id : Nat, time : Nat, off : Nat])
    /\ DOMAIN msg \subseteq Nat
    /\ \A c \in DOMAIN msg : msg[c] \in Seq(Nat)
    /\ encoder \in [chunk : Nat \cup {None}, msgPos : Nat, filePos : Nat, torn : BOOLEAN,
                    links : SUBSET {"data", "msg"}]
    /\ prevEntryTime \in Nat
    /\ save \in {Idle}
            \cup [at : {"open", "created", "encode"}, entry : Entry]
            \cup [at : {"write"}, entry : Entry, off : Nat]
    /\ purging \in Nat \cup {None}
    /\ reopened \subseteq Nat
    /\ shifted \subseteq Nat
    /\ garbled \subseteq Nat
    /\ failures \in Nat
    /\ purges \in Nat

\* Pages of the log show every record that is on disk once, in order, and each
\* with its own message unless its chunk was opened again; a write that was cut
\* short is excepted.
QueriesExact == PagingComplete /\ MessagesIntact
=============================================================================
