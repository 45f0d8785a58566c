--------------------------- MODULE LoggingProofs ----------------------------
(***************************************************************************)
(* What is on disk can be searched and read, for every chunk duration, any  *)
(* number of entries, callers and subscribers, and any sequence of kills,   *)
(* purges and failed writes; and the feed, with the store as one of its     *)
(* subscribers.                                                             *)
(***************************************************************************)
EXTENDS Logging, SequenceTheorems, TLAPS

(***************************************************************************)
(* The feed: what a subscriber took is what was fed since it joined        *)
(***************************************************************************)

FeedEntry == [id : Nat, time : Nat]

Places == {"idle", "subscribe", "closed", "read", "handle", "unsubscribe", "done"}

FeedTypes ==
    /\ logger \in [at : {"select", "done"}]
                    \cup [at : {"send"}, entry : FeedEntry, to : SUBSET Subscribers]
    /\ subs \subseteq Subscribers
    /\ sub \in [Subscribers -> Places]
    /\ fed \in Seq(FeedEntry)
    /\ joined \in [Subscribers -> Nat]
    /\ received \in [Subscribers -> Seq(FeedEntry)]

\* The goroutine of Start has those in its set who subscribed and whose
\* unsubscription it has not accepted; it hands out the entry it received last.
HandsOutLast ==
    /\ \A s \in Subscribers : s \in subs <=> sub[s] \in {"read", "handle", "unsubscribe"}
    /\ logger.at = "send" =>
           /\ logger.to \subseteq subs
           /\ Len(fed) > 0 /\ logger.entry = fed[Len(fed)]

\* What a subscriber took is what was fed since it joined, entry by entry; as
\* long as it reads, nothing but the entry being handed out is missing.
Took(s) ==
    /\ sub[s] \in {"idle", "subscribe", "closed"} => received[s] = <<>> /\ joined[s] = 0
    /\ joined[s] + Len(received[s]) <= Len(fed)
    /\ \A i \in 1 .. Len(received[s]) : received[s][i] = fed[joined[s] + i]
    /\ sub[s] \in {"read", "handle"} =>
           joined[s] + Len(received[s]) = Len(fed) - (IF Sending(s) THEN 1 ELSE 0)

FeedInv == FeedTypes /\ HandsOutLast /\ \A s \in Subscribers : Took(s)

\* A process that starts has no subscribers and has fed nothing.
LEMMA FeedStarts ==
    ASSUME NEW start
    PROVE  /\ LoggerInit(start) => FeedInv
           /\ LoggerRestarts => FeedInv'
<1>1. <<>> \in Seq(FeedEntry) /\ Len(<<>>) = 0
  BY Zenon, EmptySeq
<1>2. LoggerInit(start) => FeedTypes /\ HandsOutLast
  BY <1>1 DEF LoggerInit, FeedTypes, HandsOutLast, Select, Places
<1>3. LoggerRestarts => FeedTypes' /\ HandsOutLast'
  BY <1>1 DEF LoggerRestarts, FeedTypes, HandsOutLast, Select, Places
<1>4. ASSUME NEW s \in Subscribers
      PROVE  /\ LoggerInit(start) => Took(s)
             /\ LoggerRestarts => Took(s)'
  BY <1>1 DEF LoggerInit, LoggerRestarts, Took, Sending, Select
<1> QED
  BY Zenon, <1>2, <1>3, <1>4 DEF FeedInv

\* The moves of a subscriber that no channel is involved in.
Moves ==
    {<<"idle", "subscribe">>, <<"subscribe", "closed">>, <<"closed", "done">>,
     <<"read", "unsubscribe">>, <<"handle", "read">>, <<"handle", "unsubscribe">>}

LEMMA SubscriberMoves ==
    ASSUME FeedInv, NEW s \in Subscribers, NEW next, <<sub[s], next>> \in Moves,
           sub' = [sub EXCEPT ![s] = next],
           UNCHANGED <<logger, subs, fed, joined, received>>
    PROVE  FeedInv'
<1>1. FeedTypes'
  BY Zenon DEF FeedInv, FeedTypes, Moves, Places
<1>2. HandsOutLast'
  BY Zenon DEF FeedInv, FeedTypes, HandsOutLast, Moves
<1>3. ASSUME NEW t \in Subscribers
      PROVE  Took(t)'
  <2>1. /\ sub'[t] \in {"idle", "subscribe", "closed"} => sub[t] \in {"idle", "subscribe", "closed"}
        /\ sub'[t] \in {"read", "handle"} => sub[t] \in {"read", "handle"}
    BY Zenon DEF FeedInv, FeedTypes, Moves
  <2>2. Took(t) /\ (Sending(t)' <=> Sending(t))
    BY Zenon DEF FeedInv, Sending
  <2> QED
    BY Zenon, <2>1, <2>2 DEF Took
<1> QED
  BY Zenon, <1>1, <1>2, <1>3 DEF FeedInv

\* A new entry is missing to all subscribers, and is handed to all of them.
LEMMA FeedFeeds ==
    ASSUME FeedInv, NEW c \in Callers, call[c] \in FeedEntry, Feed(c)
    PROVE  FeedInv'
<1> DEFINE e == call[c]
<1>1. /\ e \in FeedEntry /\ logger.at = "select"
      /\ fed' = Append(fed, e) /\ logger' = SendTo(e, subs)
      /\ UNCHANGED <<subs, sub, joined, received>>
  BY Zenon DEF Feed
<1>2. /\ Len(fed) \in Nat /\ Len(fed') = Len(fed) + 1 /\ fed'[Len(fed')] = e
      /\ \A i \in 1 .. Len(fed) : fed'[i] = fed[i]
      /\ fed' \in Seq(FeedEntry)
  BY <1>1 DEF FeedInv, FeedTypes
<1>3. FeedTypes'
  BY Zenon, <1>1, <1>2 DEF FeedInv, FeedTypes, SendTo, Select
<1>4. HandsOutLast'
  BY <1>1, <1>2 DEF FeedInv, HandsOutLast, SendTo, Select
<1>5. ASSUME NEW s \in Subscribers
      PROVE  Took(s)'
  <2>1. /\ Took(s) /\ ~Sending(s) /\ (Sending(s)' <=> s \in subs)
        /\ joined[s] \in Nat /\ Len(received[s]) \in Nat
    BY <1>1 DEF FeedInv, FeedTypes, Sending, SendTo, Select
  <2>2. sub[s] \in {"read", "handle"} => s \in subs
    BY Zenon DEF FeedInv, HandsOutLast
  <2>3. \A i \in 1 .. Len(received[s]) : joined[s] + i \in 1 .. Len(fed)
    BY <1>2, <2>1 DEF Took
  <2> QED
    BY <1>1, <1>2, <2>1, <2>2, <2>3 DEF Took
<1> QED
  BY Zenon, <1>3, <1>4, <1>5 DEF FeedInv

\* One of the subscribers takes the entry: the last one that was fed.
LEMMA FeedSends ==
    ASSUME FeedInv, NEW s \in Subscribers, Send(s) \/ SendToUnsubscribing(s)
    PROVE  FeedInv'
<1> DEFINE e == logger.entry
<1>1. /\ Sending(s) /\ logger \in [at : {"send"}, entry : FeedEntry, to : SUBSET Subscribers]
      /\ logger' = SendTo(e, logger.to \ {s}) /\ UNCHANGED <<subs, fed, joined>>
      /\ Len(fed) \in Nat \ {0} /\ e = fed[Len(fed)] /\ logger.to \subseteq subs
  BY DEF Send, SendToUnsubscribing, Sending, FeedInv, FeedTypes, HandsOutLast
<1>2. \A t \in Subscribers : Sending(t)' <=> Sending(t) /\ t # s
  BY Zenon, <1>1 DEF Sending, SendTo, Select
<1>3. CASE Send(s)
  <2>1. /\ sub[s] = "read" /\ sub' = [sub EXCEPT ![s] = "handle"]
        /\ received' = [received EXCEPT ![s] = Append(@, e)]
    BY Zenon, <1>3 DEF Send
  <2>2. FeedTypes'
    BY <1>1, <2>1 DEF FeedInv, FeedTypes, Places, SendTo, Select
  <2>3. HandsOutLast'
    BY Zenon, <1>1, <2>1 DEF FeedInv, FeedTypes, HandsOutLast, SendTo, Select
  <2>4. Took(s)'
    <3>1. /\ Took(s) /\ joined[s] \in Nat /\ received[s] \in Seq(FeedEntry) /\ received'[s] = Append(received[s], e)
          /\ sub'[s] = "handle" /\ joined'[s] = joined[s] /\ fed' = fed
      BY Zenon, <1>1, <2>1 DEF FeedInv, FeedTypes
    <3>2. joined[s] + Len(received[s]) = Len(fed) - 1 /\ Len(received[s]) \in Nat
      BY <1>1, <2>1, <3>1 DEF Took
    <3>3. /\ Len(received'[s]) = Len(received[s]) + 1 /\ received'[s][Len(received[s]) + 1] = e
          /\ \A i \in 1 .. Len(received[s]) : received'[s][i] = received[s][i]
      BY <1>1, <3>1
    <3>4. \A i \in 1 .. Len(received'[s]) : received'[s][i] = fed[joined[s] + i]
      <4> SUFFICES ASSUME NEW i \in 1 .. Len(received'[s])
                   PROVE  received'[s][i] = fed[joined[s] + i]
        OBVIOUS
      <4>1. CASE i = Len(received[s]) + 1
        BY <1>1, <3>1, <3>2, <3>3, <4>1
      <4>2. CASE i \in 1 .. Len(received[s])
        BY Zenon, <3>1, <3>3, <4>2 DEF Took
      <4> QED
        BY <3>2, <3>3, <4>1, <4>2
    <3>5. /\ joined'[s] + Len(received'[s]) = Len(fed') /\ Len(fed') \in Nat
          /\ ~Sending(s)' /\ sub'[s] = "handle"
      BY <1>1, <1>2, <3>1, <3>2, <3>3
    <3>6. \A i \in 1 .. Len(received'[s]) : received'[s][i] = fed'[joined'[s] + i]
      BY Zenon, <3>1, <3>4
    <3> QED
      BY <3>5, <3>6 DEF Took
  <2>5. ASSUME NEW t \in Subscribers, t # s
        PROVE  Took(t)'
    <3>1. Took(t) /\ sub'[t] = sub[t] /\ received'[t] = received[t] /\ (Sending(t)' <=> Sending(t))
      BY Zenon, <1>2, <2>1, <2>5 DEF FeedInv, FeedTypes
    <3> QED
      BY Zenon, <1>1, <3>1 DEF Took
  <2> QED
    BY Zenon, <2>2, <2>3, <2>4, <2>5 DEF FeedInv
<1>4. CASE SendToUnsubscribing(s)
  <2>1. sub[s] = "unsubscribe" /\ UNCHANGED <<sub, received>>
    BY Zenon, <1>4 DEF SendToUnsubscribing
  <2>2. FeedTypes'
    BY Zenon, <1>1, <2>1 DEF FeedInv, FeedTypes, SendTo, Select
  <2>3. HandsOutLast'
    BY Zenon, <1>1, <2>1 DEF FeedInv, FeedTypes, HandsOutLast, SendTo, Select
  <2>4. ASSUME NEW t \in Subscribers
        PROVE  Took(t)'
    <3>1. Took(t) /\ (sub[t] \in {"read", "handle"} => (Sending(t)' <=> Sending(t)))
      BY Zenon, <1>2, <2>1 DEF FeedInv
    <3> QED
      BY Zenon, <1>1, <2>1, <3>1 DEF Took
  <2> QED
    BY Zenon, <2>2, <2>3, <2>4 DEF FeedInv
<1> QED
  BY Zenon, <1>3, <1>4

\* Who is accepted has missed nothing that it will be asked about.
LEMMA FeedAccepts ==
    ASSUME FeedInv, NEW s \in Subscribers, AcceptSub(s) \/ AcceptUnsub(s)
    PROVE  FeedInv'
<1>1. /\ logger.at = "select" /\ UNCHANGED <<logger, fed, received>>
      /\ \A t \in Subscribers : ~Sending(t) /\ ~Sending(t)'
  BY Zenon DEF AcceptSub, AcceptUnsub, Sending
<1>2. Len(fed) \in Nat /\ FeedTypes'
  <2>1. Len(fed) \in Nat
    BY DEF FeedInv, FeedTypes
  <2> QED
    BY ZenonT(30), <2>1 DEF FeedInv, FeedTypes, Places, AcceptSub, AcceptUnsub
<1>3. HandsOutLast'
  BY ZenonT(30), <1>1 DEF FeedInv, FeedTypes, HandsOutLast, AcceptSub, AcceptUnsub
<1>4. Took(s)'
  <2>1. CASE AcceptSub(s)
    <3>1. /\ sub'[s] = "read" /\ joined'[s] = Len(fed) /\ fed' = fed
          /\ received'[s] = <<>>
      BY Zenon, <1>1, <2>1 DEF AcceptSub, FeedInv, FeedTypes, Took
    <3> QED
      BY <1>1, <1>2, <3>1 DEF Took
  <2>2. CASE AcceptUnsub(s)
    <3>1. sub'[s] = "done" /\ joined' = joined /\ Took(s)
      BY Zenon, <2>2 DEF AcceptUnsub, FeedInv, FeedTypes
    <3> QED
      BY Zenon, <1>1, <3>1 DEF Took
  <2> QED
    BY Zenon, <2>1, <2>2
<1>5. ASSUME NEW t \in Subscribers, t # s
      PROVE  Took(t)'
  <2>1. Took(t) /\ sub'[t] = sub[t] /\ joined'[t] = joined[t]
    BY Zenon, <1>5 DEF AcceptSub, AcceptUnsub, FeedInv, FeedTypes
  <2> QED
    BY Zenon, <1>1, <2>1 DEF Took
<1> QED
  BY Zenon, <1>2, <1>3, <1>4, <1>5 DEF FeedInv

LEMMA FeedUnchanged ==
    FeedInv /\ UNCHANGED <<logger, subs, sub, fed, joined, received>> => FeedInv'
BY DEF FeedInv, FeedTypes, HandsOutLast, Took, Sending

LEMMA FeedExits == FeedInv /\ Exit => FeedInv'
BY DEF FeedInv, FeedTypes, HandsOutLast, Took, Sending, Exit

LEMMA FeedSubscriberStep ==
    ASSUME FeedInv, NEW s \in Subscribers,
           Subscribe(s) \/ SubscriberStep(s) \/ Handled(s, "read") \/ Handled(s, "unsubscribe")
    PROVE  FeedInv'
<1>1. /\ UNCHANGED <<logger, subs, fed, joined, received>>
      /\ \E next \in Places : sub' = [sub EXCEPT ![s] = next] /\ <<sub[s], next>> \in Moves
  BY ZenonT(30) DEF Subscribe, SubscriberStep, SubscribeCanceled, SeeDone, Handled, Moves, Places, FeedInv, FeedTypes
<1> QED
  BY ZenonT(30), <1>1, SubscriberMoves

\* The invariant says of every entry what FeedInOrder says of sequences.
LEMMA FeedInvImplies == FeedInv => FeedSound
<1> SUFFICES ASSUME FeedInv PROVE FeedSound
  OBVIOUS
<1>1. NoSendOnClosed
  BY Zenon DEF FeedInv, HandsOutLast, NoSendOnClosed, Sending
<1>2. ASSUME NEW s \in Subscribers
      PROVE  LET n == Len(received[s])
             IN  /\ n <= Len(FedSince(s))
                 /\ received[s] = SubSeq(FedSince(s), 1, n)
                 /\ sub[s] \in {"read", "handle"} =>
                        n = Len(FedSince(s)) - (IF Sending(s) THEN 1 ELSE 0)
  <2> DEFINE n == Len(received[s])
             j == joined[s]
             m == Len(fed)
  <2>1. /\ Took(s) /\ j \in Nat /\ n \in Nat /\ m \in Nat
        /\ received[s] \in Seq(FeedEntry) /\ \A i \in 1 .. m : fed[i] \in FeedEntry
    BY DEF FeedInv, FeedTypes
  <2>2. j + n <= m
    BY Zenon, <2>1 DEF Took
  <2>3. /\ FedSince(s) \in Seq(FeedEntry) /\ Len(FedSince(s)) = m - j
        /\ \A i \in 1 .. m - j : FedSince(s)[i] = fed[j + i]
    <3> HIDE DEF j, m, n
    <3>1. j + 1 \in Int /\ m \in Int /\ \A i \in j + 1 .. m : fed[i] \in FeedEntry
      BY <2>1
    <3>2. /\ SubSeq(fed, j + 1, m) \in Seq(FeedEntry)
          /\ Len(SubSeq(fed, j + 1, m)) = IF j + 1 <= m THEN m - (j + 1) + 1 ELSE 0
          /\ \A i \in 1 .. m - (j + 1) + 1 : SubSeq(fed, j + 1, m)[i] = fed[(j + 1) + i - 1]
      BY <3>1, SubSeqProperties
    <3>3. FedSince(s) = SubSeq(fed, j + 1, m)
      BY Zenon DEF FedSince, j, m
    <3> QED
      BY <2>1, <2>2, <3>2, <3>3
  <2>4. received[s] = SubSeq(FedSince(s), 1, n)
    <3> DEFINE t == SubSeq(FedSince(s), 1, n)
    <3>1. \A i \in 1 .. n : FedSince(s)[i] = fed[j + i] /\ fed[j + i] \in FeedEntry
      BY <2>1, <2>2, <2>3
    <3>2. t \in Seq(FeedEntry) /\ Len(t) = n /\ \A i \in 1 .. n : t[i] = FedSince(s)[i]
      <4> HIDE DEF n
      <4>1. /\ t \in Seq(FeedEntry) /\ Len(t) = IF 1 <= n THEN n - 1 + 1 ELSE 0
            /\ \A i \in 1 .. n - 1 + 1 : t[i] = FedSince(s)[1 + i - 1]
        BY <2>1, <3>1, SubSeqProperties
      <4> QED
        BY <2>1, <4>1
    <3>3. \A i \in 1 .. n : received[s][i] = t[i]
      BY Zenon, <2>1, <3>1, <3>2 DEF Took
    <3> HIDE DEF t
    <3> QED
      BY Zenon, <2>1, <3>2, <3>3, SeqEqual DEF t
  <2>5. sub[s] \in {"read", "handle"} => j + n = m - (IF Sending(s) THEN 1 ELSE 0)
    BY Zenon, <2>1 DEF Took
  <2>6. n <= Len(FedSince(s))
    BY <2>1, <2>2, <2>3
  <2>7. sub[s] \in {"read", "handle"} => n = Len(FedSince(s)) - (IF Sending(s) THEN 1 ELSE 0)
    <3> HIDE DEF j, m, n
    <3> QED
      BY <2>1, <2>3, <2>5
  <2> QED
    BY ZenonT(30), <2>4, <2>6, <2>7
<1> QED
  BY ZenonT(30), <1>1, <1>2 DEF FeedSound, FeedInOrder

(***************************************************************************)
(* The store                                                               *)
(***************************************************************************)

Recs == [id : Nat, time : Nat, off : Nat]

\* The entries on their way to the store.
EntryInv ==
    /\ now \in Nat
    /\ logged \in Nat
    /\ call \in [Callers -> Entry]
    /\ logger.at = "send" => logger.entry \in Entry

Encoders ==
    [chunk : Int, msgPos : Nat, filePos : Nat, torn : BOOLEAN, links : SUBSET {"data", "msg"}]

FileTypes ==
    /\ data \in [DOMAIN data -> Seq(Recs)]
    /\ msg \in [DOMAIN msg -> Seq(Nat)]

SaverTypes ==
    /\ encoder \in Encoders
    /\ prevEntryTime \in Nat
    /\ save \in {Idle}
            \cup [at : {"open", "created", "encode"}, entry : Entry]
            \cup [at : {"write"}, entry : Entry, off : Nat]

\* prevEntryTime is not before any record of the chunk that is open, if none was
\* cut short in it, and the record being written is after it.
TimeInv ==
    /\ "data" \in encoder.links =>
           /\ encoder.chunk \in DOMAIN data
           /\ encoder.chunk \notin garbled =>
                  \A i \in DOMAIN data[encoder.chunk] :
                      data[encoder.chunk][i].time <= prevEntryTime
    /\ save.at = "write" => prevEntryTime < save.entry.time

\* A chunk that was just created has no record, and no encoder is open on it.
CreatedInv ==
    save.at = "created" =>
        /\ encoder.links = {}
        /\ \A c \in DOMAIN data : c = timeToID(save.entry.time) => data[c] = <<>>

\* The open message file reaches to its offset, which is not before the
\* encoder's position; it is the chunk's message file if the data file is the
\* chunk's and there is one.
OffsetInv ==
    /\ "msg" \in encoder.links =>
           /\ encoder.chunk \in DOMAIN msg
           /\ encoder.filePos <= Len(msg[encoder.chunk])
    /\ encoder.msgPos <= encoder.filePos
    /\ "data" \in encoder.links /\ encoder.chunk \in DOMAIN msg => "msg" \in encoder.links
    /\ save.at = "write" => save.off < encoder.msgPos

StoreInv ==
    /\ FileTypes
    /\ SaverTypes
    /\ TimeInv
    /\ CreatedInv
    /\ OffsetInv
    /\ TimesIncrease
    /\ RecordsReadable

IInv == EntryInv /\ StoreInv

-----------------------------------------------------------------------------

\* The chunk ID of a time is an integer.
LEMMA ChunkIDs == \A t \in Nat : timeToID(t) \in Int
  BY ChunkDurationAssumption DEF timeToID

\* Every initial state satisfies the inductive invariant.
LEMMA InitIInv == Init => IInv
<1> SUFFICES ASSUME Init PROVE IInv
  OBVIOUS
<1>1. EntryInv
  BY Zenon, ChunkDurationAssumption
     DEF Init, LoggerInit, EntryInv, NoEntry, Entry, Select
<1>2. DOMAIN data = {} /\ DOMAIN msg = {}
  BY DEF Init, StoreInit
<1>3. FileTypes
  BY <1>2 DEF Init, StoreInit, FileTypes
<1>4. SaverTypes /\ TimeInv /\ CreatedInv /\ OffsetInv
  BY DEF Init, StoreInit, SaverTypes, TimeInv, CreatedInv, OffsetInv, NilEncoder, Idle, None,
         Encoders
<1>5. TimesIncrease /\ RecordsReadable
  BY Zenon, <1>2 DEF TimesIncrease, RecordsReadable
<1> QED
  BY ZenonT(30), <1>1, <1>3, <1>4, <1>5 DEF IInv, StoreInv

\* No step of the store alone changes an entry under way, and what changes
\* nothing of the store keeps its invariant.
LEMMA StoreUnchanged == StoreInv /\ UNCHANGED storeVars => StoreInv'
  BY ZenonT(30) DEF storeVars, StoreInv, FileTypes, SaverTypes, TimeInv, CreatedInv, OffsetInv,
         TimesIncrease, RecordsReadable, Opens

\* As long as neither the records nor their chunk change, their times are known.
LEMMA TimesKnown ==
    ASSUME TimeInv, UNCHANGED <<data, prevEntryTime, garbled>>,
           encoder'.chunk = encoder.chunk, encoder'.links \subseteq encoder.links,
           (save.at = "write" => prevEntryTime < save.entry.time)'
    PROVE  TimeInv'
<1> DEFINE Known(c) ==
        /\ c \in DOMAIN data
        /\ c \notin garbled => \A i \in DOMAIN data[c] : data[c][i].time <= prevEntryTime
<1>1. "data" \in encoder'.links => Known(encoder.chunk)
  BY Zenon DEF TimeInv
<1>2. "data" \in encoder'.links => Known(encoder'.chunk)
  <2> HIDE DEF Known
  <2> QED
    BY Zenon, <1>1
<1> QED
  BY Zenon, <1>2 DEF TimeInv

\* saveLog finds its chunk open.
LEMMA SaveToOpenChunkStep == StoreInv /\ SaveToOpenChunk => StoreInv'
<1> SUFFICES ASSUME StoreInv, SaveToOpenChunk PROVE StoreInv'
  OBVIOUS
<1> USE DEF StoreInv
<1>1. save \in [at : {"open"}, entry : Entry] /\ save' = [at |-> "encode", entry |-> save.entry]
  BY DEF SaveToOpenChunk, SaverTypes, Idle
<1>2. SaverTypes' /\ FileTypes'
  BY Zenon, <1>1 DEF SaveToOpenChunk, SaverTypes, FileTypes
<1>3. TimeInv' /\ CreatedInv' /\ OffsetInv'
  BY Zenon, <1>1 DEF SaveToOpenChunk, TimeInv, CreatedInv, OffsetInv
<1>4. TimesIncrease' /\ RecordsReadable'
  BY ZenonT(30) DEF SaveToOpenChunk, TimesIncrease, RecordsReadable, Opens
<1> QED
  BY Zenon, <1>2, <1>3, <1>4

\* An error of newChunkEncoder leaves no encoder and no time.
LEMMA SaveFailsStep ==
    ASSUME StoreInv, SaveFails, UNCHANGED <<data, msg, garbled>>
    PROVE  StoreInv'
<1> USE DEF StoreInv
<1>1. SaverTypes' /\ FileTypes'
  BY DEF SaveFails, SaverTypes, FileTypes, NilEncoder, None, Idle, Encoders
<1>2. TimeInv' /\ CreatedInv' /\ OffsetInv'
  BY DEF SaveFails, TimeInv, CreatedInv, OffsetInv, NilEncoder, Idle
<1>3. TimesIncrease' /\ RecordsReadable'
  BY ZenonT(30) DEF TimesIncrease, RecordsReadable, Opens
<1> QED
  BY Zenon, <1>1, <1>2, <1>3

\* A file that cannot be opened.
LEMMA OpenFailsStep == StoreInv /\ OpenFails => StoreInv'
  BY Zenon, SaveFailsStep DEF OpenFails

\* A new data file has no records.
LEMMA SaveCreatesDataStep == StoreInv /\ SaveCreatesData => StoreInv'
<1> SUFFICES ASSUME StoreInv, SaveCreatesData PROVE StoreInv'
  OBVIOUS
<1> USE DEF StoreInv
<1> DEFINE c == timeToID(save.entry.time)
<1>1. save \in [at : {"open"}, entry : Entry] /\ save' = [at |-> "created", entry |-> save.entry]
  BY DEF SaveCreatesData, SaverTypes, Idle
<1>2. /\ DOMAIN data' = DOMAIN data \cup {c}
      /\ c \notin DOMAIN data
      /\ data'[c] = <<>>
      /\ \A x \in DOMAIN data : data'[x] = data[x]
      /\ msg' = msg
      /\ encoder' = NilEncoder
      /\ prevEntryTime' = 0
      /\ garbled' = garbled
  BY Zenon DEF SaveCreatesData, AddFile
<1>3. SaverTypes'
  BY <1>1, <1>2 DEF SaverTypes, NilEncoder, None, Encoders
<1>4. FileTypes'
  <2>1. data' \in [DOMAIN data' -> Seq(Recs)]
    BY Zenon, <1>2, EmptySeq DEF FileTypes, SaveCreatesData, AddFile
  <2> QED
    BY Zenon, <1>2, <2>1 DEF FileTypes
<1>5. TimeInv' /\ CreatedInv' /\ OffsetInv'
  BY <1>1, <1>2 DEF TimeInv, CreatedInv, OffsetInv, NilEncoder
<1>6. TimesIncrease'
  BY <1>2 DEF TimesIncrease
<1>7. RecordsReadable'
  BY <1>2 DEF RecordsReadable, Opens
<1> QED
  BY Zenon, <1>3, <1>4, <1>5, <1>6, <1>7

\* The encoder of a new chunk starts where there is no record yet.
LEMMA SaveOpensCreatedStep == StoreInv /\ SaveOpensCreated => StoreInv'
<1> SUFFICES ASSUME StoreInv, SaveOpensCreated PROVE StoreInv'
  OBVIOUS
<1> USE DEF StoreInv
<1> DEFINE c == timeToID(save.entry.time)
<1>1. save \in [at : {"created"}, entry : Entry]
  BY DEF SaveOpensCreated, SaverTypes, Idle
<1>2. CASE c \notin DOMAIN data
  <2>1. SaveFails /\ UNCHANGED <<data, msg, garbled>>
    BY Zenon, <1>2 DEF SaveOpensCreated
  <2> QED
    BY Zenon, <2>1, SaveFailsStep
<1>3. CASE c \in DOMAIN data
  <2>1. /\ msg' = IF c \in DOMAIN msg THEN msg ELSE AddFile(msg, c)
        /\ encoder' = NewEncoder(c)
        /\ save' = [at |-> "encode", entry |-> save.entry]
        /\ UNCHANGED <<data, prevEntryTime, garbled>>
    BY Zenon, <1>1, <1>3 DEF SaveOpensCreated
  <2>2. data[c] = <<>>
    BY Zenon, <1>1, <1>3 DEF CreatedInv
  <2>3. /\ DOMAIN msg' = DOMAIN msg \cup {c}
        /\ \A x \in DOMAIN msg : msg'[x] = msg[x]
        /\ msg' \in [DOMAIN msg' -> Seq(Nat)]
    <3>1. CASE c \in DOMAIN msg
      BY ZenonT(30), <2>1, <3>1 DEF FileTypes
    <3>2. CASE c \notin DOMAIN msg
      BY Zenon, <2>1, <3>2, EmptySeq DEF FileTypes, AddFile
    <3> QED
      BY Zenon, <3>1, <3>2
  <2>4. FileTypes'
    BY Zenon, <2>1, <2>3 DEF FileTypes
  <2>5. SaverTypes'
    <3>1. c \in Int
      BY Zenon, <1>1, ChunkIDs DEF Entry
    <3>2. NewEncoder(c) \in Encoders
      BY <3>1 DEF NewEncoder, Encoders
    <3> QED
      BY Zenon, <1>1, <2>1, <3>2 DEF SaverTypes
  <2>6. TimeInv' /\ CreatedInv'
    BY <1>3, <2>1, <2>2 DEF TimeInv, CreatedInv, NewEncoder
  <2>7. OffsetInv'
    <3>1. Len(msg'[c]) \in Nat
      BY Zenon, <2>3, LenProperties
    <3> QED
      BY <2>1, <2>3, <3>1 DEF OffsetInv, NewEncoder
  <2>8. TimesIncrease'
    BY ZenonT(30), <2>1 DEF TimesIncrease
  <2>9. RecordsReadable'
    <3> SUFFICES ASSUME NEW x \in DOMAIN data \ garbled, x \in DOMAIN msg', NEW i \in DOMAIN data[x]
                 PROVE  data[x][i].off < Len(msg'[x])
      BY Zenon, <2>1 DEF RecordsReadable, Opens
    <3>1. x # c
      BY <2>2
    <3> QED
      BY Zenon, <3>1, <2>3 DEF RecordsReadable, Opens
  <2> QED
    BY Zenon, <2>4, <2>5, <2>6, <2>7, <2>8, <2>9
<1> QED
  BY Zenon, <1>2, <1>3

\* Opened again, a chunk gets the time of its last record, which is the latest.
LEMMA SaveReopensStep == StoreInv /\ SaveReopens => StoreInv'
<1> SUFFICES ASSUME StoreInv, SaveReopens PROVE StoreInv'
  OBVIOUS
<1> USE DEF StoreInv
<1> DEFINE c == timeToID(save.entry.time)
<1>1. save \in [at : {"open"}, entry : Entry] /\ c \in DOMAIN data 
      /\ UNCHANGED <<data, msg, garbled>>
  BY DEF SaveReopens, SaverTypes, Idle
<1>2. CASE ~(Opens(c) /\ data[c] # <<>> /\ Readable(c, Len(data[c]) - 1))
  <2>1. SaveFails
    BY Zenon, <1>2 DEF SaveReopens
  <2> QED
    BY Zenon, <1>1, <2>1, SaveFailsStep
<1>3. CASE Opens(c) /\ data[c] # <<>> /\ Readable(c, Len(data[c]) - 1)
  <2> DEFINE n == Len(data[c])
  <2>1. /\ encoder' = NewEncoder(c)
        /\ prevEntryTime' = decode(c, Len(data[c]) - 1).time
        /\ save' = [at |-> "encode", entry |-> save.entry]
    BY Zenon, <1>1, <1>3 DEF SaveReopens
  <2>2. data[c] \in Seq(Recs) /\ msg[c] \in Seq(Nat)
    BY Zenon, <1>1, <1>3 DEF FileTypes, Opens
  <2>3. n \in Nat /\ n > 0 /\ DOMAIN data[c] = 1 .. n /\ data[c][n] \in Recs
    BY <1>3, <2>2, EmptySeq, LenProperties, ElementOfSeq
  <2>4. prevEntryTime' = data[c][n].time
    <3>1. (n - 1) + 1 = n
      BY <2>3
    <3> QED
      BY Zenon, <2>1, <3>1 DEF decode
  <2>5. c \notin garbled => \A i \in 1 .. n : data[c][i].time <= data[c][n].time
    <3> SUFFICES ASSUME c \notin garbled, NEW i \in 1 .. n
                 PROVE  data[c][i].time <= data[c][n].time
      OBVIOUS
    <3>1. data[c][i] \in Recs
      BY Zenon, <2>2, <2>3, ElementOfSeq
    <3>2. i < n => data[c][i].time < data[c][n].time
      BY <1>1, <2>3 DEF TimesIncrease
    <3> QED
      BY <2>3, <3>1, <3>2 DEF Recs
  <2>6. SaverTypes' /\ FileTypes'
    <3>1. c \in Int
      BY Zenon, <1>1, ChunkIDs DEF Entry
    <3>2. prevEntryTime' \in Nat
      BY Zenon, <2>3, <2>4 DEF Recs
    <3>3. NewEncoder(c) \in Encoders
      BY <3>1 DEF NewEncoder, Encoders
    <3> QED
      BY Zenon, <1>1, <2>1, <3>2, <3>3 DEF SaverTypes, FileTypes
  <2>7. TimeInv' /\ CreatedInv'
    BY ZenonT(30), <1>1, <2>1, <2>3, <2>4, <2>5 DEF TimeInv, CreatedInv, NewEncoder
  <2>8. OffsetInv'
    BY <1>1, <1>3, <2>1, <2>2, LenProperties DEF OffsetInv, Opens, NewEncoder
  <2>9. TimesIncrease' /\ RecordsReadable'
    BY ZenonT(30), <1>1 DEF TimesIncrease, RecordsReadable, Opens
  <2> QED
    BY Zenon, <2>6, <2>7, <2>8, <2>9
<1> QED
  BY Zenon, <1>2, <1>3

\* A write keeps every message file at least as long as it was, and the open
\* one reaches past the message.
LEMMA MsgWrittenGrows ==
    ASSUME StoreInv, NEW m \in Nat
    PROVE  /\ DOMAIN MsgWritten(m) = DOMAIN msg
           /\ MsgWritten(m) \in [DOMAIN msg -> Seq(Nat)]
           /\ \A x \in DOMAIN msg : Len(msg[x]) <= Len(MsgWritten(m)[x])
           /\ "msg" \in encoder.links =>
                  encoder.filePos + 1 <= Len(MsgWritten(m)[encoder.chunk])
<1> USE DEF StoreInv
<1>1. msg \in [DOMAIN msg -> Seq(Nat)] /\ encoder.filePos \in Nat
  BY Zenon DEF FileTypes, SaverTypes, Encoders
<1>2. \A x \in DOMAIN msg : Len(msg[x]) \in Nat
  BY Zenon, <1>1, LenProperties
<1>3. CASE "msg" \notin encoder.links
  <2>1. MsgWritten(m) = msg
    BY Zenon, <1>3 DEF MsgWritten
  <2> QED
    BY <1>1, <1>2, <1>3, <2>1
<1>4. CASE "msg" \in encoder.links
  <2> DEFINE c == encoder.chunk
             old == msg[c]
             new == IF encoder.filePos < Len(old)
                    THEN [old EXCEPT ![encoder.filePos + 1] = m]
                    ELSE Append(old, m)
  <2>1. MsgWritten(m) = [msg EXCEPT ![c] = new]
    BY Zenon, <1>4 DEF MsgWritten
  <2>2. c \in DOMAIN msg /\ old \in Seq(Nat) /\ encoder.filePos <= Len(old) /\ Len(old) \in Nat
    BY Zenon, <1>1, <1>2, <1>4 DEF OffsetInv
  <2>3. new \in Seq(Nat) /\ Len(old) <= Len(new) /\ encoder.filePos + 1 <= Len(new)
    <3>1. CASE encoder.filePos < Len(old)
      <4>1. encoder.filePos + 1 \in 1 .. Len(old)
        BY <1>1, <2>2, <3>1
      <4>2. new = [old EXCEPT ![encoder.filePos + 1] = m]
        BY Zenon, <3>1
      <4>3. new \in Seq(Nat) /\ Len(new) = Len(old)
        BY <2>2, <4>1, <4>2, ExceptSeq
      <4> QED
        BY <2>2, <4>1, <4>3
    <3>2. CASE ~(encoder.filePos < Len(old))
      <4>1. new = Append(old, m)
        BY Zenon, <3>2
      <4>2. new \in Seq(Nat) /\ Len(new) = Len(old) + 1
        BY <2>2, <4>1, AppendProperties
      <4> QED
        BY <1>1, <2>2, <4>2
    <3> QED
      BY Zenon, <3>1, <3>2
  <2> HIDE DEF new
  <2>4. DOMAIN MsgWritten(m) = DOMAIN msg /\ MsgWritten(m)[c] = new
    BY Zenon, <2>1, <2>2
  <2>5. \A x \in DOMAIN msg : x # c => MsgWritten(m)[x] = msg[x]
    BY Zenon, <2>1
  <2>6. MsgWritten(m) \in [DOMAIN msg -> Seq(Nat)]
    BY Zenon, <1>1, <2>1, <2>2, <2>3
  <2>7. ASSUME NEW x \in DOMAIN msg PROVE Len(msg[x]) <= Len(MsgWritten(m)[x])
    <3>1. CASE x = c
      BY Zenon, <2>3, <2>4, <3>1
    <3>2. CASE x # c
      BY <1>2, <2>5, <3>2
    <3> QED
      BY Zenon, <3>1, <3>2
  <2> QED
    BY Zenon, <2>3, <2>4, <2>6, <2>7
<1> QED
  BY Zenon, <1>3, <1>4

\* Records stay readable while message files grow.
LEMMA LongerReadable ==
    ASSUME StoreInv, UNCHANGED <<data, garbled>>,
           DOMAIN msg' = DOMAIN msg, msg' \in [DOMAIN msg -> Seq(Nat)],
           \A x \in DOMAIN msg : Len(msg[x]) <= Len(msg'[x])
    PROVE  RecordsReadable'
<1> USE DEF StoreInv
<1> SUFFICES ASSUME NEW x \in DOMAIN data \ garbled, x \in DOMAIN msg, NEW i \in DOMAIN data[x]
             PROVE  data[x][i].off < Len(msg'[x])
  BY Zenon DEF RecordsReadable, Opens
<1>1. data[x][i].off < Len(msg[x])
  BY Zenon DEF RecordsReadable, Opens
<1>2. data[x][i] \in Recs
  BY Zenon, ElementOfSeq, LenProperties DEF FileTypes
<1>3. Len(msg[x]) \in Nat /\ Len(msg'[x]) \in Nat /\ Len(msg[x]) <= Len(msg'[x])
  BY Zenon, LenProperties DEF FileTypes
<1> QED
  BY <1>1, <1>2, <1>3 DEF Recs

\* A message in its file: its record is to come after the one before.
LEMMA EncodeMsgStep == StoreInv /\ EncodeMsg => StoreInv'
<1> SUFFICES ASSUME StoreInv, EncodeMsg PROVE StoreInv'
  OBVIOUS
<1> USE DEF StoreInv
<1> DEFINE time == LaterTime(save.entry.time)
<1>1. save \in [at : {"encode"}, entry : Entry]
  BY DEF EncodeMsg, SaverTypes, Idle
<1>2. /\ msg' = MsgWritten(save.entry.id)
      /\ encoder' = [encoder EXCEPT !.msgPos = encoder.msgPos + 1, !.filePos = encoder.filePos + 1]
      /\ UNCHANGED <<data, prevEntryTime, garbled>>
  BY Zenon DEF EncodeMsg
<1>3. save' = [at |-> "write",
               entry |-> [save.entry EXCEPT !.time = time],
               off |-> encoder.msgPos]
  BY Zenon DEF EncodeMsg
<1>4. time \in Nat /\ prevEntryTime < time
  BY <1>1 DEF LaterTime, Entry, SaverTypes
<1> HIDE DEF time
<1>5. /\ encoder'.chunk = encoder.chunk
      /\ encoder'.links = encoder.links
      /\ encoder'.msgPos = encoder.msgPos + 1
      /\ encoder'.filePos = encoder.filePos + 1
      /\ encoder.msgPos \in Nat /\ encoder.filePos \in Nat
      /\ encoder' \in Encoders
  <2>1. encoder \in Encoders
    BY Zenon DEF SaverTypes
  <2>2. encoder.msgPos + 1 \in Nat /\ encoder.filePos + 1 \in Nat
    BY <2>1 DEF Encoders
  <2> QED
    BY Zenon, <1>2, <2>1, <2>2 DEF Encoders
<1>6. save'.at = "write" /\ save'.entry \in Entry /\ save'.entry.time = time
      /\ save'.off = encoder.msgPos
  BY Zenon, <1>1, <1>3, <1>4 DEF Entry
<1>7. /\ DOMAIN msg' = DOMAIN msg
      /\ msg' \in [DOMAIN msg -> Seq(Nat)]
      /\ \A x \in DOMAIN msg : Len(msg[x]) <= Len(msg'[x])
      /\ "msg" \in encoder.links => encoder.filePos + 1 <= Len(msg'[encoder.chunk])
  BY Zenon, <1>1, <1>2, MsgWrittenGrows DEF Entry
<1>8. FileTypes'
  BY Zenon, <1>2, <1>7 DEF FileTypes
<1>9. SaverTypes'
  BY Zenon, <1>2, <1>3, <1>5, <1>6 DEF SaverTypes
<1>10. TimeInv'
  <2>1. (save.at = "write" => prevEntryTime < save.entry.time)'
    BY Zenon, <1>2, <1>4, <1>6
  <2> QED
    BY Zenon, <1>2, <1>5, <2>1, TimesKnown
<1>11. CreatedInv'
  BY Zenon, <1>6 DEF CreatedInv
<1>12. OffsetInv'
  BY <1>5, <1>6, <1>7 DEF OffsetInv
<1>13. TimesIncrease'
  BY ZenonT(30), <1>2 DEF TimesIncrease
<1>14. RecordsReadable'
  BY Zenon, <1>2, <1>7, LongerReadable
<1> QED
  BY ZenonT(30), <1>8, <1>9, <1>10, <1>11, <1>12, <1>13, <1>14

\* The record goes behind records that are all before it in time, and points to
\* a message that is there.
LEMMA WriteRecordStep == StoreInv /\ WriteData /\ ~encoder.torn => StoreInv'
<1> SUFFICES ASSUME StoreInv, WriteData, ~encoder.torn PROVE StoreInv'
  OBVIOUS
<1> USE DEF StoreInv
<1>1. save \in [at : {"write"}, entry : Entry, off : Nat]
  BY DEF WriteData, SaverTypes, Idle
<1>2. /\ UNCHANGED <<msg, encoder, garbled>>
      /\ prevEntryTime' = save.entry.time
      /\ save' = Idle
  BY Zenon DEF WriteData, AppendOneOf
<1>3. SaverTypes'
  BY Zenon, <1>1, <1>2 DEF SaverTypes, Entry
<1>4. CreatedInv' /\ OffsetInv'
  BY Zenon, <1>2 DEF CreatedInv, OffsetInv, Idle
<1>5. CASE "data" \notin encoder.links
  <2>1. data' = data
    BY Zenon, <1>5 DEF WriteData, AppendOneOf
  <2>2. FileTypes' /\ TimeInv' /\ TimesIncrease' /\ RecordsReadable'
    BY ZenonT(30), <1>2, <1>5, <2>1 DEF FileTypes, TimeInv, TimesIncrease, RecordsReadable, Opens, Idle
  <2> QED
    BY Zenon, <1>3, <1>4, <2>2
<1>6. CASE "data" \in encoder.links
  <2> DEFINE c == encoder.chunk
             old == data[c]
             n == Len(old)
             new == Append(old, Record)
  <2>1. data' = [data EXCEPT ![c] = new]
    BY Zenon, <1>6 DEF WriteData, AppendOneOf
  <2>2. c \in DOMAIN data /\ old \in Seq(Recs) /\ n \in Nat /\ DOMAIN old = 1 .. n
    BY Zenon, <1>6, LenProperties DEF TimeInv, FileTypes
  <2>3. Record \in Recs /\ Record.time = save.entry.time /\ Record.off = save.off
    BY Zenon, <1>1 DEF Record, Recs, Entry
  <2>4. /\ new \in Seq(Recs)
        /\ DOMAIN new = 1 .. n + 1
        /\ new[n + 1] = Record
        /\ \A i \in 1 .. n : new[i] = old[i]
    BY <2>2, <2>3, AppendProperties, LenProperties
  <2> HIDE DEF new
  <2>5. /\ DOMAIN data' = DOMAIN data
        /\ data'[c] = new
        /\ \A x \in DOMAIN data : x # c => data'[x] = data[x]
    BY Zenon, <2>1, <2>2
  <2>6. FileTypes'
    <3>1. data' \in [DOMAIN data' -> Seq(Recs)]
      BY Zenon, <2>1, <2>4, <2>5 DEF FileTypes
    <3> QED
      BY Zenon, <1>2, <3>1 DEF FileTypes
  <2>7. c \notin garbled =>
            \A i \in 1 .. n : old[i].time \in Nat /\ old[i].time < save.entry.time
    <3> SUFFICES ASSUME c \notin garbled, NEW i \in 1 .. n
                 PROVE  old[i].time \in Nat /\ old[i].time < save.entry.time
      OBVIOUS
    <3>1. old[i] \in Recs
      BY Zenon, <2>2, ElementOfSeq
    <3>2. old[i].time <= prevEntryTime /\ prevEntryTime < save.entry.time
      BY Zenon, <1>1, <1>6, <2>2 DEF TimeInv
    <3> QED
      BY <1>1, <3>1, <3>2 DEF Recs, SaverTypes, Entry
  <2>8. c \notin garbled => \A i \in 1 .. n + 1 : new[i].time <= save.entry.time
    <3> SUFFICES ASSUME c \notin garbled
                 PROVE  \A i \in 1 .. n + 1 : new[i].time <= save.entry.time
      OBVIOUS
    <3>1. save.entry.time \in Nat
      BY Zenon, <1>1 DEF Entry
    <3>2. \A i \in 1 .. n : new[i].time \in Nat /\ new[i].time < save.entry.time
      BY Zenon, <2>4, <2>7
    <3>3. new[n + 1].time = save.entry.time
      BY Zenon, <2>3, <2>4
    <3> HIDE DEF n, old
    <3> QED
      BY <2>2, <3>1, <3>2, <3>3
  <2>9. TimeInv'
    BY Zenon, <1>2, <2>2, <2>4, <2>5, <2>8 DEF TimeInv, Idle
  <2>10. TimesIncrease'
    <3> SUFFICES ASSUME NEW x \in DOMAIN data, x \notin garbled,
                        NEW i \in DOMAIN data'[x], NEW j \in DOMAIN data'[x], i < j
                 PROVE  data'[x][i].time < data'[x][j].time
      BY Zenon, <1>2, <2>5 DEF TimesIncrease
    <3>1. CASE x # c
      BY Zenon, <2>5, <3>1 DEF TimesIncrease
    <3>2. CASE x = c
      <4>1. i \in 1 .. n + 1 /\ j \in 1 .. n + 1 /\ data'[x] = new
        BY Zenon, <2>4, <2>5, <3>2
      <4>2. CASE j = n + 1
        <5>1. i \in 1 .. n
          BY <2>2, <4>1, <4>2
        <5> QED
          BY Zenon, <2>3, <2>4, <2>7, <3>2, <4>1, <4>2, <5>1
      <4>3. CASE j # n + 1
        <5>1. i \in 1 .. n /\ j \in 1 .. n
          BY <2>2, <4>1, <4>3
        <5>2. old[i].time < old[j].time
          BY Zenon, <2>2, <3>2, <5>1 DEF TimesIncrease
        <5> QED
          BY Zenon, <2>4, <4>1, <5>1, <5>2
      <4> QED
        BY Zenon, <4>2, <4>3
    <3> QED
      BY Zenon, <3>1, <3>2
  <2>11. RecordsReadable'
    <3> SUFFICES ASSUME NEW x \in DOMAIN data \ garbled, x \in DOMAIN msg, NEW i \in DOMAIN data'[x]
                 PROVE  data'[x][i].off < Len(msg[x])
      BY ZenonT(30), <1>2, <2>5 DEF RecordsReadable, Opens
    <3>1. CASE x # c
      BY Zenon, <2>5, <3>1 DEF RecordsReadable, Opens
    <3>2. CASE x = c /\ i \in 1 .. n
      <4>1. old[i].off < Len(msg[c])
        BY ZenonT(30), <2>2, <3>2 DEF RecordsReadable, Opens
      <4> QED
        BY ZenonT(30), <2>4, <2>5, <3>2, <4>1
    <3>3. CASE x = c /\ i = n + 1
      <4>1. /\ save.off < encoder.msgPos
            /\ encoder.msgPos <= encoder.filePos
            /\ encoder.filePos <= Len(msg[c])
        BY ZenonT(30), <1>1, <1>6, <3>3 DEF OffsetInv
      <4>2. /\ save.off \in Nat /\ encoder.msgPos \in Nat /\ encoder.filePos \in Nat
            /\ Len(msg[c]) \in Nat
        BY ZenonT(30), <1>1, <3>3, LenProperties DEF SaverTypes, FileTypes, Encoders
      <4>3. data'[x][i] = Record
        BY Zenon, <2>4, <2>5, <3>3
      <4> QED
        BY <2>3, <3>3, <4>1, <4>2, <4>3
    <3>4. x = c => i \in 1 .. n \/ i = n + 1
      BY <2>2, <2>4, <2>5
    <3> QED
      BY ZenonT(30), <3>1, <3>2, <3>3, <3>4
  <2> QED
    BY Zenon, <1>3, <1>4, <2>6, <2>9, <2>10, <2>11
<1> QED
  BY Zenon, <1>5, <1>6

\* Behind a record that was cut short nothing is promised of the chunk.
LEMMA GarbledStep ==
    ASSUME StoreInv, save.at = "write", encoder.torn, AppendOneOf(Garbled),
           msg' = msg, save' = Idle, encoder' = encoder,
           prevEntryTime' \in {prevEntryTime, save.entry.time}
    PROVE  StoreInv'
<1> USE DEF StoreInv
<1>1. save \in [at : {"write"}, entry : Entry, off : Nat]
  BY DEF SaverTypes, Idle
<1>2. SaverTypes'
  BY Zenon, <1>1 DEF SaverTypes, Entry
<1>3. CreatedInv' /\ OffsetInv'
  BY Zenon DEF CreatedInv, OffsetInv, Idle
<1>4. save.entry.time \in Nat /\ prevEntryTime \in Nat /\ prevEntryTime < save.entry.time
  BY Zenon, <1>1 DEF SaverTypes, Entry, TimeInv
<1>5. CASE "data" \notin encoder.links
  <2>1. data' = data /\ garbled' = garbled
    BY Zenon, <1>5 DEF AppendOneOf
  <2>2. FileTypes' /\ TimeInv' /\ TimesIncrease' /\ RecordsReadable'
    BY ZenonT(30), <1>5, <2>1
       DEF FileTypes, TimeInv, TimesIncrease, RecordsReadable, Opens, Idle
  <2> QED
    BY Zenon, <1>2, <1>3, <2>2
<1>6. CASE "data" \in encoder.links
  <2> DEFINE c == encoder.chunk
  <2>1. PICK r \in Garbled : data' = [data EXCEPT ![c] = Append(data[c], r)]
    BY Zenon, <1>6 DEF AppendOneOf
  <2>2. garbled' = garbled \cup {c}
    BY Zenon, <1>6 DEF AppendOneOf
  <2>3. r \in Recs
    BY <1>1, <1>4 DEF Garbled, Recs, FarOffset, Entry
  <2>4. c \in DOMAIN data /\ data[c] \in Seq(Recs)
    BY Zenon, <1>6 DEF TimeInv, FileTypes
  <2>5. Append(data[c], r) \in Seq(Recs)
    BY Zenon, <2>3, <2>4, AppendProperties
  <2>6. DOMAIN data' = DOMAIN data /\ \A x \in DOMAIN data : x # c => data'[x] = data[x]
    BY Zenon, <2>1, <2>4
  <2>7. FileTypes'
    BY Zenon, <2>1, <2>5, <2>6 DEF FileTypes
  <2>8. TimeInv'
    BY Zenon, <2>2, <2>4, <2>6 DEF TimeInv, Idle
  <2>9. TimesIncrease' /\ RecordsReadable'
    BY ZenonT(30), <2>2, <2>6 DEF TimesIncrease, RecordsReadable, Opens
  <2> QED
    BY Zenon, <1>2, <1>3, <2>7, <2>8, <2>9
<1> QED
  BY Zenon, <1>5, <1>6

LEMMA WriteDataStep == StoreInv /\ WriteData => StoreInv'
<1>1. ASSUME StoreInv, WriteData, encoder.torn PROVE StoreInv'
  BY Zenon, <1>1, GarbledStep DEF WriteData
<1> QED
  BY Zenon, <1>1, WriteRecordStep

\* A change of torn alone.
LEMMA TornStep ==
    ASSUME StoreInv, encoder' = [encoder EXCEPT !.torn = TRUE],
           UNCHANGED <<data, msg, prevEntryTime, garbled>>, save' = Idle
    PROVE  StoreInv'
<1> USE DEF StoreInv
<1>1. encoder \in Encoders
  BY Zenon DEF SaverTypes
<1>2. /\ encoder' \in Encoders
      /\ encoder'.chunk = encoder.chunk
      /\ encoder'.links = encoder.links
      /\ encoder'.msgPos = encoder.msgPos
      /\ encoder'.filePos = encoder.filePos
  BY Zenon, <1>1 DEF Encoders
<1>3. FileTypes' /\ SaverTypes'
  BY Zenon, <1>2 DEF FileTypes, SaverTypes
<1>4. TimeInv'
  BY Zenon, <1>2, TimesKnown DEF Idle
<1>5. CreatedInv' /\ OffsetInv'
  BY ZenonT(30), <1>2 DEF CreatedInv, OffsetInv, Idle
<1>6. TimesIncrease' /\ RecordsReadable'
  BY ZenonT(30) DEF TimesIncrease, RecordsReadable, Opens
<1> QED
  BY Zenon, <1>3, <1>4, <1>5, <1>6

LEMMA RecordCutShortStep == StoreInv /\ RecordCutShort => StoreInv'
<1> SUFFICES ASSUME StoreInv, RecordCutShort PROVE StoreInv'
  OBVIOUS
<1>1. CASE UNCHANGED <<data, garbled>>
  BY Zenon, <1>1, TornStep DEF RecordCutShort
<1>2. CASE encoder.torn /\ AppendOneOf(Garbled)
  <2>1. encoder \in Encoders
    BY Zenon DEF StoreInv, SaverTypes
  <2>2. encoder' = encoder
    BY <1>2, <2>1 DEF RecordCutShort, Encoders
  <2> QED
    BY Zenon, <1>2, <2>2, GarbledStep DEF RecordCutShort
<1> QED
  BY Zenon, <1>1, <1>2 DEF RecordCutShort

\* Part of a message moves the file's offset and not the encoder's position.
LEMMA MsgCutShortStep == StoreInv /\ MsgCutShort => StoreInv'
<1> SUFFICES ASSUME StoreInv, MsgCutShort PROVE StoreInv'
  OBVIOUS
<1> USE DEF StoreInv
<1>1. /\ msg' = MsgWritten(CutMessage)
      /\ encoder' = [encoder EXCEPT !.filePos = encoder.filePos + 1]
      /\ UNCHANGED <<data, prevEntryTime, garbled>>
      /\ save' = Idle
  BY Zenon DEF MsgCutShort
<1>2. encoder \in Encoders
  BY Zenon DEF SaverTypes
<1>3. encoder.filePos \in Nat /\ encoder.filePos + 1 \in Nat /\ encoder.msgPos \in Nat
  BY <1>2 DEF Encoders
<1>4. /\ encoder' \in Encoders
      /\ encoder'.chunk = encoder.chunk
      /\ encoder'.links = encoder.links
      /\ encoder'.msgPos = encoder.msgPos
      /\ encoder'.filePos = encoder.filePos + 1
  BY Zenon, <1>1, <1>2, <1>3 DEF Encoders
<1>5. CutMessage \in Nat
  BY DEF CutMessage
<1>6. /\ DOMAIN msg' = DOMAIN msg
      /\ msg' \in [DOMAIN msg -> Seq(Nat)]
      /\ \A x \in DOMAIN msg : Len(msg[x]) <= Len(msg'[x])
      /\ "msg" \in encoder.links => encoder.filePos + 1 <= Len(msg'[encoder.chunk])
  BY Zenon, <1>1, <1>5, MsgWrittenGrows
<1>7. FileTypes' /\ SaverTypes'
  BY Zenon, <1>1, <1>4, <1>6 DEF FileTypes, SaverTypes
<1>8. TimeInv' /\ CreatedInv'
  BY Zenon, <1>1, <1>4, TimesKnown DEF CreatedInv, Idle
<1>9. OffsetInv'
  BY <1>1, <1>3, <1>4, <1>6 DEF OffsetInv, Idle
<1>10. TimesIncrease'
  BY ZenonT(30), <1>1 DEF TimesIncrease
<1>11. RecordsReadable'
  BY Zenon, <1>1, <1>6, LongerReadable
<1> QED
  BY ZenonT(30), <1>7, <1>8, <1>9, <1>10, <1>11

\* An entry that is given up leaves its message behind, and nothing else.
LEMMA EncodeFailsStep == StoreInv /\ EncodeFails => StoreInv'
<1> SUFFICES ASSUME StoreInv, EncodeFails PROVE StoreInv'
  OBVIOUS
<1> USE DEF StoreInv
<1>1. UNCHANGED <<data, msg, encoder, prevEntryTime, garbled>> /\ save' = Idle
  BY Zenon DEF EncodeFails
<1>2. FileTypes' /\ SaverTypes'
  BY Zenon, <1>1 DEF FileTypes, SaverTypes
<1>3. TimeInv' /\ CreatedInv' /\ OffsetInv'
  BY Zenon, <1>1 DEF TimeInv, CreatedInv, OffsetInv, Idle
<1>4. TimesIncrease' /\ RecordsReadable'
  BY ZenonT(30), <1>1 DEF TimesIncrease, RecordsReadable, Opens
<1> QED
  BY Zenon, <1>2, <1>3, <1>4

\* saveLog, whatever it does with the entry.
LEMMA SaveStepKeeps == StoreInv /\ SaveStep => StoreInv'
  BY Zenon, SaveToOpenChunkStep, SaveCreatesDataStep, SaveOpensCreatedStep, SaveReopensStep,
     OpenFailsStep, EncodeMsgStep, WriteDataStep, EncodeFailsStep, MsgCutShortStep,
     RecordCutShortStep
     DEF SaveStep

\* Purge takes the records of a chunk first; an encoder open on it loses them.
LEMMA PurgeDataStep == StoreInv /\ PurgeData => StoreInv'
<1> SUFFICES ASSUME StoreInv, PurgeData PROVE StoreInv'
  OBVIOUS
<1> USE DEF StoreInv
<1>1. PICK c : /\ data' = Restrict(data, DOMAIN data \ {c})
               /\ encoder' = IF encoder.chunk = c
                             THEN [encoder EXCEPT !.links = encoder.links \ {"data"}]
                             ELSE encoder
  BY ZenonT(30) DEF PurgeData
<1>2. UNCHANGED <<msg, prevEntryTime, save, garbled>>
  BY Zenon DEF PurgeData
<1>3. /\ DOMAIN data' = DOMAIN data \ {c}
      /\ \A x \in DOMAIN data' : data'[x] = data[x]
      /\ data' = [x \in DOMAIN data' |-> data[x]]
  BY Zenon, <1>1 DEF Restrict
<1>4. /\ encoder' \in Encoders
      /\ encoder'.chunk = encoder.chunk
      /\ encoder'.msgPos = encoder.msgPos /\ encoder'.filePos = encoder.filePos
      /\ encoder'.links \subseteq encoder.links
      /\ "msg" \in encoder.links => "msg" \in encoder'.links
      /\ encoder.chunk = c => "data" \notin encoder'.links
  BY Zenon, <1>1 DEF SaverTypes, Encoders
<1>5. FileTypes'
  BY Zenon, <1>2, <1>3 DEF FileTypes
<1>6. SaverTypes'
  BY Zenon, <1>2, <1>4 DEF SaverTypes
<1>7. TimeInv' /\ OffsetInv'
  BY ZenonT(30), <1>2, <1>3, <1>4 DEF TimeInv, OffsetInv
<1>8. CreatedInv'
  BY Zenon, <1>2, <1>3, <1>4 DEF CreatedInv
<1>9. TimesIncrease' /\ RecordsReadable'
  BY Zenon, <1>2, <1>3 DEF TimesIncrease, RecordsReadable, Opens
<1> QED
  BY Zenon, <1>5, <1>6, <1>7, <1>8, <1>9

\* Then its messages.
LEMMA PurgeMsgStep == StoreInv /\ PurgeMsg => StoreInv'
<1> SUFFICES ASSUME StoreInv, PurgeMsg PROVE StoreInv'
  OBVIOUS
<1> USE DEF StoreInv
<1>1. /\ msg' = Restrict(msg, DOMAIN msg \ {purging})
      /\ encoder' = IF encoder.chunk = purging
                    THEN [encoder EXCEPT !.links = encoder.links \ {"msg"}]
                    ELSE encoder
      /\ UNCHANGED <<data, prevEntryTime, save, garbled>>
  BY Zenon DEF PurgeMsg
<1>2. /\ DOMAIN msg' = DOMAIN msg \ {purging}
      /\ \A x \in DOMAIN msg' : msg'[x] = msg[x]
      /\ msg' = [x \in DOMAIN msg' |-> msg[x]]
  BY Zenon, <1>1 DEF Restrict
<1>3. /\ encoder' \in Encoders
      /\ encoder'.chunk = encoder.chunk
      /\ encoder'.msgPos = encoder.msgPos /\ encoder'.filePos = encoder.filePos
      /\ encoder'.links \subseteq encoder.links
      /\ "msg" \in encoder.links /\ encoder.chunk # purging => "msg" \in encoder'.links
      /\ encoder.chunk = purging => "msg" \notin encoder'.links
  BY Zenon, <1>1 DEF SaverTypes, Encoders
<1>4. FileTypes'
  BY ZenonT(30), <1>1, <1>2 DEF FileTypes
<1>5. SaverTypes'
  BY Zenon, <1>1, <1>3 DEF SaverTypes
<1>6. TimeInv' /\ CreatedInv'
  <2>1. (save.at = "write" => prevEntryTime < save.entry.time)'
    BY Zenon, <1>1 DEF TimeInv
  <2>2. TimeInv'
    BY Zenon, <1>1, <1>3, <2>1, TimesKnown
  <2>3. CreatedInv'
    BY ZenonT(30), <1>1, <1>3 DEF CreatedInv
  <2> QED
    BY Zenon, <2>2, <2>3
<1>7. OffsetInv'
  BY ZenonT(30), <1>1, <1>2, <1>3 DEF OffsetInv
<1>8. TimesIncrease' /\ RecordsReadable'
  BY ZenonT(30), <1>1, <1>2 DEF TimesIncrease, RecordsReadable, Opens
<1> QED
  BY ZenonT(30), <1>4, <1>5, <1>6, <1>7, <1>8

\* A new process starts without an encoder.
LEMMA StoreRestartsStep == StoreInv /\ StoreRestarts => StoreInv'
<1>1. StoreRestarts => SaveFails /\ UNCHANGED <<data, msg, garbled>>
  BY Zenon DEF StoreRestarts, SaveFails
<1> QED
  BY Zenon, <1>1, SaveFailsStep

\* SaveLogs begins to save an entry once the one before is done.
LEMMA StartSaveStep ==
    ASSUME StoreInv, NEW entry \in Entry, StartSave(entry)
    PROVE  StoreInv'
<1> USE DEF StoreInv
<1>1. /\ UNCHANGED <<data, msg, encoder, prevEntryTime, garbled>>
      /\ save' = [at |-> "open", entry |-> entry]
  BY Zenon DEF StartSave
<1>2. FileTypes' /\ SaverTypes'
  BY Zenon, <1>1 DEF FileTypes, SaverTypes
<1>3. TimeInv' /\ CreatedInv' /\ OffsetInv'
  BY Zenon, <1>1 DEF TimeInv, CreatedInv, OffsetInv
<1>4. TimesIncrease' /\ RecordsReadable'
  BY ZenonT(30), <1>1 DEF TimesIncrease, RecordsReadable, Opens
<1> QED
  BY Zenon, <1>2, <1>3, <1>4

-----------------------------------------------------------------------------

\* The steps of the logger that change the entries under way.
LEMMA EntryStep == IInv /\ [Next]_vars => EntryInv'
<1> SUFFICES ASSUME EntryInv, [Next]_vars PROVE EntryInv'
  BY Zenon DEF IInv
<1> USE DEF EntryInv
<1>0. NoEntry \in Entry
  BY Zenon DEF NoEntry, Entry
<1>1. CASE UNCHANGED <<now, logged, call, logger>>
  BY Zenon, <1>1
<1>2. CASE Tick
  BY <1>2 DEF Tick
<1>3. ASSUME NEW c \in Callers, Log(c) PROVE EntryInv'
  BY <1>3 DEF Log, Entry
<1>4. ASSUME NEW c \in Callers, LogCanceled(c) PROVE EntryInv'
  BY Zenon, <1>0, <1>4 DEF LogCanceled
<1>5. ASSUME NEW c \in Callers, Feed(c) PROVE EntryInv'
  BY Zenon, <1>0, <1>5 DEF Feed, SendTo, Select
<1>6. ASSUME NEW s \in Subscribers, Send(s) \/ SendToUnsubscribing(s) PROVE EntryInv'
  BY <1>6 DEF Send, SendToUnsubscribing, Sending, SendTo, Select
<1>7. CASE Exit
  BY Zenon, <1>7 DEF Exit
<1>8. CASE LoggerRestarts
  BY Zenon, <1>0, <1>8 DEF LoggerRestarts, Select
<1>9. CASE Environment
  BY Zenon, <1>1, <1>2, <1>3, <1>4, <1>9 DEF Environment, Stop, Subscribe
<1>10. CASE LoggerSteps
  BY Zenon, <1>1, <1>5, <1>6, <1>7, <1>10 DEF LoggerSteps, LoggerStep, AcceptSub, AcceptUnsub
<1>11. CASE SaverStep
  BY Zenon, <1>1, <1>6, <1>11, StoreAssumption
     DEF SaverStep, SaverTakes, SaverTakesZero, SaverSaves, Subscribe, Handled,
         SubscriberStep, SubscribeCanceled, SeeDone, loggerVars
<1>12. ASSUME NEW s \in Subscribers, ReaderStep(s) PROVE EntryInv'
  BY Zenon, <1>1, <1>6, <1>12 DEF ReaderStep, Handled, SubscriberStep, SubscribeCanceled, SeeDone
<1>13. CASE Purge
  BY Zenon, <1>1, <1>13 DEF Purge, loggerVars
<1>14. CASE Restart
  BY Zenon, <1>8, <1>14 DEF Restart
<1>15. CASE UNCHANGED vars
  BY Zenon, <1>1, <1>15 DEF vars, loggerVars
<1> QED
  BY Zenon, <1>9, <1>10, <1>11, <1>12, <1>13, <1>14, <1>15 DEF Next

\* Every step keeps what the store relies on.
LEMMA StoreStep == IInv /\ [Next]_vars => StoreInv'
<1> SUFFICES ASSUME EntryInv, StoreInv, [Next]_vars PROVE StoreInv'
  BY Zenon DEF IInv
<1>1. CASE UNCHANGED storeVars
  BY Zenon, <1>1, StoreUnchanged
<1>2. CASE SaverTakes
  <2>1. logger.entry \in Entry /\ StartSave(logger.entry)
    BY Zenon, <1>2 DEF SaverTakes, Send, Sending, EntryInv
  <2> QED
    BY Zenon, <2>1, StartSaveStep
<1>3. CASE SaverTakesZero
  <2>1. NoEntry \in Entry /\ StartSave(NoEntry)
    BY Zenon, <1>3 DEF SaverTakesZero, NoEntry, Entry
  <2> QED
    BY Zenon, <2>1, StartSaveStep
<1>4. CASE SaverSaves
  BY Zenon, <1>4, SaveStepKeeps DEF SaverSaves
<1>5. CASE SaverStep
  BY ZenonT(30), <1>1, <1>2, <1>3, <1>4, <1>5 DEF SaverStep
<1>6. CASE Purge
  BY Zenon, <1>6, PurgeDataStep, PurgeMsgStep DEF Purge
<1>7. CASE Restart
  BY Zenon, <1>7, StoreRestartsStep DEF Restart
<1>8. CASE Environment \/ LoggerSteps \/ \E s \in Subscribers \ {Store} : ReaderStep(s)
  BY Zenon, <1>1, <1>8 DEF Environment, LoggerSteps, ReaderStep
<1>9. CASE UNCHANGED vars
  BY Zenon, <1>1, <1>9 DEF vars
<1> QED
  BY Zenon, <1>5, <1>6, <1>7, <1>8, <1>9 DEF Next

\* The inductive invariant holds in every state.
THEOREM StoreInvariant == Spec => []IInv
<1>1. IInv /\ [Next]_vars => IInv'
  BY Zenon, EntryStep, StoreStep DEF IInv
<1> QED
  BY <1>1, InitIInv, PTL DEF Spec

\* The records of a chunk are in strictly increasing order of time, which is
\* what the binary search of Query needs (saveLog, newChunkEncoder, search).
THEOREM TimesAlwaysIncrease == Spec => []TimesIncrease
<1>1. IInv => TimesIncrease
  BY Zenon DEF IInv, StoreInv
<1> QED
  BY <1>1, StoreInvariant, PTL

\* A record points into its message file, whenever the process was killed
\* (encodeEntry writes the message first, purge removes the records first).
THEOREM RecordsAlwaysReadable == Spec => []RecordsReadable
<1>1. IInv => RecordsReadable
  BY Zenon DEF IInv, StoreInv
<1> QED
  BY <1>1, StoreInvariant, PTL

\* A chunk can be searched by time and what is found can be read, wherever the
\* process was killed, for any number of callers, subscribers, restarts and purges.
THEOREM ChunksAlwaysSound == Spec => []ChunksSound
<1>1. TimesIncrease /\ RecordsReadable => ChunksSound
  BY Zenon DEF ChunksSound
<1> QED
  BY <1>1, TimesAlwaysIncrease, RecordsAlwaysReadable, PTL

-----------------------------------------------------------------------------
(* The messages: an encoder that made its message file, with every write whole, *)
(* is at the end of it, and that is where it takes itself to be.               *)

MessageInv ==
    "msg" \in encoder.links /\ encoder.chunk \notin reopened \cup shifted =>
        /\ encoder.filePos = encoder.msgPos
        /\ Len(msg[encoder.chunk]) = encoder.msgPos
        /\ save.at = "write" => msg[encoder.chunk][save.off + 1] = save.entry.id

Exempt == reopened \cup shifted \cup garbled

Reads(c) ==
    Opens(c) => \A i \in DOMAIN data[c] :
                    /\ data[c][i].off < Len(msg[c])
                    /\ msg[c][data[c][i].off + 1] = data[c][i].id

LEMMA IntactIsReads == MessagesIntact <=> \A c \in DOMAIN data \ Exempt : Reads(c)
  BY Zenon DEF MessagesIntact, ReadsOwnMessage, Exempt, Reads

\* A step that touches the files of one chunk only.
LEMMA IntactUnless ==
    ASSUME MessagesIntact, NEW c, Exempt \subseteq Exempt',
           \A x \in DOMAIN data' : x # c => x \in DOMAIN data /\ data'[x] = data[x],
           \A x \in DOMAIN msg' : x # c => x \in DOMAIN msg /\ msg'[x] = msg[x],
           c \in DOMAIN data' /\ c \notin Exempt' => Reads(c)'
    PROVE  MessagesIntact'
<1> SUFFICES ASSUME NEW x \in DOMAIN data' \ Exempt' PROVE Reads(x)'
  BY Zenon DEF MessagesIntact, ReadsOwnMessage, Exempt, Reads
<1>1. CASE x = c
  BY Zenon, <1>1
<1>2. CASE x # c
  <2>1. x \in DOMAIN data /\ x \notin Exempt /\ data'[x] = data[x]
    BY Zenon, <1>2
  <2>2. Reads(x)
    BY Zenon, <2>1, IntactIsReads
  <2>3. Opens(x)' => Opens(x) /\ msg'[x] = msg[x]
    BY Zenon, <1>2 DEF Opens
  <2> QED
    BY Zenon, <2>1, <2>2, <2>3 DEF Reads
<1> QED
  BY Zenon, <1>1, <1>2

\* The files as they were.
LEMMA IntactUnchanged ==
    ASSUME MessagesIntact, UNCHANGED <<data, msg, reopened, shifted, garbled>>
    PROVE  MessagesIntact'
  BY Zenon DEF MessagesIntact, ReadsOwnMessage, Opens

\* Steps that leave the files alone and the encoder, but for torn, or close it.
LEMMA MessagesKept ==
    ASSUME MessagesIntact, MessageInv,
           UNCHANGED <<data, msg, reopened, shifted, garbled>>,
           \/ encoder'.links = {}
           \/ /\ encoder'.links \subseteq encoder.links /\ encoder'.chunk = encoder.chunk
              /\ encoder'.msgPos = encoder.msgPos /\ encoder'.filePos = encoder.filePos
              /\ save'.at # "write"
    PROVE  MessagesIntact' /\ MessageInv'
<1>1. MessagesIntact'
  BY Zenon, IntactUnchanged
<1>2. MessageInv'
  BY Zenon DEF MessageInv
<1> QED
  BY Zenon, <1>1, <1>2

LEMMA MessagesSaveFails ==
    ASSUME MessagesIntact, MessageInv, SaveFails,
           UNCHANGED <<data, msg, reopened, shifted, garbled>>
    PROVE  MessagesIntact' /\ MessageInv'
<1>1. encoder'.links = {}
  BY Zenon DEF SaveFails, NilEncoder
<1> QED
  BY Zenon, <1>1, MessagesKept

LEMMA MessagesCreateData ==
    ASSUME StoreInv, MessagesIntact, MessageInv, SaveCreatesData
    PROVE  MessagesIntact' /\ MessageInv'
<1>0. PICK c : c = timeToID(save.entry.time)
  BY Zenon
<1>1. /\ data' = AddFile(data, c)
      /\ c \notin DOMAIN data
      /\ encoder' = NilEncoder
      /\ UNCHANGED <<msg, reopened, shifted, garbled>>
  BY Zenon, <1>0 DEF SaveCreatesData
<1>2. /\ DOMAIN data' = DOMAIN data \cup {c}
      /\ data'[c] = <<>>
      /\ \A x \in DOMAIN data : data'[x] = data[x]
  BY Zenon, <1>1 DEF AddFile
<1>3. DOMAIN data'[c] = {}
  BY <1>2
<1>4. Reads(c)'
  BY Zenon, <1>3 DEF Reads
<1>5. MessagesIntact'
  BY Zenon, <1>1, <1>2, <1>4, IntactUnless DEF Exempt
<1>6. MessageInv'
  BY Zenon, <1>1 DEF MessageInv, NilEncoder
<1> QED
  BY Zenon, <1>5, <1>6

LEMMA MessagesOpenCreated ==
    ASSUME StoreInv, MessagesIntact, MessageInv, SaveOpensCreated
    PROVE  MessagesIntact' /\ MessageInv'
<1>0. PICK c : c = timeToID(save.entry.time)
  BY Zenon
<1>1. CASE c \notin DOMAIN data
  <2>1. SaveFails /\ UNCHANGED <<data, msg, reopened, shifted, garbled>>
    BY Zenon, <1>0, <1>1 DEF SaveOpensCreated
  <2> QED
    BY Zenon, <2>1, MessagesSaveFails
<1>2. CASE c \in DOMAIN data
  <2>1. /\ msg' = IF c \in DOMAIN msg THEN msg ELSE AddFile(msg, c)
        /\ encoder' = NewEncoder(c)
        /\ save' = [save EXCEPT !.at = "encode"]
        /\ reopened' = reopened \cup ({c} \cap DOMAIN msg)
        /\ UNCHANGED <<data, shifted, garbled>>
    BY Zenon, <1>0, <1>2 DEF SaveOpensCreated
  <2>2. data[c] = <<>>
    BY Zenon, <1>0, <1>2 DEF SaveOpensCreated, StoreInv, CreatedInv
  <2>3. DOMAIN data'[c] = {}
    BY <2>1, <2>2
    <2>4. \A x \in DOMAIN msg' : x # c => x \in DOMAIN msg /\ msg'[x] = msg[x]
    BY Zenon, <2>1 DEF AddFile
  <2>5. MessagesIntact'
    <3>1. Reads(c)'
      BY Zenon, <2>3 DEF Reads
    <3>2. Exempt \subseteq Exempt'
      BY Zenon, <2>1 DEF Exempt
    <3> QED
      BY Zenon, <2>1, <2>4, <3>1, <3>2, IntactUnless
  <2>6. encoder'.chunk = c /\ encoder'.msgPos = 0 /\ encoder'.filePos = 0
    BY Zenon, <2>1 DEF NewEncoder
  <2>7. save'.at # "write"
    BY <2>1 DEF StoreInv, SaverTypes, SaveOpensCreated, Idle
  <2>8. c \notin reopened' => Len(msg'[c]) = 0
    <3>1. c \notin reopened' => msg'[c] = <<>>
      BY Zenon, <2>1 DEF AddFile
    <3> QED
      BY <3>1
  <2>9. MessageInv'
    BY Zenon, <2>6, <2>7, <2>8 DEF MessageInv
  <2> QED
    BY Zenon, <2>5, <2>9
<1> QED
  BY Zenon, <1>1, <1>2

LEMMA MessagesReopen ==
    ASSUME StoreInv, MessagesIntact, MessageInv, SaveReopens
    PROVE  MessagesIntact' /\ MessageInv'
<1>0. PICK c : c = timeToID(save.entry.time)
  BY Zenon
<1>1. CASE ~(Opens(c) /\ data[c] # <<>> /\ Readable(c, Len(data[c]) - 1))
  <2>1. SaveFails /\ UNCHANGED <<data, msg, reopened, shifted, garbled>>
    BY Zenon, <1>0, <1>1 DEF SaveReopens
  <2> QED
    BY Zenon, <2>1, MessagesSaveFails
<1>2. CASE Opens(c) /\ data[c] # <<>> /\ Readable(c, Len(data[c]) - 1)
  <2>1. /\ encoder' = NewEncoder(c)
        /\ reopened' = reopened \cup {c}
        /\ UNCHANGED <<data, msg, shifted, garbled>>
    BY Zenon, <1>0, <1>2 DEF SaveReopens
    <2>2. encoder'.chunk \in reopened' /\ Exempt \subseteq Exempt' /\ c \in Exempt'
    BY Zenon, <2>1 DEF NewEncoder, Exempt
  <2>3. MessagesIntact'
    BY Zenon, <2>1, <2>2, IntactUnless
  <2> QED
    BY Zenon, <2>2, <2>3 DEF MessageInv
<1> QED
  BY Zenon, <1>1, <1>2

\* The message goes to the end of its file, where the record will say it is.
LEMMA MessagesEncode ==
    ASSUME StoreInv, MessagesIntact, MessageInv, EncodeMsg
    PROVE  MessagesIntact' /\ MessageInv'
<1> USE DEF StoreInv
<1>0. PICK c : c = encoder.chunk
  BY Zenon
<1>1. /\ msg' = MsgWritten(save.entry.id)
      /\ encoder' = [encoder EXCEPT !.msgPos = encoder.msgPos + 1, !.filePos = encoder.filePos + 1]
      /\ UNCHANGED <<data, reopened, shifted, garbled>>
      /\ save' = [at |-> "write",
                  entry |-> [save.entry EXCEPT !.time = LaterTime(save.entry.time)],
                  off |-> encoder.msgPos]
  BY Zenon DEF EncodeMsg
<1>2. encoder \in Encoders /\ save.entry \in Entry
  BY DEF SaverTypes, EncodeMsg, Idle
<1>3. /\ encoder'.chunk = encoder.chunk /\ encoder'.links = encoder.links
      /\ encoder'.msgPos = encoder.msgPos + 1 /\ encoder'.filePos = encoder.filePos + 1
      /\ encoder.msgPos \in Nat /\ save.entry.id \in Nat
  BY Zenon, <1>1, <1>2 DEF Encoders, Entry
<1>4. save'.off = encoder.msgPos /\ save'.entry.id = save.entry.id
  BY Zenon, <1>1, <1>2 DEF Entry
<1>5. CASE "msg" \notin encoder.links
  <2>1. msg' = msg
    BY Zenon, <1>1, <1>5 DEF MsgWritten
  <2> QED
    BY Zenon, <1>1, <1>3, <1>5, <2>1, IntactUnchanged DEF MessageInv
<1>6. CASE "msg" \in encoder.links
  <2>1. c \in DOMAIN msg /\ msg[c] \in Seq(Nat)
    BY Zenon, <1>0, <1>6 DEF OffsetInv, FileTypes
  <2>2. DOMAIN msg' = DOMAIN msg /\ \A x \in DOMAIN msg : x # c => msg'[x] = msg[x]
    BY Zenon, <1>0, <1>1, <1>6, <2>1 DEF MsgWritten
  <2>3. CASE c \in reopened \cup shifted
    <3>1. c \in Exempt' /\ Exempt' = Exempt
      BY Zenon, <1>1, <2>3 DEF Exempt
    <3>2. MessagesIntact'
      BY Zenon, <1>1, <2>2, <3>1, IntactUnless
    <3>3. MessageInv'
      BY Zenon, <1>0, <1>1, <1>3, <2>3 DEF MessageInv
    <3> QED
      BY Zenon, <3>2, <3>3
  <2>4. CASE c \notin reopened \cup shifted
    <3> DEFINE n == Len(msg[c])
    <3>1. n = encoder.msgPos /\ encoder.filePos = n
      BY Zenon, <1>0, <1>6, <2>4 DEF MessageInv
    <3>2. ~(encoder.filePos < Len(msg[encoder.chunk]))
      BY <1>0, <1>3, <3>1
    <3>3. msg'[c] = Append(msg[c], save.entry.id)
      BY Zenon, <1>0, <1>1, <1>6, <2>1, <3>2 DEF MsgWritten
    <3>4. /\ Len(msg'[c]) = n + 1
          /\ msg'[c][n + 1] = save.entry.id
          /\ \A k \in 1 .. n : msg'[c][k] = msg[c][k]
      BY <1>3, <2>1, <3>3, AppendProperties, LenProperties
    <3>5. MessageInv'
      BY Zenon, <1>0, <1>1, <1>3, <1>4, <3>1, <3>4 DEF MessageInv
    <3>6. ASSUME c \in DOMAIN data, c \notin Exempt PROVE Reads(c)'
      <4>1. Reads(c) /\ Opens(c)
        BY Zenon, <2>1, <3>6, IntactIsReads DEF Opens
      <4> SUFFICES ASSUME NEW i \in DOMAIN data[c]
                   PROVE  /\ data[c][i].off < Len(msg'[c])
                          /\ msg'[c][data[c][i].off + 1] = data[c][i].id
        BY Zenon, <1>1 DEF Reads
      <4>2. data[c][i].off < n /\ msg[c][data[c][i].off + 1] = data[c][i].id
        BY Zenon, <4>1 DEF Reads
      <4>3. data[c][i].off \in Nat /\ n \in Nat
        <5>1. data[c] \in Seq(Recs)
          BY Zenon, <3>6 DEF FileTypes
        <5>2. data[c][i] \in Recs
          BY Zenon, <5>1, LenProperties, ElementOfSeq
        <5> QED
          BY Zenon, <2>1, <5>2, LenProperties DEF Recs
      <4>4. data[c][i].off + 1 \in 1 .. n /\ data[c][i].off < n + 1
        BY <4>2, <4>3
      <4> QED
        BY Zenon, <3>4, <4>2, <4>4
    <3>7. MessagesIntact'
      <4>1. Exempt' = Exempt
        BY Zenon, <1>1 DEF Exempt
      <4> QED
        BY Zenon, <1>1, <2>2, <3>6, <4>1, IntactUnless
    <3> QED
      BY Zenon, <3>5, <3>7
  <2> QED
    BY Zenon, <2>3, <2>4
<1> QED
  BY Zenon, <1>5, <1>6

\* The record points to the message that was written for it.
LEMMA MessagesAppend ==
    ASSUME StoreInv, MessagesIntact, MessageInv, save.at = "write",
           AppendOneOf(IF encoder.torn THEN Garbled ELSE {Record}),
           UNCHANGED <<msg, reopened, shifted>>
    PROVE  MessagesIntact'
<1> USE DEF StoreInv
<1>0. PICK c : c = encoder.chunk
  BY Zenon
<1>1. CASE "data" \notin encoder.links
  BY Zenon, <1>1, IntactUnchanged DEF AppendOneOf
<1>2. CASE "data" \in encoder.links
  <2>1. c \in DOMAIN data /\ data[c] \in Seq(Recs)
    BY Zenon, <1>0, <1>2 DEF TimeInv, FileTypes
  <2>2. /\ \A x \in DOMAIN data' : x # c => x \in DOMAIN data /\ data'[x] = data[x]
        /\ Exempt \subseteq Exempt'
    BY Zenon, <1>0, <1>2 DEF AppendOneOf, Exempt
  <2>3. CASE encoder.torn
    <3>1. c \in Exempt'
      BY Zenon, <1>0, <1>2, <2>3 DEF AppendOneOf, Exempt
    <3> QED
      BY Zenon, <2>2, <3>1, IntactUnless
  <2>4. CASE ~encoder.torn
    <3>1. data'[c] = Append(data[c], Record) /\ Exempt' = Exempt
      BY Zenon, <1>0, <1>2, <2>1, <2>4 DEF AppendOneOf, Exempt
    <3>2. save \in [at : {"write"}, entry : Entry, off : Nat]
      BY DEF SaverTypes, Idle
    <3>3. Record \in Recs /\ Record.id = save.entry.id /\ Record.off = save.off
      BY Zenon, <3>2 DEF Record, Recs, Entry
    <3> DEFINE n == Len(data[c])
    <3>4. /\ DOMAIN data'[c] = 1 .. n + 1
          /\ data'[c][n + 1] = Record
          /\ \A i \in 1 .. n : data'[c][i] = data[c][i]
          /\ n \in Nat /\ DOMAIN data[c] = 1 .. n
      BY <2>1, <3>1, <3>3, AppendProperties, LenProperties
    <3>5. ASSUME c \notin Exempt PROVE Reads(c)'
      <4> SUFFICES ASSUME Opens(c), NEW i \in 1 .. n + 1
                   PROVE  /\ data'[c][i].off < Len(msg[c])
                          /\ msg[c][data'[c][i].off + 1] = data'[c][i].id
        <5>1. Opens(c)' => Opens(c)
          BY Zenon, <2>1 DEF Opens
        <5>2. DOMAIN data'[c] = 1 .. n + 1 /\ msg' = msg
          BY Zenon, <3>4
        <5> QED
          BY ZenonT(30), <5>1, <5>2 DEF Reads
      <4>1. CASE i \in 1 .. n
        BY Zenon, <2>1, <3>4, <3>5, <4>1, IntactIsReads DEF Reads
      <4>2. CASE i = n + 1
        <5>1. /\ Len(msg[c]) = encoder.msgPos
              /\ msg[c][save.off + 1] = save.entry.id
              /\ save.off < encoder.msgPos
          BY Zenon, <1>0, <1>2, <3>5 DEF MessageInv, OffsetInv, Opens, Exempt
        <5> QED
          BY Zenon, <3>3, <3>4, <4>2, <5>1
      <4> QED
        BY <3>4, <4>1, <4>2
    <3> QED
      BY Zenon, <2>2, <3>1, <3>5, IntactUnless
  <2> QED
    BY Zenon, <2>3, <2>4
<1> QED
  BY Zenon, <1>1, <1>2

LEMMA MessagesWrite ==
    ASSUME StoreInv, MessagesIntact, MessageInv, WriteData \/ RecordCutShort
    PROVE  MessagesIntact' /\ MessageInv'
<1>1. MessagesIntact'
  <2>1. UNCHANGED <<msg, reopened, shifted>> /\ save.at = "write"
    BY Zenon DEF WriteData, RecordCutShort
  <2>2. CASE UNCHANGED <<data, garbled>>
    BY Zenon, <2>1, <2>2, IntactUnchanged
  <2>3. CASE AppendOneOf(IF encoder.torn THEN Garbled ELSE {Record})
    BY Zenon, <2>1, <2>3, MessagesAppend
  <2> QED
    BY Zenon, <2>2, <2>3 DEF WriteData, RecordCutShort
<1>2. encoder \in Encoders
  BY Zenon DEF StoreInv, SaverTypes
<1>3. /\ encoder'.links = encoder.links /\ encoder'.chunk = encoder.chunk
      /\ encoder'.msgPos = encoder.msgPos /\ encoder'.filePos = encoder.filePos
      /\ save'.at # "write"
      /\ UNCHANGED <<msg, reopened, shifted>>
  <2>1. UNCHANGED <<msg, reopened, shifted>> /\ save' = Idle
    BY Zenon DEF WriteData, RecordCutShort
  <2>2. encoder' = encoder \/ encoder' = [encoder EXCEPT !.torn = TRUE]
    BY Zenon DEF WriteData, RecordCutShort
  <2> QED
    BY Zenon, <1>2, <2>1, <2>2 DEF Encoders, Idle
<1>4. MessageInv'
  BY Zenon, <1>3 DEF MessageInv
<1> QED
  BY Zenon, <1>1, <1>4

LEMMA MessagesCut ==
    ASSUME StoreInv, MessagesIntact, MessageInv, MsgCutShort
    PROVE  MessagesIntact' /\ MessageInv'
<1>0. PICK c : c = encoder.chunk
  BY Zenon
<1>1. /\ msg' = MsgWritten(CutMessage)
      /\ encoder'.chunk = c
      /\ shifted' = shifted \cup {c}
      /\ UNCHANGED <<data, reopened, garbled>>
  BY Zenon, <1>0 DEF MsgCutShort, StoreInv, SaverTypes, Encoders
<1>2. \A x \in DOMAIN msg' : x # c => x \in DOMAIN msg /\ msg'[x] = msg[x]
  BY Zenon, <1>0, <1>1 DEF MsgWritten
<1>3. Exempt \subseteq Exempt' /\ c \in Exempt'
  BY Zenon, <1>1 DEF Exempt
<1>4. MessagesIntact'
  BY Zenon, <1>1, <1>2, <1>3, IntactUnless
<1>5. MessageInv'
  BY Zenon, <1>1 DEF MessageInv
<1> QED
  BY Zenon, <1>4, <1>5

LEMMA MessagesPurge ==
    ASSUME StoreInv, MessagesIntact, MessageInv, PurgeData \/ PurgeMsg
    PROVE  MessagesIntact' /\ MessageInv'
<1> USE DEF StoreInv
<1>1. /\ \A x \in DOMAIN data' : x \in DOMAIN data /\ data'[x] = data[x]
      /\ \A x \in DOMAIN msg' : x \in DOMAIN msg /\ msg'[x] = msg[x]
      /\ UNCHANGED <<save, reopened, shifted, garbled>>
  BY Zenon DEF PurgeData, PurgeMsg, Restrict
<1>2. MessagesIntact'
  <2> SUFFICES ASSUME NEW x \in DOMAIN data' \ Exempt' PROVE Reads(x)'
    BY Zenon DEF MessagesIntact, ReadsOwnMessage, Exempt, Reads
  <2>1. Reads(x) /\ data'[x] = data[x]
    BY Zenon, <1>1, IntactIsReads DEF Exempt
  <2>2. Opens(x)' => Opens(x) /\ msg'[x] = msg[x]
    BY Zenon, <1>1 DEF Opens
  <2> QED
    BY Zenon, <2>1, <2>2 DEF Reads
<1>3. encoder \in Encoders
  BY Zenon DEF SaverTypes
<1>4. /\ encoder'.links \subseteq encoder.links /\ encoder'.chunk = encoder.chunk
      /\ encoder'.msgPos = encoder.msgPos /\ encoder'.filePos = encoder.filePos
  BY Zenon, <1>3 DEF PurgeData, PurgeMsg, Encoders
<1>5. "msg" \in encoder'.links => msg'[encoder.chunk] = msg[encoder.chunk]
  <2>1. CASE PurgeData
    BY Zenon, <2>1 DEF PurgeData
  <2>2. CASE PurgeMsg
    <3>1. "msg" \in encoder'.links => encoder.chunk # purging /\ "msg" \in encoder.links
      BY Zenon, <1>3, <2>2 DEF PurgeMsg, Encoders
    <3>2. "msg" \in encoder'.links => encoder.chunk \in DOMAIN msg'
      BY Zenon, <2>2, <3>1 DEF PurgeMsg, Restrict, OffsetInv
    <3> QED
      BY Zenon, <1>1, <3>2
  <2> QED
    BY Zenon, <2>1, <2>2
<1>6. MessageInv'
  BY Zenon, <1>1, <1>4, <1>5 DEF MessageInv
<1> QED
  BY Zenon, <1>2, <1>6

LEMMA MessagesSave ==
    ASSUME StoreInv, MessagesIntact, MessageInv, SaveStep
    PROVE  MessagesIntact' /\ MessageInv'
<1>1. CASE SaveToOpenChunk \/ EncodeFails
  <2>1. save'.at # "write"
    BY <1>1 DEF SaveToOpenChunk, EncodeFails, Idle, StoreInv, SaverTypes
  <2> QED
    BY Zenon, <1>1, <2>1, MessagesKept DEF SaveToOpenChunk, EncodeFails
<1>2. CASE OpenFails
  BY Zenon, <1>2, MessagesSaveFails DEF OpenFails
<1> QED
  BY Zenon, <1>1, <1>2, MessagesCreateData, MessagesOpenCreated, MessagesReopen,
     MessagesEncode, MessagesWrite, MessagesCut
     DEF SaveStep

LEMMA MessagesStep ==
    ASSUME StoreInv, MessagesIntact, MessageInv, [Next]_vars
    PROVE  MessagesIntact' /\ MessageInv'
<1>1. CASE UNCHANGED storeVars
  BY Zenon, <1>1, IntactUnchanged DEF storeVars, MessageInv
<1>2. ASSUME NEW entry, StartSave(entry) PROVE MessagesIntact' /\ MessageInv'
  <2>1. save'.at # "write"
    BY Zenon, <1>2 DEF StartSave
  <2> QED
    BY Zenon, <1>2, <2>1, MessagesKept DEF StartSave
<1>3. CASE SaverStep
  BY ZenonT(30), <1>1, <1>2, <1>3, MessagesSave
     DEF SaverStep, SaverTakes, SaverTakesZero, SaverSaves
<1>4. CASE Purge
  BY Zenon, <1>4, MessagesPurge DEF Purge
<1>5. CASE Restart
  BY Zenon, <1>5, MessagesSaveFails DEF Restart, StoreRestarts, SaveFails
<1>6. CASE Environment \/ LoggerSteps \/ \E s \in Subscribers \ {Store} : ReaderStep(s)
  BY Zenon, <1>1, <1>6 DEF Environment, LoggerSteps, ReaderStep
<1>7. CASE UNCHANGED vars
  BY Zenon, <1>1, <1>7 DEF vars
<1> QED
  BY Zenon, <1>3, <1>4, <1>5, <1>6, <1>7 DEF Next

\* A record whose chunk was written by one encoder, with no write cut short in it,
\* reads the message it was saved with, whatever else was given up, purged or
\* killed: msgPos is where encodeAndWrite puts the message.
THEOREM MessagesAlwaysIntact == Spec => []MessagesIntact
<1>1. Init => MessagesIntact /\ MessageInv
  <2>1. Init => DOMAIN data = {}
    BY DEF Init, StoreInit
  <2>2. Init => "msg" \notin encoder.links
    BY DEF Init, StoreInit, NilEncoder
  <2> QED
    BY Zenon, <2>1, <2>2 DEF MessagesIntact, ReadsOwnMessage, MessageInv
<1>2. IInv => StoreInv
  BY Zenon DEF IInv
<1> QED
  BY <1>1, <1>2, StoreInvariant, MessagesStep, PTL DEF Spec

-----------------------------------------------------------------------------
(* The feed of a subscriber.                                               *)

LEMMA FeedStep ==
    ASSUME EntryInv, FeedInv, [Next]_vars
    PROVE  FeedInv'
<1>1. CASE UNCHANGED <<logger, subs, sub, fed, joined, received>>
  BY Zenon, <1>1, FeedUnchanged
<1>2. CASE Environment
  BY Zenon, <1>1, <1>2, FeedSubscriberStep DEF Environment, Tick, Stop, Log, LogCanceled
<1>3. CASE LoggerSteps
  <2>1. \A c \in Callers : call[c] \in FeedEntry
    BY Zenon DEF EntryInv, Entry, FeedEntry
  <2> QED
    BY ZenonT(30), <1>3, <2>1, FeedFeeds, FeedAccepts, FeedSends, FeedExits DEF LoggerSteps, LoggerStep
<1>4. CASE SaverStep
  BY ZenonT(30), <1>1, <1>4, FeedSubscriberStep, FeedSends, StoreAssumption
     DEF SaverStep, SaverTakes, SaverTakesZero, SaverSaves, loggerVars
<1>5. CASE \E s \in Subscribers \ {Store} : ReaderStep(s)
  BY Zenon, <1>5, FeedSubscriberStep, FeedSends DEF ReaderStep
<1>6. CASE Purge \/ UNCHANGED vars
  BY Zenon, <1>1, <1>6 DEF Purge, vars, loggerVars
<1>7. CASE Restart
  BY Zenon, <1>7, FeedStarts DEF Restart
<1> QED
  BY ZenonT(30), <1>2, <1>3, <1>4, <1>5, <1>6, <1>7 DEF Next

\* Every subscriber takes the entries in the order in which the goroutine of
\* Start received them, without a gap, from its subscription on; and nothing is
\* sent to one whose channel is closed (Logger.Start, Subscribe, unSubscribe).
THEOREM FeedAlwaysSound == Spec => []FeedSound
<1>1. Init => FeedInv
  BY Zenon, FeedStarts DEF Init
<1>2. IInv => EntryInv
  BY Zenon DEF IInv
<1> QED
  BY <1>1, <1>2, StoreInvariant, FeedStep, FeedInvImplies, PTL DEF Spec
=============================================================================
