# Verification of OS-NVR

OS-NVR records IP cameras. A monitor runs an FFmpeg child process that publishes
the camera's stream to the program's own RTSP server; the stream is cut into HLS
segments, which browsers play live and a recorder writes to disk when a detector
(motion, DOODS) sends an event. Around this are the storage of recordings, logs,
groups, accounts, the web server and its pages.

This directory has TLA+ modules translated from the Go source, the TLC
configurations that check them, and proofs for TLAPS. `PROJECT.json` lists every
component, run, mutant, finding, hazard and theorem, and maps each definition to
the lines it models.

## The system and its parts

    FFmpeg --RTSP--> gortsplib --> rtspSession --> path --> stream --> ring buffer
      ^                                              |                    |
      | watchdog, kill                               |                HLSMuxer: segmenter --> playlist
    monitor.Manager --> InputProcess --AddPath-------+                                        |   |
        |                                                     HTTP, watchdog <----------------+   |
        +--> Recorder <--events-- motion, doods2                                                  |
                |                                                                                 |
                +--NextSegment--------------------------------------------------------------------+
                +--> customformat files --> crawler, VideoReader, MP4 muxer, web
                                       <-- storage manager (prunes), DeleteRecording

| Part of the source | Concurrency | Modules |
| --- | --- | --- |
| `pkg/video/gortsplib/server*.go` | goroutines of the server, connections, readers, sessions | `RTSPServer`, `RTSPInvariant`, `RTSPRequestsProofs`, `RTSPServerProofs` |
| `gortsplib/pkg/{rtph264,rtpcleaner,rtptimedec,rtpmpeg4audio}`, `pkg/video/{stream,rtsp_session,hls_muxer}.go` | the reader of a connection and the muxer | `RTPH264`, `RTPMPEG4Audio`, `PacketFlow` |
| `gortsplib/pkg/ringbuffer` | producers, a consumer, Close; atomics | `RingBuffer`, `StructuresProofs` |
| `gortsplib/pkg/{h264,bits}` | none | `H264` |
| `pkg/video/{path_manager,path,rtsp_server,rtsp_session,hls_server,hls_muxer}.go` | three kinds of mutexes, the HLS server's and the muxers' goroutines | `VideoServer`, `VideoServerProofs` |
| `pkg/video/hls/segmenter.go`, `segment.go`, `part.go` | the goroutine that writes the stream | `Segmenter`, `SegmenterContract` |
| `pkg/video/hls/playlist.go` | one goroutine, requests over channels | `HLSPlaylist`, `MediaWindow`, `HLSPlaylistProofs` |
| `pkg/video/mp4`, `mp4muxer`, `hls/init.go`, `hls/part.go` | none | `MP4Boxes`, `MP4Muxer` |
| `pkg/video/customformat` | files that grow while they are read | `CustomFormat` |
| `pkg/monitor/recorder.go`, `pkg/storage/types.go` | the event loop, a session, savers of data files | `Recorder`, `RecorderProofs` |
| `pkg/monitor/monitor.go`, `pkg/ffmpeg`, `addons/watchdog` | requests, input loops, processes, feeders and timers, detectors | `Monitors`, `MonitorsProofs` |
| `pkg/storage/video.go`, `DeleteRecording`, `RecordingVideo` and `servecontent.go` of `pkg/web` | the recorder, requests that read, requests that delete | `RecordingFiles`, `VideoCache`, `StructuresProofs` |
| `pkg/storage/crawler.go` | a query while the tree changes | `RecordingTree`, `Crawler` |
| `pkg/storage/storage.go`, `addons/status` | the pruning loop, status pages, a setter; two locks | `StorageManager` |
| `pkg/group` | requests, two kinds of locks, kills | `Groups`, `StructuresProofs` |
| `pkg/log`, `LogFeed` of `pkg/web/routes.go` | the logger, callers, subscribers, purge, kills | `Logger`, `LogStore`, `Logging`, `LoggingProofs` |
| `addons/doods2`, `addons/motion/zone.go` | a client, readers, calls that give up | `DoodsClient`, `Regions`, `MonitorsProofs` |

How they compose. `PacketFlow` contains `RingBuffer`, `RTPH264` and `RTPMPEG4Audio`,
and brings frames to the point where the segmenter takes them. `HLSPlaylist` contains
the segmenter as `SegmenterContract`, and `Segmenter` is checked to implement that
contract, so what is shown of the playlist holds of the two together. `VideoServer`
uses of the playlist that a request is answered at once or held until the stream goes
on or the muxer is closed (`CancelReleasesAll`), and `RTSPServer` uses of the video
server when a path and its stream are closed. `Recorder` uses of the playlist what
`NextSegment` returns (`RequestsOnTime`) and of the video server that a stopped input
closes its muxer (`PathRemovedIfAnswered`), as `Monitors` does. `RecordingFiles` takes
up where `Recorder` writes a segment, and `Crawler` where a data file is saved.
`Logging` is the composition of `Logger` and `LogStore`.

## The modules

**SegmenterContract, HLSPlaylist, MediaWindow.** The contract: segment IDs are
consecutive from `FirstSegmentID`, part IDs increase, and a segment consists of the
parts handed over since the last one. `HLSPlaylist` is the goroutine of
`playlist.start`: its variables are the fields of `playlist` and what each client is
doing, and every case of the `select` is an action. The maps of requests on hold are
the sets of clients in that state; `CheckPending` walks them in any order and returns
at the first that is not ready, like the code. `hasPart` is the loop of the code as a
recursive function (`Search`) over the entries. `fullPlaylist` yields entries in place
of text. A call of `NextSegment` on hold remembers whether it came before the first
segment (`early`, history). `MediaWindow` is what an HLS client may rely on: a window
that only moves forward, one entry at a time, and never changes an entry.

**Segmenter.** `writeH264` and `writeAAC` with `Segment` and `MuxerPart`. Time is in
steps of 5 ms, the step of `findCompatiblePartDuration`. One call can hand over a part
and a segment, each a synchronous call during which other goroutines run: `pc` is the
position in the call. Two samples may have the same decode time: then the search for a
part duration divides by zero, and `pc` stays at `divide`.

**VideoServer.** Each `AddPath` creates a path object. A step ends where a goroutine
may wait: for `pathManager.mu`, `path.mu`, `rtspServer.mu`, or the other end of a
channel of the HLS server. `path.close` is run by up to four goroutines (`Closers`). A
shutdown is allowed once the monitors have stopped, and a monitor may be started again
during it.

**RTSPServer.** A step is what a goroutine does between two places where it may wait; a
hand-over on an unbuffered channel is one step of both sides. The handler of
`pkg/video` is reduced to one path that is opened by RECORD and closed at any time. A
nil pointer or nil map that the code would follow is a panic: `panicked` holds its
cause and everything ends.

**RingBuffer, RTPH264, RTPMPEG4Audio, PacketFlow.** Every atomic operation and critical
section of the ring buffer is a step, and indexes are words that wrap. Decoders, encoder
and cleaner are operators over packets whose payload has the NALUs, or a fragment, as
short sequences. In `PacketFlow` the reader of the publisher's connection receives,
cleans, remuxes, forwards and pushes packets while the muxer pulls and decodes, and may
fail to write. The buffers that the reader reuses (`rtpPacketMultiBuffer`) are named by
their index, so that a reuse while the muxer still decodes shows. Times are nanoseconds
truncated from ticks, as `rtptimedec` makes them, and a packet that is encoded anew gets
its timestamp from these, so that it may lose a tick.

**H264.** Annex-B, AVCC, anti-competition bytes, bit reading and the DTS extractor, as
folds over a buffer, each with a reference definition. A result is a value, an error, or
a panic, which `AnnexBUnmarshal` meets in a buffer of two or three zeros.

**Recorder.** The goroutine of `start` with its timer and `isRecording`, the session
(`runRecordingSession`, `runRecording`, `generateVideo`), the concurrent calls of
`saveRecording`, and the senders, which block on `eventChan`. The muxer is reduced to
its window of segments; it may be closed and started again with IDs from the start.

**CustomFormat, MP4Boxes, MP4Muxer.** A meta file is a sequence of digits, read back
from any prefix. A box is the number `Size()` returns and the widths of what
`Marshal()` writes. The MP4 files are built from the samples that `CustomFormat`
stored; the properties read their tables the way a player does.

**RecordingFiles, VideoCache.** A byte of a video is known by its position, in the
generated part or in mdat. The recorder opens its two files, which are not truncated,
and writes data and record of a sample in two steps; a write may fail part way, and the
recording is tried again from its first segment under the same name, with one more
thumbnail (`Retry`). If the files were deleted meanwhile they are made anew, and who has
the old ones open reads on there (`again`, history). Requests stat, open, parse, seek and
read through a buffer, may be refused by a precondition, and panic where the code goes
on with a nil reader; requests delete file by file. `VideoCache` is the cache alone, with
requests between `Get` and `add`.

**RecordingTree, Crawler, StorageManager.** Names are numbers in the order of the names.
The search of a query is an operator over the directories read so far that yields a
result, an error, or the directory it needs next; reading that one is a step, and
recordings are saved, deleted and pruned between two. `StorageManager` has the pruning
loop, the disk usage with its cache and update lock, and `ConfigGeneral` with its own.
The loop reads a directory in one step and removes it in the next, which may fail;
recordings are saved in between.

**Groups.** Requests set, delete and list groups; a write truncates the file first,
fails, or is cut off by a kill, after which the files are read again.

**Monitors.** Requests under `Manager.mu`, the loop of each input, the process with its
states in the operating system (it may exit, freeze, or ignore the interrupt), and the
goroutine in `process.Stop`. The watchdog of a run has the goroutine that asks the muxer
for the next segment and sends `keepAlive`, and the timer, which may fire late and hit
the run that comes next. A detector (motion, DOODS) of a run is a member of the wait
group of the monitor; it sends events to the recorder, and DOODS may still send one
when its run has ended (`lagging`). `Monitor.stop` waits for all of these.

**DoodsClient, Regions.** The client's goroutine, a reader for each connection, and
calls that give up; IDs are counted for each connection, and cleanup goes through the
map in any order. All messages of a connection are decoded into one variable, whose
array of detections the next message writes over: `detections` says whose detections
the array of a response has now. `Regions` has the polygons, masks and differences of
motion zones, and scaling, padding, cropping and mapping back of DOODS frames. A
percentage that is a whole number of pixels may be one pixel less, as the product of
floating-point numbers is truncated.

**Logger, LogStore, Logging.** The goroutine of `Start` with unbuffered channels; an
entry takes its time when `Log` is called and waits for its turn after that.
`LogStore` has one step of `saveLog` per change to the files; a write is whole, is cut
short with an error, which moves the place of the next write but not `msgPos`, or is not
done. Histories say in which chunks that happened to a message (`shifted`) or a record
(`garbled`), and which were opened again (`reopened`). An open file that purge removes
loses its link. `Query` with its binary search is an operator over the files.
`Logging` adds `SaveLogs`, a `LogFeed` request, purge, and kills between any two steps.

## Runs

| Run | What it shows |
| --- | --- |
| `playlist` | Two clients, a stream and the end of the muxer. `ListedIsServed`: every listed URI is served and nothing else is kept. `RequestsOnTime`: numbering, a blocking reload is answered exactly when its part or a later one is there and stays on hold only behind one that cannot be answered, a `NextSegment` call stays on hold only as long as a new one would (except one that came before the first segment with the ID of an earlier muxer), and the preload hint is ahead. `DeltaKeepsNewest`: a delta update has the last two entries. `WindowSpec`: the playlist implements `MediaWindow`. `CancelReleasesAll`: every call returns once the muxer is closed. |
| `segmenter` | Two frame durations and none at all, an SPS change, a size limit, audio with and without video. `RenderedExact`: samples are contiguous, segments start with an IDR, parts have video, listed durations are exact up to the reorder delay. `SteadyPartsWithin85`: parts of a steady stream keep the 85% rule of iOS. `ContractSpec`: the segmenter implements its contract. |
| `video_server` | Two path objects of a name, two sessions. `PathsAgree`: a closed path is inert, sessions follow their path, and until the shutdown the branch of the HLS server that would wait for ever is not reached and requests for a name go to the running muxer of the path that has it now. `ShutdownCompletes`: when the program is shut down and all goroutines wait, requests are answered, paths are closed, sessions and muxers have ended and no mutex is held; the goroutine of the HLS server has ended, too, or it is stuck in that branch, which takes a monitor that was started again during the shutdown. |
| `video_server_live` | If blocking requests are answered, a canceled path is removed (`PathRemovedIfAnswered`) and a failed muxer disconnects its publisher (`FailedMuxerDisconnectsIfAnswered`). |
| `recorder` | `SegmentsRecordedOnce`: videos are gapless and no segment is in two. `CanceledWhenDue`: a session lives until its events have ended. `EventsSaved`: their data is in the file of the recording, unless the one of a later recording was written first. `RecorderStops`: start comes to rest only when it has returned. |
| `logging` | `FeedSound`: subscribers take every entry in order and are not sent to once closed. `ChunksSound`: the times of a chunk increase and records point into their message file after any kill or purge, unless a record was cut short. `QueriesExact`: a query lists every record that is on disk once and in order, pages yield what one query lists (both unless a record was cut short or an entry was moved into the next chunk), and a record has its own message in a chunk that was opened once and whose writes were whole. `CallsReturn`: `Log` returns and the logger ends. |
| `rtsp` | A publisher and a reader, any order of their requests, of ends of connections, of the path and of the server. `LinksAgree`: connections, sessions, readers and the stream refer to each other consistently. `NobodyStuck`: whoever closes comes to an end. `PanicsKnown`: of the pointers that are followed without a check only two can be nil (see below). |
| `packet_flow` | `MediaIntact`: pictures and sound reach the muxer whole, in order and with their times, over wrapping timestamps and reused buffers. `ForwardedIntact`: RTSP readers can decode what they are sent, and packets have the publisher's timestamps, or ones a tick before them if they were encoded anew. `RingBufferSound`: two producers, a consumer and Close. `BitstreamsExact`: the H264 algorithms against their reference definitions. |
| `recordings` | `FilesSound`: metadata refers to data that is there, over failures and retries, unless the files were deleted and made anew; listed recordings are complete, deletion of a finished one leaves nothing. `ResponseExact`: a response has the bytes that were asked for, with the exceptions of a border named below. `CacheKeepsNewest`: the cache evicts what was used before all that stays. `PlaysBack`: what is stored can be read from any prefix, boxes are as long as they say, and recording, thumbnail and HLS part play back. |
| `storage` | `CrawlExact`: a query passes over no recording that was there all the time. `PruneSound`: a round removes the oldest day and nothing else but what was saved in a directory between the read that found it empty and its removal, and the usage is computed only if it is too old. `ManagerAtRest`: nobody waits for ever, except after a failed write of the configuration. `GroupsSound`: what was answered is on disk and in memory, and everything is answered, except after a failed write. |
| `monitors` | `OneProcess`: an input never has two processes and a stopped monitor none. `RequestsReturn`: requests to start, restart, delete and stop return whatever the processes do, unless a detector offers an event when the recorder has ended. `FrozenRestarted`: a frozen process is noticed and stopped. `ResponsesReachCalls`: unless a response of an earlier connection was taken, responses reach the call they belong to, which reads its own detections until the next message is decoded. `RegionsExact`: a motion zone is active exactly if enough of the pixels changed that the code takes for inside its polygon, and a DOODS detection is reported where it is in the frame. |
| `logging_restart` | Ends in a violation: a process that is started again within the span of a chunk writes its messages over those of the chunk, so that saved entries are read with messages of others (`store.go:537`). |

`packet_flow`, `recordings`, `storage` and `monitors` each have parts that share no
state; a behaviour exercises one of them, and the properties of pure algorithms are
evaluated in the initial states or on the steps from them.

### Statements the code does not keep

The modules state five more properties that a comment, a test or the structure of the
code suggests and that TLC refutes. They are in no run; adding one to the configuration
that is named shows the behaviour.

* `PathRemoved` (`VideoServerLive.cfg`): a blocking request keeps the muxer, the HLS
  server waits for the muxer, and `path.close` waits for the HLS server
  (`hls_server.go:151`). Adding the path again then fails.
* `EventTriggersRecording` (`Recorder.cfg`): an event that arrives while a canceled
  session is ending starts no recording (`recorder.go:124`; `types.go:46` calls an
  event "a recording trigger event").
* `StopReturns` (`Recorder.cfg`, with `FairSpec` and without the symmetry): a sender that
  has passed the check of the context blocks for ever, and `Monitor.stop` with it, which
  holds `Manager.mu`. `RequestsReturn` names this as the only way for a request not to
  return.
* `ClosedStreamRefused` (`RTSPServer.cfg`): a PLAY that is handled while the path closes
  sets an entry of a nil map (`serverstream.go:136`). The other known panic is a SETUP
  of a publisher without a mode (`serversession.go:585`).
* `LaterUnitsArrive` (`PacketFlow.cfg`, with `Videos <- MCBigVideos`): `naluBuffer` is not
  reset when a group is too big (`rtph264/decoder.go:249`), so no later unit arrives.

The properties of the runs name the following exceptions, which is how far the code
goes.

* HLS: a call of `NextSegment` that came before the first segment with the ID of an
  earlier muxer stays on hold although a new one would be answered (`playlist.go:658` and
  `:228`). Samples before the first IDR make the first sample, and the part duration found
  from it, too long; with samples of several durations parts do not keep the 85% rule; two
  samples with one decode time divide by zero (`segmenter.go:14`).
* Video server: when the program is shut down while a monitor starts again, the HLS
  server can wait for ever for the taker of a second answer (`hls_server.go:121`).
* Packets: an overrun ring buffer yields packets out of order. A NALU that fills its
  fragments exactly loses its end in the encoder (`rtph264/encoder.go:141`). A timestamp
  that is encoded anew can be a tick early (`rtph264/encoder.go:66`), and timestamps jump
  when the cleaner begins to encode after the first unit. `AntiCompetitionRemove` misses a
  second byte in one run of zeros. `AVCCUnmarshal` refuses a buffer of which more is left
  than a NALU may have, also if each of its NALUs is short (`avcc.go:41`), and
  `AnnexBUnmarshal` panics on two or three zeros (`annexb.go:57`).
* Recordings: a read that begins exactly where the generated part of a video ends is taken
  for the end of the file (`video.go:120`), and ranges that come back over that border
  read mdat from where it was (`video.go:141`). When a recording is deleted and then tried
  again, the cache has the metadata of the files that are gone. Events are lost to a
  recording when the data file of a later one is written first (`recorder.go:238`).
* Storage: `ConfigGeneral.Set` and `GroupSet` keep their lock when the file cannot be
  written (`storage.go:450`, `group.go:100`). A recording that is saved in a directory
  which pruning has just read as empty is removed with it (`storage.go:102`).
* Logs: a message or record that is cut short shifts or garbles what is written to its
  chunk after it (`store.go:559`, `:588`). A late entry can move into the next chunk.
* DOODS: the array of detections that a call has is written over by the next message
  (`doods2/addon.go:344`). The client can hang on an entry that cleanup left from an
  earlier connection, or on a message without an ID, and it can hand on a response of an
  earlier connection (`mixed`).

Others were met while modelling and no property is about them. A late `chMuxerClose`
deletes the map entry of the next muxer of the name (`hls_server.go:167`). That muxer is
then served to nobody, and `pathSourceNotReady` does not find it to close it; with a
third object of the name there can be two muxers that run, of which the map has the
later one at most, which is what `ServedIsCurrent` claims. `DeleteRecording`
matches a prefix of the file name, which another monitor's ID may share
(`storage.go:499`), and files that the recorder makes later stay. The metadata of a
recording in progress stays in the cache as short as it was. `RecordingVideo` goes on
with a nil reader after it could not open a video (`routes.go:482`), and the request
panics, which net/http recovers from. Two recordings whose first segments start within
one second have the same name, and the second is written over the first
(`recorder.go:264`); only a retry of the same recording is modelled. A watchdog that
fires late cancels the run after the one that was frozen, which is then started again.
`os.WriteFile` is not atomic, and a group or monitor file that was cut off keeps the program from starting. Pruning with an
old usage may remove a second day. `MonitorDelete` refuses a monitor that was set and
never started. Session timeouts of the RTSP server are declared and not used, and
`GET_PARAMETER` is answered 501 by the connection, which never passes it to the
session that would "reply with 200" (`serversession.go:409`).
A sensitivity of 100 wraps to 0 in a motion zone. The status loop queries without a
pause when a query fails.

### Bounds

Every bound is a constant of the configuration, or a definition of the MC module.

* *Playlist.* With `SegmentCount = 1` and two gaps, segments 2 to 4 fill the window and
  delete both gaps and a real segment, so every kind of deletion happens. Requests name
  segments that are to come, present and deleted, and `PrevIDs` has a number of an
  earlier muxer. Two clients are needed for one held request to hide another. The
  theorems hold for the program's numbers, 3 segments and 7 gaps.
* *Segmenter.* Six video samples finish two segments and open a third; two frame durations
  (125 and 330 ms) on either side of the part duration of 300 ms cut parts in both ways,
  and a third one is zero.
  `MaxAudioOnly = 30` is five segment durations of audio without video.
* *Video server.* Two objects of one name, two sessions and a blocking request are what a
  late message needs, and a muxer of an earlier object that is left in the map when the
  program shuts down. In `video_server_live`, which has one object, one request that is
  held and one more are what it takes to stop the HLS server. `PathsAlwaysAgree` holds for
  any number of each.
* *RTSP.* One connection publishes and one reads, from one address or two, with two
  sessions and one track. Three requests are what a publisher needs to record. A reader
  needs two to set up and play a stream that is there, so the states after a publisher's
  requests (`InitPublished`), with two left, are initial states too. Each request may name
  the other's session.
* *Packet flow.* `Size = 2` and `Word = 4` let indexes wrap twice in nine pushes. Three
  access units have changing parameters, a picture that is sent in fragments or in one
  packet that is too big, and timestamps of a word of 16 that wrap and go back. Two
  audio packets share one AU. Two producers push to the ring buffer alone.
* *Recordings.* Two samples in two segments; a buffer of two bytes puts reads on both
  sides of, at, and across the border. One reader that asks again and again, and two
  deleters, or one and a retry. The cache holds two of three keys for two users. Files have base-4 digits, with headers that have and lack audio.
* *Storage.* Recordings of two monitors over two days, months and years; one change during
  a query, since a query reads at most a few directories and a second change is another
  query's first. Four ticks are two pruning intervals, in which recordings are saved in
  directories that are there, empty or new; `MaxOther` is what else takes up space. Two
  requests about two groups with
  a failure and a kill, four operations.
* *Monitors.* One monitor with one input, a process that misbehaves, and a detector. Two
  requests to DOODS over three connections: one connection more than requests, so that
  there is a response of an earlier one for each of them. Zones have three corners in
  frames of 3 x 2 and 5 x 1 pixels. The theorems hold for any numbers.
* *Recorder.* A window of one segment makes skipping happen, two muxers make IDs come back,
  one failure crashes a recording, and two events with two durations make a later event
  end earlier. `MaxInputs = 5`, where an event counts twice and each muxer and failure
  once, has room for two events, or for one with a restart and a failure.
* *Logging.* One weighted bound, `MaxInputs = 5`, for ticks, entries, purges, failed saves,
  restarts and a `LogFeed` request: three entries over two chunks out of order, two
  entries around a restart with a purge cut short, or a request that leaves while the
  logger sends to it.

Symmetry is declared over senders and sessions that nothing distinguishes, and in no
run with a liveness property.

### Fairness and rest

Weak fairness, and only of goroutines of the program that wait for nothing but each
other: Go's scheduler runs every goroutine that can run, and a mutex that is free or a
channel whose other end is ready is eventually taken. Nothing is assumed of cameras,
clients, or the stream. `Monitors` assumes of the operating system that a killed
process exits, and of the recorder, the detectors and the video server that they end
when canceled, which for the first and the last is `RecorderStops` and
`PathRemovedIfAnswered`; a detector that offers an event does not end. A timer of a
watchdog fires unless it is set again. It is not assumed that an interrupt is obeyed.

Where a component always comes to rest when its environment does nothing more,
liveness is stated as a state property instead: when no step of the program is enabled,
everyone is where they should be (`NobodyStuck`, `RecorderStops`, `ManagerAtRest`,
`ShutdownCompletes`, `GroupsAnswer`, `AtRest` of the ring buffer). This needs no fairness beyond that above.
`NobodyStuck`, `GroupsAnswer` and `AtRest` say where goroutines wait (`AllWait`,
`Waiting`) instead of `~ENABLED`, so that they can be proved; the conditions are those of
the steps.

Deadlock checking is off where the environment may stop (the stream ends, bounds are
reached); that goroutines do not wait for each other for ever is stated as above.

## Proofs

All theorems hold for every value of the constants that satisfies the named
assumptions; bounds in guards play no part in them.

* `HLSPlaylistProofs` (`PlaylistAssumption`: natural numbers, and the first segment ID is
  the number of gaps, as both are 7 in the code). `TypeCorrect` is inductive.
  `MediaSequenceCorrect` is not, since it does not say which ID comes next:
  `NumberingInv` adds that the segment being written gets the number after the last
  entry, that the first one gets the number of gaps, and that `nextSegmentID` agrees;
  after the cancellation the segmenter may go on without the playlist, so it is claimed
  before that only. `PlaylistImplementsWindow` maps every step to a step of
  `MediaWindow` or a stutter. `ListedAlwaysServed`: `WindowInv` says that entries are gaps
  and then segments with consecutive IDs, which are those in the map; `PartsInv` that the
  list of parts is made of the parts of the entries one after the other (`LaidOut`), with
  growing IDs, so that removing as many parts as the first entry has removes exactly
  its own. `RequestsAlwaysOnTime`: `ClientsInv` has the states of clients; `HeldInv` says
  that among the blocking reloads on hold one is not ready, and that a `NextSegment` call
  on hold has what is listed. `HasPartExact` shows what the loop of `hasPart` finds in
  entries of that shape, and `ReloadExact` that this is what was asked for.
  `DeltaAlwaysKeepsNewest`: the target duration is at least every rounded duration, so
  the last two entries are within the boundary of a delta update. The loops are
  recursive functions, about which `LeastElement`, `InductionUpTo` and `RecursionUpTo`
  give induction up to a bound: from the well-foundedness of the natural numbers, for a
  set in place of a predicate.
* `LoggingProofs` (the chunk duration is positive, the store subscribes).
  `TimesAlwaysIncrease`: `TimeInv` adds that `prevEntryTime` is not before any record of
  the open chunk and is before the record under way, which reopening, creating and
  purging keep. `RecordsAlwaysReadable`: `OffsetInv` adds that the open message file
  reaches to the encoder's position, and that an encoder that still has the chunk's data
  file has its message file too. Together they are `ChunksAlwaysSound`.
  `MessagesAlwaysIntact`: `MessageInv` says that in a chunk that was opened once and whose
  writes were whole the encoder's position is the end of the message file, so that a
  message is not written over another, and the record under way points to its own.
  `FeedAlwaysSound`: what a subscriber took is a prefix of what was fed since it joined,
  which `FeedInv` ties to the logger's position in its list of subscribers: those before
  it have the entry that is being handed out, those after it do not, and a subscriber
  that is leaving is still in the list until the logger has taken its request.
* `RecorderProofs` (`RecorderAssumption`: durations and windows are positive).
  `AlwaysRecordedOnce`: that no segment is in two videos depends on `prevSeg`, which
  outlives sessions and muxers. `RecordingInv` says that the playlist's segments are
  consecutive and of its own muxer, that the session's segment and video are of one
  muxer and not recorded yet, and that `prevSeg` is at or after every recorded segment
  of the current muxer. `AlwaysCanceledWhenDue`: `TimerInv` says that a running timer is
  due at the latest end of the accepted events.
* `StructuresProofs` has the three structures that goroutines share.
  `RingBufferAlwaysSound` (`RingBufferAssumption`: the size divides the word, which is the
  "power of two" of the code): items are stored once, a slot has the item whose index
  falls on it (`SlotsExact`), producers are ahead of the consumer by what is in the buffer
  (`Ahead`), and a sleeping consumer has someone who will wake it (`SomeoneWakes`); so
  that when all wait, nothing is left to pull. Remainders are handled in lemmas of their
  own. `CacheAlwaysKeepsNewest` (the limit is positive, keys are finite): `AgesExact` says
  that ages are distinct, at most the cache's age, and in the order of use.
  `GroupsAlwaysSound` (locks are not requests): one request holds the manager's lock,
  files and memory follow what was answered except for the one that writes, a request
  waits only for a lock that someone holds, and nothing is claimed after a failed write
  of a group, whose lock is never given back.
* `VideoServerProofs` (`VideoServerAssumption`: `None` is no object, name or session).
  `PathsAlwaysAgree`: what it says of a closed path depends on who else knows of the path.
  `VInv` says when an object is in the map of the path manager (`Registered`), that
  whoever waits for the HLS server about a path holds its mutex and is the only one
  (`Exclusive`), what a path knows of its sessions (`Attached`), and that the HLS server
  has muxers of ready paths only, whose goroutines have not come to close the path
  (`Muxed`). That `pathSourceReady` finds no muxer of the name follows: such a muxer
  would be of a ready path that is in the map, and the object that is about to be ready
  is the one in the map. The end of `close` is one lemma (`CloseEffectKeeps`), which the
  four goroutines that may get there first share.
* `MonitorsProofs`. `AlwaysOneProcess` (`MonitorsAssumption`): a process belongs to a loop
  that is past its start, loops belong to running monitors, and a monitor is started
  only when it was stopped. `ResponsesAlwaysReach` (`DoodsAssumption`: the bounds are
  numbers): `DoodsInv` says that a request is in one place only (with its sender, on the
  wire, as a response, or with a reader), that the entries of `pending` of this
  connection are about requests that someone receives, and which connection a reader
  that is still running belongs to. `DetectionsInv` says whose detections are in an array:
  those of a request of the same connection, and of the last one its reader decoded as
  long as that is the one. That a response of an earlier connection may be taken
  for one of this one is what the property excepts.
* `RTSPRequestsProofs` and `RTSPServerProofs`, with `RTSPInvariant` for both (`RTSPServerAssumption`: natural numbers,
  `None` is no connection or session, publishers are connections; `PanicsAssumption`).
  `RTSPInv` relates the goroutines pairwise. A session knows the connections that are
  paired with it until it takes leave of them, and does not end before the one that has
  its frames (`Paired`); the connections of a session that runs are paired with it
  (`Known`); a reader that passes frames on has a session that expects them
  (`FramesExpected`); a session that is about to play is a reader of the path (`Reads`);
  a session without a connection is being given one (`NotAlone`); the connection a
  session waits for was told to end (`Visits`). `LinksAlwaysAgree` follows, and
  `PanicsAlwaysKnown`, since the pointers that handlers follow are set where these say so.
  `NobodyEverStuck` follows by excluding, one after the other, that the server, a
  connection and a session wait. A panic stops the program between two assignments, so
  that after one only the part of the invariant that `LinksAgree` needs is claimed.

### Only model-checked

Liveness, and the properties that use `ENABLED` (`RecorderStops`, `ManagerAtRest`,
`ShutdownCompletes`), are out of the prover's reach. So is, with the exception of the
loops of the playlist above, what a fold or a recursive definition computes for every
input: formats, decoders, the crawler, the geometry, and the queries of `QueriesExact`
(that messages are intact is proved). `EventsSaved`, `PacketFlow`, `RecordingFiles`,
`StorageManager`, and `Segmenter` with its refinement of the contract, are checked on the
instances above only.

## What is not modelled

* Text formats (RTSP messages, SDP, URLs, templates, pages), parsers of a fixed layout
  (SPS, audio configuration), and the scripts of the browser: no state, no concurrency.
* Values of the fields of MP4 boxes other than sizes, tables and offsets.
* Media content: what matters of a sample is its number, its times and its kind.
* Accounts and authentication, and the configuration forms of addons.
* The alerter, whose map is written by concurrent goroutines without a lock
  (`alert/addon.go:105`); what Go makes of that is a fatal error, not a value. It is listed
  as a hazard.
* The timeline addon, which runs a process on a saved recording and renames its output.
* The frame loops of the detectors. `Monitors` has when they end and when they send an
  event; what they do with a frame is `Regions` and `DoodsClient`.
* The files of monitors' configurations, which are written and read by one request at a
  time under `Manager.mu`.
* Other data races. Failing system calls are modelled where the code handles them.
