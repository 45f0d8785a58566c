CONSTANTS
  Second = 10
  VideoTimescale = 9
  AudioClockRate = 4
  Word = 4096
  Byte = 4
  Headers <- MCHeaders
  MetaSamples <- MCMetaSamples
  Infos <- MCInfos
  SampleKinds <- MCSampleKinds
  MaxSamples = 3
  StartTime = 100
  Sizes <- MCSizes
  SegmentEnds = {1, 2}
  HeaderBytes = 3
  RecordBytes = 2
  Requests = {r1}
  RangeSpecs <- MCRangeSpecs
  Buffer = 2
  MaxDeletes = 2
  MaxRetries = 1
  Keys = {k1, k2, k3}
  Users = {u1, u2}
  MaxSize = 2
  MaxAge = 6
SPECIFICATION Spec
INVARIANTS
    FilesSound
    ResponseExact
    CacheKeepsNewest
PROPERTIES
    PlaysBack
CHECK_DEADLOCK FALSE
