CONSTANTS
  Nil = Nil
  PayloadMaxSize = 9
  MaxNALUsPerGroup = 4
  MaxNALUSize = 20
  MaxAccessUnitSize = 9
  TimeWord = 16
  TimeJump = 5
  Size = 2
  Word = 4
  Producers = {1, 2}
  MaxPushes = 9
  Videos <- MCVideos
  Audio <- MCAudio
  FragLens = {5}
  FirstStamp = 14
  MaxAlone = 5
SPECIFICATION Spec
INVARIANTS
    MediaIntact
    ForwardedIntact
    RingBufferSound
    BitstreamsExact
CHECK_DEADLOCK FALSE
