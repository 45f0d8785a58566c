SPECIFICATION Spec
CONSTANTS
    Streams = {{"video", "audio"}, {"audio"}}
    SegmentDuration = 120
    PartDuration = 60
    SegmentMaxSize = 6
    FrameDurations = {0, 25, 66}
    AudioDuration = 20
    ReorderDelay = 16
    MuxerStartTime = 100000
    FirstSegmentID = 7
    MaxSkipped = 1
    MaxSamples = 6
    MaxAudio = 2
    MaxAudioOnly = 30
    MaxSPSChanges = 1
INVARIANTS
    RenderedExact
    SteadyPartsWithin85
PROPERTIES
    ContractSpec
CHECK_DEADLOCK FALSE
