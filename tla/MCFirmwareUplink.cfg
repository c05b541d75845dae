SPECIFICATION FairSpec
CONSTANTS
    max_audio2send = 6
    audio2send_buffer_sz = 12
    Threshold = 3
    RoundTicks = 2
    MaxSamples = 40
INVARIANTS
    TypeOK
    CopyUndisturbed
    KeepsUp
PROPERTIES
    ImplementsLappingStream
    BacklogIsSent
