SPECIFICATION Spec
CONSTANTS
    audio_buffer_size = 6
    bytes2play = 2
    MaxDatagram = 4
    MaxSamples = 15
INVARIANTS
    AvailableCountsUnplayed
CHECK_DEADLOCK FALSE
