SPECIFICATION Spec
CONSTANTS
    max_audio2send = 5
    audio2send_buffer_sz = 10
    Threshold = 2
    RoundTicks = 6
    MaxSamples = 30
INVARIANTS
    PacketsInBounds
PROPERTIES
    DelayNeverShrinks
