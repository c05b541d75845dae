SPECIFICATION FairSpec
CONSTANTS
    audio_buffer_size = 6
    bytes2play = 2
    MaxDatagram = 4
    MaxSamples = 15
INVARIANTS
    TypeOK
    NoDataRace
    NoMutualWait
    AudioInOrder
PROPERTIES
    ImplementsAudioStream
    WriterGetsRoom
CHECK_DEADLOCK FALSE
