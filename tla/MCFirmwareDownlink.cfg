SPECIFICATION Spec
CONSTANTS
    buf_sz = 4
    MaxDatagram = 5
    MaxSamples = 22
INVARIANTS
    TypeOK
    CopiesInBounds
PROPERTIES
    ImplementsLappingStream
