CONSTANTS
    Byte  <- MCByte
    Bufs  <- MCBufs
    Sizes <- MCSizes
    Word  = 6
SPECIFICATION Spec
INVARIANTS TypeOK RingShape
PROPERTY IsFifo
