SPECIFICATION Spec
CONSTANTS
  CommandLines <- MCCommandLines
  Streams <- MCStreams
  Scenarios <- MCScenarios
  PacketSize = 2
  Queue = 1
  FrameBuffers = 2
  Times = 1
  Rewinds = 1
INVARIANTS TypeOK CommandLineKept ReleasedInOrder NeverOld
           InOrder AsManyAsAsked
PROPERTY Ends
CHECK_DEADLOCK FALSE
