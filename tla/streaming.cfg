SPECIFICATION StreamSpec
CONSTANTS
  Buffers <- Empty
  Decoders <- AllModes
  Streams <- MCStreams
CHECK_DEADLOCK FALSE
INVARIANTS VerdictStands DecidesOnLastByte
PROPERTY Decides
