SPECIFICATION SweepSpec
CONSTANTS
  Buffers <- Corpora
  Decoders <- AllModes
  Calls <- Full4
  Reps = 3
CHECK_DEADLOCK FALSE
INVARIANTS SweepInBounds RepsAgree BenchesAgree
PROPERTY SweepEnds
