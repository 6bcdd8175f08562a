SPECIFICATION FullSpec
CONSTANTS
  Buffers <- Buffers64
  Decoders <- Long64
  Calls <- Full4
CHECK_DEADLOCK FALSE
INVARIANT ExtendedIndexKept
