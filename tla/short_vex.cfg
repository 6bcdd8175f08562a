SPECIFICATION Spec
CONSTANTS
  Buffers <- VexBuffers
  Decoders <- Long64
CHECK_DEADLOCK FALSE
INVARIANT VexRTransmitted
