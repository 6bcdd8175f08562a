SPECIFICATION DecodeSpec
CONSTANTS
  Buffers <- AllBuffers
  Decoders <- AllDecoders
CHECK_DEADLOCK FALSE
INVARIANTS TypeOK ByteAccounting OffsetsPointRight ReadBound PrefixNeverOpcode ImmediatesReconcile ContextComplete OperandsBacked StackWidth LegacyStays32 VexFieldsUsed StarvedTellsLength
PROPERTY KeepsContract
