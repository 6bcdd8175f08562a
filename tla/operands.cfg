SPECIFICATION OperandSpec
CONSTANTS
  Buffers <- OperandBuffers
  Decoders <- OperandDecoders
  Calls <- Full4
CHECK_DEADLOCK FALSE
INVARIANTS RegistersInFamily MemoryAddressed ImmediatesTiled DisplacementBeforeImmediates
