SPECIFICATION FormatterSpec
CONSTANTS
  Buffers <- FormatBuffers
  Decoders <- FormatDecoders
  Calls <- Full10
  TextSizes <- MCSizes
  MnemonicLengths <- MCMnemonicLengths
  Vectors <- MCVectors
  NoVector = NoVector
CHECK_DEADLOCK FALSE
INVARIANTS TrueIffItFits CheckOneNeverCut AddressReadable
PROPERTIES FormatReturns EveryVectorPasses
