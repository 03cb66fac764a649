CONSTANTS
  BitClk = 2
  Data <- MCData
  Garbled = Garbled
  Cells = 2
  Commands <- MemCommands
  MemAddresses <- MCMemAddresses
  Pipelined = FALSE
  Resets = FALSE
SPECIFICATION Spec
INVARIANTS DbgTypeOK CtsCoversCommand NoResponseLost
PROPERTIES ImplementsProtocol
