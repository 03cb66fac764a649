CONSTANTS
  BitClk = 2
  Data <- MCData
  Garbled = Garbled
  Cells = 1
  Commands <- ControlCommands
  MemAddresses <- OneAddress
  Pipelined = FALSE
  Resets = TRUE
SPECIFICATION Spec
INVARIANTS NoOverrun NothingDropped
PROPERTIES CpuResetTakesEffect ImplementsProtocol
