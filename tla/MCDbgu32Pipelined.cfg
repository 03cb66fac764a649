CONSTANTS
  BitClk = 8
  Data <- MCData
  Garbled = Garbled
  Cells = 2
  Commands <- ShortCommands
  MemAddresses <- MCMemAddresses
  Pipelined = TRUE
  Resets = FALSE
SPECIFICATION Spec
INVARIANTS NoResponseLost
