CONSTANTS
  BitClk = 2
  Data <- MCData
  Garbled = Garbled
  Cells = 2
  Commands <- ZeroCommands
  MemAddresses <- MCMemAddresses
  Pipelined = FALSE
  Resets = FALSE
SPECIFICATION Spec
PROPERTIES EveryCommandAnswered
