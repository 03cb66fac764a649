CONSTANTS
  BitClk = 3
  CntMod = 4
  Garbled = Garbled
  Payload <- MCPayload
SPECIFICATION Spec
INVARIANTS UartTypeOK StopbitWindow
PROPERTIES ImplementsFrame
