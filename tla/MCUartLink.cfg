CONSTANTS
  BitClk = 3
  CntMod = 4
  Lead = 1
  Lag = 2
  Payload <- MCPayload
SPECIFICATION Spec
INVARIANTS LinkTypeOK SampledInItsBit EndsInStopBit
PROPERTIES AnnouncedWhole ImplementsChannel
