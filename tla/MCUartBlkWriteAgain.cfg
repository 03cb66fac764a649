CONSTANTS
  BitClk = 2
  Data = {0, 1}
  Garbled = Garbled
  MaxResets = 1
SPECIFICATION Spec
PROPERTIES WriteAgain
