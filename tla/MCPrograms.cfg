CONSTANTS
  RunCounts = {1, 2, 3, 117}
  INT_MAX = 127
  CharMod = 4
  Buffer = 12
  Strings <- MCStrings
  HeapSize = 7
  Sizes = {1, 2, 3}
  DataEnds = {9, 10, 11, 12}
  BssSizes = {0, 1, 2, 3, 4, 5}
  Top = 48
  BlockSize = 3
  TimeMod = 16
  CLK_DIV = 2
  Period = 5
  MaxLag = 1
  TxTime = 5
  Spins = 3
  Levels = 8
  Gaps = {1, 4}
  Delays = {16, 19}
  CountMod = 16384
  Clocks = {1, 3, 12}
  Cpi = 4
  Reading = 3
  Spread = 12
  BITS = 4
  EXP_BITS = 4
  Inputs <- MCInputs
  Tests = 2
  ResetBusy = FALSE
  Registers <- MCRegisters
  Rates <- AllRates
SPECIFICATION ProgramsSpec
INVARIANTS
  ProgramsTypeOK
  ReportedAsExpected
  StringsAsSpecified
  BlocksApart
  SectionsVerdict
  PeriodBounds
  NoJump
  ClockReported
  DsqaAccurate
  LoadsWhatWasStored
  SampleWithinBit
PROPERTIES
  ProgramsGoOn
