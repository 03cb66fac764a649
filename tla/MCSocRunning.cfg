CONSTANTS
  Ram = {m}
  Rom = {r, s}
  Mmio = {p}
  Unmapped = u
  Value = {v, w}
  Written = {w}
  Zero = Zero
  Unknown = Unknown
  FetchPort = FALSE
  Cycles = {2}
SPECIFICATION Spec
PROPERTY CpuReadsOn
