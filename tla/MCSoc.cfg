CONSTANTS
  Ram = {m}
  Rom = {r, s}
  Mmio = {p}
  Unmapped = u
  Value = {v, w}
  Written = {w}
  Zero = Zero
  Unknown = Unknown
  FetchPort = TRUE
  Cycles = {2}
SPECIFICATION Spec
SYMMETRY Symmetry
INVARIANTS SocTypeOK DbgReadsMemory
PROPERTIES CpuReadsMemory FetchReadsRom WritesTakeEffect ResetIsSeen CyclesGranted
