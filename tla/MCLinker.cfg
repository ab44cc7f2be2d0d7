CONSTANTS
  ElfFiles <- MCElfFiles
  INSN_SIZE = 8
SPECIFICATION Spec
CHECK_DEADLOCK FALSE
INVARIANT TypeOK NoPartialImage LocalCallsReachTarget
