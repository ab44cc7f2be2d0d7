\* Every ALU64, jump and 64-bit immediate case of run_ebpf_vm, from every
\* sampled register file, against the arithmetic of spec 4.1.
CONSTANTS
  WORD_BITS = 8
  IMM_BITS = 4
  Regs = {0, 1}
  Vals <- MCVals
  Imms <- MCImms
  Offsets = {2}
  Widths = {16, 32, 64}
  Unknown <- MCUnknown
SPECIFICATION Spec
INVARIANT TypeOK
INVARIANT AluMatchesSpec
INVARIANT JumpsMatchSpec
INVARIANT WideImmediateMatchesSpec
INVARIANT MemoryMatchesSpec
\* A behaviour is one instruction: after Exec the engine is at the next
\* instruction, which is another initial state.
CHECK_DEADLOCK FALSE
