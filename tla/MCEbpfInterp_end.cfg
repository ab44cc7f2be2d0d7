\* END to big-endian against a byte swap of the low width bits.

CONSTANTS
  WORD_BITS = 8
  IMM_BITS = 4
  Regs = {0, 1}
  Vals <- MCVals
  Imms <- MCImms
  Offsets = {2}
  Widths = {16, 32, 64}
  Unknown <- MCUnknown
SPECIFICATION Spec
INVARIANT BigEndianSwaps

\* A behaviour is one instruction: after Exec the engine is at the next
\* instruction, which is another initial state.
CHECK_DEADLOCK FALSE
