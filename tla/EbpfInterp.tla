----------------------------- MODULE EbpfInterp -----------------------------
(***************************************************************************)
(* One instruction of run_ebpf_vm on a register file: the engine is at    *)
(* an instruction ins (followed by the slot nxt) with registers before,   *)
(* and Exec runs one pass of the loop.  Every initial state is a state    *)
(* the interpreter can be in, since a register can hold any word; the     *)
(* instruction after Exec is another initial state, so a behaviour stops  *)
(* after one step.  The properties compare the result with the            *)
(* arithmetic spec section 4.1 prescribes for each operation.             *)
(***************************************************************************)
EXTENDS EbpfAlu

CONSTANTS
  Regs,      \* register numbers used as dst and src
  Vals,      \* register contents before the instruction
  Imms,      \* immediates
  Offsets,   \* jump offsets
  Widths,    \* END immediates
  Unknown    \* opcodes with no case of their own (the default case)

VARIABLES
  ins, nxt,        \* the instruction and the slot after it
  before, reg,     \* the registers before and after the step
  cell0, cell,     \* the memory word accessed, before and after the step
  adv,             \* how far ins moved
  status           \* "fetch" before the step, then "run", "exit" or "trap"
vars == <<ins, nxt, before, reg, cell0, cell, adv, status>>

MemCodes == LdxCodes \cup StxCodes \cup StCodes \cup XaddCodes
Slot(codes, imms) ==
  [opcode : codes, dst : Regs, src : Regs, off : Offsets, imm : imms]
Instructions ==
  Slot(Alu64Codes \cup JmpCondCodes \cup {JaCode, LdImmDwCode} \cup Unknown
         \cup MemCodes, Imms)
  \cup Slot(EndCodes, Widths)

Init ==
  /\ ins \in Instructions
  /\ nxt \in [opcode : {0}, dst : {0}, src : {0}, off : {0},
             imm : IF ins.opcode = LdImmDwCode THEN Imms ELSE {0}]
  /\ before \in [Regs -> Vals]
  /\ reg = before
  /\ cell0 \in IF ins.opcode \in MemCodes THEN Vals ELSE {0}
  /\ cell = cell0
  /\ adv = 0
  /\ status = "fetch"

Exec ==
  /\ status = "fetch"
  /\ \E o \in Execute(ins, nxt, reg, cell) :
       /\ reg' = o.reg
       /\ cell' = o.mem
       /\ adv' = o.adv
       /\ status' = o.st
  /\ UNCHANGED <<ins, nxt, before, cell0>>

Next == Exec

Spec == Init /\ [][Next]_vars

-----------------------------------------------------------------------------
(* The arithmetic of spec 4.1 and 8, by operation name, on the operands as *)
(* 64-bit unsigned values: the register, or the 32-bit immediate           *)
(* sign-extended.  Bitwise operations are on sets of bit positions.       *)

Bits(w) == {i \in 0..WORD_BITS - 1 : (w \div 2^i) % 2 = 1}
FromBits(S) == LET RECURSIVE F(_) F(T) == IF T = {} THEN 0
                                            ELSE LET i == CHOOSE j \in T : TRUE
                                                 IN 2^i + F(T \ {i})
               IN F(S)
Signed(w) == IF w < 2^(WORD_BITS - 1) THEN w ELSE w - Word

SpecOperand(i, r) ==
  IF i.opcode & EBPF_SRC_IS_REG # 0 THEN r[i.src] ELSE i.imm % Word

\* What the spec leaves open: division by zero and shifts by the width or more.
SpecDefined(op, b) ==
  /\ op \in {"DIV", "MOD"} => b # 0
  /\ op \in {"LSH", "RSH", "ARSH"} => b < WORD_BITS

SpecAlu(op, a, b) ==
  CASE op = "ADD"  -> (a + b) % Word
    [] op = "SUB"  -> (a - b) % Word
    [] op = "MUL"  -> (a * b) % Word
    [] op = "DIV"  -> a \div b
    [] op = "MOD"  -> a % b
    [] op = "OR"   -> FromBits(Bits(a) \cup Bits(b))
    [] op = "AND"  -> FromBits(Bits(a) \cap Bits(b))
    [] op = "XOR"  -> FromBits((Bits(a) \ Bits(b)) \cup (Bits(b) \ Bits(a)))
    [] op = "LSH"  -> (a * 2^b) % Word
    [] op = "RSH"  -> a \div 2^b
    [] op = "ARSH" -> (Signed(a) \div 2^b) % Word
    [] op = "NEG"  -> (Word - a) % Word
    [] op = "MOV"  -> b

SpecCond(op, a, b) ==
  CASE op = "JEQ"  -> a = b
    [] op = "JNE"  -> a # b
    [] op = "JGT"  -> a > b
    [] op = "JGE"  -> a >= b
    [] op = "JLT"  -> a < b
    [] op = "JLE"  -> a <= b
    [] op = "JSGT" -> Signed(a) > Signed(b)
    [] op = "JSGE" -> Signed(a) >= Signed(b)
    [] op = "JSLT" -> Signed(a) < Signed(b)
    [] op = "JSLE" -> Signed(a) <= Signed(b)
    [] op = "JSET" -> Bits(a) \cap Bits(b) # {}

\* The width low bytes of v in the opposite order (the END to-BE operation).
SpecByteSwap(v, width) ==
  LET n == width \div 8
  IN  LET RECURSIVE S(_) S(k) == IF k = n THEN 0
                                 ELSE ByteAt(v, k) * 2^(BYTE_BITS * (n - 1 - k))
                                      + S(k + 1)
      IN S(0)

-----------------------------------------------------------------------------

TypeOK ==
  /\ ins \in Instructions
  /\ before \in [Regs -> Vals]
  /\ reg \in [Regs -> 0..Word - 1]
  /\ cell \in 0..Word - 1
  /\ adv \in {0, 1, 2} \cup {1 + o : o \in Offsets}
  /\ status \in {"fetch", "run", "exit", "trap"}

(* Every ALU64 instruction whose result the spec defines leaves dst with   *)
(* that result, computed in 64-bit unsigned (arsh: signed) arithmetic with *)
(* wraparound, and no other register changed (the ALU64 cases of           *)
(* run_ebpf_vm, with the immediate cast (uint64_t)ins->immediate).         *)
AluMatchesSpec ==
  LET op == OpName(EBPF_ALU_OP, ins.opcode)
      b == SpecOperand(ins, before)
  IN  status # "fetch" /\ ins.opcode \in Alu64Codes /\ SpecDefined(op, b)
        => /\ status = "run"
           /\ reg = [before EXCEPT ![ins.dst] = SpecAlu(op, before[ins.dst], b)]

(* A conditional jump moves to the next instruction plus the offset exactly *)
(* when the typed comparison holds (signed for the JS* family, unsigned     *)
(* otherwise); JA always adds the offset; no register changes (the JMP      *)
(* cases of run_ebpf_vm followed by the loop's ins++).                      *)
JumpsMatchSpec ==
  status # "fetch" /\ (ins.opcode \in JmpCondCodes \/ ins.opcode = JaCode)
    => /\ status = "run"
       /\ reg = before
       /\ adv = 1 + IF ins.opcode = JaCode
                       \/ SpecCond(OpName(EBPF_JMP_OP, ins.opcode),
                                   before[ins.dst], SpecOperand(ins, before))
                    THEN ins.off ELSE 0

(* A 64-bit immediate load takes the low half from the first slot and the  *)
(* high half from the second, and skips both slots (the LD_IMM_DW case,    *)
(* (uint32_t)ins[0].immediate | ((uint64_t)ins[1].immediate << 32)).       *)
WideImmediateMatchesSpec ==
  status # "fetch" /\ ins.opcode = LdImmDwCode
    => /\ adv = 2
       /\ reg[ins.dst] = (ins.imm % 2^IMM_BITS)
                         + (nxt.imm % 2^IMM_BITS) * 2^IMM_BITS

(* A load of k bytes sets dst to the k bytes at the address, zero-extended; *)
(* a store of k bytes (of src, or of the immediate sign-extended) and an     *)
(* atomic add of k bytes (the old k bytes plus src, modulo 2^(8k)) change    *)
(* exactly those bytes of memory and no register (the LDX, STX, ST and XADD  *)
(* cases of run_ebpf_vm on a little-endian host).                            *)
MemoryMatchesSpec ==
  LET k == AccessBytes(ins.opcode)
      old == Low(cell0, k)
      Bytes(v) == [j \in 0..7 |-> ByteAt(v, j)]
      \* memory whose first k bytes are those of v and whose others are kept
      Written(v) == [j \in 0..7 |-> IF j < k THEN ByteAt(v, j) ELSE ByteAt(cell0, j)]
  IN  status # "fetch" /\ ins.opcode \in MemCodes
        => /\ status = "run"
           /\ CASE ins.opcode \in LdxCodes ->
                     /\ reg = [before EXCEPT ![ins.dst] = old] /\ cell = cell0
                 [] ins.opcode \in StxCodes ->
                     reg = before /\ Bytes(cell) = Written(before[ins.src])
                 [] ins.opcode \in StCodes ->
                     reg = before /\ Bytes(cell) = Written(ins.imm % Word)
                 [] ins.opcode \in XaddCodes ->
                     /\ reg = before
                     /\ Bytes(cell) = Written((old + before[ins.src])
                                              % 2^(BYTE_BITS * k))

(* END to big-endian leaves dst holding its low width bits with the byte   *)
(* order reversed, as the name to_big_endian says (the END TO_BE case and  *)
(* to_big_endian on a little-endian host).                                 *)
BigEndianSwaps ==
  status # "fetch" /\ ins.opcode = EBPF_CLS.ALU + EBPF_ALU_OP.END + EBPF_TO_BE
    => reg[ins.dst] = SpecByteSwap(before[ins.dst], ins.imm)
=============================================================================
