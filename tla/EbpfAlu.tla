------------------------------ MODULE EbpfAlu ------------------------------
(***************************************************************************)
(* The data path of run_ebpf_vm (ebpf_vm_simulator.c): the opcode         *)
(* encoding of ebpf_vm_simulator.h, every case of the switch but CALL and  *)
(* EXIT (ALU64, jumps, the 64-bit immediate, loads, stores, atomic adds,  *)
(* END and the default case), and to_little_endian / to_big_endian as     *)
(* built on a little-endian host.  A memory access is to the word vm_mmu  *)
(* translates it to (Executor models the translation and its failure).    *)
(*                                                                         *)
(* Words have WORD_BITS bits and a byte is WORD_BITS \div 8 bits, so a    *)
(* word has eight bytes as in the code.  The immediate is a signed        *)
(* IMM_BITS-bit integer (int32_t in the code, IMM_BITS = WORD_BITS / 2).  *)
(* An instruction is a record [opcode, dst, src, off, imm].                *)
(***************************************************************************)
EXTENDS Integers, Bitwise

CONSTANTS WORD_BITS, IMM_BITS

Word == 2^WORD_BITS
BYTE_BITS == WORD_BITS \div 8

\* The opcode fields of ebpf_vm_simulator.h.
EBPF_CLS == [LD |-> 0, LDX |-> 1, ST |-> 2, STX |-> 3, ALU |-> 4, JMP |-> 5,
             RET |-> 6, ALU64 |-> 7]
EBPF_ALU_OP == [ADD |-> 0, SUB |-> 16, MUL |-> 32, DIV |-> 48, OR |-> 64,
                AND |-> 80, LSH |-> 96, RSH |-> 112, NEG |-> 128, MOD |-> 144,
                XOR |-> 160, MOV |-> 176, ARSH |-> 192, END |-> 208]
EBPF_JMP_OP == [JA |-> 0, JEQ |-> 16, JGT |-> 32, JGE |-> 48, JSET |-> 64,
                JNE |-> 80, JSGT |-> 96, JSGE |-> 112, CALL |-> 128,
                EXIT |-> 144, JLT |-> 160, JLE |-> 176, JSLT |-> 192,
                JSLE |-> 208]
EBPF_SRC_IS_IMM == 0
EBPF_SRC_IS_REG == 8
EBPF_SIZE == [W |-> 0, H |-> 8, B |-> 16, DW |-> 24]
EBPF_MODE == [IMM |-> 0, ABS |-> 32, IND |-> 64, MEM |-> 96, LEN |-> 128,
              MSH |-> 160, XADD |-> 192]
EBPF_TO_LE == 0
EBPF_TO_BE == 8

\* The case labels of the switch that this module covers.
Alu64Codes ==
  {EBPF_CLS.ALU64 + EBPF_ALU_OP[op] + src :
     op \in DOMAIN EBPF_ALU_OP \ {"NEG", "END"},
     src \in {EBPF_SRC_IS_IMM, EBPF_SRC_IS_REG}}
  \cup {EBPF_CLS.ALU64 + EBPF_ALU_OP.NEG}
JmpCondCodes ==
  {EBPF_CLS.JMP + EBPF_JMP_OP[op] + src :
     op \in DOMAIN EBPF_JMP_OP \ {"JA", "CALL", "EXIT"},
     src \in {EBPF_SRC_IS_IMM, EBPF_SRC_IS_REG}}
JaCode == EBPF_CLS.JMP + EBPF_JMP_OP.JA
LdImmDwCode == EBPF_CLS.LD + EBPF_MODE.IMM + EBPF_SIZE.DW
EndCodes == {EBPF_CLS.ALU + EBPF_ALU_OP.END + t : t \in {EBPF_TO_LE, EBPF_TO_BE}}

\* The load and store cases; each accesses memory at vm_mmu's result.
SizeBytes == [W |-> 4, H |-> 2, B |-> 1, DW |-> 8]
LdxCodes == {EBPF_CLS.LDX + EBPF_MODE.MEM + EBPF_SIZE[z] : z \in DOMAIN EBPF_SIZE}
StxCodes == {EBPF_CLS.STX + EBPF_MODE.MEM + EBPF_SIZE[z] : z \in DOMAIN EBPF_SIZE}
StCodes == {EBPF_CLS.ST + EBPF_MODE.MEM + EBPF_SIZE[z] : z \in DOMAIN EBPF_SIZE}
XaddCodes == {EBPF_CLS.STX + EBPF_MODE.XADD + EBPF_SIZE[z] : z \in {"W", "DW"}}
\* EBPF_MEM_SIZE(code), as a number of bytes.
AccessBytes(code) == SizeBytes[CHOOSE z \in DOMAIN EBPF_SIZE : EBPF_SIZE[z] = code & 24]

\* EBPF_ALU_OP(code), EBPF_JMP_OP(code): the operation field, by name.
OpName(table, code) == CHOOSE k \in DOMAIN table : table[k] = code & 240
IsReg(code) == code & EBPF_SRC_IS_REG # 0

\* Variant of (uint64_t) that does not wrap, as a wider type would.
U64Unwrapped(x) == x
U64(x) == x % Word                                      \* (uint64_t)x
\* Variants of (int64_t): the cast left out, and a sign test off by one.
I64Unsigned(w) == w
I64OffByOne(w) == IF w > Word \div 2 THEN w - Word ELSE w
I64(w) == IF w >= Word \div 2 THEN w - Word ELSE w      \* (int64_t)w

\* Variant of the operand that zero-extends the immediate.
OperandZeroExtended(ins, r) ==
  IF IsReg(ins.opcode) THEN r[ins.src] ELSE ins.imm % 2^IMM_BITS
\* The second operand: vm->reg[ins->src_reg] or (uint64_t)ins->immediate.
Operand(ins, r) == IF IsReg(ins.opcode) THEN r[ins.src] ELSE U64(ins.imm)

\* Variant of the 64-bit immediate without the (uint32_t) cast of the low half.
LdImmDwSignedLow(lo, hi) == U64(lo) | U64(U64(hi) * 2^IMM_BITS)
\* (uint32_t)ins[0].immediate | ((uint64_t)ins[1].immediate << 32)
LdImmDw(lo, hi) == (lo % 2^IMM_BITS) | U64(U64(hi) * 2^IMM_BITS)
\* x86-64 and arm64 shift a 64-bit register by the count modulo 64, which is
\* what the build does for the counts C leaves undefined.
Count(c) == c % WORD_BITS

\* *(uintN_t *)p on a little-endian host: the first k bytes at p are the
\* low k bytes of the word there, so (uintN_t)v keeps the low k bytes of v.
Low(v, k) == v % 2^(BYTE_BITS * k)
\* Variant of a narrow store that writes the whole word.
StoreLowWide(w, k, v) == U64(v)
\* *(uintN_t *)p = (uintN_t)v: the low k bytes of the word w replaced.
StoreLow(w, k, v) == w - Low(w, k) + Low(v, k)

\* An ALU result, or the SIGFPE of an x86 division by zero.
Ok(v) == [trap |-> FALSE, val |-> v]
Trap == [trap |-> TRUE, val |-> 0]

\* The ALU64 cases: dst op= operand.  Division by zero is undefined in C:
\* x86 traps, arm64's udiv yields 0 (so % yields the dividend).
Alu64(op, d, s) ==
  CASE op = "ADD"  -> {Ok(U64(d + s))}
    [] op = "SUB"  -> {Ok(U64(d - s))}
    [] op = "MUL"  -> {Ok(U64(d * s))}
    [] op = "DIV"  -> IF s = 0 THEN {Trap, Ok(0)} ELSE {Ok(d \div s)}
    [] op = "OR"   -> {Ok(d | s)}
    [] op = "AND"  -> {Ok(d & s)}
    [] op = "LSH"  -> {Ok(U64(d * 2^Count(s)))}
    [] op = "RSH"  -> {Ok(shiftR(d, Count(s)))}
    [] op = "NEG"  -> {Ok(U64(-d))}
    [] op = "MOD"  -> IF s = 0 THEN {Trap, Ok(d)} ELSE {Ok(d % s)}
    [] op = "XOR"  -> {Ok(d ^^ s)}
    [] op = "MOV"  -> {Ok(s)}
    [] op = "ARSH" -> \* sar: a logical shift that copies the sign bit in
                      {Ok(shiftR(d, Count(s))
                          + IF I64(d) < 0 THEN Word - 2^(WORD_BITS - Count(s))
                                          ELSE 0)}

\* The comparisons of the conditional jump cases.
JmpCond(op, d, s) ==
  CASE op = "JEQ"  -> d = s
    [] op = "JGT"  -> d > s
    [] op = "JGE"  -> d >= s
    [] op = "JSET" -> (d & s) # 0
    [] op = "JNE"  -> d # s
    [] op = "JSGT" -> I64(d) > I64(s)
    [] op = "JSGE" -> I64(d) >= I64(s)
    [] op = "JLT"  -> d < s
    [] op = "JLE"  -> d <= s
    [] op = "JSLT" -> I64(d) < I64(s)
    [] op = "JSLE" -> I64(d) <= I64(s)

\* *(p + idx) on a little-endian host: byte idx counted from the low end.
ByteAt(v, idx) == (v \div 2^(BYTE_BITS * idx)) % 2^BYTE_BITS

\* On a little-endian host to_little_endian returns *v.
to_little_endian(v, width) == v

\* The loop of to_big_endian: result |= *(p++); result = result << 8.
RECURSIVE ToBigEndianLoop(_, _, _, _)
ToBigEndianLoop(v, width, idx, result) ==
  IF idx < width \div 8
  THEN ToBigEndianLoop(v, width, idx + 1,
                       U64((result | ByteAt(v, idx)) * 2^BYTE_BITS))
  ELSE result
to_big_endian(v, width) == ToBigEndianLoop(v, width, 0, 0)

\* One pass of run_ebpf_vm's loop, given the register file r, the following
\* slot nxt and the memory word m that vm_mmu translates the access to: the
\* outcomes [reg, mem, adv, st], where adv is how far ins moves (the case's
\* own += plus the trailing ins++) and st is "run", "exit" (the default
\* case) or "trap".
Execute(ins, nxt, r, m) ==
  LET code == ins.opcode
      d == r[ins.dst]
      operand == Operand(ins, r)
      k == AccessBytes(code)
      Set(v) == [r EXCEPT ![ins.dst] = v]
      Run(regs, mem, a) == {[reg |-> regs, mem |-> mem, adv |-> a, st |-> "run"]}
  IN  CASE code \in Alu64Codes ->
             {[reg |-> Set(o.val), mem |-> m, adv |-> 1,
               st |-> IF o.trap THEN "trap" ELSE "run"] :
                o \in Alu64(OpName(EBPF_ALU_OP, code), d, operand)}
        [] code \in JmpCondCodes ->
             Run(r, m, 1 + IF JmpCond(OpName(EBPF_JMP_OP, code), d, operand)
                           THEN ins.off ELSE 0)
        [] code = JaCode -> Run(r, m, 1 + ins.off)
        [] code = LdImmDwCode -> Run(Set(LdImmDw(ins.imm, nxt.imm)), m, 2)
        [] code \in LdxCodes -> Run(Set(Low(m, k)), m, 1)
        [] code \in StxCodes -> Run(r, StoreLow(m, k, r[ins.src]), 1)
        [] code \in StCodes -> Run(r, StoreLow(m, k, U64(ins.imm)), 1)
        [] code \in XaddCodes -> Run(r, StoreLow(m, k, Low(m, k) + r[ins.src]), 1)
        [] code = EBPF_CLS.ALU + EBPF_ALU_OP.END + EBPF_TO_LE ->
             Run(Set(to_little_endian(d, ins.imm)), m, 1)
        [] code = EBPF_CLS.ALU + EBPF_ALU_OP.END + EBPF_TO_BE ->
             Run(Set(to_big_endian(d, ins.imm)), m, 1)
        [] OTHER -> {[reg |-> r, mem |-> m, adv |-> 0, st |-> "exit"]}
=============================================================================
