---------------------------- MODULE MCExecutor ----------------------------
(***************************************************************************)
(* Model-checking instances of Executor: the programs (the Code constant) *)
(* and the constants the cfg files give.                                    *)
(***************************************************************************)
EXTENDS Executor

CONSTANTS n1, n2          \* node model values

\* Instructions.  A host call's args stand for r1..r5 set just before it.
Alu(k) == [op |-> "alu", imm |-> k]
Mov6(k) == [op |-> "mov6", imm |-> k]
Ja(o) == [op |-> "ja", off |-> o]
Jeq(k, o) == [op |-> "jeq", imm |-> k, off |-> o]
LocalCall(k) == [op |-> "call", imm |-> k]
Exit == [op |-> "exit"]
Ld(va) == [op |-> "ld", va |-> va]
St(va, k) == [op |-> "st", va |-> va, imm |-> k]
HCall(f, args) == [op |-> "hcall", f |-> f, args |-> args]

ToFun(s) == [i \in 0..(Len(s) - 1) |-> s[i + 1]]

\* Host function table indices (enum EBPF_FUNC, ebpf_vm_functions.h).
MMAP == 2
MONITOR == 3
WAIT == 4
MIGRATE == 5
CLONE == 6
SWITCH == 7
FORK_TO == 9

\* r0 as an argument: a value no argument of these programs takes.
R0Marker == -1

(***************************************************************************)
(* A tour of the examples (examples/function_call, monitor_address,       *)
(* migrate and clone; the monitor scenario of spec section 8), loaded on  *)
(* every node of BootNodes (the tour cfg: n1 and n2, as main() does on    *)
(* each node started with an ELF).  main calls watch(), which calls a     *)
(* helper that stores and loads a                                         *)
(* data word, then mmaps the test variable, registers an EQUAL monitor    *)
(* for 42 with tag 5 and waits.  Back in main the VM migrates to n2,      *)
(* reads the data word there, monitors it for EQUAL 3 with tag 7 and      *)
(* waits (the word is 3, so it resumes at once), then clones itself to n1 *)
(* and n2; the copies exit with r0 = 0 and 1, the original sees 2, makes  *)
(* a call whose table entry is NULL and ends on an opcode the interpreter *)
(* lacks.  mmap needs BUCKET_ENTRIES >= 2.                                 *)
(***************************************************************************)
TourProgram == ToFun(<<
  (* 0 main  *) Mov6(7),
  (* 1       *) LocalCall(10),         \* watch() at 12
  (* 2       *) Alu(1),
  (* 3       *) HCall(MIGRATE, << n2 >>),
  (* 4       *) Ld(8),                 \* the data word, on n2
  (* 5       *) HCall(MONITOR, << 2, 8, 3, 7 >>),
  (* 6       *) HCall(WAIT, << >>),
  (* 7       *) HCall(CLONE, << << n1, n2 >>, 2 >>),
  (* 8       *) Jeq(2, 1),
  (* 9       *) Exit,                  \* the copies
  (* 10      *) HCall(FORK_TO, << >>),  \* the original; NULL entry: skipped
  (* 11      *) [op |-> "bad"],        \* an opcode the switch lacks: EXIT
  (* 12 watch*) Mov6(9),
  (* 13      *) LocalCall(4),          \* helper() at 18
  (* 14      *) HCall(MMAP, << 0, 8 >>),
  (* 15      *) HCall(MONITOR, << 2, R0ARG, 42, 5 >>),
  (* 16      *) HCall(WAIT, << >>),
  (* 17      *) Exit,
  (* 18 help *) St(8, 3),
  (* 19      *) Ld(8),
  (* 20      *) Exit >>)

TourNodes == {n1, n2}
TourBoot == {n1}

\* The va mmap returns for slot 1: 1 << INDEX_SHIFT.
MmapVa == 2^INDEX_SHIFT

(***************************************************************************)
(* examples/monitor_address.c as test_monitor_address.c runs it: mmap the *)
(* test variable (on failure return -1), zero it, monitor it for EQUAL 42 *)
(* with tag 0, wait, then read it.                                        *)
(***************************************************************************)
MonitorProgram == ToFun(<<
  (* 0 *) HCall(MMAP, << 0, 8 >>),
  (* 1 *) Jeq(-1, 5),                 \* INVALID_MMAP_ADDR: to 7
  (* 2 *) St(MmapVa, 0),
  (* 3 *) HCall(MONITOR, << 2, R0ARG, 42, 0 >>),
  (* 4 *) HCall(WAIT, << >>),
  (* 5 *) Ld(MmapVa),                 \* debug_print(*vm_va)
  (* 6 *) Exit,
  (* 7 *) Exit >>)

\* A monitor on an address past the end of page 0, then a wait.
WaitUnmappedProgram == ToFun(<<
  (* 0 *) HCall(MONITOR, << 2, 200, 42, 1 >>),
  (* 1 *) HCall(WAIT, << >>),
  (* 2 *) Exit >>)

\* An address-space switch to 1, accepted because 1 < BUCKET_ENTRIES, then
\* a load from the data region.
SwitchProgram == ToFun(<<
  (* 0 *) HCall(SWITCH, << 1 >>),
  (* 1 *) Ld(0),
  (* 2 *) Exit >>)

OneNode == {n1}

=============================================================================
