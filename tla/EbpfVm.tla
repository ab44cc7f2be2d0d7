------------------------------ MODULE EbpfVm ------------------------------
(***************************************************************************)
(* The Virtual Machine Image and the Software MMU of the eBPF VM executor  *)
(* (src/ebpf_vm_executor/ebpf_vm_simulator.h and ebpf_vm_simulator.c).    *)
(*                                                                         *)
(* An image is a record holding the fields of struct ebpf_vm that the      *)
(* engine, the host functions and migration read or write.  Registers r1  *)
(* to r5 are not state: a host call's arguments are part of the call      *)
(* instruction (they stand for the movs the compiler emits before it).    *)
(* Of the callee-saved registers r6..r9 only r6 is kept: the save and the *)
(* restore treat all four alike.  Page 0 of the image (data + stack) is   *)
(* kept as 8-byte words; the header and code are not data here.           *)
(*                                                                         *)
(* Host memory is a set of objects: the allocation of an image ("block")  *)
(* and host variables mapped with mmap ("host").  A page-table base is    *)
(* such an object, so a base that names an object of another node, or a   *)
(* freed block, is a pointer that is not valid where it is used.          *)
(*                                                                         *)
(* 64-bit words are scaled to WORD_BITS bits, and the va layout (offset  *)
(* below INDEX_SHIFT, a 4-bit page index, zero above PACKET_VA_SHIFT) is  *)
(* scaled with it: what matters is that FP - 64 from 0 wraps to a value   *)
(* with high bits set, as it does in 64 bits.                              *)
(***************************************************************************)
EXTENDS Integers, Sequences, FiniteSets

CONSTANTS
  Nodes,            \* executors (hosts), model values
  Code,             \* the loaded program: [0..N-1 -> instruction record]
  ENTRY,            \* offset of vm_main, in instructions
  WORD_BITS,        \* width a 64-bit register is scaled to
  INDEX_SHIFT,      \* scaled INDEX_SHIFT (32 in the source)
  PACKET_VA_SHIFT,  \* scaled PACKET_VA_SHIFT (36 in the source)
  BUCKET_ENTRIES,   \* page-table entries per address space (1 in the source)
  PAGE_TABLE_NUM,   \* address spaces (1 in the source)
  HostVars          \* ids (integers) of host variables a VM may mmap

ASSUME PACKET_VA_SHIFT = INDEX_SHIFT + 4 /\ PACKET_VA_SHIFT < WORD_BITS

\* Constants of ebpf_vm_simulator.h
EBPF_VM_STACK_FRAME_SIZE == 64
EBPF_VM_DEFAULT_STACK_SIZE == 128
EBPF_VM_DEFAULT_DATA_SIZE == 64
EBPF_VM_STACK_DEPTH_MAX == 3
PKT_VM_MAX_SYMBS == 256
SAVED_REGS == 5               \* r6, r7, r8, r9, LR (save_caller_register)

VM_STATE_RUNNING == "RUNNING"
VM_STATE_EXIT == "EXIT"
VM_STATE_WAIT_FOR_ADDRESS == "WAIT"
VmStates == {VM_STATE_RUNNING, VM_STATE_EXIT, VM_STATE_WAIT_FOR_ADDRESS}

Word == 2^WORD_BITS
PAGE_TABLE_ERROR == Word - 1
PageBytes == EBPF_VM_DEFAULT_DATA_SIZE + EBPF_VM_DEFAULT_STACK_SIZE
PageWords == 0..(PageBytes \div 8 - 1)
DataWords == 0..(EBPF_VM_DEFAULT_DATA_SIZE \div 8 - 1)

(***************************************************************************)
(* Host objects and the result of a translation.                          *)
(***************************************************************************)
Block(n, k) == [kind |-> "block", node |-> n, id |-> k]
HostVar(n, v) == [kind |-> "host", node |-> n, id |-> v]
NoBase == [kind |-> "null", node |-> CHOOSE n \in Nodes : TRUE, id |-> 0]

Pte(base, size) == [base |-> base, size |-> size]
EmptyPte == Pte(NoBase, 0)

\* vm_mmu's answers: an address, the PAGE_TABLE_ERROR sentinel, or an
\* entry read from outside page_table[] (undefined).
Translated(obj, off) == [kind |-> "ok", obj |-> obj, off |-> off]
MmuError == [kind |-> "error", obj |-> NoBase, off |-> 0]
MmuWild == [kind |-> "wild", obj |-> NoBase, off |-> 0]

(***************************************************************************)
(* create_vm + vm->sys_reg[PC] = main_offset (create_vm_from_elf): a fresh *)
(* image in block blk.  lin and nclone are history fields of the model    *)
(* only: the identity of a VM across migration and clone.                 *)
(***************************************************************************)
CreateVm(blk, lin) ==
  [ lin    |-> lin,
    nclone |-> 0,
    block  |-> blk,
    pc     |-> ENTRY,
    lr     |-> 0,
    fp     |-> EBPF_VM_DEFAULT_DATA_SIZE + EBPF_VM_DEFAULT_STACK_SIZE
                 - EBPF_VM_STACK_FRAME_SIZE,
    depth  |-> 0,
    r0     |-> 0,
    r6     |-> 0,
    state  |-> VM_STATE_RUNNING,
    mem    |-> [w \in PageWords |-> 0],
    pt     |-> [a \in 0..PAGE_TABLE_NUM-1 |->
                 [p \in 0..BUCKET_ENTRIES-1 |->
                    IF a = 0 /\ p = 0 THEN Pte(blk, PageBytes) ELSE EmptyPte]],
    asid   |-> 0,
    mons   |-> << >> ]

(***************************************************************************)
(* vm_mmu: page index in bits INDEX_SHIFT.., offset below; any bit at or  *)
(* above PACKET_VA_SHIFT is an error.  The page index is not checked      *)
(* against BUCKET_ENTRIES nor the ASID against PAGE_TABLE_NUM.            *)
(***************************************************************************)
VmMmu(va, vm) ==
  LET offset == va % 2^INDEX_SHIFT
      idx    == vm.asid
      page   == va \div 2^INDEX_SHIFT
  IN  IF va \div 2^PACKET_VA_SHIFT # 0 THEN MmuError
      ELSE IF idx >= PAGE_TABLE_NUM \/ page >= BUCKET_ENTRIES THEN MmuWild
      ELSE LET e == vm.pt[idx][page]
           IN  IF e.base # NoBase /\ offset < e.size
                 THEN Translated(e.base, offset)
                 ELSE MmuError

\* A dereference of a on node n by vm touches live memory of that node:
\* the VM's own block or a host variable.  Anything else (the error
\* sentinel, an undefined entry, a block of another node) is a wild access.
Resident(a, n, vm) ==
  /\ a.kind = "ok"
  /\ a.obj.node = n
  /\ \/ a.obj = vm.block /\ a.off \div 8 \in PageWords
     \/ a.obj.kind = "host" /\ a.obj.id \in HostVars

\* The 8-byte word at a resident address.
ReadWord(a, vm, hmem) ==
  IF a.obj.kind = "block" THEN vm.mem[a.off \div 8] ELSE hmem[a.obj.id]

=============================================================================
