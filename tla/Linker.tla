------------------------------ MODULE Linker ------------------------------
(***************************************************************************)
(* The ELF loader and static linker (src/ebpf_vm_executor/ebpf_vm_elf.c),  *)
(* followed by main()'s add_vm (src/ebpf_vm_test/mp_vm_test.c).            *)
(*                                                                         *)
(* An object file is a record: whether setup_elf_context accepts its      *)
(* section table, the immediates of its .text instructions, its .symtab   *)
(* (name, type, section, value in bytes) and, if it has .rel.text, the    *)
(* relocations (r_offset in bytes, symbol index).  create_vm_from_elf is  *)
(* a sequence of steps; the relocation loop takes one step per entry.     *)
(* The image is reduced to what the loader writes: the code immediates,   *)
(* the entry PC and the symbol table pointer vm->rd.symbols.              *)
(***************************************************************************)
EXTENDS Integers, Sequences

CONSTANTS
  ElfFiles,     \* the object files the loader may be given
  INSN_SIZE     \* sizeof(struct ebpf_instruction), 8

VARIABLES
  elf,          \* the object file being loaded
  phase,        \* where create_vm_from_elf / main is
  mainOff,      \* main_offset
  vm,           \* the image, or NoVm
  ri            \* the relocation loop index

vars == <<elf, phase, mainOff, vm, ri>>

\* The names of ebpf_global_symbs (ebpf_vm_functions.c); the entry after
\* the last is {NULL, NULL}.
GlobalSymbs == <<"bug", "debug_print", "mmap", "monitor_address",
                 "wait_for_address_event", "migrate_to", "clone_to",
                 "switch_to_address_space", "memcpy">>
PKT_VM_MAX_SYMBS == 256
\* 0xffffffff; no table index reaches it, and -1 stands for it here.
PKT_VM_INVALID_FUNC_IDX == -1

NoVm == [code |-> << >>, pc |-> -1, symbols |-> "NULL"]

\* get_symbol_by_name: the first symbol of that name, or 0 (NULL).
GetSymbolByName(f, name) ==
  IF \E k \in DOMAIN f.syms : f.syms[k].name = name
    THEN CHOOSE k \in DOMAIN f.syms :
           /\ f.syms[k].name = name
           /\ \A j \in 1..(k - 1) : f.syms[j].name # name
    ELSE 0

\* get_function_offset: a function symbol defined in .text, in instructions.
GetFunctionOffset(f, name) ==
  LET k == GetSymbolByName(f, name)
  IN  IF k = 0 \/ f.syms[k].type # "FUNC" \/ f.syms[k].shndx # "text" THEN -1
      ELSE f.syms[k].value \div INSN_SIZE

\* get_func_idx_by_name over vm->rd.symbols, which is NULL until add_vm.
GetFuncIdxByName(v, name) ==
  IF v.symbols = "NULL" THEN PKT_VM_INVALID_FUNC_IDX
  ELSE IF \E i \in 1..Len(GlobalSymbs) : GlobalSymbs[i] = name /\ i - 1 < PKT_VM_MAX_SYMBS
         THEN (CHOOSE i \in 1..Len(GlobalSymbs) : GlobalSymbs[i] = name) - 1
         ELSE PKT_VM_INVALID_FUNC_IDX

Init ==
  /\ elf \in ElfFiles
  /\ phase = "setup"
  /\ mainOff = -1
  /\ vm = NoVm
  /\ ri = 0

\* setup_elf_context: the three sections and their types.
SetupElfContext ==
  /\ phase = "setup"
  /\ phase' = IF elf.sectionsOk THEN "main" ELSE "done"
  /\ UNCHANGED <<elf, mainOff, vm, ri>>

\* Variant that goes on to create_vm without checking main_offset.
FindMainUnchecked ==
  /\ phase = "main"
  /\ mainOff' = GetFunctionOffset(elf, "vm_main")
  /\ phase' = "create"
  /\ UNCHANGED <<elf, vm, ri>>

\* main_offset = get_function_offset(&ctx, "vm_main").
FindMain ==
  /\ phase = "main"
  /\ mainOff' = GetFunctionOffset(elf, "vm_main")
  /\ phase' = IF mainOff' < 0 THEN "done" ELSE "create"
  /\ UNCHANGED <<elf, vm, ri>>

(***************************************************************************)
(* create_vm (calloc may fail: NULL is returned), the PC set to           *)
(* main_offset, then do_relocation if there is a .rel.text.               *)
(***************************************************************************)
CreateVm ==
  /\ phase = "create"
  /\ \/ /\ vm' = [code |-> elf.text, pc |-> mainOff, symbols |-> "NULL"]
        /\ phase' = IF elf.hasRel THEN "reloc" ELSE "done"
        /\ ri' = 0
     \/ /\ phase' = "done"
        /\ UNCHANGED <<vm, ri>>
  /\ UNCHANGED <<elf, mainOff>>

\* Variant patching the call with func_offset - ins_offset.
RelocateNoMinusOne(v, f, k) ==
  LET ins == f.rels[k].offset \div INSN_SIZE
      fo  == GetFunctionOffset(f, f.syms[f.rels[k].sym].name)
  IN  IF fo >= 0 THEN [v EXCEPT !.code[ins + 1] = fo - ins] ELSE v

(***************************************************************************)
(* One iteration of do_relocation: a function symbol of .text wins and    *)
(* the call gets the relative offset func - ins - 1; otherwise a name of  *)
(* the host table gives its index; otherwise the instruction is left.     *)
(***************************************************************************)
Relocate(v, f, k) ==
  LET r    == f.rels[k]
      ins  == r.offset \div INSN_SIZE
      name == f.syms[r.sym].name
      fo   == GetFunctionOffset(f, name)
      fi   == GetFuncIdxByName(v, name)
  IN  IF fo >= 0 THEN [v EXCEPT !.code[ins + 1] = fo - ins - 1]
      ELSE IF fi # PKT_VM_INVALID_FUNC_IDX THEN [v EXCEPT !.code[ins + 1] = fi]
      ELSE v

\* Variant whose loop index moves on also when the loop ends.
DoRelocationOverrun ==
  /\ phase = "reloc"
  /\ ri' = ri + 1
  /\ IF ri < Len(elf.rels)
       THEN /\ vm' = Relocate(vm, elf, ri + 1)
            /\ UNCHANGED phase
       ELSE /\ phase' = "done"
            /\ UNCHANGED vm
  /\ UNCHANGED <<elf, mainOff>>

DoRelocation ==
  /\ phase = "reloc"
  /\ IF ri < Len(elf.rels)
       THEN /\ vm' = Relocate(vm, elf, ri + 1)
            /\ ri' = ri + 1
            /\ UNCHANGED phase
       ELSE /\ phase' = "done"
            /\ UNCHANGED <<vm, ri>>
  /\ UNCHANGED <<elf, mainOff>>

\* main: a NULL image ends the test; otherwise add_vm installs the table.
AddVm ==
  /\ phase = "done"
  /\ phase' = "added"
  /\ vm' = IF vm = NoVm THEN vm ELSE [vm EXCEPT !.symbols = "global"]
  /\ UNCHANGED <<elf, mainOff, ri>>

Next ==
  \/ SetupElfContext
  \/ FindMain
  \/ CreateVm
  \/ DoRelocation
  \/ AddVm

Spec == Init /\ [][Next]_vars

-----------------------------------------------------------------------------
TypeOK ==
  /\ elf \in ElfFiles
  /\ phase \in {"setup", "main", "create", "reloc", "done", "added"}
  /\ mainOff \in Int
  /\ ri \in 0..Len(elf.rels)
  /\ vm.symbols \in {"NULL", "global"}
  /\ vm # NoVm => DOMAIN vm.code = DOMAIN elf.text

Loaded == phase \in {"done", "added"}

(***************************************************************************)
(* A load that fails returns no image (spec 4.4): an image comes back only *)
(* for an object whose sections are well formed and that defines vm_main *)
(* in .text, and it starts at vm_main.                                     *)
(***************************************************************************)
NoPartialImage ==
  Loaded /\ vm # NoVm =>
    /\ elf.sectionsOk
    /\ GetFunctionOffset(elf, "vm_main") >= 0
    /\ vm.pc = GetFunctionOffset(elf, "vm_main")

\* The relocations of f whose symbol is a function defined in .text.
LocalRels(f) == {k \in DOMAIN f.rels : GetFunctionOffset(f, f.syms[f.rels[k].sym].name) >= 0}

(***************************************************************************)
(* Every call relocated against a local function reaches it: with the    *)
(* interpreter's rule PC = (call index + 1) + immediate, the patched call *)
(* lands on the function's first instruction.                             *)
(***************************************************************************)
LocalCallsReachTarget ==
  Loaded /\ vm # NoVm /\ elf.hasRel =>
    \A k \in LocalRels(elf) :
      LET ins == elf.rels[k].offset \div INSN_SIZE
      IN  ins + 1 + vm.code[ins + 1]
            = GetFunctionOffset(elf, elf.syms[elf.rels[k].sym].name)

(***************************************************************************)
(* A call relocated against the name of a host function, once the image  *)
(* is in the executor, holds that function's index in ebpf_global_symbs  *)
(* (spec 8: a call to "debug_print" is patched to its table index).       *)
(***************************************************************************)
HostCallsPatched ==
  phase = "added" /\ vm # NoVm /\ elf.hasRel =>
    \A k \in DOMAIN elf.rels \ LocalRels(elf) :
      LET ins  == elf.rels[k].offset \div INSN_SIZE
          name == elf.syms[elf.rels[k].sym].name
      IN  \A i \in 1..Len(GlobalSymbs) :
            GlobalSymbs[i] = name => vm.code[ins + 1] = i - 1

=============================================================================
