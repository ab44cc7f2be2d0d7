--------------------------- MODULE HostFunctions ---------------------------
(***************************************************************************)
(* The Host Function Table and the Address Monitor                        *)
(* (src/ebpf_vm_executor/ebpf_vm_functions.c).                             *)
(*                                                                         *)
(* Each host function is an operator from the calling image (with its PC  *)
(* already set to the call instruction) to the set of its possible        *)
(* outcomes: the image afterwards, the value returned into r0, the images *)
(* handed to the transport, and whether it dereferenced memory that is    *)
(* not there (the process crashes).                                       *)
(***************************************************************************)
EXTENDS EbpfVm, SequencesExt

CONSTANTS
  R0ARG,            \* an argument that is the caller's r0 (e.g. mmap's result)
  BadVa,            \* a pointer argument that does not translate (model value)
  MONITOR_ALLOC_MAY_FAIL  \* whether calloc in address_monitor_list_add may fail

\* The ebpf_global_symbs table, by index; entries 9..255 are NULL.
HostTable == <<"bug", "debug_print", "mmap", "monitor_address",
               "wait_for_address_event", "migrate_to", "clone_to",
               "switch_to_address_space", "memcpy">>
HostFn(i) == HostTable[i + 1]
Resolved(i) == i \in 0..(Len(HostTable) - 1)

MONITOR_T_BIGGER_THAN_VALUE == 0
MONITOR_T_LESS_THAN_VALUE == 1
MONITOR_T_EQUAL_VALUE == 2
MONITOR_T_NOT_EQUAL_VALUE == 3
MONITOR_T_CLEAR == 4

ArgVal(a, vm) == IF a = R0ARG THEN vm.r0 ELSE a

Outcome(vm, ret) == [vm |-> vm, ret |-> ret, sends |-> {}, crash |-> FALSE]
Crashed(vm) == [vm |-> vm, ret |-> 0, sends |-> {}, crash |-> TRUE]

(***************************************************************************)
(* ebpf_func_mmap: first slot 1..BUCKET_ENTRIES-1 of the active address    *)
(* space whose size is 0 takes {va, size}.  The va is a host pointer: the *)
(* model names the host variable of the executing node.                   *)
(***************************************************************************)
Mmap(vm, n, hv, size) ==
  LET idx  == vm.asid
      free == {k \in 1..(BUCKET_ENTRIES - 1) : vm.pt[idx][k].size = 0}
      k    == CHOOSE k \in free : \A j \in free : k <= j
  IN  IF idx >= PAGE_TABLE_NUM THEN {Crashed(vm)}
      ELSE IF free = {} THEN {Outcome(vm, PAGE_TABLE_ERROR)}
      ELSE {Outcome([vm EXCEPT !.pt[idx][k] = Pte(HostVar(n, hv), size)],
                    k * 2^INDEX_SHIFT)}

(***************************************************************************)
(* address_monitor_list_find / _add and ebpf_func_monitor_address.  The   *)
(* list is a sequence whose head is the most recently added entry         *)
(* (ub_list_push_head).  When calloc fails the entry is not added, and    *)
(* monitor_address still returns 0.  An entry is a heap object of the      *)
(* node that allocated it: the list links of an image point at them, so   *)
(* a walk on another node that reaches one dereferences a pointer into    *)
(* the sender's heap.                                                      *)
(***************************************************************************)
MonIndex(vm, addr) == SelectInSeq(vm.mons, LAMBDA e : e.addr = addr)

\* The first k entries of ms include one that is not memory of node n.
Foreign(ms, k, n) == \E j \in 1..k : ms[j].node # n

\* The entries address_monitor_list_find visits: up to the match, or all.
FindReach(vm, addr) ==
  IF MonIndex(vm, addr) = 0 THEN Len(vm.mons) ELSE MonIndex(vm, addr)

\* Variant in which a new address is never added to the list.
MonitorAddressNoAdd(vm, n, type, addr, value, tag) ==
  LET i == MonIndex(vm, addr)
  IN  IF Foreign(vm.mons, FindReach(vm, addr), n) THEN {Crashed(vm)}
      ELSE IF type = MONITOR_T_CLEAR
        THEN IF addr = 0
               THEN {Outcome([vm EXCEPT !.mons = << >>], 0)}
               ELSE {Outcome(IF i # 0 THEN [vm EXCEPT !.mons = RemoveAt(@, i)]
                                      ELSE vm, 0)}
      ELSE IF addr = 0 THEN {Outcome(vm, Word - 1)}
      ELSE IF i = 0
        THEN {Outcome(vm, 0)}
        ELSE {Outcome([vm EXCEPT !.mons[i].type = type, !.mons[i].value = value,
                                 !.mons[i].tag = tag], 0)}

MonitorAddress(vm, n, type, addr, value, tag) ==
  LET i == MonIndex(vm, addr)
  IN  IF Foreign(vm.mons, FindReach(vm, addr), n) THEN {Crashed(vm)}
      ELSE IF type = MONITOR_T_CLEAR
        THEN IF addr = 0
               THEN {Outcome([vm EXCEPT !.mons = << >>], 0)}
               ELSE {Outcome(IF i # 0 THEN [vm EXCEPT !.mons = RemoveAt(@, i)]
                                      ELSE vm, 0)}
      ELSE IF addr = 0 THEN {Outcome(vm, Word - 1)}
      ELSE IF i = 0
        THEN {Outcome([vm EXCEPT !.mons = << [type |-> type, addr |-> addr,
                                               value |-> value, tag |-> tag,
                                               node |-> n] >>
                                          \o @], 0)}
             \cup (IF MONITOR_ALLOC_MAY_FAIL THEN {Outcome(vm, 0)} ELSE {})
        ELSE {Outcome([vm EXCEPT !.mons[i].type = type, !.mons[i].value = value,
                                 !.mons[i].tag = tag], 0)}

\* The condition under which wait_for_address_event passes over an entry.
NotReached(type, x, v) ==
  \/ type = MONITOR_T_BIGGER_THAN_VALUE /\ x <= v
  \/ type = MONITOR_T_LESS_THAN_VALUE /\ x >= v
  \/ type = MONITOR_T_EQUAL_VALUE /\ x # v
  \/ type = MONITOR_T_NOT_EQUAL_VALUE /\ x = v

\* The scan of ebpf_func_wait_for_address_event over the entries ms: the
\* first entry whose condition is reached, no entry, or a dereference of
\* an entry or an address that is not live memory of node n.
RECURSIVE WaitScan(_, _, _, _)
WaitScan(ms, vm, n, hmem) ==
  IF ms = << >> THEN [kind |-> "none", tag |-> 0]
  ELSE LET e == Head(ms)
           a == VmMmu(e.addr, vm)
       IN  IF e.node # n \/ ~Resident(a, n, vm) THEN [kind |-> "crash", tag |-> 0]
           ELSE IF NotReached(e.type, ReadWord(a, vm, hmem), e.value)
             THEN WaitScan(Tail(ms), vm, n, hmem)
             ELSE [kind |-> "hit", tag |-> e.tag]

WaitForAddressEvent(vm, n, hmem) ==
  LET s == WaitScan(vm.mons, vm, n, hmem)
  IN  CASE s.kind = "crash" -> {Crashed(vm)}
        [] s.kind = "hit"   -> {Outcome([vm EXCEPT !.state = VM_STATE_RUNNING], s.tag)}
        [] OTHER            -> {Outcome([vm EXCEPT !.state = VM_STATE_WAIT_FOR_ADDRESS], 0)}

(***************************************************************************)
(* ebpf_func_migrate_to: the whole image, as it is at the call, is handed *)
(* to send, and whatever send reports the image exits here.  A send that  *)
(* fails is not told apart from a datagram lost later: the caller ignores *)
(* the result, so the model always hands the image over and lets the      *)
(* transport lose it.  The function has no return statement: r0 of the    *)
(* exited image is never read, and is left at 0.                           *)
(***************************************************************************)
MigrateTo(vm, dst) ==
  IF BadVa = dst THEN {Crashed(vm)}
  ELSE {[vm |-> [vm EXCEPT !.state = VM_STATE_EXIT], ret |-> 0,
         sends |-> {[dst |-> dst, img |-> vm]}, crash |-> FALSE]}

(***************************************************************************)
(* ebpf_func_clone_to: for idx in 0..len-1, r0 := idx and the image is    *)
(* sent to list[idx] (a failed send is logged only).  The caller gets     *)
(* len.  A copy's lineage extends the caller's with (clone number, idx).  *)
(***************************************************************************)
CloneCopy(vm, idx) ==
  [vm EXCEPT !.r0 = idx, !.lin = Append(@, <<vm.nclone, idx>>), !.nclone = 0]

CloneTo(vm, list, len) ==
  IF BadVa = list THEN {Crashed(vm)}
  ELSE {[vm |-> [vm EXCEPT !.nclone = @ + 1], ret |-> len,
         sends |-> {[dst |-> list[i + 1], img |-> CloneCopy(vm, i)] : i \in 0..(len - 1)},
         crash |-> FALSE]}

\* ebpf_func_switch_to_address_space: the bound checked is BUCKET_ENTRIES.
SwitchToAddressSpace(vm, asid) ==
  IF asid >= BUCKET_ENTRIES THEN {Outcome(vm, 0)}
  ELSE {Outcome([vm EXCEPT !.asid = asid], 0)}

(***************************************************************************)
(* The call vm->rd.symbols[imm].func(r1..r5, vm) for a resolved index.     *)
(* ebpf_func_empty ("bug"), debug_print and memcpy return 0 and change    *)
(* nothing the model keeps.                                                *)
(***************************************************************************)
HostCall(f, args, vm, n, hmem) ==
  LET name == HostFn(f)
      A(k) == ArgVal(args[k], vm)
  IN  CASE name = "mmap"                   -> Mmap(vm, n, A(1), A(2))
        [] name = "monitor_address"        -> MonitorAddress(vm, n, A(1), A(2), A(3), A(4))
        [] name = "wait_for_address_event" -> WaitForAddressEvent(vm, n, hmem)
        [] name = "migrate_to"             -> MigrateTo(vm, args[1])
        [] name = "clone_to"               -> CloneTo(vm, args[1], args[2])
        [] name = "switch_to_address_space"-> SwitchToAddressSpace(vm, A(1))
        [] OTHER                           -> {Outcome(vm, 0)}

=============================================================================
