----------------------------- MODULE Executor -----------------------------
(***************************************************************************)
(* The eBPF VM executors of a set of nodes and the datagram transport     *)
(* between them (src/ebpf_vm_executor/ebpf_vm_simulator.c, host functions  *)
(* in HostFunctions).                                                      *)
(*                                                                         *)
(* Each node runs one thread, vm_executor_run: it walks its vm_list with   *)
(* UB_LIST_FOR_EACH_SAFE, calls run_ebpf_vm on every RUNNING or WAIT VM,   *)
(* reaps the VMs that are EXIT, and then polls the transport once.         *)
(* run_ebpf_vm executes one instruction per step of the model.  A local    *)
(* call recurses in C: ctx[n].cstack holds, for every C frame below the    *)
(* innermost, the index of the call instruction it is executing.  When a  *)
(* host function leaves the VM not RUNNING, every C frame returns; the VM  *)
(* is later re-entered at sys_reg[PC] with an empty C stack.               *)
(*                                                                         *)
(* The transport is an unreliable datagram (UD) queue pair: a sent image  *)
(* is in net until its destination polls it, and may be lost.             *)
(***************************************************************************)
EXTENDS HostFunctions, Bags, BagsExt

CONSTANTS
  BootNodes,        \* nodes whose main() loads the ELF and adds a VM
  TEST_MEM,         \* the host variable the monitor test thread writes
  TEST_VALUE        \* the value it writes (test_monitor_address.c)

VARIABLES
  vms,        \* vms[n]: the images of executor->vm_list of node n, in order
  cur,        \* cur[n]: position of the list walk; Len(vms[n]) + 1 is the poll
  ctx,        \* ctx[n]: the run_ebpf_vm call in progress on vms[n][cur[n]]
  crashed,    \* crashed[n]: the process of node n has died
  hostmem,    \* hostmem[n][v]: host variable v of node n
  nextBlock,  \* nextBlock[n]: names the next image allocation of node n
  net,        \* bag of [dst, img]: images sent and not yet received
  envDone     \* envDone[n]: the test thread of node n has made its write

vars == <<vms, cur, ctx, crashed, hostmem, nextBlock, net, envDone>>

Idle == [active |-> FALSE, ins |-> 0, cstack |-> << >>]

Init ==
  /\ vms = [n \in Nodes |-> IF n \in BootNodes
                              THEN << CreateVm(Block(n, 0), << n >>) >>
                              ELSE << >>]
  /\ cur = [n \in Nodes |-> 1]
  /\ ctx = [n \in Nodes |-> Idle]
  /\ crashed = [n \in Nodes |-> FALSE]
  /\ hostmem = [n \in Nodes |-> [v \in HostVars |-> 0]]
  /\ nextBlock = [n \in Nodes |-> 1]
  /\ net = EmptyBag
  /\ envDone = [n \in Nodes |-> FALSE]

Cur(n) == vms[n][cur[n]]
Ins(n) == Code[ctx[n].ins]
Running(n) == ~crashed[n] /\ ctx[n].active

\* The process of node n dies (a wild pointer dereference).
Crash(n) ==
  /\ crashed' = [crashed EXCEPT ![n] = TRUE]
  /\ UNCHANGED <<vms, cur, ctx, hostmem, nextBlock, net, envDone>>

\* The innermost C frame goes on at instruction next with image v.
Continue(n, v, next) ==
  /\ vms' = [vms EXCEPT ![n][cur[n]] = v]
  /\ ctx' = [ctx EXCEPT ![n].ins = next]
  /\ UNCHANGED cur

\* Variant with a plain list walk (UB_LIST_FOR_EACH instead of _SAFE):
\* the cursor moves on past an element that was just removed.
EndRunUnsafeWalk(n, v) ==
  /\ ctx' = [ctx EXCEPT ![n] = Idle]
  /\ cur' = [cur EXCEPT ![n] = @ + 1]
  /\ IF v.state = VM_STATE_EXIT
       THEN vms' = [vms EXCEPT ![n] = RemoveAt(@, cur[n])]
       ELSE vms' = [vms EXCEPT ![n][cur[n]] = v]

\* run_ebpf_vm has returned to vm_executor_run with image v, which reaps v
\* if it is EXIT and moves on to the next list element otherwise.
EndRun(n, v) ==
  /\ ctx' = [ctx EXCEPT ![n] = Idle]
  /\ IF v.state = VM_STATE_EXIT
       THEN /\ vms' = [vms EXCEPT ![n] = RemoveAt(@, cur[n])]
            /\ UNCHANGED cur
       ELSE /\ vms' = [vms EXCEPT ![n][cur[n]] = v]
            /\ cur' = [cur EXCEPT ![n] = @ + 1]

(***************************************************************************)
(* The innermost C frame returns ret.  A caller frame (a local call at    *)
(* index Last(cs)) stores it in r0; if the VM still runs it goes on after *)
(* its call instruction, otherwise it returns 0 itself, and so on down.   *)
(* The value left in r0 is then ret if only one caller frame stored it,   *)
(* and 0 if a deeper caller stored the 0 of the frame above it.           *)
(***************************************************************************)
Return(n, v, ret) ==
  LET cs == ctx[n].cstack
  IN  IF cs = << >> THEN EndRun(n, v)
      ELSE IF v.state = VM_STATE_RUNNING
        THEN /\ vms' = [vms EXCEPT ![n][cur[n]] = [v EXCEPT !.r0 = ret]]
             /\ ctx' = [ctx EXCEPT ![n].ins = Last(cs) + 1,
                                   ![n].cstack = Front(cs)]
             /\ UNCHANGED cur
        ELSE EndRun(n, [v EXCEPT !.r0 = IF Len(cs) = 1 THEN ret ELSE 0])

\* Variant of the scheduler that runs only RUNNING VMs: a waiting VM is
\* passed over and never re-polled.
VisitRunningOnly(n) ==
  /\ ~crashed[n]
  /\ ~ctx[n].active
  /\ cur[n] <= Len(vms[n])
  /\ IF Cur(n).state = VM_STATE_RUNNING
       THEN /\ ctx' = [ctx EXCEPT ![n] = [active |-> TRUE, ins |-> Cur(n).pc,
                                          cstack |-> << >>]]
            /\ UNCHANGED <<vms, cur>>
       ELSE EndRun(n, Cur(n))
  /\ UNCHANGED <<crashed, hostmem, nextBlock, net, envDone>>

(***************************************************************************)
(* One iteration of UB_LIST_FOR_EACH_SAFE: run the VM at cur[n] if it is  *)
(* RUNNING or WAIT (run_ebpf_vm starts at sys_reg[PC]); an EXIT VM is     *)
(* removed and freed.                                                      *)
(***************************************************************************)
Visit(n) ==
  /\ ~crashed[n]
  /\ ~ctx[n].active
  /\ cur[n] <= Len(vms[n])
  /\ IF Cur(n).state \in {VM_STATE_RUNNING, VM_STATE_WAIT_FOR_ADDRESS}
       THEN /\ ctx' = [ctx EXCEPT ![n] = [active |-> TRUE, ins |-> Cur(n).pc,
                                          cstack |-> << >>]]
            /\ UNCHANGED <<vms, cur>>
       ELSE EndRun(n, Cur(n))
  /\ UNCHANGED <<crashed, hostmem, nextBlock, net, envDone>>

\* BPF_ALU64 ADD with an immediate into r0, and MOV of an immediate into r6.
AluResult(vm, I) ==
  IF I.op = "alu" THEN [vm EXCEPT !.r0 = (@ + I.imm) % Word]
  ELSE [vm EXCEPT !.r6 = I.imm % Word]

ExecAlu(n) ==
  /\ Running(n)
  /\ Ins(n).op \in {"alu", "mov6"}
  /\ Continue(n, AluResult(Cur(n), Ins(n)), ctx[n].ins + 1)
  /\ UNCHANGED <<crashed, hostmem, nextBlock, net, envDone>>

\* JA, and JEQ of r0 against an immediate: ins += offset, then ins++.
ExecJump(n) ==
  LET I == Ins(n)
  IN  /\ Running(n)
      /\ I.op \in {"ja", "jeq"}
      /\ Continue(n, Cur(n),
                  IF I.op = "ja" \/ Cur(n).r0 = I.imm % Word
                    THEN ctx[n].ins + I.off + 1 ELSE ctx[n].ins + 1)
      /\ UNCHANGED <<crashed, hostmem, nextBlock, net, envDone>>

(***************************************************************************)
(* LDX DW into r0 and ST DW of an immediate, at the address va (the       *)
(* register plus offset).  The result of vm_mmu is dereferenced without   *)
(* a check: an address that is not live memory of this node kills it.     *)
(***************************************************************************)
ExecLoadStore(n) ==
  LET I  == Ins(n)
      vm == Cur(n)
      a  == VmMmu(I.va, vm)
      w  == a.off \div 8
  IN  /\ Running(n)
      /\ I.op \in {"ld", "st"}
      /\ IF ~Resident(a, n, vm) THEN Crash(n)
         ELSE /\ Continue(n,
                   CASE I.op = "ld" -> [vm EXCEPT !.r0 = ReadWord(a, vm, hostmem[n])]
                     [] a.obj.kind = "block" -> [vm EXCEPT !.mem[w] = I.imm % Word]
                     [] OTHER -> vm,
                   ctx[n].ins + 1)
              /\ hostmem' = IF I.op = "st" /\ a.obj.kind = "host"
                              THEN [hostmem EXCEPT ![n][a.obj.id] = I.imm % Word]
                              ELSE hostmem
              /\ UNCHANGED <<crashed, nextBlock, net, envDone>>

\* Variant that lowers FP before save_caller_register: the caller's
\* registers land in the callee's frame.
ExecLocalCallLowerFirst(n) ==
  LET I  == Ins(n)
      vm == Cur(n)
      i  == ctx[n].ins
      fp == (vm.fp - EBPF_VM_STACK_FRAME_SIZE) % Word
      a  == VmMmu(fp, vm)
      w  == a.off \div 8
      callee == [vm EXCEPT !.mem   = [@ EXCEPT ![w] = vm.r6, ![w + 4] = vm.lr],
                           !.depth = (@ + 1) % 256, !.fp = fp,
                           !.lr    = i + 1, !.pc = i + 1 + I.imm]
  IN  /\ Running(n)
      /\ I.op = "call"
      /\ IF ~Resident(a, n, vm) THEN Crash(n)
         ELSE /\ vms' = [vms EXCEPT ![n][cur[n]] = callee]
              /\ ctx' = [ctx EXCEPT ![n].ins = callee.pc, ![n].cstack = Append(@, i)]
              /\ UNCHANGED <<cur, crashed, hostmem, nextBlock, net, envDone>>

(***************************************************************************)
(* CALL with src_reg = EBPF_PSEUDO_CALL: save_caller_register writes r6..r9 *)
(* and LR at vm_mmu(FP) (unchecked), then the depth, FP, LR and PC are     *)
(* updated and run_ebpf_vm recurses.  Word w holds r6, w + 4 holds LR.     *)
(***************************************************************************)
ExecLocalCall(n) ==
  LET I  == Ins(n)
      vm == Cur(n)
      i  == ctx[n].ins
      a  == VmMmu(vm.fp, vm)
      w  == a.off \div 8
      callee == [vm EXCEPT !.mem   = [@ EXCEPT ![w] = vm.r6, ![w + 4] = vm.lr],
                           !.depth = (@ + 1) % 256,
                           !.fp    = (@ - EBPF_VM_STACK_FRAME_SIZE) % Word,
                           !.lr    = i + 1,
                           !.pc    = i + 1 + I.imm]
  IN  /\ Running(n)
      /\ I.op = "call"
      /\ IF ~Resident(a, n, vm) THEN Crash(n)
         ELSE /\ vms' = [vms EXCEPT ![n][cur[n]] = callee]
              /\ ctx' = [ctx EXCEPT ![n].ins = callee.pc,
                                    ![n].cstack = Append(@, i)]
              /\ UNCHANGED <<cur, crashed, hostmem, nextBlock, net, envDone>>

\* Variant of the exit whose restore reads r6..r9 but not LR back.
ExecExitKeepLr(n) ==
  LET vm == Cur(n)
      up == [vm EXCEPT !.pc = vm.lr,
                       !.fp = (@ + EBPF_VM_STACK_FRAME_SIZE) % Word,
                       !.depth = @ - 1]
      a  == VmMmu(up.fp, up)
  IN  /\ Running(n)
      /\ Ins(n).op = "exit"
      /\ IF vm.depth # 0 /\ ~Resident(a, n, up) THEN Crash(n)
         ELSE /\ IF vm.depth = 0
                   THEN Return(n, [vm EXCEPT !.state = VM_STATE_EXIT], vm.r0)
                   ELSE Return(n, [up EXCEPT !.r6 = up.mem[a.off \div 8]], vm.r0)
              /\ UNCHANGED <<crashed, hostmem, nextBlock, net, envDone>>

(***************************************************************************)
(* EXIT: at depth 0 the VM becomes EXIT; otherwise PC := LR, FP += 64,    *)
(* the depth drops and restore_caller_register reads r6..r9 and LR back   *)
(* from vm_mmu(FP) (unchecked).  Either way the C frame returns r0.       *)
(***************************************************************************)
ExecExit(n) ==
  LET vm == Cur(n)
      up == [vm EXCEPT !.pc = vm.lr,
                       !.fp = (@ + EBPF_VM_STACK_FRAME_SIZE) % Word,
                       !.depth = @ - 1]
      a  == VmMmu(up.fp, up)
      w  == a.off \div 8
  IN  /\ Running(n)
      /\ Ins(n).op = "exit"
      /\ IF vm.depth # 0 /\ ~Resident(a, n, up) THEN Crash(n)
         ELSE /\ IF vm.depth = 0
                   THEN Return(n, [vm EXCEPT !.state = VM_STATE_EXIT], vm.r0)
                   ELSE Return(n, [up EXCEPT !.r6 = up.mem[w], !.lr = up.mem[w + 4]],
                               vm.r0)
              /\ UNCHANGED <<crashed, hostmem, nextBlock, net, envDone>>
(***************************************************************************)
(* CALL of a resolved host function: PC := the call instruction, then     *)
(* r0 := func(...).  If the VM is no longer RUNNING every C frame returns *)
(* 0; otherwise execution goes on.  A wild dereference in the function    *)
(* kills the process.  The images it sends join net.                      *)
(***************************************************************************)
ExecHostCall(n) ==
  LET I  == Ins(n)
      v0 == [Cur(n) EXCEPT !.pc = ctx[n].ins]
  IN  /\ Running(n)
      /\ I.op = "hcall"
      /\ I.f < PKT_VM_MAX_SYMBS /\ Resolved(I.f)
      /\ \E o \in HostCall(I.f, I.args, v0, n, hostmem[n]) :
           IF o.crash THEN Crash(n)
           ELSE LET v1 == [o.vm EXCEPT !.r0 = o.ret]
                IN  /\ IF v1.state # VM_STATE_RUNNING THEN Return(n, v1, 0)
                       ELSE Continue(n, v1, ctx[n].ins + 1)
                    /\ net' = net (+) SetToBag(o.sends)
                    /\ UNCHANGED <<crashed, hostmem, nextBlock, envDone>>

\* The programs' call indices are not negative.  A negative immediate passes
\* the signed test ins->immediate < PKT_VM_MAX_SYMBS and reads symbols[imm]
\* outside the table, which this model does not represent.
ASSUME \A i \in DOMAIN Code : Code[i].op = "hcall" => Code[i].f >= 0

\* CALL of an index that is 256 or more or whose table entry is NULL
\* (fork_to, fork_return, fork_join): nothing happens, r0 is unchanged.
ExecUnresolvedCall(n) ==
  /\ Running(n)
  /\ Ins(n).op = "hcall"
  /\ ~(Ins(n).f < PKT_VM_MAX_SYMBS /\ Resolved(Ins(n).f))
  /\ Continue(n, Cur(n), ctx[n].ins + 1)
  /\ UNCHANGED <<crashed, hostmem, nextBlock, net, envDone>>

\* An opcode the switch does not handle: the VM becomes EXIT, returns 0.
ExecBad(n) ==
  /\ Running(n)
  /\ Ins(n).op = "bad"
  /\ Return(n, [Cur(n) EXCEPT !.state = VM_STATE_EXIT], 0)
  /\ UNCHANGED <<crashed, hostmem, nextBlock, net, envDone>>

(***************************************************************************)
(* After the list walk, one call to transport->recv.  With no message the *)
(* walk starts again; with one, receive_vm copies it into a new           *)
(* allocation, points entry 0 of address space 0 at the new data, empties  *)
(* the monitor list, steps PC past the migrate/clone call, makes it       *)
(* RUNNING and appends it (add_vm); then return_buf reposts the buffer.   *)
(***************************************************************************)
AtPoll(n) == ~crashed[n] /\ ~ctx[n].active /\ cur[n] > Len(vms[n])

PollEmpty(n) ==
  /\ AtPoll(n)
  /\ cur' = [cur EXCEPT ![n] = 1]
  /\ UNCHANGED <<vms, ctx, crashed, hostmem, nextBlock, net, envDone>>

\* Variant of receive_vm without ub_list_init of the monitor list: the
\* image keeps the transmitted links into the sender's heap.
ReceiveVmKeepMonitors(img, blk) ==
  [img EXCEPT !.block = blk, !.pt[0][0].base = blk, !.pc = @ + 1,
              !.state = VM_STATE_RUNNING]

ReceiveVm(img, blk) ==
  [img EXCEPT !.block = blk,
              !.pt[0][0].base = blk,
              !.mons = << >>,
              !.pc = @ + 1,
              !.state = VM_STATE_RUNNING]

Receive(n) ==
  /\ AtPoll(n)
  /\ \E m \in BagToSet(net) :
       /\ m.dst = n
       /\ net' = BagRemove(net, m)
       /\ vms' = [vms EXCEPT ![n] = Append(@, ReceiveVm(m.img, Block(n, nextBlock[n])))]
  /\ nextBlock' = [nextBlock EXCEPT ![n] = @ + 1]
  /\ cur' = [cur EXCEPT ![n] = 1]
  /\ UNCHANGED <<ctx, crashed, hostmem, envDone>>

\* The UD queue pair drops a datagram (no receive buffer posted, fabric loss).
Lose ==
  /\ \E m \in BagToSet(net) : net' = BagRemove(net, m)
  /\ UNCHANGED <<vms, cur, ctx, crashed, hostmem, nextBlock, envDone>>

\* thread_change_test_mem (test_monitor_address.c): after a sleep, one write
\* of TEST_VALUE to the monitored host variable.
EnvWrite(n) ==
  /\ ~crashed[n]
  /\ ~envDone[n]
  /\ hostmem' = [hostmem EXCEPT ![n][TEST_MEM] = TEST_VALUE]
  /\ envDone' = [envDone EXCEPT ![n] = TRUE]
  /\ UNCHANGED <<vms, cur, ctx, crashed, nextBlock, net>>

\* The steps of the executor thread of node n.
Engine(n) ==
  \/ Visit(n)
  \/ ExecAlu(n)
  \/ ExecJump(n)
  \/ ExecLoadStore(n)
  \/ ExecLocalCall(n)
  \/ ExecExit(n)
  \/ ExecHostCall(n)
  \/ ExecUnresolvedCall(n)
  \/ ExecBad(n)
  \/ PollEmpty(n)
  \/ Receive(n)

Next ==
  \/ \E n \in Nodes : Engine(n) \/ EnvWrite(n)
  \/ Lose

(***************************************************************************)
(* Each executor thread loops forever (should_stop is never set) and the  *)
(* test thread's write follows a bounded sleep: both are weakly fair.     *)
(* recv polls a completion queue that returns a posted receive's          *)
(* completion once the datagram has arrived, so a datagram that is not    *)
(* lost is received if the poll comes round infinitely often: strong      *)
(* fairness of Receive.  Loss is not fair.                                 *)
(***************************************************************************)
Fairness ==
  /\ \A n \in Nodes : WF_vars(Engine(n)) /\ SF_vars(Receive(n)) /\ WF_vars(EnvWrite(n))

Spec == Init /\ [][Next]_vars /\ Fairness

-----------------------------------------------------------------------------
(***************************************************************************)
(* Properties                                                              *)
(***************************************************************************)
IsImage(v) ==
  /\ v.state \in VmStates
  /\ v.pc \in DOMAIN Code /\ v.lr \in Nat
  /\ v.r0 \in 0..(Word - 1) /\ v.r6 \in 0..(Word - 1)
  /\ v.fp \in 0..(Word - 1)
  /\ v.depth \in 0..EBPF_VM_STACK_DEPTH_MAX
  /\ v.mem \in [PageWords -> 0..(Word - 1)]
  /\ v.asid \in Nat /\ v.nclone \in Nat

TypeOK ==
  /\ \A n \in Nodes :
       /\ \A i \in 1..Len(vms[n]) : IsImage(vms[n][i])
       /\ cur[n] \in 1..(Len(vms[n]) + 1)
       /\ ctx[n].active => /\ ctx[n].ins \in DOMAIN Code
                          /\ cur[n] \in 1..Len(vms[n])
       /\ crashed[n] \in BOOLEAN /\ envDone[n] \in BOOLEAN
       /\ hostmem[n] \in [HostVars -> 0..(Word - 1)]
  /\ \A m \in BagToSet(net) : m.dst \in Nodes /\ IsImage(m.img)

\* Word of page 0 at which the call that enters depth d saves r6..r9, LR:
\* the frame pointer of depth d - 1.
SaveWord(d) ==
  (EBPF_VM_DEFAULT_DATA_SIZE + EBPF_VM_DEFAULT_STACK_SIZE
     - EBPF_VM_STACK_FRAME_SIZE * d) \div 8

\* Where the exit of depth d will continue, and the r6 it will restore.
FrameRet(vm, d) == IF d = vm.depth THEN vm.lr ELSE vm.mem[SaveWord(d + 1) + 4]
FrameR6(vm, d) == vm.mem[SaveWord(d)]

(***************************************************************************)
(* The native C frames of run_ebpf_vm agree with the VM's own call stack: *)
(* each pending local call in C corresponds to one of the topmost VM      *)
(* frames, and the return address that frame will pop (LR, or the LR      *)
(* saved in the next save area) is the instruction after that call.  It   *)
(* fails if an exit restores the wrong LR, or a yield unwinds C frames     *)
(* without the VM frames, so that the C caller and the VM disagree on     *)
(* where execution goes on.                                                *)
(***************************************************************************)
NativeFramesMatch ==
  \A n \in Nodes : Running(n) =>
    LET vm == Cur(n)
        cs == ctx[n].cstack
    IN  /\ Len(cs) <= vm.depth
        /\ \A k \in 1..Len(cs) : FrameRet(vm, vm.depth - Len(cs) + k) = cs[k] + 1

\* No executor process dies of a wild dereference: vm_mmu's sentinel, an
\* undefined page-table entry, or a pointer into another node's memory.
NoProcessCrash == \A n \in Nodes : ~crashed[n]

(***************************************************************************)
(* No image holds a pointer into another node (spec 2: no pointer inside  *)
(* the transmitted range may be host-absolute): every page-table base of  *)
(* an image on a live node is empty or memory of that node.  It concerns  *)
(* receive_vm, which rebuilds only entry 0 of address space 0.            *)
(***************************************************************************)
PageTableLocal ==
  \A n \in Nodes : ~crashed[n] =>
    \A i \in 1..Len(vms[n]) :
      LET pt == vms[n][i].pt
      IN  \A a \in DOMAIN pt : \A p \in DOMAIN pt[a] :
            pt[a][p].base = NoBase \/ pt[a][p].base.node = n

(***************************************************************************)
(* A VM is suspended only while something can wake it: every image left  *)
(* in VM_STATE_WAIT_FOR_ADDRESS by wait_for_address_event has at least    *)
(* one entry in its address monitor list.  monitor_address returns 0      *)
(* whether or not address_monitor_list_add stored the entry.              *)
(***************************************************************************)
WaitingHasMonitor ==
  \A n \in Nodes : \A i \in 1..Len(vms[n]) :
    vms[n][i].state = VM_STATE_WAIT_FOR_ADDRESS => vms[n][i].mons # << >>

(***************************************************************************)
(* Every VM eventually leaves the system: each one reaches exit (or is     *)
(* handed on by migrate_to and then received or lost), a VM that waits    *)
(* is re-polled by the scheduler until its monitor is satisfied, and no   *)
(* image stays in the transport.                                           *)
(***************************************************************************)
AllVmsFinish ==
  <>[](\A n \in Nodes : vms[n] = << >> /\ net = EmptyBag)

-----------------------------------------------------------------------------
(***************************************************************************)
(* Refinement of AbstractVm.  A live VM is a non-EXIT image on a node     *)
(* that has not crashed; its program counter is the C interpreter's ins   *)
(* while it runs, and sys_reg[PC] otherwise.  Its call stack is read back *)
(* from the save areas below the initial frame pointer (the LR of each    *)
(* frame but the top one is in the next save area), its page-0 base is    *)
(* abstracted to the node's own page, and only the data region of page 0  *)
(* is its memory.  An image in flight is the VM as it was at the call on  *)
(* the sending node.                                                       *)
(***************************************************************************)
AbsSelf(n) == Block(n, -1)

AbsImage(vm, n, pc) ==
  [ lin |-> vm.lin, nclone |-> vm.nclone, node |-> n, block |-> AbsSelf(n),
    pc |-> pc, r0 |-> vm.r0, r6 |-> vm.r6,
    frames |-> [d \in 1..vm.depth |-> [ret |-> FrameRet(vm, d), r6 |-> FrameR6(vm, d)]],
    state |-> vm.state, mons |-> vm.mons,
    pt |-> [a \in DOMAIN vm.pt |-> [p \in DOMAIN vm.pt[a] |->
              [vm.pt[a][p] EXCEPT !.base = IF @ = vm.block THEN AbsSelf(n) ELSE @]]],
    asid |-> vm.asid, mem |-> [w \in DataWords |-> vm.mem[w]] ]

LivePlaces ==
  UNION {{<< n, i >> : i \in {i \in 1..Len(vms[n]) : vms[n][i].state # VM_STATE_EXIT}} :
           n \in {n \in Nodes : ~crashed[n]}}

PlaceOf(l) == CHOOSE p \in LivePlaces : vms[p[1]][p[2]].lin = l

LivePc(n, i) == IF ctx[n].active /\ cur[n] = i THEN ctx[n].ins ELSE vms[n][i].pc

AbsVms ==
  [l \in {vms[p[1]][p[2]].lin : p \in LivePlaces} |->
     LET p == PlaceOf(l)
     IN  AbsImage(vms[p[1]][p[2]], p[1], LivePc(p[1], p[2]))]

AbsNet ==
  BagOfAll(LAMBDA m : [dst |-> m.dst,
                       img |-> AbsImage(m.img, m.img.block.node, m.img.pc)],
           net)

Abs == INSTANCE AbstractVm WITH avms <- AbsVms, anet <- AbsNet

(***************************************************************************)
(* The executors implement the atomic VM of AbstractVm: the native        *)
(* recursion of run_ebpf_vm, the frame save areas in page 0, the yield    *)
(* unwinding and resumption at sys_reg[PC], the scheduler's list walk and *)
(* receive_vm's rebuilding of an image together behave as one VM per      *)
(* lineage stepping through its program (spec 4.1, 4.5 and the migration  *)
(* round trip of spec 8).                                                  *)
(***************************************************************************)
AbsSpec == Abs!ASpec

=============================================================================
