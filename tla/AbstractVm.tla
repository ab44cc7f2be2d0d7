---------------------------- MODULE AbstractVm ----------------------------
(***************************************************************************)
(* What the executors promise (spec sections 4.1, 4.3, 4.5): each VM is   *)
(* an atomic interpreter with its own call stack, identified by its       *)
(* lineage, living on one node.  An instruction is one step; a local call *)
(* pushes a frame [ret, r6] and exit pops it; migrate_to moves the VM, as *)
(* it was at the call, into the transport, and on arrival it resumes      *)
(* after the call with no monitors and its page 0 rebased to the new node; *)
(* clone_to puts numbered copies into the transport.  The data region of  *)
(* page 0 (mem) is separate from the call stack.  There is no scheduler,  *)
(* no native recursion and no frame layout.                                *)
(***************************************************************************)
EXTENDS HostFunctions, Bags, BagsExt

CONSTANTS BootNodes, TEST_MEM, TEST_VALUE

VARIABLES
  avms,      \* avms[l]: the live VM of lineage l
  anet,      \* bag of [dst, img]: VMs handed to the transport
  hostmem,   \* hostmem[n][v]: host variable v of node n
  crashed,   \* crashed[n]: node n has died
  envDone    \* envDone[n]: the test thread of node n has written

avars == <<avms, anet, hostmem, crashed, envDone>>

\* Page 0 of a VM, wherever the node put it.
SelfBlock(n) == Block(n, -1)

NewVm(n) ==
  [ lin |-> << n >>, nclone |-> 0, node |-> n, block |-> SelfBlock(n),
    pc |-> ENTRY, r0 |-> 0, r6 |-> 0, frames |-> << >>,
    state |-> VM_STATE_RUNNING, mons |-> << >>,
    pt |-> [a \in 0..PAGE_TABLE_NUM-1 |-> [p \in 0..BUCKET_ENTRIES-1 |->
              IF a = 0 /\ p = 0 THEN Pte(SelfBlock(n), PageBytes) ELSE EmptyPte]],
    asid |-> 0, mem |-> [w \in DataWords |-> 0] ]

AInit ==
  /\ avms = [l \in {<< b >> : b \in BootNodes} |-> NewVm(l[1])]
  /\ anet = EmptyBag
  /\ hostmem = [n \in Nodes |-> [v \in HostVars |-> 0]]
  /\ crashed = [n \in Nodes |-> FALSE]
  /\ envDone = [n \in Nodes |-> FALSE]

\* Lineage l now is v; a VM that is EXIT is gone.
Put(l, v) ==
  avms' = IF v.state = VM_STATE_EXIT
            THEN [k \in DOMAIN avms \ {l} |-> avms[k]]
            ELSE [avms EXCEPT ![l] = v]

ACrash(n) ==
  /\ crashed' = [crashed EXCEPT ![n] = TRUE]
  /\ avms' = [k \in {k \in DOMAIN avms : avms[k].node # n} |-> avms[k]]
  /\ UNCHANGED <<anet, hostmem, envDone>>

\* One instruction of the VM of lineage l.
AExec(l) ==
  LET v  == avms[l]
      n  == v.node
      I  == Code[v.pc]
      a  == VmMmu(I.va, v)
      nx == [v EXCEPT !.pc = @ + 1]
  IN  /\ ~crashed[n]
      /\ CASE I.op = "alu" ->
                Put(l, [nx EXCEPT !.r0 = (@ + I.imm) % Word])
                  /\ UNCHANGED <<anet, hostmem, crashed, envDone>>
           [] I.op = "mov6" ->
                Put(l, [nx EXCEPT !.r6 = I.imm % Word])
                  /\ UNCHANGED <<anet, hostmem, crashed, envDone>>
           [] I.op \in {"ja", "jeq"} ->
                Put(l, [v EXCEPT !.pc = IF I.op = "ja" \/ v.r0 = I.imm % Word
                                          THEN @ + I.off + 1 ELSE @ + 1])
                  /\ UNCHANGED <<anet, hostmem, crashed, envDone>>
           [] I.op \in {"ld", "st"} /\ ~Resident(a, n, v) -> ACrash(n)
           [] I.op = "ld" ->
                Put(l, [nx EXCEPT !.r0 = ReadWord(a, v, hostmem[n])])
                  /\ UNCHANGED <<anet, hostmem, crashed, envDone>>
           [] I.op = "st" ->
                /\ Put(l, IF a.obj.kind = "block"
                            THEN [nx EXCEPT !.mem[a.off \div 8] = I.imm % Word]
                            ELSE nx)
                /\ hostmem' = IF a.obj.kind = "host"
                                THEN [hostmem EXCEPT ![n][a.obj.id] = I.imm % Word]
                                ELSE hostmem
                /\ UNCHANGED <<anet, crashed, envDone>>
           [] I.op = "call" ->
                Put(l, [v EXCEPT !.pc = @ + 1 + I.imm,
                                 !.frames = Append(@, [ret |-> v.pc + 1, r6 |-> v.r6])])
                  /\ UNCHANGED <<anet, hostmem, crashed, envDone>>
           [] I.op = "exit" ->
                Put(l, IF v.frames = << >> THEN [v EXCEPT !.state = VM_STATE_EXIT]
                       ELSE [v EXCEPT !.pc = Last(v.frames).ret,
                                      !.r6 = Last(v.frames).r6,
                                      !.frames = Front(@)])
                  /\ UNCHANGED <<anet, hostmem, crashed, envDone>>
           [] I.op = "hcall" /\ Resolved(I.f) ->
                \E o \in HostCall(I.f, I.args, v, n, hostmem[n]) :
                  IF o.crash THEN ACrash(n)
                  ELSE /\ Put(l, [o.vm EXCEPT !.r0 = o.ret,
                                   !.pc = IF o.vm.state = VM_STATE_RUNNING
                                            THEN @ + 1 ELSE @])
                       /\ anet' = anet (+) SetToBag(o.sends)
                       /\ UNCHANGED <<hostmem, crashed, envDone>>
           [] I.op = "hcall" ->
                Put(l, nx) /\ UNCHANGED <<anet, hostmem, crashed, envDone>>
           [] OTHER ->
                Put(l, [v EXCEPT !.state = VM_STATE_EXIT, !.r0 = 0])
                  /\ UNCHANGED <<anet, hostmem, crashed, envDone>>

\* A VM handed to the transport resumes on its destination.
Arrived(img, n) ==
  [img EXCEPT !.node = n, !.block = SelfBlock(n), !.pt[0][0].base = SelfBlock(n),
              !.mons = << >>, !.pc = @ + 1, !.state = VM_STATE_RUNNING]

AArrive(n) ==
  /\ ~crashed[n]
  /\ \E m \in BagToSet(anet) :
       /\ m.dst = n
       /\ anet' = BagRemove(anet, m)
       /\ avms' = [k \in DOMAIN avms \cup {m.img.lin} |->
                     IF k = m.img.lin THEN Arrived(m.img, n) ELSE avms[k]]
  /\ UNCHANGED <<hostmem, crashed, envDone>>

ALose ==
  /\ \E m \in BagToSet(anet) : anet' = BagRemove(anet, m)
  /\ UNCHANGED <<avms, hostmem, crashed, envDone>>

AEnvWrite(n) ==
  /\ ~crashed[n]
  /\ ~envDone[n]
  /\ hostmem' = [hostmem EXCEPT ![n][TEST_MEM] = TEST_VALUE]
  /\ envDone' = [envDone EXCEPT ![n] = TRUE]
  /\ UNCHANGED <<avms, anet, crashed>>

ANext ==
  \/ \E l \in DOMAIN avms : AExec(l)
  \/ \E n \in Nodes : AArrive(n) \/ AEnvWrite(n)
  \/ ALose

ASpec == AInit /\ [][ANext]_avars

=============================================================================
