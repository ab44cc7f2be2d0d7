# TLA+ models of the CTinspector eBPF VM executor

This directory holds TLA+ specifications of the multi-node eBPF VM executor
in `src/`. Each model is checked with TLC.

## The system

A VM image is one contiguous allocation holding:

- a header (`struct ebpf_vm`);
- the code;
- a 64-byte data region;
- a 128-byte stack.

Each node runs one **executor**. Its loop is `vm_executor_run`, in `ebpf_vm_simulator.c`. The loop does three things, forever:

1. It walks the list of VMs and runs each VM that is RUNNING or WAITING.
2. It destroys the VMs that exited.
3. It polls the **transport** for one incoming image.

**Interpreter.** `run_ebpf_vm` interprets instructions.

- A local call recurses natively in C. It first saves r6-r9 and LR below the current frame.
- A host call goes through `ebpf_global_symbs` (`ebpf_vm_functions.c`) by index.

**Host functions** can suspend or move the VM:

- `mmap` maps a host variable into a page-table slot.
- `monitor_address` and `wait_for_address_event` suspend the VM until a word meets a condition.
- `migrate_to` sends the image to another node and exits it here.
- `clone_to` sends copies, one to each node of a list.

A yield unwinds every native frame. The VM is resumed later at its saved PC.

**Migration.** `receive_vm` rebuilds the image on the receiving node. It:

- points page-table entry 0 at the new allocation;
- empties the monitor list;
- steps the PC past the call.

**Loader.** `ebpf_vm_elf.c` loads an object file. It finds `vm_main`, creates the image and patches call immediates from `.rel.text`. `main` (`mp_vm_test.c`) then hands the image to its executor with `add_vm`.

**Transport.** The transport is RDMA unreliable datagrams (`ebpf_vm_transport_rdma.c`). Each node registers one buffer of `2 * rx_depth * max_msg_size` bytes:

- The lower half holds `rx_depth` receive buffers, posted at init.
- The upper half is the send region. `send` copies the image to `send_buf + send_offset` and posts one work request. The queue pair allows one outstanding send (`max_send_wr = 1`).
- Sends and receives complete on one CQ of `rx_depth + 1` entries.
- The executor loop polls that CQ once per iteration. For a received image it calls `receive_vm` and then `return_buf`, which re-posts the buffer.
- Destinations are learnt through a TCP exchange with the peer's server thread.

## Modules

| module | models | state |
|---|---|---|
| `EbpfVm` | image layout, `create_vm`, `vm_mmu`, host objects | constants and operators only |
| `HostFunctions` | every entry of `ebpf_global_symbs` | operators: image → set of outcomes (image, r0, sends, crash) |
| `Executor` | `run_ebpf_vm`, `vm_executor_run`, `receive_vm`, boot, the test thread, the network | `vms`, `cur`, `ctx`, `crashed`, `hostmem`, `nextBlock`, `net`, `envDone` |
| `AbstractVm` | what the engine promises: each instruction is one atomic step of its VM | `avms`, `anet` and the shared variables |
| `MCExecutor` | the programs (instruction lists) and constants for TLC | — |
| `Linker` | `create_vm_from_elf` step by step, then `add_vm` | `elf`, `phase`, `mainOff`, `vm`, `ri` |
| `RdmaTransport` | the transport's data path and the executor's poll: `pkt_vm_rdma_init`'s posts, `send`, the HCA (transmit, deliver, drop, error completions), `recv`, `return_buf` | `mem` (the registered buffer, cell = message id), `rq`, `sq`, `cq`, `sendOff`, `known`, `wire`, `nextId`, histories `sent` and `received` |
| `MCRdmaTransport` | nodes and image sizes for TLC | — |
| `RdmaControl` | the transport's control plane and the process lifecycle: `pkt_vm_rdma_init` (context, server thread, QP enable), `main`'s choice between `vm_executor_run` and an early `vm_executor_destroy`, `pkt_vm_rdma_exit`, the server thread's accept loop, and the client side of `get_node_info` with `add_dest` | `epc`, `spc` (the two threads' program points), `shouldStop`, `qpReady`, `listening`, `backlog`, `serving`, `xchg`, `chan` (each client's TCP connection), `known` |
| `MCRdmaControl` | two processes for TLC, and `UbListCorrect` | — |
| `UbList` | `ub_list.h`: the intrusive circular doubly-linked list at the level of its `next`/`prev` pointers | operators only: a list is a record `[next, prev]` over link slots |
| `MCLinker` | small object files: section validity, `vm_main` type/section, symbol order, relocations | — |
| `EbpfAlu` | the data path of `run_ebpf_vm`: the opcode encoding of `ebpf_vm_simulator.h`, every case of the switch but CALL and EXIT, `to_little_endian` and `to_big_endian` | operators only: `Execute(ins, nxt, regs, mem)` → set of outcomes |
| `EbpfInterp` | one instruction of the interpreter on a register file and a memory word, and the arithmetic spec 4.1 prescribes | `ins`, `nxt`, `before`, `reg`, `cell0`, `cell`, `adv`, `status` |
| `MCEbpfInterp` | sampled register contents, immediates and unknown opcodes for TLC | — |

### How `Executor` corresponds to the code

**The engine.** `Engine(n)` is one step of node n's single thread:

- `Visit` chooses which VM the loop is at.
- `Exec*` executes the instruction at `sys_reg[PC]`. There is one action per instruction class, including `ExecBad` for END and unknown opcodes.
- `EndRun` moves on, or destroys the VM if it exited.
- `PollEmpty` and `Receive` are the transport poll.

**Native frames.** The C recursion of local calls is kept explicitly. `ctx[n].cstack` holds the call indices of the C frames below the innermost one. This has three consequences:

- A yield in a nested call returns 0 through each frame. The caller frames store that 0 in r0, as `vm->reg[0] = run_ebpf_vm(vm)` does.
- An EXIT at depth > 0 returns into the frame below.
- The frame save area is word `(192 - 64*depth)/8` of the data+stack page (`save_caller_register`).

**Registers and data.**

- r1-r5 are part of the call instruction.
- r6 stands for r6-r9.
- ALU results are an abstract choice.

**Memory.** Host memory is a set of objects, each tagged with its node:

- image blocks;
- host variables.

A dereference of something that is not live memory of the executing node is a process crash (`crashed`). Such things are:

- the `PAGE_TABLE_ERROR` sentinel;
- an entry read past `entries[]`;
- an object of another node.

**Monitor entries** are heap objects of the node that allocated them: each entry of a VM's monitor list carries its node. `address_monitor_list_find` and `wait_for_address_event` walk the list, so a walk that meets an entry of another node is a wild dereference and crashes the process. `receive_vm`'s `ub_list_init` (simulator.c:440) is what keeps a migrated VM from ever walking the sender's entries.

**Sends and the network.** A send that fails is the same as a datagram that is lost: the code ignores the result, and the image has already exited.

- `net` is a bag of images in flight.
- `Lose` drops one image.

**The test thread.** `EnvWrite` is the test thread of `test_monitor_address.c`. It writes `TEST_VALUE` into `test_mem` once.

**Refinement.** `AbsSpec` maps the detailed state to `AbstractVm`:

- The PC of a VM is where it will resume.
- Frames are the saved (return, r6) pairs.
- Data memory is the data region.

Every detailed step is either an atomic abstract step or a stutter.

### How `EbpfInterp` corresponds to the code

`EbpfAlu` translates the switch of `run_ebpf_vm` case by case. The case labels are built from the enums of `ebpf_vm_simulator.h` (`EBPF_CLS`, `EBPF_ALU_OP`, `EBPF_JMP_OP`, `EBPF_SIZE`, `EBPF_MODE`), and the operation of a case is found from its opcode byte, as `EBPF_ALU_OP(code)` does. `Execute` returns the outcomes of one pass of the loop:

- **ALU64** (`Alu64`): each C operation on `uint64_t`, with `(uint64_t)ins->immediate` sign-extending the immediate (`Operand`). ARSH is the `sar` the build emits: a logical shift that copies the sign bit in.
- **Undefined behaviour.** Division and modulo by zero are undefined in C. On x86 the division traps (SIGFPE, status `trap`); on arm64 it yields 0, so `%` yields the dividend. Both outcomes are kept. Shifts by 64 or more are undefined too. x86-64 and arm64 both shift by the count modulo 64 (`Count`).
- **Jumps** (`JmpCond`): `ins += cond ? offset : 0` followed by the loop's `ins++`. The signed family casts both sides to `int64_t` (`I64`).
- **LD_IMM_DW**: `(uint32_t)ins[0].immediate | ((uint64_t)ins[1].immediate << 32)`, moving two slots.
- **Loads, stores, atomic adds**: the access is to the word `vm_mmu` translates to, on a little-endian host. A k-byte load reads the low k bytes (`Low`), and a k-byte store replaces them (`StoreLow`). `Executor` models the translation and its failure.
- **END**: `to_little_endian` returns `*v`, and `to_big_endian` runs its byte loop (`ToBigEndianLoop`).
- **default**: the VM exits and the engine returns 0.

Words are scaled to 8 bits, with a byte of 1 bit, so a word still has eight bytes and the END and load/store widths keep their meaning. Immediates are 4 bits, half the word, as `int32_t` is half of `uint64_t`.

`EbpfInterp` puts one instruction on a state:

- `Init` chooses an instruction, the slot after it, registers r0 and r1, and, for a memory instruction, the memory word.
- `Exec` is one pass of the loop.

The properties compare the result with spec 4.1 and 8, stated independently: arithmetic on integers, bitwise operations on sets of bit positions, signed comparisons on two's-complement values, and memory as a sequence of bytes.

### How `RdmaTransport` corresponds to the code

Byte counts are scaled to units of `UD_GRH_SIZE` (40 bytes): `GRH = 1`, and `max_msg_size` is 4 units. Each cell of `mem` holds the id of the message whose bytes it holds, so any overwrite is visible when the payload is read.

- **`Send(n, d, size)`** is `pkt_vm_rdma_send`, in the code's order:
  1. the destination lookup (`FindDest`), or the TCP exchange and `add_dest` (`GetNodeInfo`);
  2. the `memcpy` into the send region;
  3. `ibv_post_send`, which fails when `MAX_SEND_WR` requests are outstanding. Only on success does `send_offset` advance.

  A failed exchange and an oversized message return 0 with no state change, so they are stutters.
- **`Transmit(n)`** is the HCA executing the work request: it reads the send buffer at that moment and queues a send completion.
- **`Deliver(m)`** is the receiving HCA:
  - with no posted buffer, the datagram is dropped;
  - with GRH plus payload longer than the posted length, or past the end of the registered region, it completes with an error;
  - otherwise it writes the GRH and the payload at the head posted buffer.
- **`Lose(m)`** is datagram loss, which UD allows.
- **`Poll(n)`** is one iteration's `recv` and `return_buf`. A send completion retires its work request. A receive hands `wr_id + GRH` to `receive_vm`, which copies the payload, and `return_buf` posts that same pointer again.

The executor's sends are any sequence of `Send` steps between polls. That covers `migrate_to` and `clone_to`, whose copies are sent back to back within one VM step.

### How `RdmaControl` corresponds to the code

Each node is two threads, scheduled by the OS.

- **Executor thread** (`epc`):
  - `InitCtx` is `pkt_vm_rdma_init_ctx`, which either succeeds or, through any of its `goto clean_*` paths, returns NULL so that `vm_executor_init` and `main` fail.
  - `Spawn` is `pthread_create`. On failure `pkt_vm_rdma_exit` runs with `server_thread` still 0 and joins nothing.
  - `EnableQp` is `pkt_vm_rdma_enable_qp`. It runs after the server thread has started, and its result is ignored.
  - `Main` is `main`'s choice: enter `vm_executor_run` (which never returns), or take an early exit (the ELF file does not load, or the test's setup returns NULL) to `vm_executor_destroy`. That sets `should_stop` and calls `pthread_join`.
  - `Join` is the join returning and the rest of `pkt_vm_rdma_exit`.
- **Client side** (`get_node_info`, called from `send` when `find_dest` fails):
  - `Connect` queues the connection in the peer's listen backlog. A refused connect changes nothing and is left out.
  - `ClientWrite` writes the local address.
  - `ClientRead` blocks until the peer has answered or closed the connection. It then writes "done" and calls `add_dest` (`AddDest`), whose `malloc` or `ibv_create_ah` may fail.
- **Server thread** (`spc`), `pkt_vm_rdma_server_main`:
  - `ServerStart` is socket, bind and listen. Each may fail and end the thread.
  - `ServerLoop` is the `should_stop` test. When the flag is set, `close(sockfd)` resets every queued connection.
  - `Accept` blocks until a connection is queued.
  - `ServerReply` reads the client's address and writes its own.
  - `ServerClose` reads "done" and closes the connection.

`known[n]` is `dst_addr_list` itself, linked through `UbList`:

- `add_dest` pushes at the tail (`ub_list_push_back`);
- `find_dest` walks it (`UB_LIST_FOR_EACH`);
- `pkt_vm_rdma_exit` removes every entry in a `UB_LIST_FOR_EACH_SAFE` loop.

The history `added` is the sequence of destinations appended, which is what the list should hold. `main` destroys only before `vm_executor_run`, so the teardown loop in this model always meets an empty list. `UbListCorrect` therefore also runs the loop on every reachable list and on lists of up to three entries.

Addresses are node identities: their formatting (`gid_to_wire_gid`, `sscanf`) is left out.

## Runs

| run | expect | what it shows |
|---|---|---|
| `tour` | pass | Two nodes run a program that uses every feature: nested calls, mmap, monitor/wait before and after a migration, migrate, clone, a jump, an unresolved host call and a bad opcode. The test thread writes concurrently, and datagrams may be lost. Checked: `TypeOK`, `NativeFramesMatch` (the C frames agree with the saved frames), `NoProcessCrash`, `AllVmsFinish` (liveness) and `AbsSpec` (refinement). 5,698 states. Monitor allocation is assumed to succeed. The VM registers a monitor and waits on n2 after migrating, so a `receive_vm` that kept the transmitted monitor links would crash n2 (`NoProcessCrash`). |
| `tour_pt` | violation | `PageTableLocal`: after migration, the mmap'd slot still points into the sender (simulator.c:439). |
| `linker` | pass | Every combination of the loader's inputs is tried. An image comes back only for a good object, starting at `vm_main` (`NoPartialImage`). Every local call lands on its target (`LocalCallsReachTarget`). |
| `rdma` | pass | Two nodes exchange three images of 3 or 4 units (4 is too large to receive), with losses. Checked: `TypeOK`, `CqNeverOverruns` (the shared CQ of `rx_depth + 1` entries is never exceeded) and `SendQueueDrains` (the single send slot is always retired). About 190,000 states, about 1 minute. |
| `rdma_drift` | violation | `DeliveredIntact`, on one node sending same-size images to itself. Because `return_buf` re-posts `wr_id + 40`, the second receive buffer drifts into the send region. A received image is overwritten by the next send's `memcpy` before it is read. |
| `rdma_ctl` | pass | Two processes start up, may fail to, exchange addresses with each other's and their own server thread, and may shut down early. Checked:<br>• `TypeOK`.<br>• `ExchangeEnds`: a client in `get_node_info` always leaves the exchange, even when its connection waits behind another client or the server closes its socket.<br>• `DstListIntact`: `dst_addr_list` stays a well-formed ring whose walk is exactly the destinations added, in order.<br>• `UbListCorrect`: the `ub_list.h` operations act as sequence operations. It checks push back and push head, removal at every position, and the safe removal loop, from every reachable list and from every list of up to three entries.<br>About 27,600 states, about 30 seconds. |
| `rdma_qp` | violation | `KnownDestsReady`. `pkt_vm_rdma_init` starts the server thread before `pkt_vm_rdma_enable_qp` and ignores that call's result (rdma.c:603, 610). A peer, or the node itself, can therefore learn the address of a QP that never reached RTR, and every datagram sent to it is dropped. 1,419 states. |
| `rdma_join` | violation | `DestroyReturns`. After an early exit of `main`, `pkt_vm_rdma_exit` sets `should_stop` and joins the server thread. That thread is blocked in `accept` and tests the flag only after serving a connection, so the process hangs unless a peer happens to connect (rdma.c:532). |
| `rdma_oversize` | violation | `RecvBuffersReposted`: a 4-unit image passes the send-side check (`<= max_msg_size`) but not the receiver's (GRH + payload). The error completion's buffer is never posted again. |
| `alu` | pass | Every case of `run_ebpf_vm` but CALL and EXIT, from every sampled register file and memory word. Checked:<br>• `TypeOK`.<br>• `AluMatchesSpec`: each ALU64 operation gives spec 4.1's 64-bit result, wherever the spec defines one.<br>• `JumpsMatchSpec`: each jump moves exactly when its signed or unsigned comparison holds.<br>• `WideImmediateMatchesSpec`: LD_IMM_DW concatenates the two halves and skips two slots.<br>• `MemoryMatchesSpec`: loads zero-extend, and stores and atomic adds change exactly their bytes.<br>About 368,000 states, under 20 seconds. |
| `alu_end` | violation | `BigEndianSwaps`. `to_big_endian` shifts the result left after every byte, the last included (simulator.c:43). So be16 of 0x0001 gives 0x010000, not 0x0100, and be64 loses its top byte. |
| `linker_host` | violation | `HostCallsPatched`: host-name relocations are never patched, because `rd.symbols` is NULL until `add_vm`. |

Each property of a passing run has a mutant in `PROJECT.json`: a plausible bug in the mapped code that TLC catches with that property.

### Observations without a run

The spec already records the first two as open questions, and §7 accepts the third. So they are not checked as runs. The others were runs of earlier versions of this project. At most 12 runs are kept, so they gave way to the control-plane and interpreter runs. The programs and constants they used are still in `MCExecutor.tla` and `MCRdmaTransport.tla`; each item says how to reproduce it:

- **mmap never succeeds as shipped.** With `BUCKET_ENTRIES = 1`, `mmap` searches slots `1..0` and always fails (functions.c:58). So the `monitor_address` example exits with -1 before it waits.
- **Call depth is never checked** (simulator.c:265):
  - the third nested local call saves r6-r9 and LR into the data region;
  - a fourth lowers FP below 0.
- **`clone_to` loses every copy after the first.** It sends its copies back to back. The first send's completion can be polled only by the executor loop, so every later copy finds the single send slot taken and is refused.
- **`rx_depth = 1` corrupts images** (rdma.c:485). `send_offset` wraps to the single send slot. The `memcpy` comes before `ibv_post_send`, so a refused second send overwrites the first image before the HCA reads it. `MCRdmaTransport_drift.cfg` with `Nodes <- TwoNodes`, `RX_DEPTH = 1`, `Sizes <- FittingSizes` and `MAX_MSGS = 3` finds `DeliveredIntact` violated.
- **A failed monitor allocation hangs the VM** (functions.c:115). `address_monitor_list_add` returns silently when `calloc` fails, and `monitor_address` still returns 0. The next wait suspends the VM with nothing to wake it. `MCExecutor_tour.cfg` with `MONITOR_ALLOC_MAY_FAIL = TRUE` with only `INVARIANT WaitingHasMonitor` (a waiting VM has a monitor) finds it violated after 259 states. The tour keeps the allocation infallible, so it does not check `WaitingHasMonitor`: with the allocation succeeding, every wait of the program follows a monitor registration and the invariant holds by the program's shape.
- **A VM can switch to an address space that does not exist** (functions.c:169). `switch_to_address_space` checks its argument against `BUCKET_ENTRIES` instead of `PAGE_TABLE_NUM`. With `BUCKET_ENTRIES = 2` and one address space, `switch_to_address_space(1)` is accepted, and the next load reads past `page_table[]`. `MCExecutor_tour.cfg` with `Nodes <- OneNode`, `BootNodes <- OneNode`, `Code <- SwitchProgram`, `BUCKET_ENTRIES = 2` and only `INVARIANT NoProcessCrash` finds the crash.
- **The monitor example races with the test thread** (monitor_address.c:14). Once mmap works, the example zeroes `*vm_va` after mapping it, while `test_monitor_address.c` writes `TEST_VALUE` after only `sleep(1)`. If the write comes first it is erased, and the VM waits forever. `MCExecutor_tour.cfg` with `Nodes <- OneNode`, `BootNodes <- OneNode`, `Code <- MonitorProgram`, `BUCKET_ENTRIES = 2` and only `PROPERTY AllVmsFinish` finds the hang.
- **`wait_for_address_event` dereferences an untranslated address** (functions.c:75). It never compares `vm_mmu`'s result with `PAGE_TABLE_ERROR`, so a monitor on an address that does not translate crashes the executor process. `MCExecutor_tour.cfg` with `Nodes <- OneNode`, `BootNodes <- OneNode`, `Code <- WaitUnmappedProgram`, `BUCKET_ENTRIES = 1` and only `INVARIANT NoProcessCrash` finds the crash.
- **END to little-endian does not truncate** (simulator.c:21). On a little-endian host `to_little_endian` returns the register unchanged, so le16 and le32 keep the upper bits. In the eBPF instruction set they are cleared. Spec 4.1 lists no END operation, so no property states either behaviour.
- **One VM can stop its whole node** (simulator.c:127). A DIV or MOD by zero traps on x86, and SIGFPE ends the executor with every VM on it. The spec gives division by zero no result, and the `alu` run reaches the `trap` outcome without a property about it.

## Bounds and why they suffice

**Word size and address layout.**

- `WORD_BITS = 16`.
- `INDEX_SHIFT = 8` and `PACKET_VA_SHIFT = 12`, scaled from 32 and 36.

What matters is kept:

- the page index bits;
- the "high bits set" error;
- FP wrapping below 0.

**Page table.**

- `PAGE_TABLE_NUM = 1`, as in the source.
- `BUCKET_ENTRIES` is 1 (as shipped) in the runs that show the shipped behaviour.
- It is 2 where mmap must succeed, which is the configuration the spec describes.

**Nodes and programs.**

- Two nodes are enough for migration, clone to self and to the other node, and cross-node pointers.
- Programs are finite and every path ends in EXIT, crash or loss. So the state space is finite without counters. The clone count and depth are bounded by the program.

**Host memory.** One host variable (`test_mem`).

**Transport.**

- `rx_depth = 2`, `max_msg_size = 4` and `GRH = 1` give two receive slots and two send slots per node. That is the smallest layout with a wrap of `send_offset` and with neighbouring buffers.
- Three send calls in the passing run are enough to:
  - fill the send slot;
  - have a refused send;
  - wrap `send_offset`;
  - exhaust a receive ring of two, so that datagrams are dropped;
  - get an error completion.
- The drift needs five sends to one node, so that run uses a single node.

**Interpreter.** Eight-bit words with eight one-bit bytes keep every product inside TLC's integers.

- Register and memory samples: 0, 1, 8 (the shift width), 29 (an irregular bit pattern), 127 and 128 (either side of the sign boundary), and 255 (-1).
- Immediates: 0, 1, 3, 7, -8 and -1, which cover sign extension and shift counts below and at the width.
- Two registers, so every operation is tried with dst = src and with dst ≠ src.
- Three opcodes with no case: ALU32 ADD, ALU64 NEG with the register bit, and a JMP32 JEQ.
- About 368,000 instruction/state pairs.

**Control plane.** Two processes. A node may also connect to its own server thread, as `migrate_to` to its own URL does. So two clients can queue on one server, and a server can stop with a connection queued. Three processes took more than ten minutes with the liveness check. Failed exchanges may be retried without bound, but the state space stays finite, because a client holds at most one connection.

## Fairness

The executor loop is a single thread that never stops: `should_stop` is never set on the executor. So:

- `WF(Engine(n))` holds.
- `WF(EnvWrite(n))` holds, because the test thread runs once after `sleep(1)`.
- Receiving is strongly fair. A datagram that is not lost stays on the node's completion queue, and the loop polls it infinitely often. It can be missed only at polls that return a send completion.
- `Lose` is not fair.

In `RdmaTransport`:

- `WF(Poll(n))` holds, because the loop polls once per iteration.
- `WF(Transmit(n))` holds, because the HCA executes posted work.
- Delivery of some datagram in flight is weakly fair.
- `Lose` is not fair.

In `RdmaControl`, each node's executor thread, client side and server thread is weakly fair, because the OS schedules both threads. `Connect` is not fair: whether a running executor sends, and to whom, depends on its programs. So nothing forces a peer to connect to a server stuck in `accept`, and that is exactly the `rdma_join` hang.

The interpreter runs say `CHECK_DEADLOCK FALSE`, because a behaviour is one instruction: the next instruction is another initial state. They assume no fairness.

The transport runs say `CHECK_DEADLOCK FALSE`. The only states without a successor are those where every send call of the bound has been made and all queues are drained. There, the real loop keeps polling an empty CQ, which is a stuttering step. The control-plane runs say `CHECK_DEADLOCK FALSE` too. A process in `vm_executor_run` takes no further control-plane step, and a process that failed or finished has ended. The one end state that is an error, a hang in `pthread_join`, is what `DestroyReturns` checks.

## Not modelled (yet)

- **Interpreter data inside `Executor`.** `Executor` keeps ALU results abstract: `AluResult` covers only the ADD and MOV the programs use. `EbpfInterp` checks each operation separately. Running the full register file inside `Executor` would multiply its state space by the register contents.
- **The transport's two halves are separate models.** `RdmaTransport` folds the TCP exchange into `GetNodeInfo`, and `RdmaControl` leaves out the data path. `Executor` still uses a lossy bag for the network. Composing it with `RdmaTransport` would multiply two large state spaces, so the transport's hazards are checked in `RdmaTransport` with an environment that may send at any time.
- **Monitors registered before a migration.** `receive_vm` empties the monitor list, as spec 4.5 requires, so a VM that waits after migrating without registering again hangs by design. No shipped program does this, and the tour registers again.
- **Negative call indices.** `ins->immediate` is `int32_t`, so a negative index passes the `< PKT_VM_MAX_SYMBS` test and reads `symbols[imm]` outside the table (simulator.c:273). `do_relocation` leaves the compiler's immediate when no host function has the name (elf.c:93). What that read yields depends on the memory before the table, so `Executor` assumes non-negative indices.
- **calloc failure in `receive_vm`.** Losing the image there is indistinguishable from `Lose`.
- **The VM list and the monitor list** stay TLA+ sequences in `Executor` and `HostFunctions`. `UbList` checks that the list operations they use behave as sequence operations, and linking them through `UbList` would only enlarge those state spaces. `list.h` holds two offset macros that no modelled code uses.
- **Printing, argument parsing and libelf parsing.**
