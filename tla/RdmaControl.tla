----------------------------- MODULE RdmaControl -----------------------------
(***************************************************************************)
(* The control plane of the RDMA transport                                *)
(* (src/ebpf_vm_executor/ebpf_vm_transport_rdma.c) and the process        *)
(* lifecycle around it (vm_executor_init / vm_executor_destroy in         *)
(* ebpf_vm_simulator.c, main in mp_vm_test.c).                             *)
(*                                                                         *)
(* Each node is two threads.  The executor thread runs pkt_vm_rdma_init   *)
(* (context, server thread, QP enable), then main either enters           *)
(* vm_executor_run, which never returns, or takes one of its early exits  *)
(* to vm_executor_destroy, whose pkt_vm_rdma_exit sets should_stop and    *)
(* joins the server thread.  While running, the executor learns a         *)
(* destination through pkt_vm_rdma_get_node_info: a TCP exchange with the *)
(* destination's server thread.  The server thread                        *)
(* (pkt_vm_rdma_server_main) listens, then loops: test should_stop,       *)
(* accept (blocking), read the client's address, write its own, read      *)
(* "done", close.                                                          *)
(*                                                                         *)
(* A TCP connection is the counts of messages each end has written and    *)
(* whether the server end was closed.  A refused connect, and the         *)
(* addresses' contents, change nothing here and are left out.             *)
(***************************************************************************)
EXTENDS Naturals, Sequences, UbList
LOCAL INSTANCE SequencesExt

CONSTANTS
  Nodes,        \* executors (one process each)
  NoNode,       \* no peer / no connection; NULL in a list link
  ListHead      \* the head link of ctx->dst_addr_list

ASSUME NoNode \notin Nodes /\ ListHead \notin Nodes \cup {NoNode}

VARIABLES
  epc,          \* executor thread: where it is in init, run or destroy
  spc,          \* server thread: where pkt_vm_rdma_server_main is
  shouldStop,   \* ctx->state.should_stop
  qpReady,      \* the QP was moved to RTR and RTS by pkt_vm_rdma_enable_qp
  listening,    \* the server's listening socket is open
  backlog,      \* connections completed by connect, not yet accepted
  serving,      \* the client whose connection the server thread holds
  xchg,         \* the peer of the client's get_node_info in progress
  chan,         \* chan[c]: the connection of client c's exchange
  known,        \* ctx->dst_addr_list: its links (UbList), one entry per node
  added         \* history: the destinations appended to it, in order

vars == <<epc, spc, shouldStop, qpReady, listening, backlog, serving, xchg, chan, known, added>>

\* The links of dst_addr_list: its head and one struct rdma_addr_info per
\* destination (add_dest is called only for a destination not found).
Slots == {ListHead} \cup Nodes

\* pkt_vm_rdma_find_dest: UB_LIST_FOR_EACH compares each entry's key with d.
FindDest(n, d) == \E i \in DOMAIN UbListWalk(known[n], ListHead) :
                    UbListWalk(known[n], ListHead)[i] = d

ExecPcs == {"init", "spawn", "enable", "main", "run", "join", "done", "failed"}
ServerPcs == {"none", "start", "loop", "accept", "read", "close", "ended"}

\* A connection just made: nothing written yet (up: client to server,
\* down: server to client), the server end still open.
NewChan == [up |-> 0, down |-> 0, sClosed |-> FALSE]

\* c's connection is still in n's backlog.
Queued(n, c) == \E i \in DOMAIN backlog[n] : backlog[n][i] = c

Init ==
  /\ epc = [n \in Nodes |-> "init"]
  /\ spc = [n \in Nodes |-> "none"]
  /\ shouldStop = [n \in Nodes |-> FALSE]
  /\ qpReady = [n \in Nodes |-> FALSE]
  /\ listening = [n \in Nodes |-> FALSE]
  /\ backlog = [n \in Nodes |-> << >>]
  /\ serving = [n \in Nodes |-> NoNode]
  /\ xchg = [n \in Nodes |-> NoNode]
  /\ chan = [n \in Nodes |-> NewChan]
  /\ known = [n \in Nodes |-> UbListInit(ListHead, Slots, NoNode)]
  /\ added = [n \in Nodes |-> << >>]

(***************************************************************************)
(* Executor thread.                                                        *)
(***************************************************************************)
\* pkt_vm_rdma_init_ctx: any of its verbs calls may fail, which frees what
\* was made and returns NULL; vm_executor_init then fails and main returns.
\* On success the receive buffers are posted and get_local_addr is called
\* (its failure is ignored).
InitCtx(n) ==
  /\ epc[n] = "init"
  /\ epc' \in {[epc EXCEPT ![n] = "spawn"], [epc EXCEPT ![n] = "failed"]}
  /\ UNCHANGED <<spc, shouldStop, qpReady, listening, backlog, serving, xchg, chan, known, added>>

\* pthread_create of the server thread.  On failure pkt_vm_rdma_exit runs
\* with server_thread still 0 (ctx is calloc'd), so it joins nothing.
Spawn(n) ==
  /\ epc[n] = "spawn"
  /\ \/ /\ epc' = [epc EXCEPT ![n] = "enable"]
        /\ spc' = [spc EXCEPT ![n] = "start"]
     \/ /\ epc' = [epc EXCEPT ![n] = "failed"]
        /\ UNCHANGED spc
  /\ UNCHANGED <<shouldStop, qpReady, listening, backlog, serving, xchg, chan, known, added>>

\* pkt_vm_rdma_enable_qp, after the server thread is already answering; its
\* result is ignored by pkt_vm_rdma_init.
EnableQp(n) ==
  /\ epc[n] = "enable"
  /\ epc' = [epc EXCEPT ![n] = "main"]
  /\ qpReady' \in {[qpReady EXCEPT ![n] = TRUE], qpReady}
  /\ UNCHANGED <<spc, shouldStop, listening, backlog, serving, xchg, chan, known, added>>

\* main: vm_executor_run, or an early exit (the ELF file does not load, or
\* the test's setup returns NULL) to vm_executor_destroy, whose
\* pkt_vm_rdma_exit sets should_stop and calls pthread_join.
Main(n) ==
  /\ epc[n] = "main"
  /\ \/ /\ epc' = [epc EXCEPT ![n] = "run"]
        /\ UNCHANGED shouldStop
     \/ /\ epc' = [epc EXCEPT ![n] = "join"]
        /\ shouldStop' = [shouldStop EXCEPT ![n] = TRUE]
  /\ UNCHANGED <<spc, qpReady, listening, backlog, serving, xchg, chan, known, added>>

\* pthread_join returns once the server thread has ended; the rest of
\* pkt_vm_rdma_exit destroys the QP, CQ and MR, then removes and frees each
\* entry of the address list (UB_LIST_FOR_EACH_SAFE).  A failure to destroy
\* the QP, CQ or MR returns early and leaves the list as it is.
Join(n) ==
  /\ epc[n] = "join"
  /\ spc[n] = "ended"
  /\ epc' = [epc EXCEPT ![n] = "done"]
  /\ qpReady' = [qpReady EXCEPT ![n] = FALSE]
  /\ \/ /\ known' = [known EXCEPT ![n] = UbListRemoveEach(@, ListHead, NoNode)]
        /\ added' = [added EXCEPT ![n] = << >>]
     \/ UNCHANGED <<known, added>>
  /\ UNCHANGED <<spc, shouldStop, listening, backlog, serving, xchg, chan>>

(***************************************************************************)
(* pkt_vm_rdma_get_node_info, called by pkt_vm_rdma_send when             *)
(* pkt_vm_rdma_find_dest finds no entry for d.                            *)
(***************************************************************************)
\* socket and connect: the kernel completes the connection into d's
\* listen backlog, whatever d's server thread is doing.
Connect(n, d) ==
  /\ epc[n] = "run"
  /\ xchg[n] = NoNode
  /\ ~FindDest(n, d)
  /\ listening[d]
  /\ xchg' = [xchg EXCEPT ![n] = d]
  /\ chan' = [chan EXCEPT ![n] = NewChan]
  /\ backlog' = [backlog EXCEPT ![d] = Append(@, n)]
  /\ UNCHANGED <<epc, spc, shouldStop, qpReady, listening, serving, known, added>>

\* Variant that writes again whatever was already written.
ClientWriteUnguarded(n) ==
  /\ xchg[n] # NoNode
  /\ chan' = [chan EXCEPT ![n].up = @ + 1]
  /\ UNCHANGED <<epc, spc, shouldStop, qpReady, listening, backlog, serving, xchg, known, added>>

\* write of the local address (buffered by TCP).
ClientWrite(n) ==
  /\ xchg[n] # NoNode
  /\ chan[n].up = 0
  /\ chan' = [chan EXCEPT ![n].up = @ + 1]
  /\ UNCHANGED <<epc, spc, shouldStop, qpReady, listening, backlog, serving, xchg, known, added>>

\* pkt_vm_rdma_add_dest: the new entry is pushed at the tail of
\* dst_addr_list.  Its malloc or ibv_create_ah may fail first; NULL is then
\* returned and nothing is added.
AddDest(n, d) == UbListPushBack(known[n], ListHead, d)

\* read of the peer's address, which blocks until the server has written
\* it or closed its end.  On success "done" is written, the socket closed
\* and the entry added.
ClientRead(n) ==
  LET d == xchg[n]
  IN  /\ d # NoNode
      /\ chan[n].up = 1
      /\ \/ /\ chan[n].down = 1
            /\ chan' = [chan EXCEPT ![n].up = 2]
            /\ \/ /\ known' = [known EXCEPT ![n] = AddDest(n, d)]
                  /\ added' = [added EXCEPT ![n] = Append(@, d)]
               \/ UNCHANGED <<known, added>>
         \/ /\ chan[n].down = 0
            /\ chan[n].sClosed
            /\ UNCHANGED <<chan, known, added>>
      /\ xchg' = [xchg EXCEPT ![n] = NoNode]
      /\ UNCHANGED <<epc, spc, shouldStop, qpReady, listening, backlog, serving>>

(***************************************************************************)
(* Server thread: pkt_vm_rdma_server_main.                                 *)
(***************************************************************************)
\* socket, bind, listen; a failure of any returns from the thread.
ServerStart(n) ==
  /\ spc[n] = "start"
  /\ \/ /\ spc' = [spc EXCEPT ![n] = "loop"]
        /\ listening' = [listening EXCEPT ![n] = TRUE]
     \/ /\ spc' = [spc EXCEPT ![n] = "ended"]
        /\ UNCHANGED listening
  /\ UNCHANGED <<epc, shouldStop, qpReady, backlog, serving, xchg, chan, known, added>>

\* Variant whose stop path leaves the queued connections open.
ServerStopKeepBacklog(n) ==
  /\ spc[n] = "loop"
  /\ IF shouldStop[n]
       THEN /\ spc' = [spc EXCEPT ![n] = "ended"]
            /\ listening' = [listening EXCEPT ![n] = FALSE]
            /\ UNCHANGED <<backlog, chan>>
       ELSE /\ spc' = [spc EXCEPT ![n] = "accept"]
            /\ UNCHANGED <<listening, backlog, chan>>
  /\ UNCHANGED <<epc, shouldStop, qpReady, serving, xchg, known, added>>

\* The loop test of should_stop.  When it is set, close(sockfd) ends the
\* listening socket and resets every connection still in its backlog.
ServerLoop(n) ==
  /\ spc[n] = "loop"
  /\ IF shouldStop[n]
       THEN /\ spc' = [spc EXCEPT ![n] = "ended"]
            /\ listening' = [listening EXCEPT ![n] = FALSE]
            /\ chan' = [c \in Nodes |->
                          IF Queued(n, c)
                            THEN [chan[c] EXCEPT !.sClosed = TRUE] ELSE chan[c]]
            /\ backlog' = [backlog EXCEPT ![n] = << >>]
       ELSE /\ spc' = [spc EXCEPT ![n] = "accept"]
            /\ UNCHANGED <<listening, backlog, chan>>
  /\ UNCHANGED <<epc, shouldStop, qpReady, serving, xchg, known, added>>

\* accept blocks until a connection is queued.
Accept(n) ==
  /\ spc[n] = "accept"
  /\ backlog[n] # << >>
  /\ serving' = [serving EXCEPT ![n] = Head(backlog[n])]
  /\ backlog' = [backlog EXCEPT ![n] = Tail(@)]
  /\ spc' = [spc EXCEPT ![n] = "read"]
  /\ UNCHANGED <<epc, shouldStop, qpReady, listening, xchg, chan, known, added>>

\* read of the client's address, then the write of ctx->local_addr.
ServerReply(n) ==
  LET c == serving[n]
  IN  /\ spc[n] = "read"
      /\ chan[c].up >= 1
      /\ chan' = [chan EXCEPT ![c].down = 1]
      /\ spc' = [spc EXCEPT ![n] = "close"]
      /\ UNCHANGED <<epc, shouldStop, qpReady, listening, backlog, serving, xchg, known, added>>

\* read of "done", which returns once the client has written it and left
\* the exchange (it may already be queued again), then close(connfd) and
\* back to the loop test.
ServerClose(n) ==
  LET c == serving[n]
  IN  /\ spc[n] = "close"
      /\ xchg[c] # n \/ Queued(n, c)
      /\ serving' = [serving EXCEPT ![n] = NoNode]
      /\ spc' = [spc EXCEPT ![n] = "loop"]
      /\ UNCHANGED <<epc, shouldStop, qpReady, listening, backlog, xchg, chan, known, added>>

Executor(n) == InitCtx(n) \/ Spawn(n) \/ EnableQp(n) \/ Main(n) \/ Join(n)
Client(n) == ClientWrite(n) \/ ClientRead(n)
Server(n) == ServerStart(n) \/ ServerLoop(n) \/ Accept(n) \/ ServerReply(n) \/ ServerClose(n)

Next ==
  \E n \in Nodes :
    \/ Executor(n) \/ Client(n) \/ Server(n)
    \/ \E d \in Nodes : Connect(n, d)

\* Both threads of a node are scheduled by the OS and so make progress when
\* they can; whether and where the running executor sends (Connect) is up
\* to the programs it runs, so Connect is not fair.
Fairness ==
  \A n \in Nodes : WF_vars(Executor(n)) /\ WF_vars(Client(n)) /\ WF_vars(Server(n))

Spec == Init /\ [][Next]_vars /\ Fairness

-----------------------------------------------------------------------------
TypeOK ==
  /\ epc \in [Nodes -> ExecPcs]
  /\ spc \in [Nodes -> ServerPcs]
  /\ shouldStop \in [Nodes -> BOOLEAN]
  /\ qpReady \in [Nodes -> BOOLEAN]
  /\ listening \in [Nodes -> BOOLEAN]
  /\ backlog \in [Nodes -> Seq(Nodes)]
  /\ serving \in [Nodes -> Nodes \cup {NoNode}]
  /\ xchg \in [Nodes -> Nodes \cup {NoNode}]
  /\ chan \in [Nodes -> [up : 0..2, down : 0..1, sClosed : BOOLEAN]]
  /\ known \in [Nodes -> [next : [Slots -> Slots \cup {NoNode}],
                           prev : [Slots -> Slots \cup {NoNode}]]]
  /\ added \in [Nodes -> Seq(Nodes)]

\* get_node_info never blocks the executor thread for good: a client that
\* has connected to a peer's server thread eventually leaves the exchange,
\* with the address or with a failure, whatever the peer's server thread
\* is doing (serving others, stopping) and even when the peer shuts down.
ExchangeEnds ==
  \A n \in Nodes : (xchg[n] # NoNode) ~> (xchg[n] = NoNode)

\* dst_addr_list stays a well-formed ring through add_dest's pushes and
\* the teardown loop's removals, and UB_LIST_FOR_EACH in find_dest visits
\* exactly the destinations added, in the order they were added.
DstListIntact ==
  \A n \in Nodes : /\ UbListWellFormed(known[n], ListHead, NoNode)
                  /\ UbListWalk(known[n], ListHead) = added[n]

\* From every list add_dest and the teardown can reach, the ub_list.h
\* operations act as sequence operations on the destinations added:
\* push_back appends, push_head prepends, ub_list_remove deletes one entry
\* and leaves a well-formed ring, and the safe removal loop of
\* pkt_vm_rdma_exit leaves the empty list.
DstListOpsMatchSeq ==
  \A n \in Nodes :
    LET l == known[n]
        w == added[n]
    IN  /\ \A d \in Nodes \ ToSet(w) :
             /\ UbListWalk(UbListPushBack(l, ListHead, d), ListHead) = Append(w, d)
             /\ UbListWalk(UbListPushHead(l, ListHead, d), ListHead) = <<d>> \o w
        /\ \A i \in 1..Len(w) :
             LET r == UbListRemove(l, w[i], NoNode)
             IN  UbListWellFormed(r, ListHead, NoNode) /\ UbListWalk(r, ListHead) = RemoveAt(w, i)
        /\ UbListRemoveEach(l, ListHead, NoNode) = UbListInit(ListHead, Slots, NoNode)

\* vm_executor_destroy returns: once pkt_vm_rdma_exit has set should_stop
\* and called pthread_join, the server thread ends and the exit completes.
DestroyReturns ==
  \A n \in Nodes : (epc[n] = "join") ~> (epc[n] = "done")
(***************************************************************************)
(* A destination in dst_addr_list can receive: every peer whose address   *)
(* a node has learnt through get_node_info has its QP in RTR and RTS, or  *)
(* has begun to shut down.  pkt_vm_rdma_send posts datagrams to such an   *)
(* address at once, and a UD queue pair that is not ready drops them.     *)
(* It concerns pkt_vm_rdma_init, which starts the server thread before    *)
(* pkt_vm_rdma_enable_qp and ignores that call's failure.                  *)
(***************************************************************************)
KnownDestsReady ==
  \A n \in Nodes :
    \A d \in ToSet(UbListWalk(known[n], ListHead)) :
      qpReady[d] \/ epc[d] \in {"join", "done"}
=============================================================================
