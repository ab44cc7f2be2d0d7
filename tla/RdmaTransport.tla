---------------------------- MODULE RdmaTransport ----------------------------
(***************************************************************************)
(* The RDMA unreliable-datagram transport of the executor                 *)
(* (src/ebpf_vm_executor/ebpf_vm_transport_rdma.c) and the part of         *)
(* vm_executor_run that drives it: recv, receive_vm's copy of the payload *)
(* and return_buf.                                                         *)
(*                                                                         *)
(* Each node has one registered buffer of 2 * rx_depth * max_msg_size     *)
(* units: receive buffers are posted at idx * max_msg_size, sends are     *)
(* copied into the upper half at send_offset.  A unit stands for          *)
(* UD_GRH_SIZE bytes scaled down (GRH units); memory cells hold the id of  *)
(* the message whose bytes they hold, so an overwrite is visible.         *)
(*                                                                         *)
(* The verbs objects are queues: the receive queue (posted buffer         *)
(* addresses, consumed in order), the send queue (work requests, at most  *)
(* MAX_SEND_WR outstanding until their completion is polled) and one      *)
(* completion queue shared by both.  The HCA is two actions: Transmit     *)
(* reads a posted send buffer and puts the datagram on the wire, Deliver  *)
(* takes the next posted receive buffer at the destination.  The wire may *)
(* lose a datagram, and one that arrives with no buffer posted is dropped. *)
(* The executor thread is two actions: Send (migrate_to / clone_to call   *)
(* pkt_vm_rdma_send, any number of times between polls) and Poll.         *)
(***************************************************************************)
EXTENDS Integers, Sequences, FiniteSets

CONSTANTS
  Nodes,        \* executors
  RX_DEPTH,     \* cfg->rx_depth (-r)
  MAX_MSG,      \* cfg->max_msg_size (-s), in units
  GRH,          \* UD_GRH_SIZE, in units
  Sizes,        \* payload sizes the executor sends (image sizes), in units
  MAX_MSGS      \* bound on the number of send calls

ASSUME RX_DEPTH >= 1 /\ GRH >= 1 /\ Sizes \subseteq 1..MAX_MSG

VARIABLES
  mem,          \* mem[n][c]: the registered buffer of node n
  rq,           \* posted receive buffers (wr_id = address), in order
  sq,           \* outstanding send work requests
  cq,           \* completions not yet polled
  sendOff,      \* ctx->send_offset
  known,        \* destinations in ctx->dst_addr_list
  wire,         \* datagrams in flight
  nextId,       \* id of the next send call
  sent,         \* history: messages whose send returned their size
  received      \* history: payloads handed to receive_vm

vars == <<mem, rq, sq, cq, sendOff, known, wire, nextId, sent, received>>

\* Variant: a send queue of two work requests on the same CQ.
MaxSendWrTwo == 2

\* max_send_wr in pkt_vm_rdma_init_ctx, and the CQ depth it creates.
MAX_SEND_WR == 1
CQ_DEPTH == RX_DEPTH + 1

BufSize == 2 * RX_DEPTH * MAX_MSG
SendBase == RX_DEPTH * MAX_MSG
Cells == 0..(BufSize - 1)

\* The cells from a on overwritten with the values vals.
WriteCells(m, a, vals) ==
  [c \in DOMAIN m |-> IF c \in a..(a + Len(vals) - 1) THEN vals[c - a + 1] ELSE m[c]]

\* The len cells from a.
ReadCells(m, a, len) == [k \in 1..len |-> m[a + k - 1]]

\* pkt_vm_rdma_find_dest: d is in ctx->dst_addr_list.
FindDest(n, d) == d \in known[n]

\* pkt_vm_rdma_get_node_info: the TCP exchange with d's server thread,
\* then pkt_vm_rdma_add_dest appends d's address handle to the list.
GetNodeInfo(n, d) == known[n] \cup {d}

SendCompletion(a, len) == [op |-> "send", ok |-> TRUE, wrid |-> a, len |-> len]
RecvCompletion(ok, a, len) == [op |-> "recv", ok |-> ok, wrid |-> a, len |-> len]

(***************************************************************************)
(* pkt_vm_rdma_init: rx_depth receive buffers posted, one per slot.       *)
(***************************************************************************)
Init ==
  /\ mem = [n \in Nodes |-> [c \in Cells |-> 0]]
  /\ rq = [n \in Nodes |-> [i \in 1..RX_DEPTH |-> (i - 1) * MAX_MSG]]
  /\ sq = [n \in Nodes |-> << >>]
  /\ cq = [n \in Nodes |-> << >>]
  /\ sendOff = [n \in Nodes |-> 0]
  /\ known = [n \in Nodes |-> {}]
  /\ wire = {}
  /\ nextId = 1
  /\ sent = {}
  /\ received = [n \in Nodes |-> {}]

(***************************************************************************)
(* pkt_vm_rdma_send(n -> d, size): the destination is looked up or fetched *)
(* over TCP (a failed exchange returns 0 and changes nothing), the payload *)
(* is copied to send_buf + send_offset, and only then is the work request *)
(* posted; when the send queue is full, ibv_post_send fails, 0 is         *)
(* returned and send_offset stays.  An oversized message returns 0 before *)
(* any of this (Sizes excludes it).                                       *)
(***************************************************************************)
\* Variant whose send_offset is not taken modulo the send region.
SendNoWrap(n, d, size) ==
  LET a  == SendBase + sendOff[n]
      id == nextId
  IN  /\ nextId <= MAX_MSGS
      /\ known' = [known EXCEPT ![n] = IF FindDest(n, d) THEN @ ELSE GetNodeInfo(n, d)]
      /\ mem' = [mem EXCEPT ![n] = WriteCells(@, a, [k \in 1..size |-> id])]
      /\ IF Len(sq[n]) < MAX_SEND_WR
           THEN /\ sq' = [sq EXCEPT ![n] = Append(@, [addr |-> a, size |-> size,
                                                     dst |-> d, id |-> id, done |-> FALSE])]
                /\ sendOff' = [sendOff EXCEPT ![n] = @ + MAX_MSG]
                /\ sent' = sent \cup {[id |-> id, size |-> size]}
           ELSE UNCHANGED <<sq, sendOff, sent>>
      /\ nextId' = nextId + 1
      /\ UNCHANGED <<rq, cq, wire, received>>

Send(n, d, size) ==
  LET a  == SendBase + sendOff[n]
      id == nextId
  IN  /\ nextId <= MAX_MSGS
      /\ known' = [known EXCEPT ![n] = IF FindDest(n, d) THEN @ ELSE GetNodeInfo(n, d)]
      /\ mem' = [mem EXCEPT ![n] = WriteCells(@, a, [k \in 1..size |-> id])]
      /\ IF Len(sq[n]) < MAX_SEND_WR
           THEN /\ sq' = [sq EXCEPT ![n] = Append(@, [addr |-> a, size |-> size,
                                                     dst |-> d, id |-> id, done |-> FALSE])]
                /\ sendOff' = [sendOff EXCEPT ![n] = (@ + MAX_MSG) % (MAX_MSG * RX_DEPTH)]
                /\ sent' = sent \cup {[id |-> id, size |-> size]}
           ELSE UNCHANGED <<sq, sendOff, sent>>
      /\ nextId' = nextId + 1
      /\ UNCHANGED <<rq, cq, wire, received>>

\* The HCA sends the first posted work request not yet sent: it reads the
\* buffer now, and the send completion is queued (UD completes locally).
Transmit(n) ==
  \E i \in DOMAIN sq[n] :
    LET w == sq[n][i]
    IN  /\ ~w.done
        /\ \A j \in 1..(i - 1) : sq[n][j].done
        /\ wire' = wire \cup {[id |-> w.id, dst |-> w.dst,
                               data |-> ReadCells(mem[n], w.addr, w.size)]}
        /\ sq' = [sq EXCEPT ![n][i].done = TRUE]
        /\ cq' = [cq EXCEPT ![n] = Append(@, SendCompletion(w.addr, w.size))]
        /\ UNCHANGED <<mem, rq, sendOff, known, nextId, sent, received>>

(***************************************************************************)
(* A datagram reaches the HCA of its destination.  With no receive        *)
(* posted it is dropped.  Otherwise the next posted buffer takes the GRH  *)
(* and the payload; a buffer too short for them (the posted length is     *)
(* max_msg_size) or running past the registered region completes with an *)
(* error and nothing is written.                                          *)
(***************************************************************************)
Deliver(m) ==
  LET d   == m.dst
      a   == Head(rq[d])
      len == GRH + Len(m.data)
  IN  /\ wire' = wire \ {m}
      /\ IF rq[d] = << >>
           THEN UNCHANGED <<mem, rq, cq>>
         ELSE IF len > MAX_MSG \/ a + len > BufSize
           THEN /\ rq' = [rq EXCEPT ![d] = Tail(@)]
                /\ cq' = [cq EXCEPT ![d] = Append(@, RecvCompletion(FALSE, a, 0))]
                /\ UNCHANGED mem
           ELSE /\ rq' = [rq EXCEPT ![d] = Tail(@)]
                /\ mem' = [mem EXCEPT ![d] =
                             WriteCells(@, a, [k \in 1..GRH |-> 0] \o m.data)]
                /\ cq' = [cq EXCEPT ![d] = Append(@, RecvCompletion(TRUE, a, len))]
      /\ UNCHANGED <<sq, sendOff, known, nextId, sent, received>>

\* The network loses a datagram.
Lose(m) ==
  /\ wire' = wire \ {m}
  /\ UNCHANGED <<mem, rq, sq, cq, sendOff, known, nextId, sent, received>>

\* Variant that takes a send completion without retiring its work request.
PollKeepSendWr(n) ==
  LET c   == Head(cq[n])
      buf == c.wrid + GRH
  IN  /\ cq[n] # << >>
      /\ cq' = [cq EXCEPT ![n] = Tail(@)]
      /\ IF c.op = "send"
           THEN /\ UNCHANGED sq
                /\ UNCHANGED <<rq, received>>
         ELSE IF ~c.ok
           THEN UNCHANGED <<sq, rq, received>>
           ELSE /\ received' = [received EXCEPT ![n] =
                                  @ \cup {ReadCells(mem[n], buf, c.len - GRH)}]
                /\ rq' = [rq EXCEPT ![n] = Append(@, buf)]
                /\ UNCHANGED sq
      /\ UNCHANGED <<mem, sendOff, known, wire, nextId, sent>>

(***************************************************************************)
(* One poll of vm_executor_run: pkt_vm_rdma_recv takes one completion.  A *)
(* send completion frees its work request and returns 0; an error         *)
(* completion returns 0; a receive returns buf = wr_id + UD_GRH_SIZE and  *)
(* byte_len - UD_GRH_SIZE, receive_vm copies the payload out, and         *)
(* return_buf posts buf again.                                             *)
(***************************************************************************)
Poll(n) ==
  LET c   == Head(cq[n])
      buf == c.wrid + GRH
  IN  /\ cq[n] # << >>
      /\ cq' = [cq EXCEPT ![n] = Tail(@)]
      /\ IF c.op = "send"
           THEN /\ sq' = [sq EXCEPT ![n] = Tail(@)]
                /\ UNCHANGED <<rq, received>>
         ELSE IF ~c.ok
           THEN UNCHANGED <<sq, rq, received>>
           ELSE /\ received' = [received EXCEPT ![n] =
                                  @ \cup {ReadCells(mem[n], buf, c.len - GRH)}]
                /\ rq' = [rq EXCEPT ![n] = Append(@, buf)]
                /\ UNCHANGED sq
      /\ UNCHANGED <<mem, sendOff, known, wire, nextId, sent>>

Next ==
  \/ \E n, d \in Nodes, s \in Sizes : Send(n, d, s)
  \/ \E n \in Nodes : Transmit(n) \/ Poll(n)
  \/ \E m \in wire : Deliver(m) \/ Lose(m)

\* The executor thread polls every loop iteration and the HCA processes
\* posted work; the network's losses are not fair.
Fairness ==
  /\ \A n \in Nodes : WF_vars(Transmit(n)) /\ WF_vars(Poll(n))
  /\ WF_vars(\E m \in wire : Deliver(m))

Spec == Init /\ [][Next]_vars /\ Fairness

-----------------------------------------------------------------------------
Completion == [op : {"send", "recv"}, ok : BOOLEAN, wrid : Nat, len : Nat]

TypeOK ==
  /\ mem \in [Nodes -> [Cells -> 0..MAX_MSGS]]
  /\ rq \in [Nodes -> Seq(Nat)]
  /\ \A n \in Nodes : \A i \in DOMAIN sq[n] :
       sq[n][i] \in [addr : Cells, size : Sizes, dst : Nodes, id : 1..MAX_MSGS, done : BOOLEAN]
  /\ cq \in [Nodes -> Seq(Completion)]
  /\ sendOff \in [Nodes -> 0..(SendBase - 1)]
  /\ known \in [Nodes -> SUBSET Nodes]
  /\ nextId \in 1..(MAX_MSGS + 1)
  /\ sent \subseteq [id : 1..MAX_MSGS, size : Sizes]

(***************************************************************************)
(* The shared completion queue, created with rx_depth + 1 entries, never *)
(* holds more completions than that: at most rx_depth receives are posted *)
(* and max_send_wr = 1 send is outstanding until its completion is       *)
(* polled.  An overrun puts the CQ, and every queue pair on it, in error. *)
(***************************************************************************)
CqNeverOverruns == \A n \in Nodes : Len(cq[n]) <= CQ_DEPTH

(***************************************************************************)
(* A work request posted by pkt_vm_rdma_send is eventually retired: the  *)
(* executor loop's polls take its send completion, so the single send   *)
(* slot does not stay taken and later migrations can be posted.          *)
(***************************************************************************)
SendQueueDrains == \A n \in Nodes : (sq[n] # << >>) ~> (sq[n] = << >>)

(***************************************************************************)
(* Every receive buffer the HCA consumes is posted again: the posted     *)
(* buffers and the receive completions not yet polled always number      *)
(* rx_depth, so a node never runs out of buffers and starts dropping.    *)
(***************************************************************************)
RecvCompletions(n) == SelectSeq(cq[n], LAMBDA c : c.op = "recv")

RecvBuffersReposted == \A n \in Nodes : Len(rq[n]) + Len(RecvCompletions(n)) = RX_DEPTH

(***************************************************************************)
(* Every payload handed to receive_vm is, byte for byte, a message some  *)
(* node sent: neither a later send's copy into send_buf nor another      *)
(* datagram landing in a receive buffer overwrote it on the way.         *)
(***************************************************************************)
DeliveredIntact ==
  \A n \in Nodes : \A p \in received[n] :
    \E m \in sent : p = [k \in 1..m.size |-> m.id]

=============================================================================
