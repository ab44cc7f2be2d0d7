---------------------------- MODULE MCRdmaControl ----------------------------
EXTENDS RdmaControl, Integers

CONSTANTS a, b

\* Two processes; a node may also connect to its own server thread, so two
\* clients can queue on one server.
TwoNodes == {a, b}

\* ub_list.h checked against sequences: from every reachable address list
\* of the two nodes, and from every list of up to three entries (so that
\* an entry is removed from the middle; head 0, NULL -1).
UbListCorrect == DstListOpsMatchSeq /\ UbListMatchesSeq(0, 1..3, -1)
=============================================================================
