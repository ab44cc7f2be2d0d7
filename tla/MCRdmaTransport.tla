--------------------------- MODULE MCRdmaTransport ---------------------------
(***************************************************************************)
(* Instances of RdmaTransport for TLC.  Units are UD_GRH_SIZE (40 bytes): *)
(* max_msg_size is 4 units and images are 1 to 3 units (the GRH plus the  *)
(* payload must fit in max_msg_size), or 4 units for one that does not.   *)
(***************************************************************************)
EXTENDS RdmaTransport

CONSTANTS a, b

TwoNodes == {a, b}
OneNode == {a}
FittingSizes == {2, 3}
OversizeSizes == {2, 4}
\* Every image of one program has the same size.
ImageSize == {3}
\* Images of two programs, one too large to be received.
MixedSizes == {3, 4}
=============================================================================
