---------------------------- MODULE MCEbpfInterp ----------------------------
(* Eight-bit words (one-bit bytes, eight per word) and four-bit immediates: *)
(* the smallest scale with the code's eight bytes per word and a signed   *)
(* immediate half the word, small enough that TLC's integers hold every   *)
(* product exactly.                                                        *)
EXTENDS EbpfInterp

\* 0, 1, the largest positive, the smallest negative, -1, an odd pattern
\* and a shift count at the width (8).
MCVals == {0, 1, 8, 29, 127, 128, 255}
\* Signed four-bit immediates: zero, small, the extremes and -1.
MCImms == {0, 1, 3, 7, -8, -1}
\* ALU32 ADD, ALU64 NEG with the register bit, and a JMP32 JEQ.
MCUnknown == {4, 143, 22}
====
