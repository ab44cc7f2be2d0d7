----------------------------- MODULE MCLinker -----------------------------
(***************************************************************************)
(* Object files for Linker: the .text of examples/function_call.c-like    *)
(* code, six instructions with calls at 1 and 3, each relocated against   *)
(* a local function, a host function or a name the table lacks; vm_main   *)
(* and the helper may be missing from .text; sections may be malformed    *)
(* and .rel.text may be absent.                                            *)
(***************************************************************************)
EXTENDS Linker

\* .text immediates as clang leaves them: -1 in every call to relocate.
Text == << 0, -1, 0, -1, 0, 0 >>

Syms(mainType, testShndx) ==
  << [name |-> "vm_main", type |-> mainType, shndx |-> "text", value |-> 0],
     [name |-> "test", type |-> "FUNC", shndx |-> testShndx, value |-> 32],
     [name |-> "debug_print", type |-> "NOTYPE", shndx |-> "undef", value |-> 0],
     [name |-> "fork_to", type |-> "NOTYPE", shndx |-> "undef", value |-> 0] >>

MCElfFiles ==
  {[sectionsOk |-> ok, hasRel |-> hr, text |-> Text, syms |-> Syms(mt, ts),
    rels |-> IF hr THEN << [offset |-> 8, sym |-> s1], [offset |-> 24, sym |-> s2] >>
             ELSE << >>] :
     ok \in BOOLEAN, hr \in BOOLEAN, mt \in {"FUNC", "NOTYPE"},
     ts \in {"text", "undef"}, s1 \in 2..4, s2 \in 2..4}

=============================================================================
