---------------------------- MODULE MCFileCache ----------------------------
(* Instances of FileCache for TLC: two requests for the same key in a zone  *)
(* that other files can fill.                                               *)
EXTENDS FileCache

MCKeyOf == [r \in Request |-> "k1"]
=============================================================================
