------------------------------ MODULE MCShMtx ------------------------------
(* Instances of ShMtx for TLC. *)
EXTENDS ShMtx
=============================================================================
