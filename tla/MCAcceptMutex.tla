--------------------------- MODULE MCAcceptMutex ---------------------------
(* Instances of AcceptMutex for TLC. *)
EXTENDS AcceptMutex
=============================================================================
