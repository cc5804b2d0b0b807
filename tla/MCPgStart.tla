----------------------------- MODULE MCPgStart -----------------------------
(* Instances of PgStart for TLC. *)
EXTENDS PgStart
=============================================================================
