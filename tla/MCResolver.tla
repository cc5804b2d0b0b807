----------------------------- MODULE MCResolver -----------------------------
(* An instance of Resolver for TLC.                                         *)
EXTENDS Resolver
=============================================================================
