----------------------------- MODULE MCUpstream -----------------------------
(* Instances of Upstream for TLC: a block with two servers of different     *)
(* weight and a backup server, and one with a single server.               *)
EXTENDS Upstream

MCPrimary == [b \in {"app", "api"} |-> IF b = "app" THEN <<"a", "b">> ELSE <<"d">>]
MCBackup == [b \in {"app", "api"} |-> IF b = "app" THEN <<"c">> ELSE <<>>]
MCWeight == [p \in {"a", "b", "c", "d"} |-> IF p = "a" THEN 2 ELSE 1]
MCMaxFails == [p \in {"a", "b", "c", "d"} |-> IF p = "c" THEN 0 ELSE 1]
MCMaxConns == [p \in {"a", "b", "c", "d"} |-> IF p \in {"b", "d"} THEN 1 ELSE 0]
=============================================================================
