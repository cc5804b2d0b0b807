----------------------------- MODULE CrashMutex -----------------------------
(***************************************************************************)
(* What nginx relies on when it puts a mutex into shared memory: at most   *)
(* one process owns it, it is given up by its owner and by nobody else,    *)
(* except that the mutex of a process that died is recovered once the      *)
(* death has been noticed.                                                 *)
(*                                                                         *)
(* owner   the process that owns the mutex, or NoProc                      *)
(* dead    the processes that died and whose death has not been handled    *)
(***************************************************************************)
CONSTANTS Proc, NoProc

VARIABLES owner, dead

vars == <<owner, dead>>

Init == owner = NoProc /\ dead = {}

Acquire(p) ==
    /\ owner = NoProc
    /\ p \notin dead
    /\ owner' = p
    /\ UNCHANGED dead

Release(p) ==
    /\ owner = p
    /\ p \notin dead
    /\ owner' = NoProc
    /\ UNCHANGED dead

\* A process dies where it stands; a mutex that it owns stays owned.
Die(p) ==
    /\ p \notin dead
    /\ dead' = dead \cup {p}
    /\ UNCHANGED owner

\* The death of p is handled: its mutex, and no other one, is recovered.
Recover(p) ==
    /\ p \in dead
    /\ dead' = dead \ {p}
    /\ owner' = IF owner = p THEN NoProc ELSE owner

Next == \E p \in Proc : Acquire(p) \/ Release(p) \/ Die(p) \/ Recover(p)

Spec == Init /\ [][Next]_vars
=============================================================================
