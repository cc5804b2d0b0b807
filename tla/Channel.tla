------------------------------ MODULE Channel ------------------------------
(***************************************************************************)
(* The channels between the processes: the socketpair() of every child,    *)
(* and the copies of the process table that the workers keep up to date    *)
(* with the messages the master sends through it                           *)
(* (ngx_start_worker_processes(), ngx_pass_open_channel(),                 *)
(* ngx_reap_children() and ngx_channel_handler() of                        *)
(* os/unix/ngx_process_cycle.c, os/unix/ngx_channel.c).                    *)
(*                                                                         *)
(* When the master starts, stops or respawns a process is the matter of    *)
(* module MasterCycle and left open here.  Every process has a number; the *)
(* descriptor channel[0] of its socket pair is named by the same number,   *)
(* in every process that holds a copy of it.                               *)
(***************************************************************************)
EXTENDS Integers, Sequences, FiniteSets

CONSTANTS
    MaxSlots,   \* NGX_MAX_PROCESSES
    MaxProcs,   \* bound: the processes started
    MaxBatch,   \* bound: the children that one pass of the master finds dead
    QueueSize   \* the messages a socket holds

ASSUME SizeAssumption == MaxSlots \in Nat \ {0} /\ MaxProcs \in Nat /\ QueueSize \in Nat
ASSUME BatchAssumption == MaxBatch \in Nat \ {0}

VARIABLES
    table,   \* ngx_processes[] of the master
    last,    \* ngx_last_process
    dead,    \* the processes that are zombies
    view,    \* view[p]: ngx_processes[] of process p, while it is alive
    queue,   \* queue[p]: the messages p has not read yet
    leaked,  \* leaked[p]: the descriptors of p that its table does not name
    procs,   \* how many processes have been started
    pc,      \* of the master
    i,       \* the loop counter of ngx_reap_children()
    ch       \* its local variable

vars == <<table, last, dead, view, queue, leaked, procs, pc, i, ch>>

Slots == 0..MaxSlots - 1
Procs == 1..MaxProcs
None == 0    \* pid -1, descriptor -1

Entry == [pid : Procs \cup {None}, fd : Procs \cup {None}, exited : BOOLEAN]
Free == [pid |-> None, fd |-> None, exited |-> FALSE]

Msg == [command : {"OPEN", "CLOSE"}, slot : Slots, pid : Procs \cup {None},
        fd : Procs \cup {None}]

\* memzero; NGX_CMD_CLOSE_CHANNEL, fd -1
NoMessage == [command |-> "CLOSE", slot |-> 0, pid |-> None, fd |-> None]

Alive == {p \in 1..procs : p \notin dead /\ \E s \in Slots : table[s].pid = p}

Init ==
    /\ table = [s \in Slots |-> Free]
    /\ last = 0
    /\ dead = {}
    /\ view = [p \in Procs |-> [s \in Slots |-> Free]]
    /\ queue = [p \in Procs |-> <<>>]
    /\ leaked = [p \in Procs |-> {}]
    /\ procs = 0
    /\ pc = "idle" /\ i = 0 /\ ch = NoMessage

-----------------------------------------------------------------------------
\* ngx_write_channel(): a message that finds the socket full is lost
\* ("TODO: NGX_AGAIN").
Written(q, m) == IF Len(q) < QueueSize THEN Append(q, m) ELSE q

\* The message m goes to the processes in the slots of "to"; what is written
\* to a process that is dead already is read by nobody.
Sent(tab, que, to, m) ==
    [p \in Procs |->
        IF p \notin dead /\ \E s \in to : tab[s].fd = p /\ tab[s].pid # None
        THEN Written(que[p], m) ELSE que[p]]

\* The child starts as a copy of the master; it closes its own channel[0].
Forked(tab, s) == [tab EXCEPT ![s].fd = None]

\* Wrong on purpose: the other processes are not told of the new one.
SpawnIn_NotPassed(tab, que, s) ==
    LET p == procs + 1
        new == [tab EXCEPT ![s] = [pid |-> p, fd |-> p, exited |-> FALSE]]
    IN  /\ procs < MaxProcs
        /\ procs' = p
        /\ table' = new
        /\ last' = IF s = last THEN last + 1 ELSE last
        /\ view' = [view EXCEPT ![p] = Forked(new, s)]
        /\ queue' = que

\* ngx_spawn_process(), and ngx_pass_open_channel() to all but the new process
SpawnIn(tab, que, s) ==
    LET p == procs + 1
        new == [tab EXCEPT ![s] = [pid |-> p, fd |-> p, exited |-> FALSE]]
        others == {t \in Slots \ {s} : t < last}
    IN  /\ procs < MaxProcs
        /\ procs' = p
        /\ table' = new
        /\ last' = IF s = last THEN last + 1 ELSE last
        /\ view' = [view EXCEPT ![p] = Forked(new, s)]
        /\ queue' = Sent(new, que, others, [command |-> "OPEN", slot |-> s, pid |-> p,
                                            fd |-> p])

\* ngx_start_worker_processes(), ngx_start_cache_manager_processes(): one
\* process of them, in the first free slot
Start ==
    LET free == {s \in 0..last - 1 : table[s].pid = None}
        s == IF free = {} THEN last ELSE CHOOSE t \in free : \A u \in free : t <= u
    IN  /\ pc = "idle"
        /\ s < MaxSlots
        /\ SpawnIn(table, queue, s)
        /\ UNCHANGED <<dead, leaked, pc, i, ch>>

-----------------------------------------------------------------------------
\* A child dies, and what it knew is gone.
Die(p) ==
    /\ p \in Alive
    /\ Cardinality(dead) < MaxBatch
    /\ dead' = dead \cup {p}
    /\ queue' = [queue EXCEPT ![p] = <<>>]
    /\ view' = [view EXCEPT ![p] = [s \in Slots |-> Free]]
    /\ leaked' = [leaked EXCEPT ![p] = {}]
    /\ UNCHANGED <<table, last, procs, pc, i, ch>>

\* SIGCHLD: ngx_process_get_status() notes who is dead, and
\* ngx_reap_children() begins.
Reap ==
    /\ pc = "idle"
    /\ dead # {}
    /\ table' = [s \in Slots |-> IF table[s].pid \in dead THEN [table[s] EXCEPT !.exited = TRUE]
                                 ELSE table[s]]
    /\ pc' = "reap"
    /\ UNCHANGED <<last, dead, view, queue, leaked, procs, i, ch>>

ReapSkip ==
    /\ pc = "reap"
    /\ i < last
    /\ table[i].pid = None \/ ~table[i].exited
    /\ i' = i + 1
    /\ UNCHANGED <<table, last, dead, view, queue, leaked, procs, pc, ch>>

\* The channel of the dead process in slot i is closed, and the others are
\* sent ch: its command and its fd are those of the message sent before.
Closed == [table EXCEPT ![i].fd = None]
Announced == [ch EXCEPT !.pid = table[i].pid, !.slot = i]
Listeners == {s \in Slots : s < last /\ ~table[s].exited}

\* The process is respawned in its slot.
ReapRespawn ==
    /\ pc = "reap"
    /\ i < last
    /\ table[i].pid # None /\ table[i].exited
    /\ SpawnIn(Closed, Sent(Closed, queue, Listeners, Announced), i)
    /\ ch' = [command |-> "OPEN", slot |-> i, pid |-> procs', fd |-> procs']
    /\ dead' = dead \ {table[i].pid}
    /\ i' = i + 1
    /\ UNCHANGED <<leaked, pc>>

\* The process is not respawned: its slot becomes free.
ReapFree ==
    /\ pc = "reap"
    /\ i < last
    /\ table[i].pid # None /\ table[i].exited
    /\ queue' = Sent(Closed, queue, Listeners, Announced)
    /\ ch' = Announced
    /\ table' = [table EXCEPT ![i] = Free]
    /\ last' = IF i = last - 1 THEN last - 1 ELSE last
    /\ dead' = dead \ {table[i].pid}
    /\ i' = i + 1
    /\ UNCHANGED <<view, leaked, procs, pc>>

ReapDone ==
    /\ pc = "reap"
    /\ i >= last
    /\ pc' = "idle" /\ i' = 0 /\ ch' = NoMessage
    /\ UNCHANGED <<table, last, dead, view, queue, leaked, procs>>

-----------------------------------------------------------------------------
\* ngx_channel_handler() in process p
ReadOpen(p) ==
    /\ p \in Alive
    /\ queue[p] # <<>>
    /\ LET m == Head(queue[p])
           old == view[p][m.slot].fd
       IN  /\ m.command = "OPEN"
           /\ view' = [view EXCEPT ![p][m.slot].pid = m.pid, ![p][m.slot].fd = m.fd]
           /\ leaked' = IF old = None THEN leaked ELSE [leaked EXCEPT ![p] = @ \cup {old}]
    /\ queue' = [queue EXCEPT ![p] = Tail(@)]
    /\ UNCHANGED <<table, last, dead, procs, pc, i, ch>>

ReadClose(p) ==
    /\ p \in Alive
    /\ queue[p] # <<>>
    /\ LET m == Head(queue[p])
       IN  /\ m.command = "CLOSE"
           /\ view' = [view EXCEPT ![p][m.slot].fd = None]
    /\ queue' = [queue EXCEPT ![p] = Tail(@)]
    /\ UNCHANGED <<table, last, dead, leaked, procs, pc, i, ch>>

-----------------------------------------------------------------------------
Next ==
    \/ Start \/ Reap \/ ReapSkip \/ ReapRespawn \/ ReapFree \/ ReapDone
    \/ \E p \in Procs : Die(p) \/ ReadOpen(p) \/ ReadClose(p)

Spec == Init /\ [][Next]_vars

-----------------------------------------------------------------------------
\* Properties

\* The variables hold what they are declared to hold.
TypeOK ==
    /\ table \in [Slots -> Entry]
    /\ last \in 0..MaxSlots
    /\ dead \subseteq Procs
    /\ view \in [Procs -> [Slots -> Entry]]
    /\ \A p \in Procs : queue[p] \in Seq(Msg) /\ Len(queue[p]) <= QueueSize
    /\ leaked \in [Procs -> SUBSET Procs]
    /\ procs \in 0..MaxProcs
    /\ pc \in {"idle", "reap"}
    /\ i \in 0..MaxSlots
    /\ ch \in Msg

\* Process p has read all messages and the master is not in the middle of
\* sending any.
UpToDate(p) == p \in Alive /\ queue[p] = <<>> /\ pc = "idle"

\* A worker that is up to date has the right channel to every other process
\* that lives, however many others died and were replaced, in whichever slot.
LivingAreReachable ==
    \A p \in Procs : UpToDate(p) =>
        \A s \in Slots : table[s].pid \in Alive \ {p} =>
            view[p][s].pid = table[s].pid /\ view[p][s].fd = table[s].fd

\* A worker that is up to date has closed its channels to the processes that
\* are no more: it holds no descriptor but those of its table, and none for
\* a free slot.  (The master "passes close channel" for every dead process.)
DeadAreForgotten ==
    \A p \in Procs : UpToDate(p) =>
        /\ leaked[p] = {}
        /\ \A s \in Slots : table[s].pid = None => view[p][s].fd = None
=============================================================================
