---------------------------- MODULE MasterCycle ----------------------------
(***************************************************************************)
(* The master process: the loop ngx_master_process_cycle() with            *)
(* ngx_reap_children() and ngx_signal_worker_processes() of                *)
(* os/unix/ngx_process_cycle.c, the signal handler and ngx_spawn_process() *)
(* of os/unix/ngx_process.c, and the children as far as the master sees    *)
(* them: they run, are told to leave, leave, and die.                      *)
(*                                                                         *)
(* All signals are blocked except inside sigsuspend(), so the flags change *)
(* nowhere else; signals that arrive in the meantime stay pending, each at *)
(* most once.  A child may change its state at any time, and the master    *)
(* learns of it by SIGCHLD.  SIGIO ("IO") only wakes the master up.  The   *)
(* listening sockets, which the master closes when it is told to quit, the *)
(* pid file and the channels (module Channel) are not part of this model.  *)
(***************************************************************************)
EXTENDS Integers, FiniteSets

CONSTANTS
    Workers,       \* ccf->worker_processes
    Cache,         \* some path has a cache manager and a loader
    MaxSlots,      \* NGX_MAX_PROCESSES
    Daemonized,    \* ngx_daemonized; FALSE with "daemon off", as in the image
    Admin,         \* the signals that come from outside: the administrator's, SIGIO
    MaxSignals,    \* bound: how many of them
    MaxDeaths,     \* bound: children that die on their own
    MaxFatal,      \* bound: workers that fail to start, exit(2)
    MaxSpawnFails  \* bound: socketpair(), fork(), rename() that fail

ASSUME SizeAssumption == Workers \in Nat \ {0} /\ MaxSlots \in Nat \ {0}
ASSUME FlagAssumption == Cache \in BOOLEAN /\ Daemonized \in BOOLEAN
ASSUME AdminAssumption == Admin \subseteq 
    {"QUIT", "TERM", "HUP", "USR1", "USR2", "WINCH", "IO"}
ASSUME BoundAssumption ==
    MaxSignals \in Nat /\ MaxDeaths \in Nat /\ MaxFatal \in Nat /\ MaxSpawnFails \in Nat

VARIABLES
    slot,         \* ngx_processes[], and what has become of each process
    last,         \* ngx_last_process
    flags,        \* those of ngx_reap, ngx_quit, ngx_terminate, ... that are 1
    pending,      \* the signals waiting for sigsuspend()
    live,         \* the local variables of ngx_master_process_cycle()
    delay,
    sigio,
    armed,        \* the interval timer is running
    noaccepting,  \* ngx_noaccepting
    newBinary,    \* ngx_new_binary: 0 (none), a pid (running), -1 (failed)
    gen,          \* the current cycle, numbered
    pc,           \* where the master stands
    i,            \* the loop counter of the loop it is in
    mode,         \* the argument of the start functions: boot or reload
    ret,          \* where the loop returns to
    count         \* what the bounds count

local == <<live, delay, sigio, noaccepting, newBinary, gen>>
loop == <<i, mode, ret>>
vars == <<slot, last, flags, pending, local, armed, pc, loop, count>>

Slots == 0..MaxSlots - 1

(***************************************************************************)
(* st of a slot: none (pid -1), run, quitting and terminating (has been    *)
(* told, works on), zombie (has left), fatal (has left with exit code 2),  *)
(* gone (waitpid() has returned it).                                       *)
(***************************************************************************)
Running == {"run", "quitting", "terminating"}
States == Running \cup {"none", "zombie", "fatal", "gone"}

Slot == [st : States, exited : BOOLEAN, exiting : BOOLEAN, respawn : BOOLEAN,
         just : BOOLEAN, detached : BOOLEAN, gen : Nat]

Free == [st |-> "none", exited |-> FALSE, exiting |-> FALSE, respawn |-> FALSE,
         just |-> FALSE, detached |-> FALSE, gen |-> 0]

Flags == {"reap", "quit", "terminate", "reconfigure", "restart", "reopen",
          "change_binary", "noaccept", "sigalrm"}
Signals == {"QUIT", "TERM", "HUP", "USR1", "USR2", "WINCH", "ALRM", "CHLD", "IO"}

Stopping == flags \cap {"quit", "terminate"} # {}

Count(c) == count' = [count EXCEPT ![c] = @ + 1]

\* The processes of one generation: the workers, then the cache manager and
\* the cache loader, which is not respawned.
Jobs == Workers + (IF Cache THEN 2 ELSE 0)
IsLoader(k) == k = Workers + 2

Init ==
    /\ slot = [s \in Slots |-> Free]
    /\ last = 0
    /\ flags = {}
    /\ pending = {}
    /\ live = TRUE
    /\ delay = 0
    /\ sigio = 0
    /\ armed = FALSE
    /\ noaccepting = FALSE
    /\ newBinary = "none"
    /\ gen = 0
    /\ pc = "start" /\ i = 1 /\ mode = "boot" /\ ret = "top"
    /\ count = [signals |-> 0, deaths |-> 0, fatal |-> 0, fails |-> 0]

-----------------------------------------------------------------------------
\* ngx_spawn_process()

\* The first slot whose pid is -1, or the one after the last.
SpawnSlot ==
    LET free == {s \in 0..last - 1 : slot[s].st = "none"}
    IN  IF free = {} THEN last ELSE CHOOSE s \in free : \A t \in free : s <= t

\* A process of the given type starts in slot s.
SpawnAt(s, respawn, just, detached) ==
    /\ slot' = [slot EXCEPT ![s] = [st |-> "run", exited |-> FALSE, exiting |-> FALSE,
                                    respawn |-> respawn, just |-> just,
                                    detached |-> detached, gen |-> gen]]
    /\ last' = IF s = last THEN last + 1 ELSE last

\* The table is full, or a system call fails.
SpawnFails ==
    /\ \/ SpawnSlot = MaxSlots /\ UNCHANGED count
       \/ count.fails < MaxSpawnFails /\ Count("fails")
    /\ UNCHANGED <<slot, last>>

-----------------------------------------------------------------------------
\* ngx_start_worker_processes(), ngx_start_cache_manager_processes(): nothing
\* becomes of a failure.
StartProcess ==
    /\ pc = "start"
    /\ i <= Jobs
    /\ i' = i + 1
    /\ \/ /\ SpawnSlot < MaxSlots
          /\ SpawnAt(SpawnSlot, ~IsLoader(i), mode = "reload", FALSE)
          /\ UNCHANGED count
       \/ SpawnFails
    /\ UNCHANGED <<flags, pending, local, armed, pc, mode, ret>>

StartDone ==
    /\ pc = "start"
    /\ i > Jobs
    /\ pc' = ret
    /\ UNCHANGED <<slot, last, flags, pending, local, armed, loop, count>>

Start(m, r) == pc' = "start" /\ i' = 1 /\ mode' = m /\ ret' = r

-----------------------------------------------------------------------------
\* ngx_signal_worker_processes(): the message through the channel and the
\* signal that replaces it when the channel is full have the same effect.

\* Wrong on purpose: a process that has just been spawned is told to leave too.
Skipped_NotTheNew(p, signo) ==
    \/ p.detached \/ p.st = "none"
    \/ p.exiting /\ signo = "QUIT"

Skipped(p, signo) ==
    \/ p.detached \/ p.st = "none" \/ p.just
    \/ p.exiting /\ signo = "QUIT"

\* kill() finds no process: the slot of a failed respawn.
NoProcess(p, signo) == ~Skipped(p, signo) /\ p.st = "gone"

Told(st, signo) ==
    CASE signo = "QUIT" /\ st = "run" -> "quitting"
      [] signo = "TERM" /\ st \in {"run", "quitting"} -> "terminating"
      [] signo = "KILL" /\ st \in Running -> "zombie"
      [] OTHER -> st

\* Wrong on purpose: just_spawn is never reset.
Signalled_JustKept(p, signo) ==
    IF Skipped(p, signo) THEN p
    ELSE IF NoProcess(p, signo) THEN [p EXCEPT !.exited = TRUE, !.exiting = FALSE]
    ELSE [p EXCEPT !.st = Told(@, signo), !.exiting = @ \/ signo # "USR1"]

Signalled(p, signo) ==
    IF Skipped(p, signo)
    THEN IF p.detached \/ p.st = "none" THEN p ELSE [p EXCEPT !.just = FALSE]
    ELSE IF NoProcess(p, signo) THEN [p EXCEPT !.exited = TRUE, !.exiting = FALSE]
    ELSE [p EXCEPT !.st = Told(@, signo), !.exiting = @ \/ signo # "USR1"]

SignalWorkers(signo) ==
    /\ slot' = [s \in Slots |-> IF s < last THEN Signalled(slot[s], signo) ELSE slot[s]]
    /\ pending' = IF \E s \in Slots : slot'[s].st = "zombie" /\ slot[s].st # "zombie"
                  THEN pending \cup {"CHLD"} ELSE pending

\* ngx_reap = 1 for a process that does not exist
ReapGone(signo) ==
    IF \E s \in Slots : s < last /\ NoProcess(slot[s], signo) THEN {"reap"} ELSE {}

-----------------------------------------------------------------------------
\* Wrong on purpose: the delay does not grow.
Top_NoBackoff ==
    /\ pc = "top"
    /\ \/ /\ delay # 0 /\ "sigalrm" \in flags
          /\ sigio' = 0
          /\ flags' = flags \ {"sigalrm"}
       \/ /\ delay = 0 \/ "sigalrm" \notin flags
          /\ UNCHANGED <<sigio, flags>>
    /\ armed' = (delay # 0)
    /\ pc' = "suspend"
    /\ UNCHANGED <<slot, last, pending, live, delay, noaccepting, newBinary, gen, loop,
                   count>>

\* The top of the loop: the termination delay doubles with every SIGALRM, and
\* the timer is started again.  Once above the second that matters the delay
\* is not counted any further.
Top ==
    /\ pc = "top"
    /\ \/ /\ delay # 0 /\ "sigalrm" \in flags
          /\ sigio' = 0
          /\ delay' = IF delay > 1000 THEN delay ELSE 2 * delay
          /\ flags' = flags \ {"sigalrm"}
       \/ /\ delay = 0 \/ "sigalrm" \notin flags
          /\ UNCHANGED <<sigio, delay, flags>>
    /\ armed' = (delay # 0)
    /\ pc' = "suspend"
    /\ UNCHANGED <<slot, last, pending, live, noaccepting, newBinary, gen, loop, count>>

\* ngx_signal_handler() in the master
Flagged(sig) ==
    CASE sig = "QUIT"  -> {"quit"}
      [] sig = "TERM"  -> {"terminate"}
      [] sig = "HUP"   -> {"reconfigure"}
      [] sig = "USR1"  -> {"reopen"}
      [] sig = "ALRM"  -> {"sigalrm"}
      [] sig = "CHLD"  -> {"reap"}
      [] sig = "IO"    -> {}
      [] sig = "WINCH" -> IF Daemonized THEN {"noaccept"} ELSE {}
      \* A master that has not become a daemon still has the parent that started
      \* it, and takes itself for the new binary.
      [] sig = "USR2"  -> IF Daemonized /\ newBinary # "running" THEN {"change_binary"} ELSE {}

\* ngx_process_get_status()
Waited(p) ==
    IF p.st \in {"zombie", "fatal"}
    THEN [p EXCEPT !.st = "gone", !.exited = TRUE, !.respawn = @ /\ p.st # "fatal"]
    ELSE p

\* The phases of an iteration after the exit test, in their order; a phase
\* whose flag is not set is passed over.
Phases == <<"reconfigure", "restart", "reopen", "change_binary", "noaccept">>
PhaseFrom(k, fl) ==
    LET set == {n \in k..5 : Phases[n] \in fl}
    IN  IF set = {} THEN "top" ELSE Phases[CHOOSE n \in set : \A m \in set : n <= m]

\* sigsuspend() returns after the handlers of all pending signals have run.
Suspend ==
    /\ pc = "suspend"
    /\ pending # {}
    /\ pending' = {}
    /\ slot' = IF "CHLD" \in pending THEN [s \in Slots |-> Waited(slot[s])] ELSE slot
    /\ LET fl == flags \cup UNION {Flagged(sig) : sig \in pending}
       IN  IF "reap" \in fl
           THEN /\ flags' = fl \ {"reap"}
                /\ pc' = "reap"
                /\ i' = 0
                /\ live' = FALSE
           ELSE /\ flags' = fl
                /\ pc' = "check"
                /\ UNCHANGED <<i, live>>
    /\ UNCHANGED <<last, delay, sigio, noaccepting, newBinary, gen, armed, mode, ret, count>>

-----------------------------------------------------------------------------
\* ngx_reap_children(), one slot at a time
ReapNext == pc = "reap" /\ i < last /\ i' = i + 1
ReapRest == UNCHANGED <<pending, delay, sigio, gen, armed, pc, mode, ret>>

\* Wrong on purpose: a process that is leaving no longer counts as live.
ReapRunning_NotTheLeaving ==
    /\ ReapNext
    /\ ~slot[i].exited
    /\ live' = (live \/ (slot[i].st # "none" /\ ~slot[i].exiting /\ ~slot[i].detached))
    /\ ReapRest
    /\ UNCHANGED <<slot, last, flags, noaccepting, newBinary, count>>

\* Wrong on purpose: a free slot counts as live.
ReapRunning_FreeIsLive ==
    /\ ReapNext
    /\ ~slot[i].exited
    /\ live' = (live \/ slot[i].exiting \/ ~slot[i].detached)
    /\ ReapRest
    /\ UNCHANGED <<slot, last, flags, noaccepting, newBinary, count>>

ReapRunning ==
    /\ ReapNext
    /\ ~slot[i].exited
    /\ live' = (live \/ (slot[i].st # "none" /\ (slot[i].exiting \/ ~slot[i].detached)))
    /\ ReapRest
    /\ UNCHANGED <<slot, last, flags, noaccepting, newBinary, count>>

\* Wrong on purpose: a process that was told to leave is respawned.
MayRespawn_Exiting(p) == p.respawn /\ ~Stopping

\* Wrong on purpose: processes are respawned during a shutdown.
MayRespawn_WhileStopping(p) == p.respawn /\ ~p.exiting

MayRespawn(p) == p.respawn /\ ~p.exiting /\ ~Stopping

ReapRespawn ==
    /\ ReapNext
    /\ slot[i].exited
    /\ MayRespawn(slot[i])
    /\ \/ /\ slot' = [slot EXCEPT ![i].st = "run", ![i].exited = FALSE, ![i].gen = gen]
          /\ live' = TRUE
          /\ UNCHANGED count
       \/ /\ count.fails < MaxSpawnFails
          /\ Count("fails")
          /\ UNCHANGED <<slot, live>>
    /\ ReapRest
    /\ UNCHANGED <<last, flags, noaccepting, newBinary>>

ReapFree ==
    /\ ReapNext
    /\ slot[i].exited
    /\ ~MayRespawn(slot[i])
    /\ IF slot[i].detached /\ newBinary = "running"
       THEN /\ newBinary' = "none"
            /\ flags' = IF noaccepting THEN flags \cup {"restart"} ELSE flags
            /\ noaccepting' = FALSE
       ELSE UNCHANGED <<newBinary, flags, noaccepting>>
    /\ slot' = [slot EXCEPT ![i] = Free]
    /\ last' = IF i = last - 1 THEN last - 1 ELSE last
    /\ ReapRest
    /\ UNCHANGED <<live, count>>

ReapDone ==
    /\ pc = "reap"
    /\ i >= last
    /\ pc' = "check"
    /\ UNCHANGED <<slot, last, flags, pending, local, armed, loop, count>>

-----------------------------------------------------------------------------
\* if (!live && (ngx_terminate || ngx_quit)) ngx_master_process_exit(cycle);
Exit ==
    /\ pc = "check"
    /\ ~live /\ Stopping
    /\ pc' = "exited"
    /\ UNCHANGED <<slot, last, flags, pending, local, armed, loop, count>>

Terminate ==
    /\ pc = "check"
    /\ live
    /\ "terminate" \in flags
    /\ delay' = IF delay = 0 THEN 50 ELSE delay
    /\ \/ /\ sigio > 0
          /\ sigio' = sigio - 1
          /\ UNCHANGED <<slot, pending, flags>>
       \/ /\ sigio = 0
          /\ sigio' = Workers + 2
          /\ LET signo == IF delay' > 1000 THEN "KILL" ELSE "TERM"
             IN  /\ SignalWorkers(signo)
                 /\ flags' = flags \cup ReapGone(signo)
    /\ pc' = "top"
    /\ UNCHANGED <<last, live, noaccepting, newBinary, gen, armed, loop, count>>

Quit ==
    /\ pc = "check"
    /\ live
    /\ "quit" \in flags /\ "terminate" \notin flags
    /\ SignalWorkers("QUIT")
    /\ flags' = flags \cup ReapGone("QUIT")
    /\ pc' = "top"
    /\ UNCHANGED <<last, local, armed, loop, count>>

Carry ==
    /\ pc = "check"
    /\ ~Stopping
    /\ pc' = PhaseFrom(1, flags)
    /\ UNCHANGED <<slot, last, flags, pending, local, armed, loop, count>>

\* With a new binary, or after a failed attempt to start one, the workers are
\* started again and nothing else happens.
ReconfigureNewBinary ==
    /\ pc = "reconfigure"
    /\ newBinary # "none"
    /\ flags' = flags \ {"reconfigure"}
    /\ noaccepting' = FALSE
    /\ Start("boot", "top")
    /\ UNCHANGED <<slot, last, pending, live, delay, sigio, newBinary, gen, armed, count>>

\* ngx_init_cycle() rejects the new configuration.
ReconfigureRejected ==
    /\ pc = "reconfigure"
    /\ newBinary = "none"
    /\ flags' = flags \ {"reconfigure"}
    /\ pc' = "top"
    /\ UNCHANGED <<slot, last, pending, local, armed, loop, count>>

Reconfigure ==
    /\ pc = "reconfigure"
    /\ newBinary = "none"
    /\ flags' = flags \ {"reconfigure"}
    /\ gen' = gen + 1
    /\ Start("reload", "reloaded")
    /\ UNCHANGED <<slot, last, pending, live, delay, sigio, noaccepting, newBinary, armed,
                   count>>

\* The new processes have been started: the others are told to leave.
Reloaded ==
    /\ pc = "reloaded"
    /\ live' = TRUE
    /\ SignalWorkers("QUIT")
    /\ flags' = flags \cup ReapGone("QUIT")
    /\ pc' = PhaseFrom(2, flags)
    /\ UNCHANGED <<last, delay, sigio, noaccepting, newBinary, gen, armed, loop, count>>

Restart ==
    /\ pc = "restart"
    /\ flags' = flags \ {"restart"}
    /\ live' = TRUE
    /\ Start("boot", PhaseFrom(3, flags))
    /\ UNCHANGED <<slot, last, pending, delay, sigio, noaccepting, newBinary, gen, armed,
                   count>>

Reopen ==
    /\ pc = "reopen"
    /\ SignalWorkers("USR1")
    /\ flags' = (flags \ {"reopen"}) \cup ReapGone("USR1")
    /\ pc' = PhaseFrom(4, flags)
    /\ UNCHANGED <<last, local, armed, loop, count>>

\* ngx_exec_new_binary()
ChangeBinary ==
    /\ pc = "change_binary"
    /\ flags' = flags \ {"change_binary"}
    /\ \/ /\ SpawnSlot < MaxSlots
          /\ SpawnAt(SpawnSlot, FALSE, FALSE, TRUE)
          /\ newBinary' = "running"
          /\ UNCHANGED count
       \/ /\ SpawnFails
          /\ newBinary' = "failed"
    /\ pc' = PhaseFrom(5, flags)
    /\ UNCHANGED <<pending, live, delay, sigio, noaccepting, gen, armed, loop>>

NoAccept ==
    /\ pc = "noaccept"
    /\ noaccepting' = TRUE
    /\ SignalWorkers("QUIT")
    /\ flags' = (flags \ {"noaccept"}) \cup ReapGone("QUIT")
    /\ pc' = "top"
    /\ UNCHANGED <<last, live, delay, sigio, newBinary, gen, armed, loop, count>>

-----------------------------------------------------------------------------
\* What happens around the master.

\* The administrator sends a signal.
Send(sig) ==
    /\ pc # "exited"
    /\ count.signals < MaxSignals
    /\ Count("signals")
    /\ pending' = pending \cup {sig}
    /\ UNCHANGED <<slot, last, flags, local, armed, pc, loop>>

\* The interval timer runs out.
Alarm ==
    /\ pc # "exited"
    /\ armed
    /\ armed' = FALSE
    /\ pending' = pending \cup {"ALRM"}
    /\ UNCHANGED <<slot, last, flags, local, pc, loop, count>>

ChildBecomes(s, st) ==
    /\ slot' = [slot EXCEPT ![s].st = st]
    /\ pending' = pending \cup {"CHLD"}
    /\ UNCHANGED <<last, flags, local, armed, pc, loop>>

\* A child that has been told to leave leaves; so does a loader that is done.
ChildLeaves(s) ==
    /\ \/ slot[s].st \in {"quitting", "terminating"}
       \/ slot[s].st = "run" /\ ~slot[s].respawn /\ ~slot[s].detached
    /\ ChildBecomes(s, "zombie")
    /\ UNCHANGED count

\* A child, or the new binary, dies on its own.
ChildDies(s) ==
    /\ slot[s].st \in Running
    /\ count.deaths < MaxDeaths
    /\ Count("deaths")
    /\ ChildBecomes(s, "zombie")

\* A worker cannot start: ngx_worker_process_init() calls exit(2).
ChildFatal(s) ==
    /\ slot[s].st = "run" /\ ~slot[s].detached
    /\ count.fatal < MaxFatal
    /\ Count("fatal")
    /\ ChildBecomes(s, "fatal")

-----------------------------------------------------------------------------
Master ==
    \/ StartProcess \/ StartDone \/ Top \/ Suspend
    \/ ReapRunning \/ ReapRespawn \/ ReapFree \/ ReapDone
    \/ Exit \/ Terminate \/ Quit \/ Carry
    \/ ReconfigureNewBinary \/ ReconfigureRejected \/ Reconfigure \/ Reloaded
    \/ Restart \/ Reopen \/ ChangeBinary \/ NoAccept

Next ==
    \/ Master \/ Alarm
    \/ \E sig \in Admin : Send(sig)
    \/ \E s \in Slots : ChildLeaves(s) \/ ChildDies(s) \/ ChildFatal(s)

Spec == Init /\ [][Next]_vars

(***************************************************************************)
(* The master is a runnable process and its timer runs out.  A worker that *)
(* is told to leave need not do so: nothing is assumed of the children.    *)
(***************************************************************************)
FairSpec == Spec /\ WF_vars(Master) /\ WF_vars(Alarm)

\* A worker that is shutting down gracefully finishes its connections, which
\* all have timeouts, and a loader finishes its work.  One that has been told to
\* terminate may still ignore it.
PoliteSpec ==
    FairSpec /\ \A s \in Slots : WF_vars(slot[s].st # "terminating" /\ ChildLeaves(s))

-----------------------------------------------------------------------------
\* Properties

Places == {"start", "top", "suspend", "reap", "check", "reloaded", "exited"} \cup
          {Phases[k] : k \in 1..5}

\* The variables hold what they are declared to hold; the table of processes
\* has no entry behind ngx_last_process.
TypeOK ==
    /\ slot \in [Slots -> Slot]
    /\ last \in 0..MaxSlots
    /\ \A s \in Slots : s >= last => slot[s] = Free
    /\ flags \subseteq Flags
    /\ pending \subseteq Signals
    /\ live \in BOOLEAN /\ armed \in BOOLEAN /\ noaccepting \in BOOLEAN
    /\ delay \in Nat
    /\ sigio \in 0..Workers + 2
    /\ newBinary \in {"none", "running", "failed"}
    /\ gen \in Nat
    /\ pc \in Places
    /\ i \in Nat
    /\ mode \in {"boot", "reload"}
    /\ ret \in Places
    /\ count \in [{"signals", "deaths", "fatal", "fails"} -> Nat]

\* The workers and the cache manager that have not been told to leave
Serving == {s \in Slots : slot[s].st = "run" /\ slot[s].respawn}
Standing == Workers + (IF Cache THEN 1 ELSE 0)

\* The master leaves only after its last child has left: "live", which
\* ngx_reap_children() computed some time ago, is not out of date when
\* ngx_master_process_cycle() decides to exit on it.
NoOrphans ==
    pc = "exited" => \A s \in Slots : slot[s].st \in Running => slot[s].detached

\* When the master has dealt with its signals and sleeps again, every worker
\* of an older cycle has been told to leave, whatever has failed meanwhile.
OldWorkersRetire ==
    pc = "suspend" => \A s \in Slots :
        slot[s].st = "run" /\ ~slot[s].detached => slot[s].gen = gen

\* A sleeping master has no more workers serving than are configured, unless
\* a new binary runs beside it: none is started twice, by a respawn and by a
\* reload.
NoSurplusWorkers ==
    pc = "suspend" /\ newBinary # "running" => Cardinality(Serving) <= Standing

\* Once it is told to stop, the master starts nothing: neither a respawn nor
\* a reload or a change of the binary that was asked for at the same time.
NoSpawnWhileStopping ==
    [][Stopping => \A s \in Slots : slot'[s].st = "run" => slot[s].st = "run"]_vars

\* SIGTERM ends the master, even if its children ignore it: they are killed
\* when the delay has grown over a second.
TermEndsMaster == "TERM" \in pending ~> pc = "exited"

\* SIGQUIT ends the master when its children finish, also when a reload, a
\* death or another signal comes in between.
QuitEndsMaster == "QUIT" \in pending ~> pc = "exited"

\* When the disturbances end the system settles: the master has exited, or
\* exactly the configured workers serve, all of them of the current cycle,
\* and nobody else is left.
Settles ==
    <>[](\/ pc = "exited"
         \/ /\ \A s \in Slots : slot[s].st \in Running => s \in Serving
            /\ Cardinality(Serving) = Standing
            /\ \A s \in Serving : slot[s].gen = gen)
=============================================================================
