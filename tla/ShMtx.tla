------------------------------- MODULE ShMtx -------------------------------
(***************************************************************************)
(* The mutex in shared memory of core/ngx_shmtx.c, built with atomic       *)
(* operations and POSIX semaphores, as the worker processes and the master *)
(* use it: the workers take and release it, they may die at any            *)
(* instruction, and the master, which has caught the death with waitpid(), *)
(* frees the mutex of a dead worker (ngx_unlock_mutexes of                 *)
(* os/unix/ngx_process.c) before another process takes its place.          *)
(*                                                                         *)
(* One step is one access to shared memory or one semaphore call.  The     *)
(* test "*mtx->lock == 0 &&" in front of a compare-and-set only saves the  *)
(* bus from a locked instruction: test and compare-and-set are one step.   *)
(* The rounds of the spinning loop that fail are stuttering steps.         *)
(***************************************************************************)
EXTENDS Integers, FiniteSets

CONSTANTS
    Proc,        \* the processes that lock and unlock
    Master,      \* the process that unlocks by force
    NoProc,      \* the value 0 of the lock word
    Semaphore,   \* mtx->semaphore: sem_init() succeeded
    MaxCrashes   \* bound: how many deaths a behaviour may contain

ASSUME ProcAssumption == IsFiniteSet(Proc) /\ Master \notin Proc /\ NoProc \notin Proc
ASSUME SemaphoreAssumption == Semaphore \in BOOLEAN
ASSUME MaxCrashesAssumption == MaxCrashes \in Nat

VARIABLES
    lock,        \* *mtx->lock: the pid of the owner, or NoProc
    wait,        \* *mtx->wait, as the signed number ngx_shmtx_wakeup() reads
    sem,         \* the value of mtx->sem
    pc,          \* where each process stands
    seen,        \* the local variable "wait" of ngx_shmtx_wakeup(), 0 when
                 \* it is not in use
    crashes      \* how many processes have died so far

vars == <<lock, wait, sem, pc, seen, crashes>>

Actor == Proc \cup {Master}

(***************************************************************************)
(* idle      outside the functions of ngx_shmtx.c, without the mutex       *)
(* lock      before a compare-and-set at the top of ngx_shmtx_lock(), the  *)
(*           spinning rounds included                                      *)
(* incr      before fetch_add(wait, 1)                                     *)
(* recheck   before the compare-and-set that follows it                    *)
(* decr      owns the mutex, before fetch_add(wait, -1)                    *)
(* semwait   in sem_wait()                                                 *)
(* held      owns the mutex                                                *)
(* wread     in ngx_shmtx_wakeup(), before "wait = *mtx->wait"             *)
(* wcas      before its compare-and-set                                    *)
(* post      before sem_post()                                             *)
(* dead      died, not reaped                                              *)
(* reaped    reaped by the master; a new process may take the place        *)
(***************************************************************************)
WorkerPc == {"idle", "lock", "incr", "recheck", "decr", "semwait", "held",
             "wread", "wcas", "post", "dead", "reaped"}
MasterPc == {"idle", "wread", "wcas", "post"}

Alive(p) == pc[p] \notin {"dead", "reaped"}

Goto(p, l) == pc' = [pc EXCEPT ![p] = l]

-----------------------------------------------------------------------------
\* ngx_shmtx_create(): the word and the counter of a zeroed segment.
Init ==
    /\ lock = NoProc
    /\ wait = 0
    /\ sem = 0
    /\ pc = [a \in Actor |-> "idle"]
    /\ seen = [a \in Actor |-> 0]
    /\ crashes = 0

\* ngx_shmtx_trylock().  A failed attempt changes nothing.
TryLock(p) ==
    /\ pc[p] = "idle"
    /\ lock = NoProc
    /\ lock' = p
    /\ Goto(p, "held")
    /\ UNCHANGED <<wait, sem, seen, crashes>>

\* A process calls ngx_shmtx_lock().
LockCall(p) ==
    /\ pc[p] = "idle"
    /\ Goto(p, "lock")
    /\ UNCHANGED <<lock, wait, sem, seen, crashes>>

\* The first compare-and-set, or one of the spinning rounds, succeeds.
LockCas(p) ==
    /\ pc[p] = "lock"
    /\ lock = NoProc
    /\ lock' = p
    /\ Goto(p, "held")
    /\ UNCHANGED <<wait, sem, seen, crashes>>

\* The last round failed.  Without a semaphore the process yields and starts
\* over, which changes nothing.
LockFail(p) ==
    /\ pc[p] = "lock"
    /\ lock # NoProc
    /\ Semaphore
    /\ Goto(p, "incr")
    /\ UNCHANGED <<lock, wait, sem, seen, crashes>>

\* Wrong on purpose: the process sleeps without looking at the lock again.
LockIncr_NoRecheck(p) ==
    /\ pc[p] = "incr"
    /\ wait' = wait + 1
    /\ Goto(p, "semwait")
    /\ UNCHANGED <<lock, sem, seen, crashes>>

\* (void) ngx_atomic_fetch_add(mtx->wait, 1)
LockIncr(p) ==
    /\ pc[p] = "incr"
    /\ wait' = wait + 1
    /\ Goto(p, "recheck")
    /\ UNCHANGED <<lock, sem, seen, crashes>>

\* Once it is counted as a waiter the process looks at the lock again.
LockRecheck(p) ==
    /\ pc[p] = "recheck"
    /\ \/ /\ lock = NoProc
          /\ lock' = p
          /\ Goto(p, "decr")
       \/ /\ lock # NoProc
          /\ Goto(p, "semwait")
          /\ UNCHANGED lock
    /\ UNCHANGED <<wait, sem, seen, crashes>>

\* Wrong on purpose: the waiter that got the lock stays counted.
LockDecr_Forgotten(p) ==
    /\ pc[p] = "decr"
    /\ Goto(p, "held")
    /\ UNCHANGED <<lock, wait, sem, seen, crashes>>

\* (void) ngx_atomic_fetch_add(mtx->wait, -1)
LockDecr(p) ==
    /\ pc[p] = "decr"
    /\ wait' = wait - 1
    /\ Goto(p, "held")
    /\ UNCHANGED <<lock, sem, seen, crashes>>

\* sem_wait() returns and the loop starts over; EINTR only repeats the call.
LockSemWait(p) ==
    /\ pc[p] = "semwait"
    /\ sem > 0
    /\ sem' = sem - 1
    /\ Goto(p, "lock")
    /\ UNCHANGED <<lock, wait, seen, crashes>>

\* ngx_shmtx_unlock() by the owner.
Unlock(p) ==
    /\ pc[p] = "held"
    /\ lock = p
    /\ lock' = NoProc
    /\ Goto(p, IF Semaphore THEN "wread" ELSE "idle")
    /\ UNCHANGED <<wait, sem, seen, crashes>>

\* Wrong on purpose: the last waiter is taken for none.
WakeupRead_OffByOne(a) ==
    /\ pc[a] = "wread"
    /\ \/ /\ wait <= 1
          /\ Goto(a, "idle")
          /\ UNCHANGED seen
       \/ /\ wait > 1
          /\ seen' = [seen EXCEPT ![a] = wait]
          /\ Goto(a, "wcas")
    /\ UNCHANGED <<lock, wait, sem, crashes>>

\* wait = *mtx->wait; if ((ngx_atomic_int_t) wait <= 0) return;
WakeupRead(a) ==
    /\ pc[a] = "wread"
    /\ \/ /\ wait <= 0
          /\ Goto(a, "idle")
          /\ UNCHANGED seen
       \/ /\ wait > 0
          /\ seen' = [seen EXCEPT ![a] = wait]
          /\ Goto(a, "wcas")
    /\ UNCHANGED <<lock, wait, sem, crashes>>

\* ngx_atomic_cmp_set(mtx->wait, wait, wait - 1); on failure it reads again.
WakeupCas(a) ==
    /\ pc[a] = "wcas"
    /\ \/ /\ wait = seen[a]
          /\ wait' = wait - 1
          /\ Goto(a, "post")
       \/ /\ wait # seen[a]
          /\ Goto(a, "wread")
          /\ UNCHANGED wait
    /\ seen' = [seen EXCEPT ![a] = 0]
    /\ UNCHANGED <<lock, sem, crashes>>

\* sem_post(&mtx->sem)
WakeupPost(a) ==
    /\ pc[a] = "post"
    /\ sem' = sem + 1
    /\ Goto(a, "idle")
    /\ UNCHANGED <<lock, wait, seen, crashes>>

-----------------------------------------------------------------------------
\* A process dies: the kernel takes back nothing of the shared memory.
Crash(p) ==
    /\ Alive(p)
    /\ crashes < MaxCrashes
    /\ crashes' = crashes + 1
    /\ Goto(p, "dead")
    /\ seen' = [seen EXCEPT ![p] = 0]
    /\ UNCHANGED <<lock, wait, sem>>

\* Wrong on purpose: the lock word is cleared without comparing the pid.
ForceUnlock_AnyOwner(p) ==
    /\ pc[p] = "dead"
    /\ pc[Master] = "idle"
    /\ lock' = NoProc
    /\ pc' = [pc EXCEPT ![p] = "reaped"]
    /\ UNCHANGED <<wait, sem, seen, crashes>>

\* Wrong on purpose: the waiters are woken but the lock word keeps the pid, and
\* the death is looked at over and over.
ForceUnlock_NotFreed(p) ==
    /\ pc[p] = "dead"
    /\ pc[Master] = "idle"
    /\ pc' = IF lock = p THEN [pc EXCEPT ![Master] = "wread"]
                         ELSE [pc EXCEPT ![p] = "reaped"]
    /\ UNCHANGED <<lock, wait, sem, seen, crashes>>

\* In the SIGCHLD handler of the master waitpid() has returned p, and
\* ngx_unlock_mutexes(p) calls ngx_shmtx_force_unlock(mtx, p).
ForceUnlock(p) ==
    /\ pc[p] = "dead"
    /\ pc[Master] = "idle"
    /\ \/ /\ lock = p
          /\ lock' = NoProc
          /\ pc' = [pc EXCEPT ![p] = "reaped",
                              ![Master] = IF Semaphore THEN "wread" ELSE "idle"]
       \/ /\ lock # p
          /\ pc' = [pc EXCEPT ![p] = "reaped"]
          /\ UNCHANGED lock
    /\ UNCHANGED <<wait, sem, seen, crashes>>

\* The master leaves the handler and ngx_reap_children() respawns the worker.
Respawn(p) ==
    /\ pc[p] = "reaped"
    /\ pc[Master] = "idle"
    /\ Goto(p, "idle")
    /\ UNCHANGED <<lock, wait, sem, seen, crashes>>

-----------------------------------------------------------------------------
\* What p does on its own once it has entered ngx_shmtx_lock() or owns the
\* mutex: everything except the decisions to call and to die.
Step(p) ==
    \/ LockCas(p) \/ LockFail(p) \/ LockIncr(p) \/ LockRecheck(p)
    \/ LockDecr(p) \/ LockSemWait(p) \/ Unlock(p)

Wakeup(a) == WakeupRead(a) \/ WakeupCas(a) \/ WakeupPost(a)

Next ==
    \/ \E p \in Proc : \/ TryLock(p) \/ LockCall(p) \/ Step(p)
                       \/ Crash(p) \/ ForceUnlock(p) \/ Respawn(p)
    \/ \E a \in Actor : Wakeup(a)

Spec == Init /\ [][Next]_vars

(***************************************************************************)
(* The kernel runs every runnable process, critical sections are straight  *)
(* code that ends in an unlock, and a death is always reported by SIGCHLD. *)
(* No process is obliged to lock, and none is obliged to win a race.       *)
(***************************************************************************)
Fairness ==
    /\ \A p \in Proc : WF_vars(Step(p)) /\ WF_vars(ForceUnlock(p))
    /\ \A a \in Actor : WF_vars(Wakeup(a))

FairSpec == Spec /\ Fairness

-----------------------------------------------------------------------------
\* The variables hold what the C types and the protocol allow: the lock word a
\* pid or 0, a semaphore that never goes below zero.
TypeOK ==
    /\ lock \in Proc \cup {NoProc}
    /\ wait \in Int
    /\ sem \in Nat
    /\ pc \in [Actor -> WorkerPc]
    /\ pc[Master] \in MasterPc
    /\ seen \in [Actor -> Int]
    /\ crashes \in 0..MaxCrashes

InCriticalSection(p) == pc[p] \in {"decr", "held"}

\* ngx_shmtx_lock() returned to two live processes at once never happens,
\* whatever the master unlocks by force in the meantime.
MutualExclusion ==
    \A p, q \in Proc : InCriticalSection(p) /\ InCriticalSection(q) => p = q

Waiters == {p \in Proc : pc[p] \in {"recheck", "decr", "semwait"}}
Posting == {a \in Actor : pc[a] = "post"}

\* By how much the counter and the semaphore together differ from the number
\* of processes that have counted themselves as waiters.
Drift == wait + sem + Cardinality(Posting) - Cardinality(Waiters)

\* Every waiter that ngx_shmtx_lock() counted is matched by a unit of *wait, by
\* a unit of the semaphore or by a sem_post() that is under way, although the
\* counter may be negative for a while; each death upsets this by one at most.
Accounting == -crashes <= Drift /\ Drift <= crashes

\* While nobody has died, a process does not sleep in sem_wait() on a free
\* mutex unless a wakeup is pending or another process is about to try for
\* the mutex (and will wake the sleeper when it unlocks).
NoLostWakeup ==
    crashes = 0 /\ lock = NoProc /\ (\E p \in Proc : pc[p] = "semwait") =>
        \/ sem > 0
        \/ \E a \in Actor : pc[a] \in {"wread", "wcas", "post"}
        \/ \E p \in Proc : pc[p] \in {"lock", "recheck"}

\* The mutex implements the abstract one: ngx_shmtx_force_unlock() takes it
\* from nobody but the process whose death is being handled.
Abstract == INSTANCE CrashMutex WITH
    owner <- lock, dead <- {p \in Proc : pc[p] = "dead"}
ImplementsCrashMutex == Abstract!Spec

\* Without deaths a free mutex on which a process sleeps does not stay free:
\* ngx_shmtx_wakeup() gets somebody to take it.
SleepersAreServed ==
    (lock = NoProc /\ \E p \in Proc : pc[p] = "semwait")
        ~> (lock # NoProc \/ crashes > 0)

\* A mutex whose owner died is freed by ngx_unlock_mutexes().
DeadOwnerIsRecovered ==
    \A p \in Proc : (lock = p /\ pc[p] = "dead") ~> (lock # p)
=============================================================================
