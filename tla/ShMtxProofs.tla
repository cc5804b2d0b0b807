---------------------------- MODULE ShMtxProofs ----------------------------
(***************************************************************************)
(* Proofs about ShMtx for every finite set of processes, with and without  *)
(* a semaphore, and for every number of deaths.                            *)
(***************************************************************************)
EXTENDS ShMtx, FiniteSetTheorems, TLAPS

(***************************************************************************)
(* What makes mutual exclusion inductive: a live process is inside the     *)
(* critical section exactly when the lock word holds its pid, and the pid  *)
(* of a process that has been reaped is no longer in the lock word, so the *)
(* process that takes its place does not find itself the owner.            *)
(***************************************************************************)
Ownership ==
    \A p \in Proc :
        /\ Alive(p) => (lock = p <=> InCriticalSection(p))
        /\ pc[p] = "reaped" => lock # p

OwnershipInv == TypeOK /\ Ownership

LEMMA OwnershipInit == Init => OwnershipInv
<1> SUFFICES ASSUME Init PROVE OwnershipInv
  OBVIOUS
<1>1. TypeOK
  BY ProcAssumption, MaxCrashesAssumption DEF Init, TypeOK, Actor, WorkerPc, MasterPc
<1>2. Ownership
  BY ProcAssumption DEF Init, Ownership, Actor, Alive, InCriticalSection
<1> QED
  BY <1>1, <1>2 DEF OwnershipInv

LEMMA OwnershipStep == OwnershipInv /\ [Next]_vars => OwnershipInv'
<1> SUFFICES ASSUME OwnershipInv, [Next]_vars PROVE OwnershipInv'
  OBVIOUS
<1> USE ProcAssumption, SemaphoreAssumption, MaxCrashesAssumption
    DEF OwnershipInv, TypeOK, Ownership, Actor, WorkerPc, MasterPc, Alive,
        InCriticalSection, Goto
<1>1. ASSUME NEW p \in Proc, TryLock(p) PROVE OwnershipInv'
  BY <1>1 DEF TryLock
<1>2. ASSUME NEW p \in Proc, LockCall(p) PROVE OwnershipInv'
  BY <1>2 DEF LockCall
<1>3. ASSUME NEW p \in Proc, LockCas(p) PROVE OwnershipInv'
  BY <1>3 DEF LockCas
<1>4. ASSUME NEW p \in Proc, LockFail(p) PROVE OwnershipInv'
  BY <1>4 DEF LockFail
<1>5. ASSUME NEW p \in Proc, LockIncr(p) PROVE OwnershipInv'
  BY <1>5 DEF LockIncr
<1>6. ASSUME NEW p \in Proc, LockRecheck(p) PROVE OwnershipInv'
  BY <1>6 DEF LockRecheck
<1>7. ASSUME NEW p \in Proc, LockDecr(p) PROVE OwnershipInv'
  BY <1>7 DEF LockDecr
<1>8. ASSUME NEW p \in Proc, LockSemWait(p) PROVE OwnershipInv'
  BY <1>8 DEF LockSemWait
<1>9. ASSUME NEW p \in Proc, Unlock(p) PROVE OwnershipInv'
  BY <1>9 DEF Unlock
<1>10. ASSUME NEW p \in Proc, Crash(p) PROVE OwnershipInv'
  BY <1>10 DEF Crash
<1>11. ASSUME NEW p \in Proc, ForceUnlock(p) PROVE OwnershipInv'
  BY <1>11 DEF ForceUnlock
<1>12. ASSUME NEW p \in Proc, Respawn(p) PROVE OwnershipInv'
  BY <1>12 DEF Respawn
<1>13. ASSUME NEW a \in Actor, WakeupRead(a) PROVE OwnershipInv'
  BY <1>13 DEF WakeupRead
<1>14. ASSUME NEW a \in Actor, WakeupCas(a) PROVE OwnershipInv'
  BY <1>14 DEF WakeupCas
<1>15. ASSUME NEW a \in Actor, WakeupPost(a) PROVE OwnershipInv'
  BY <1>15 DEF WakeupPost
<1>16. CASE UNCHANGED vars
  BY <1>16 DEF vars
<1> QED
  BY <1>1, <1>2, <1>3, <1>4, <1>5, <1>6, <1>7, <1>8, <1>9, <1>10, <1>11,
     <1>12, <1>13, <1>14, <1>15, <1>16 DEF Next, Step, Wakeup

LEMMA OwnershipAlways == Spec => []OwnershipInv
  BY OwnershipInit, OwnershipStep, PTL DEF Spec

\* The type invariant of ngx_shmtx.c holds for any number of processes.
THEOREM TypeCorrect == Spec => []TypeOK
<1>1. OwnershipInv => TypeOK
  BY DEF OwnershipInv
<1> QED
  BY <1>1, OwnershipAlways, PTL

\* Any number of processes, any number of deaths, any interleaving with the
\* forced unlocks of the master: ngx_shmtx_lock() and ngx_shmtx_trylock() never
\* leave two processes in the critical section.
THEOREM Mutex == Spec => []MutualExclusion
<1>1. OwnershipInv => MutualExclusion
  BY ProcAssumption DEF OwnershipInv, Ownership, MutualExclusion, Alive, InCriticalSection
<1> QED
  BY <1>1, OwnershipAlways, PTL

-----------------------------------------------------------------------------
(***************************************************************************)
(* The books of the semaphore.  An action moves at most one process into   *)
(* or out of the two sets that Drift counts; the lemmas below say by how   *)
(* much their cardinalities change.                                        *)
(***************************************************************************)
LEMMA CountedSetsFinite ==
    /\ IsFiniteSet(Waiters) /\ Cardinality(Waiters) \in Nat
    /\ IsFiniteSet(Posting) /\ Cardinality(Posting) \in Nat
<1>1. IsFiniteSet(Waiters)
  <2>1. Waiters \in SUBSET Proc
    BY DEF Waiters
  <2> QED
    BY <2>1, ProcAssumption, FS_Subset
<1>2. IsFiniteSet(Posting)
  <2>1. IsFiniteSet(Actor)
    BY ProcAssumption, FS_AddElement DEF Actor
  <2>2. Posting \in SUBSET Actor
    BY DEF Posting
  <2> QED
    BY <2>1, <2>2, FS_Subset
<1> QED
  BY <1>1, <1>2, FS_CardinalityType

LEMMA Joins ==
  ASSUME NEW S, NEW T, NEW x, IsFiniteSet(S), T = S \cup {x}, x \notin S
  PROVE  Cardinality(T) = Cardinality(S) + 1
  BY FS_AddElement

LEMMA Leaves ==
  ASSUME NEW S, NEW T, NEW x, IsFiniteSet(S), T = S \ {x}
  PROVE  Cardinality(T) = IF x \in S THEN Cardinality(S) - 1 ELSE Cardinality(S)
  BY FS_RemoveElement

LEMMA AccountingInit == Init => Accounting
<1> SUFFICES ASSUME Init PROVE Accounting
  OBVIOUS
<1>1. Waiters = {} /\ Posting = {}
  BY DEF Init, Waiters, Posting, Actor
<1>2. Cardinality(Waiters) = 0 /\ Cardinality(Posting) = 0
  BY <1>1, FS_EmptySet
<1> QED
  BY <1>2 DEF Init, Accounting, Drift

LEMMA AccountingStep == TypeOK /\ Accounting /\ [Next]_vars => Accounting'
<1> SUFFICES ASSUME TypeOK, Accounting, [Next]_vars PROVE Accounting'
  OBVIOUS
<1> DEFINE W == Cardinality(Waiters)
           P == Cardinality(Posting)
<1>0. /\ IsFiniteSet(Waiters) /\ W \in Nat
      /\ IsFiniteSet(Posting) /\ P \in Nat
  BY CountedSetsFinite
<1>a. wait \in Int /\ sem \in Int /\ crashes \in Int
  BY MaxCrashesAssumption DEF TypeOK
<1>b. -crashes <= wait + sem + P - W /\ wait + sem + P - W <= crashes
  BY DEF Accounting, Drift
<1>q. ASSUME Waiters' = Waiters, Posting' = Posting, UNCHANGED <<wait, sem, crashes>>
      PROVE  Accounting'
  BY <1>q DEF Accounting, Drift
<1>1. ASSUME NEW p \in Proc,
             TryLock(p) \/ LockCall(p) \/ LockCas(p) \/ LockFail(p)
               \/ LockRecheck(p) \/ Unlock(p) \/ ForceUnlock(p) \/ Respawn(p)
      PROVE  Accounting'
  <2>1. /\ \A q \in Proc : q \in Waiters' <=> q \in Waiters
        /\ \A a \in Actor : a \in Posting' <=> a \in Posting
        /\ UNCHANGED <<wait, sem, crashes>>
    BY <1>1, ProcAssumption, SemaphoreAssumption
       DEF TypeOK, Waiters, Posting, Actor, Goto, TryLock, LockCall, LockCas,
           LockFail, LockRecheck, Unlock, ForceUnlock, Respawn
  <2>2. Waiters' = Waiters /\ Posting' = Posting
    BY <2>1 DEF Waiters, Posting
  <2> QED
    BY <2>1, <2>2, <1>q
<1>2. ASSUME NEW a \in Actor, WakeupRead(a) PROVE Accounting'
  <2>1. /\ \A q \in Proc : q \in Waiters' <=> q \in Waiters
        /\ \A b \in Actor : b \in Posting' <=> b \in Posting
        /\ UNCHANGED <<wait, sem, crashes>>
    BY <1>2, ProcAssumption DEF TypeOK, Waiters, Posting, Actor, Goto, WakeupRead
  <2>2. Waiters' = Waiters /\ Posting' = Posting
    BY <2>1 DEF Waiters, Posting
  <2> QED
    BY <2>1, <2>2, <1>q
<1>3. ASSUME NEW p \in Proc, LockIncr(p) PROVE Accounting'
  <2>1. Waiters' = Waiters \cup {p} /\ p \notin Waiters /\ Posting' = Posting
    BY <1>3 DEF LockIncr, TypeOK, Waiters, Posting, Actor, Goto
  <2>2. W' = W + 1 /\ P' = P
    BY <2>1, <1>0, Joins
  <2> QED
    BY <1>3, <2>2, <1>0, <1>a, <1>b DEF LockIncr, Accounting, Drift
<1>4. ASSUME NEW p \in Proc, LockDecr(p) \/ LockSemWait(p) PROVE Accounting'
  <2>1. Waiters' = Waiters \ {p} /\ p \in Waiters /\ Posting' = Posting
    BY <1>4 DEF LockDecr, LockSemWait, TypeOK, Waiters, Posting, Actor, Goto
  <2>2. W' = W - 1 /\ P' = P
    BY <2>1, <1>0, Leaves
  <2> QED
    BY <1>4, <2>2, <1>0, <1>a, <1>b DEF LockDecr, LockSemWait, Accounting, Drift
<1>5. ASSUME NEW a \in Actor, WakeupCas(a) PROVE Accounting'
  <2>1. Waiters' = Waiters
    BY <1>5, ProcAssumption DEF WakeupCas, TypeOK, Waiters, Actor, Goto
  <2>2. CASE wait = seen[a]
    <3>1. Posting' = Posting \cup {a} /\ a \notin Posting
      BY <1>5, <2>2 DEF WakeupCas, TypeOK, Posting, Goto
    <3>2. P' = P + 1 /\ W' = W
      BY <2>1, <3>1, <1>0, Joins
    <3> QED
      BY <1>5, <2>2, <3>2, <1>0, <1>a, <1>b DEF WakeupCas, Accounting, Drift
  <2>3. CASE wait # seen[a]
    <3>1. Posting' = Posting /\ UNCHANGED <<wait, sem, crashes>>
      BY <1>5, <2>3 DEF WakeupCas, TypeOK, Posting, Goto
    <3> QED
      BY <2>1, <3>1, <1>q
  <2> QED
    BY <2>2, <2>3
<1>6. ASSUME NEW a \in Actor, WakeupPost(a) PROVE Accounting'
  <2>1. Waiters' = Waiters
    BY <1>6, ProcAssumption DEF WakeupPost, TypeOK, Waiters, Actor, Goto
  <2>2. Posting' = Posting \ {a} /\ a \in Posting
    BY <1>6 DEF WakeupPost, TypeOK, Posting, Goto
  <2>3. P' = P - 1 /\ W' = W
    BY <2>1, <2>2, <1>0, Leaves
  <2> QED
    BY <1>6, <2>3, <1>0, <1>a, <1>b DEF WakeupPost, Accounting, Drift
<1>7. ASSUME NEW p \in Proc, Crash(p) PROVE Accounting'
  <2>1. Waiters' = Waiters \ {p} /\ Posting' = Posting \ {p}
    BY <1>7, ProcAssumption DEF Crash, TypeOK, Waiters, Posting, Actor, Goto
  <2>2. ~(p \in Waiters /\ p \in Posting)
    BY DEF Waiters, Posting
  <2>3. /\ W' = IF p \in Waiters THEN W - 1 ELSE W
        /\ P' = IF p \in Posting THEN P - 1 ELSE P
    BY <2>1, <1>0, Leaves
  <2>4. wait' + sem' + P' - W' \in {wait + sem + P - W - 1, wait + sem + P - W,
                                    wait + sem + P - W + 1}
    BY <1>7, <2>2, <2>3, <1>0, <1>a DEF Crash
  <2> QED
    BY <1>7, <2>3, <2>4, <1>0, <1>a, <1>b DEF Crash, Accounting, Drift
<1>8. CASE UNCHANGED vars
  BY <1>8, <1>q DEF vars, Waiters, Posting
<1> QED
  BY <1>1, <1>2, <1>3, <1>4, <1>5, <1>6, <1>7, <1>8 DEF Next, Step, Wakeup

\* Any number of processes and deaths: the counter and the semaphore of
\* ngx_shmtx_lock() and ngx_shmtx_wakeup() differ from the number of waiters by
\* the number of deaths at most, so by nothing while nobody has died.
THEOREM BooksBalance == Spec => []Accounting
  BY AccountingInit, TypeCorrect, AccountingStep, PTL DEF Spec

-----------------------------------------------------------------------------
(***************************************************************************)
(* No lost wakeup.  The only step after which nobody might be left to wake *)
(* a sleeper is the return of ngx_shmtx_wakeup() on a counter that is not  *)
(* positive: by the books there is then a unit in the semaphore or another *)
(* process before its sem_post().                                          *)
(***************************************************************************)
LEMMA WakeupReturns ==
  ASSUME TypeOK, Accounting, crashes = 0, wait <= 0, Waiters # {}
  PROVE  sem > 0 \/ Posting # {}
<1>1. /\ IsFiniteSet(Waiters) /\ Cardinality(Waiters) \in Nat
      /\ IsFiniteSet(Posting) /\ Cardinality(Posting) \in Nat
  BY CountedSetsFinite
<1>2. Cardinality(Waiters) # 0
  BY <1>1, FS_EmptySet
<1>3. ASSUME Posting = {} PROVE Cardinality(Posting) = 0
  BY <1>3, FS_EmptySet
<1> DEFINE W == Cardinality(Waiters)
           P == Cardinality(Posting)
<1>4. /\ 0 <= wait + sem + P - W /\ wait + sem + P - W <= 0
      /\ wait \in Int /\ sem \in Nat /\ W \in Nat /\ P \in Nat
  BY <1>1 DEF TypeOK, Accounting, Drift
<1> HIDE DEF W, P
<1>5. W # 0 => sem > 0 \/ P # 0
  BY <1>4
<1> QED
  BY <1>2, <1>3, <1>5 DEF W, P

\* Without a semaphore nobody gets as far as the waiting part of the loop.
OnlySemaphoreSleeps ==
    Semaphore \/ \A p \in Proc : pc[p] \notin {"incr", "recheck", "decr", "semwait"}

LEMMA OnlySemaphoreSleepsStep ==
    TypeOK /\ OnlySemaphoreSleeps /\ [Next]_vars => OnlySemaphoreSleeps'
  BY ProcAssumption
  DEF TypeOK, OnlySemaphoreSleeps, Actor, Goto, vars, Next, Step, Wakeup, TryLock,
      LockCall, LockCas, LockFail, LockIncr, LockRecheck, LockDecr, LockSemWait,
      Unlock, Crash, ForceUnlock, Respawn, WakeupRead, WakeupCas, WakeupPost

LEMMA NoLostWakeupStep ==
    /\ OwnershipInv /\ Accounting /\ OnlySemaphoreSleeps /\ NoLostWakeup
    /\ [Next]_vars
    => NoLostWakeup'
<1> DEFINE Carried == \/ sem' > 0
                      \/ \E a \in Actor : pc'[a] \in {"wread", "wcas", "post"}
                      \/ \E p \in Proc : pc'[p] \in {"lock", "recheck"}
<1> SUFFICES ASSUME OwnershipInv, Accounting, OnlySemaphoreSleeps, NoLostWakeup,
                    [Next]_vars, crashes' = 0, lock' = NoProc,
                    NEW s \in Proc, pc'[s] = "semwait"
             PROVE  Carried
  BY DEF NoLostWakeup
<1> USE ProcAssumption, SemaphoreAssumption, MaxCrashesAssumption
    DEF OwnershipInv, TypeOK, Actor, Goto
<1>1. ASSUME NEW p \in Proc,
             TryLock(p) \/ LockCas(p) \/ LockFail(p) \/ LockRecheck(p) \/ LockDecr(p)
      PROVE  FALSE
  BY <1>1 DEF TryLock, LockCas, LockFail, LockRecheck, LockDecr, Ownership, Alive,
              InCriticalSection
<1>2. ASSUME NEW p \in Proc, LockCall(p) \/ LockSemWait(p) \/ LockIncr(p) PROVE Carried
  BY <1>2 DEF LockCall, LockSemWait, LockIncr
<1>3. ASSUME NEW p \in Proc, Unlock(p) PROVE Carried
  <2>1. Semaphore
    BY <1>3 DEF Unlock, OnlySemaphoreSleeps
  <2> QED
    BY <1>3, <2>1 DEF Unlock
<1>4. ASSUME NEW p \in Proc, Crash(p) PROVE FALSE
  BY <1>4 DEF Crash
<1>5. ASSUME NEW p \in Proc, ForceUnlock(p) PROVE Carried
  <2>1. Semaphore /\ pc[s] = "semwait"
    BY <1>5 DEF ForceUnlock, OnlySemaphoreSleeps
  <2> QED
    BY <1>5, <2>1 DEF ForceUnlock, NoLostWakeup
<1>6. ASSUME NEW p \in Proc, Respawn(p) PROVE Carried
  BY <1>6 DEF Respawn, NoLostWakeup
<1>7. ASSUME NEW a \in Actor, WakeupRead(a) PROVE Carried
  <2>1. CASE wait > 0
    BY <1>7, <2>1 DEF WakeupRead
  <2>2. CASE wait <= 0
    <3>1. s \in Waiters /\ crashes = 0
      BY <1>7, <2>2 DEF WakeupRead, Waiters
    <3>2. sem > 0 \/ Posting # {}
      BY <3>1, <2>2, WakeupReturns
    <3>3. sem' = sem /\ \A b \in Actor : pc[b] = "post" => pc'[b] = "post"
      BY <1>7, <2>2 DEF WakeupRead
    <3> QED
      BY <3>2, <3>3 DEF Posting
  <2> QED
    BY <2>1, <2>2
<1>8. ASSUME NEW a \in Actor, WakeupCas(a) \/ WakeupPost(a) PROVE Carried
  BY <1>8 DEF WakeupCas, WakeupPost
<1>9. CASE UNCHANGED vars
  BY <1>9 DEF vars, NoLostWakeup
<1> QED
  BY <1>1, <1>2, <1>3, <1>4, <1>5, <1>6, <1>7, <1>8, <1>9 DEF Next, Step, Wakeup

\* While no process has died, ngx_shmtx_unlock() never leaves a process asleep
\* on a free mutex with nobody on the way to wake it.
THEOREM WakeupsNotLost == Spec => []NoLostWakeup
<1>1. Init => NoLostWakeup /\ OnlySemaphoreSleeps
  BY DEF Init, NoLostWakeup, OnlySemaphoreSleeps, Actor
<1> QED
  BY <1>1, OwnershipAlways, TypeCorrect, BooksBalance, OnlySemaphoreSleepsStep,
     NoLostWakeupStep, PTL DEF Spec

-----------------------------------------------------------------------------
(***************************************************************************)
(* ShMtx implements CrashMutex: a step that changes neither the lock word  *)
(* nor the set of dead processes is a stuttering step of the abstraction.  *)
(***************************************************************************)
LEMMA RefinementStep ==
    OwnershipInv /\ [Next]_vars => [Abstract!Next]_(Abstract!vars)
<1> SUFFICES ASSUME OwnershipInv, [Next]_vars
             PROVE  [Abstract!Next]_(Abstract!vars)
  OBVIOUS
<1> DEFINE Dead == {p \in Proc : pc[p] = "dead"}
<1> USE ProcAssumption, SemaphoreAssumption, MaxCrashesAssumption
    DEF OwnershipInv, TypeOK, Actor, Goto
<1>s. ASSUME lock' = lock, Dead' = Dead PROVE UNCHANGED Abstract!vars
  BY <1>s DEF Abstract!vars
<1>1. ASSUME NEW p \in Proc, TryLock(p) \/ LockCas(p) PROVE Abstract!Acquire(p)
  <2>1. Dead' = Dead
    BY <1>1 DEF TryLock, LockCas
  <2> QED
    BY <1>1, <2>1 DEF TryLock, LockCas, Abstract!Acquire
<1>2. ASSUME NEW p \in Proc, LockRecheck(p)
      PROVE  Abstract!Acquire(p) \/ UNCHANGED Abstract!vars
  <2>1. Dead' = Dead
    BY <1>2 DEF LockRecheck
  <2> QED
    BY <1>2, <2>1, <1>s DEF LockRecheck, Abstract!Acquire
<1>3. ASSUME NEW p \in Proc, Unlock(p) PROVE Abstract!Release(p)
  <2>1. Dead' = Dead
    BY <1>3 DEF Unlock
  <2> QED
    BY <1>3, <2>1 DEF Unlock, Abstract!Release
<1>4. ASSUME NEW p \in Proc, Crash(p) PROVE Abstract!Die(p)
  <2>1. Dead' = Dead \cup {p} /\ p \notin Dead
    BY <1>4 DEF Crash, Alive
  <2> QED
    BY <1>4, <2>1 DEF Crash, Abstract!Die
<1>5. ASSUME NEW p \in Proc, ForceUnlock(p) PROVE Abstract!Recover(p)
  <2>1. Dead' = Dead \ {p} /\ p \in Dead
    BY <1>5 DEF ForceUnlock
  <2> QED
    BY <1>5, <2>1 DEF ForceUnlock, Abstract!Recover
<1>6. ASSUME NEW p \in Proc,
             LockCall(p) \/ LockFail(p) \/ LockIncr(p) \/ LockDecr(p)
               \/ LockSemWait(p) \/ Respawn(p)
      PROVE  UNCHANGED Abstract!vars
  <2>1. Dead' = Dead /\ lock' = lock
    BY <1>6 DEF LockCall, LockFail, LockIncr, LockDecr, LockSemWait, Respawn
  <2> QED
    BY <2>1, <1>s
<1>7. ASSUME NEW a \in Actor, Wakeup(a) PROVE UNCHANGED Abstract!vars
  <2>1. Dead' = Dead /\ lock' = lock
    BY <1>7 DEF Wakeup, WakeupRead, WakeupCas, WakeupPost
  <2> QED
    BY <2>1, <1>s
<1>8. CASE UNCHANGED vars
  BY <1>8, <1>s DEF vars
<1> QED
  BY <1>1, <1>2, <1>3, <1>4, <1>5, <1>6, <1>7, <1>8 DEF Next, Step, Abstract!Next

\* The code of ngx_shmtx.c, with the recovery of ngx_unlock_mutexes(), is a
\* correct implementation of the crash-tolerant mutex.
THEOREM Refinement == Spec => ImplementsCrashMutex
<1>1. Init => Abstract!Init
  BY DEF Init, Abstract!Init, Actor
<1> QED
  BY <1>1, RefinementStep, OwnershipAlways, PTL DEF Spec, ImplementsCrashMutex, Abstract!Spec
=============================================================================
