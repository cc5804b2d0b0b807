------------------------- MODULE AcceptMutexProofs -------------------------
(***************************************************************************)
(* Proofs about AcceptMutex for any number of workers and sockets and any  *)
(* number of connections, deaths and failing system calls.                 *)
(***************************************************************************)
EXTENDS AcceptMutex, FiniteSetTheorems, TLAPS

LEMMA SlotsType == \A w \in Worker : Slots(w) \in 0..ConnectionN
<1> SUFFICES ASSUME NEW w \in Worker PROVE Slots(w) \in 0..ConnectionN
  OBVIOUS
<1>0. IsFiniteSet(Shared) /\ w \notin Shared
  BY WorkerAssumption
<1>1. /\ Cardinality(Shared) \in Nat
      /\ Cardinality(Shared \cup {w}) = Cardinality(Shared) + 1
  BY <1>0, FS_CardinalityType, FS_AddElement
<1>2. Cardinality(Sockets(w)) \in Nat /\ Cardinality(Sockets(w)) <= Cardinality(Shared) + 1
  <2>1. CASE ReusePort
    BY <1>1, <2>1 DEF Sockets
  <2>2. CASE ~ReusePort
    <3>1. Sockets(w) = Shared
      BY <2>2 DEF Sockets
    <3> QED
      BY <1>1, <3>1
  <2> QED
    BY <2>1, <2>2
<1> QED
  BY <1>1, <1>2, SlotsAssumption, BoundAssumption DEF Slots

LEMMA SocketsType == \A w \in Worker : Sockets(w) \subseteq AllSockets
  BY DEF Sockets, AllSockets

LEMMA TypeInit == Init => TypeOK
<1> SUFFICES ASSUME Init PROVE TypeOK
  OBVIOUS
<1>1. \A w \in Worker : InitialActive(w) \in SUBSET AllSockets
  BY SocketsType DEF InitialActive
<1> QED
  BY <1>1, SlotsType, BoundAssumption DEF Init, TypeOK, Pcs

LEMMA TypeStep == TypeOK /\ [Next]_vars => TypeOK'
<1> SUFFICES ASSUME TypeOK, [Next]_vars PROVE TypeOK'
  OBVIOUS
<1> USE BoundAssumption DEF TypeOK, Pcs, Goto, local, counts
<1>1. ASSUME NEW s \in AllSockets, Connect(s) PROVE TypeOK'
  BY <1>1 DEF Connect
<1>2. ASSUME NEW w \in Worker, SkipMutex(w) PROVE TypeOK'
  <2>1. CASE UseMutex
    <3>1. disabled[w] - 1 \in 0..ConnectionN
      BY <1>2, <2>1 DEF SkipMutex
    <3> QED
      BY <1>2, <2>1, <3>1 DEF SkipMutex, EnterPoll
  <2>2. CASE ~UseMutex
    BY <1>2, <2>2 DEF SkipMutex, EnterPoll
  <2> QED
    BY <2>1, <2>2
<1>3. ASSUME NEW w \in Worker, TrylockWon(w) \/ TrylockLost(w) PROVE TypeOK'
  <2>1. PICK S \in SUBSET AllSockets : active' = [active EXCEPT ![w] = S]
    <3>1. active[w] \in SUBSET AllSockets /\ Sockets(w) \in SUBSET AllSockets
      BY SocketsType
    <3>2. CASE TrylockWon(w)
      BY <3>1, <3>2 DEF TrylockWon
    <3>3. CASE TrylockLost(w)
      <4>1. active[w] \ Shared \in SUBSET AllSockets
        BY <3>1
      <4> QED
        BY <3>1, <3>3, <4>1 DEF TrylockLost
    <3> QED
      BY <1>3, <3>2, <3>3
  <2> QED
    BY <1>3, <2>1 DEF TrylockWon, TrylockLost, EnterPoll
<1>4. ASSUME NEW w \in Worker, TrylockEnableFails(w) \/ TrylockDisableFails(w) PROVE TypeOK'
  BY <1>4, SocketsType DEF TrylockEnableFails, TrylockDisableFails, TriesMutex
<1>5. ASSUME NEW w \in Worker, PollReady(w) PROVE TypeOK'
  BY <1>5 DEF PollReady, Pending
<1>6. ASSUME NEW w \in Worker, PollReturns(w) PROVE TypeOK'
  BY <1>6 DEF PollReturns
<1>7. ASSUME NEW w \in Worker, NEW s \in AllSockets, SkipInactive(w, s) \/ AcceptNothing(w, s)
      PROVE  TypeOK'
  BY <1>7 DEF SkipInactive, AcceptNothing, Handled
<1>8. ASSUME NEW w \in Worker, NEW s \in AllSockets, AcceptAborted(w, s) PROVE TypeOK'
  BY <1>8, FlagAssumption DEF AcceptAborted, Handled, Dequeue
<1>9. ASSUME NEW w \in Worker, NEW s \in AllSockets, AcceptConnection(w, s) PROVE TypeOK'
  <2>1. Overload(w) \in 0..ConnectionN
    <3>1. ConnectionN \div 8 \in 0..ConnectionN
      OBVIOUS
    <3> QED
      BY <3>1 DEF Overload
  <2> QED
    BY <1>9, <2>1, FlagAssumption DEF AcceptConnection, Handled, Dequeue
<1>10. ASSUME NEW w \in Worker, NEW s \in AllSockets, AcceptNoFd(w, s) PROVE TypeOK'
  <2>1. 1 \in 0..ConnectionN
    BY SlotsAssumption, WorkerAssumption, FS_CardinalityType
  <2>2. /\ lock' \in Worker \cup {NoWorker}
        /\ held' \in [Worker -> BOOLEAN]
        /\ disabled' \in [Worker -> 0..ConnectionN]
        /\ timer' \in [Worker -> SUBSET AllSockets]
    <3>1. CASE UseMutex
      BY <1>10, <2>1, <3>1 DEF AcceptNoFd
    <3>2. CASE ~UseMutex
      <4>1. timer[w] \cup {s} \in SUBSET AllSockets
        OBVIOUS
      <4> QED
        BY <1>10, <3>2, <4>1 DEF AcceptNoFd
    <3> QED
      BY <3>1, <3>2
  <2>3. active' \in [Worker -> SUBSET AllSockets] /\ ready' \in [Worker -> SUBSET AllSockets]
    BY <1>10 DEF AcceptNoFd, Handled
  <2> QED
    BY <1>10, <2>2, <2>3 DEF AcceptNoFd
<1>11. ASSUME NEW w \in Worker, NEW s \in AllSockets, AcceptNoFdDisableFails(w, s) PROVE TypeOK'
  BY <1>11 DEF AcceptNoFdDisableFails, Handled
<1>12. ASSUME NEW w \in Worker, AcceptDone(w) \/ Unlock(w) PROVE TypeOK'
  BY <1>12 DEF AcceptDone, Unlock
<1>13. ASSUME NEW w \in Worker, IterationEnds(w) PROVE TypeOK'
  BY <1>13, SlotsType DEF IterationEnds
<1>14. ASSUME NEW w \in Worker, NEW s \in AllSockets, TimerFires(w, s) PROVE TypeOK'
  BY <1>14, SocketsType DEF TimerFires
<1>15. ASSUME NEW w \in Worker, Crash(w) \/ Quit(w) PROVE TypeOK'
  <2>1. InitialActive(w) \in SUBSET AllSockets
    BY SocketsType DEF InitialActive
  <2>2. /\ held' \in [Worker -> BOOLEAN] /\ post' \in [Worker -> BOOLEAN]
        /\ timed' \in [Worker -> BOOLEAN]
    BY <1>15 DEF Crash, Quit, Forget
  <2>3. disabled' \in [Worker -> 0..ConnectionN]
    BY <1>15 DEF Crash, Quit, Forget
  <2>4. free' \in [Worker -> 0..ConnectionN]
    <3>1. Slots(w) \in 0..ConnectionN
      BY SlotsType
    <3> QED
      BY <1>15, <3>1 DEF Crash, Quit, Forget
  <2>5. /\ active' \in [Worker -> SUBSET AllSockets]
        /\ timer' \in [Worker -> SUBSET AllSockets]
        /\ ready' \in [Worker -> SUBSET AllSockets]
    BY <1>15, <2>1 DEF Crash, Quit, Forget
  <2> QED
    BY <1>15, <2>2, <2>3, <2>4, <2>5 DEF Crash, Quit
<1>16. ASSUME NEW w \in Worker, ForceUnlock(w) \/ Respawn(w) PROVE TypeOK'
  BY <1>16 DEF ForceUnlock, Respawn
<1>17. CASE UNCHANGED vars
  BY <1>17 DEF vars
<1> QED
  BY <1>1, <1>2, <1>3, <1>4, <1>5, <1>6, <1>7, <1>8, <1>9, <1>10, <1>11, <1>12, <1>13,
     <1>14, <1>15, <1>16, <1>17
     DEF Next, Run, Top, Accept, PollTimeout, PollOther

\* The variables of the event loop keep their types; in particular
\* ngx_accept_disabled and the number of free connections stay in range.
THEOREM TypeCorrect == Spec => []TypeOK
  BY TypeInit, TypeStep, PTL DEF Spec

-----------------------------------------------------------------------------
(***************************************************************************)
(* The inductive invariant: beside MutexNotLeaked, a worker in its turn is *)
(* the owner.  The flag "held" alone says nothing, it outlives the turn;   *)
(* it is the flag NGX_POST_EVENTS of the iteration that makes it reliable. *)
(***************************************************************************)
TurnInv == MutexNotLeaked /\ \A w \in Worker : InTurn(w) => lock = w

LEMMA TurnInit == Init => TurnInv
  BY WorkerAssumption DEF Init, TurnInv, MutexNotLeaked, InTurn, Alive

LEMMA TurnStep == TypeOK /\ TurnInv /\ [Next]_vars => TurnInv'
<1> SUFFICES ASSUME TypeOK, TurnInv, [Next]_vars PROVE TurnInv'
  OBVIOUS
<1>0. /\ lock \in Worker \cup {NoWorker}
      /\ held \in [Worker -> BOOLEAN] /\ post \in [Worker -> BOOLEAN]
      /\ pc \in [Worker -> Pcs]
  BY DEF TypeOK
<1> USE <1>0, WorkerAssumption
    DEF TurnInv, MutexNotLeaked, InTurn, Alive, Goto, local, counts
<1>1. ASSUME NEW s \in AllSockets, Connect(s) PROVE TurnInv'
  BY <1>1 DEF Connect
<1>2. ASSUME NEW w \in Worker, SkipMutex(w) PROVE TurnInv'
  BY <1>2 DEF SkipMutex, EnterPoll
<1>3. ASSUME NEW w \in Worker, TrylockWon(w) PROVE TurnInv'
  BY <1>3 DEF TrylockWon, TriesMutex, EnterPoll
<1>4. ASSUME NEW w \in Worker, TrylockLost(w) PROVE TurnInv'
  BY <1>4 DEF TrylockLost, TriesMutex, EnterPoll
<1>5. ASSUME NEW w \in Worker, TrylockEnableFails(w) \/ TrylockDisableFails(w) PROVE TurnInv'
  BY <1>5 DEF TrylockEnableFails, TrylockDisableFails
<1>6. ASSUME NEW w \in Worker, PollReady(w) \/ PollReturns(w) PROVE TurnInv'
  BY <1>6 DEF PollReady, PollReturns
<1>7. ASSUME NEW w \in Worker, NEW s \in AllSockets,
             \/ SkipInactive(w, s) \/ AcceptNothing(w, s) \/ AcceptAborted(w, s)
             \/ AcceptConnection(w, s) \/ AcceptNoFdDisableFails(w, s)
      PROVE  TurnInv'
  BY <1>7 DEF SkipInactive, AcceptNothing, AcceptAborted, AcceptConnection,
              AcceptNoFdDisableFails
<1>8. ASSUME NEW w \in Worker, NEW s \in AllSockets, AcceptNoFd(w, s) PROVE TurnInv'
  BY <1>8 DEF AcceptNoFd
<1>9. ASSUME NEW w \in Worker, AcceptDone(w) PROVE TurnInv'
  BY <1>9 DEF AcceptDone
<1>10. ASSUME NEW w \in Worker, Unlock(w) PROVE TurnInv'
  BY <1>10 DEF Unlock
<1>11. ASSUME NEW w \in Worker, IterationEnds(w) PROVE TurnInv'
  BY <1>11 DEF IterationEnds
<1>12. ASSUME NEW w \in Worker, NEW s \in AllSockets, TimerFires(w, s) PROVE TurnInv'
  BY <1>12 DEF TimerFires
<1>13. ASSUME NEW w \in Worker, Crash(w) \/ Quit(w) PROVE TurnInv'
  BY <1>13 DEF Crash, Quit, Forget
<1>14. ASSUME NEW w \in Worker, ForceUnlock(w) \/ Respawn(w) PROVE TurnInv'
  BY <1>14 DEF ForceUnlock, Respawn
<1>15. CASE UNCHANGED vars
  BY <1>15 DEF vars
<1> QED
  BY <1>1, <1>2, <1>3, <1>4, <1>5, <1>6, <1>7, <1>8, <1>9, <1>10, <1>11, <1>12, <1>13,
     <1>14, <1>15
     DEF Next, Run, Top, Accept, PollTimeout, PollOther

LEMMA TurnAlways == Spec => [](TypeOK /\ TurnInv)
  BY TypeInit, TypeStep, TurnInit, TurnStep, PTL DEF Spec

\* For any number of workers: no path through the event loop, failing system
\* calls included, keeps the accept mutex longer than one iteration.
THEOREM NeverLeaked == Spec => []MutexNotLeaked
<1>1. TurnInv => MutexNotLeaked
  BY DEF TurnInv
<1> QED
  BY <1>1, TurnAlways, PTL

\* For any number of workers: two of them never process accept events posted
\* under the mutex at the same time.
THEOREM ExclusiveTurns == Spec => []TurnsAreExclusive
<1>1. TurnInv => TurnsAreExclusive
  BY DEF TurnInv, TurnsAreExclusive
<1> QED
  BY <1>1, TurnAlways, PTL

LEMMA ReleaseStep ==
  ASSUME TypeOK, [Next]_vars, NEW w \in Worker, lock = w, lock' # w, pc[w] # "dead"
  PROVE  pc'[w] # pc[w] \/ ready'[w] # ready[w]
<1>0. /\ pc \in [Worker -> Pcs] /\ ready \in [Worker -> SUBSET AllSockets]
      /\ lock # NoWorker
  BY WorkerAssumption DEF TypeOK
<1> USE <1>0 DEF Goto, local, counts
<1>1. ASSUME NEW v \in Worker, NEW s \in AllSockets, AcceptNoFd(v, s)
      PROVE  ready'[w] # ready[w]
  <2>1. v = w /\ s \in ready[w]
    BY <1>1 DEF AcceptNoFd, Handles
  <2> QED
    BY <1>1, <2>1 DEF AcceptNoFd, Handled
<1>2. ASSUME NEW v \in Worker, Unlock(v) PROVE pc'[w] # pc[w]
  BY <1>2 DEF Unlock
<1>3. ASSUME NEW v \in Worker, ForceUnlock(v) \/ TrylockWon(v) PROVE FALSE
  BY <1>3 DEF ForceUnlock, TrylockWon
<1>4. ASSUME NEW v \in Worker,
             \/ SkipMutex(v) \/ TrylockLost(v) \/ TrylockEnableFails(v)
             \/ TrylockDisableFails(v) \/ PollReady(v) \/ PollReturns(v)
             \/ AcceptDone(v) \/ IterationEnds(v) \/ Crash(v) \/ Quit(v) \/ Respawn(v)
      PROVE  FALSE
  BY <1>4 DEF SkipMutex, TrylockLost, TrylockEnableFails, TrylockDisableFails, PollReady,
              PollReturns, AcceptDone, IterationEnds, Crash, Quit, Respawn
<1>5. ASSUME NEW v \in Worker, NEW s \in AllSockets,
             \/ SkipInactive(v, s) \/ AcceptNothing(v, s) \/ AcceptAborted(v, s)
             \/ AcceptConnection(v, s) \/ AcceptNoFdDisableFails(v, s) \/ TimerFires(v, s)
             \/ Connect(s)
      PROVE  FALSE
  BY <1>5 DEF SkipInactive, AcceptNothing, AcceptAborted, AcceptConnection,
              AcceptNoFdDisableFails, TimerFires, Connect
<1>6. CASE UNCHANGED vars
  BY <1>6 DEF vars
<1> QED
  BY <1>1, <1>2, <1>3, <1>4, <1>5, <1>6
     DEF Next, Run, Top, Accept, PollTimeout, PollOther

\* For any number of workers: the compare-and-set of ngx_shmtx_unlock() makes
\* the unlock of a worker that only believes it holds the mutex harmless.
THEOREM OnlyOwnReleases == Spec => NotReleasedByOthers
<1>1. TypeOK /\ [Next]_vars =>
        [\A w \in Worker : lock = w /\ lock' # w =>
            pc[w] = "dead" \/ pc'[w] # pc[w] \/ ready'[w] # ready[w]]_vars
  BY ReleaseStep
<1> QED
  BY <1>1, TypeCorrect, PTL DEF Spec, NotReleasedByOthers

-----------------------------------------------------------------------------
(***************************************************************************)
(* Why a worker that waits without a timeout is listening, as long as no   *)
(* system call has failed and no worker has a socket of its own: without   *)
(* "held" it has nothing registered, so it accepts nothing and never       *)
(* becomes overloaded, and therefore never skips its turn.                 *)
(***************************************************************************)
Undisturbed == fdErrors = 0 /\ epollErrors = 0 /\ ~ReusePort

DeafInv ==
    Undisturbed => \A w \in Worker :
        /\ timer[w] = {}
        /\ pc[w] \notin {"accept", "timers"} => ready[w] = {}
        /\ ~UseMutex \/ held[w] => Shared \subseteq active[w]
        /\ UseMutex /\ ~held[w] => active[w] = {} /\ ready[w] = {} /\ disabled[w] = 0
        /\ pc[w] = "poll" /\ UseMutex /\ ~timed[w] => held[w]

LEMMA DeafInit == Init => DeafInv
  BY FlagAssumption DEF Init, DeafInv, Undisturbed, InitialActive, Sockets

LEMMA DeafStep == TypeOK /\ DeafInv /\ [Next]_vars => DeafInv'
<1> SUFFICES ASSUME TypeOK, DeafInv, [Next]_vars, Undisturbed' PROVE DeafInv'
  BY DEF DeafInv
<1>0. /\ held \in [Worker -> BOOLEAN] /\ timed \in [Worker -> BOOLEAN]
      /\ pc \in [Worker -> Pcs]
      /\ active \in [Worker -> SUBSET AllSockets]
      /\ ready \in [Worker -> SUBSET AllSockets]
      /\ timer \in [Worker -> SUBSET AllSockets]
      /\ disabled \in [Worker -> 0..ConnectionN]
      /\ fdErrors \in Nat /\ epollErrors \in Nat
  BY BoundAssumption DEF TypeOK
<1>a. ~ReusePort /\ AllSockets = Shared /\ \A w \in Worker : Sockets(w) = Shared
  BY FlagAssumption DEF Undisturbed, AllSockets, Sockets
<1>b. ASSUME NEW w \in Worker
      PROVE  InitialActive(w) = IF UseMutex THEN {} ELSE Shared
  BY <1>a DEF InitialActive
<1> USE <1>0, <1>a, FlagAssumption DEF DeafInv, Undisturbed, Goto, local, counts
<1>1. ASSUME NEW s \in AllSockets, Connect(s) PROVE DeafInv'
  BY <1>1 DEF Connect
<1>2. ASSUME NEW w \in Worker, SkipMutex(w) PROVE DeafInv'
  BY <1>2 DEF SkipMutex, EnterPoll
<1>3. ASSUME NEW w \in Worker, TrylockWon(w) PROVE DeafInv'
  BY <1>3 DEF TrylockWon, TriesMutex, EnterPoll
<1>4. ASSUME NEW w \in Worker, TrylockLost(w) PROVE DeafInv'
  BY <1>4 DEF TrylockLost, TriesMutex, EnterPoll
<1>5. ASSUME NEW w \in Worker, TrylockEnableFails(w) \/ TrylockDisableFails(w) PROVE FALSE
  BY <1>5 DEF TrylockEnableFails, TrylockDisableFails
<1>6. ASSUME NEW w \in Worker, PollReady(w) \/ PollReturns(w) PROVE DeafInv'
  BY <1>6 DEF PollReady, PollReturns, Pending
<1>7. ASSUME NEW w \in Worker, NEW s \in AllSockets,
             SkipInactive(w, s) \/ AcceptNothing(w, s) \/ AcceptAborted(w, s)
      PROVE  DeafInv'
  BY <1>7 DEF SkipInactive, AcceptNothing, AcceptAborted, Handles, Handled
<1>8. ASSUME NEW w \in Worker, NEW s \in AllSockets, AcceptConnection(w, s) PROVE DeafInv'
  BY <1>8 DEF AcceptConnection, Handles, Handled
<1>9. ASSUME NEW w \in Worker, NEW s \in AllSockets,
             AcceptNoFd(w, s) \/ AcceptNoFdDisableFails(w, s)
      PROVE  FALSE
  BY <1>9 DEF AcceptNoFd, AcceptNoFdDisableFails
<1>10. ASSUME NEW w \in Worker, AcceptDone(w) \/ Unlock(w) \/ IterationEnds(w) PROVE DeafInv'
  BY <1>10 DEF AcceptDone, Unlock, IterationEnds
<1>11. ASSUME NEW w \in Worker, NEW s \in AllSockets, TimerFires(w, s) PROVE FALSE
  BY <1>11 DEF TimerFires
<1>12. ASSUME NEW w \in Worker, Crash(w) \/ Quit(w) PROVE DeafInv'
  BY <1>12, <1>b DEF Crash, Quit, Forget
<1>13. ASSUME NEW w \in Worker, ForceUnlock(w) \/ Respawn(w) PROVE DeafInv'
  BY <1>13 DEF ForceUnlock, Respawn
<1>14. CASE UNCHANGED vars
  BY <1>14 DEF vars
<1> QED
  BY <1>1, <1>2, <1>3, <1>4, <1>5, <1>6, <1>7, <1>8, <1>9, <1>10, <1>11, <1>12, <1>13, <1>14
     DEF Next, Run, Top, Accept, PollTimeout, PollOther

\* For any number of workers and shared sockets: as long as accept() and
\* epoll_ctl() do not fail, no worker waits without a timeout in
\* epoll_wait() while it is not listening.
THEOREM NeverDeaf == Spec => []NoDeafWait
<1>1. TypeOK /\ DeafInv => NoDeafWait
  BY FlagAssumption, BoundAssumption DEF TypeOK, DeafInv, Undisturbed, NoDeafWait, Sockets
<1> QED
  BY <1>1, TypeCorrect, DeafInit, DeafStep, PTL DEF Spec
=============================================================================
