---------------------------- MODULE AcceptMutex ----------------------------
(***************************************************************************)
(* How the workers share the listening sockets: the event loop             *)
(* ngx_process_events_and_timers() of event/ngx_event.c with the accept    *)
(* mutex and the accept handler of event/ngx_event_accept.c, over epoll.   *)
(*                                                                         *)
(* A worker takes turns through the steps of one iteration: decide whether *)
(* to try for the mutex (top), wait in epoll_wait() (poll), run the accept *)
(* handlers (accept), give the mutex back (unlock), run timers and the     *)
(* other posted events (timers).  Everything a worker does between two     *)
(* looks at the mutex or at a socket is local to it and is one step.       *)
(*                                                                         *)
(* A worker may die anywhere; the master then frees the mutex of the dead  *)
(* worker and starts a new one.                                            *)
(***************************************************************************)
EXTENDS Integers, FiniteSets

CONSTANTS
    Worker,        \* the workers; a worker also names its reuseport socket
    Shared,        \* the listening sockets that all workers share
    NoWorker,      \* the value 0 of the lock word
    UseMutex,      \* ngx_use_accept_mutex
    ReusePort,     \* every worker also has a listening socket of its own
    MultiAccept,   \* the directive multi_accept
    ConnectionN,   \* cycle->connection_n, the size of the connection table
    MaxPending,    \* bound: connections waiting on one socket
    MaxArrivals,   \* bound: connections in a behaviour
    MaxFdErrors,   \* bound: accept() failing with EMFILE or ENFILE
    MaxEpollErrors,\* bound: epoll_ctl() failing
    MaxExits       \* bound: workers dying or told to quit

ASSUME WorkerAssumption ==
    /\ IsFiniteSet(Worker) /\ IsFiniteSet(Shared)
    /\ NoWorker \notin Worker
    /\ Shared \cap Worker = {}
ASSUME FlagAssumption ==
    UseMutex \in BOOLEAN /\ ReusePort \in BOOLEAN /\ MultiAccept \in BOOLEAN
ASSUME BoundAssumption ==
    /\ ConnectionN \in Nat
    /\ MaxPending \in Nat /\ MaxArrivals \in Nat
    /\ MaxFdErrors \in Nat /\ MaxEpollErrors \in Nat /\ MaxExits \in Nat

VARIABLES
    lock,        \* the word of ngx_accept_mutex
    held,        \* ngx_accept_mutex_held of each worker
    disabled,    \* ngx_accept_disabled, its values below zero taken for zero
    active,      \* the sockets whose read event is registered with epoll
    post,        \* NGX_POST_EVENTS in the flags of the current iteration
    timed,       \* the wait is limited by ngx_accept_mutex_delay
    timer,       \* the sockets whose read event has a timer
    ready,       \* the accept events still to be handled in this iteration
    free,        \* cycle->free_connection_n
    pc,          \* where each worker stands
    queue,       \* the connections waiting on each socket (kernel)
    arrivals, fdErrors, epollErrors, exits   \* what the bounds count

local == <<held, disabled, active, post, timed, timer, ready, free>>
counts == <<arrivals, fdErrors, epollErrors, exits>>
vars == <<lock, local, pc, queue, counts>>

Sockets(w) == Shared \cup (IF ReusePort THEN {w} ELSE {})
AllSockets == Shared \cup (IF ReusePort THEN Worker ELSE {})

Pcs == {"top", "poll", "accept", "unlock", "timers", "dead", "reaped"}

Alive(w) == pc[w] \notin {"dead", "reaped"}

\* The connections left when the listening sockets and the channel to the
\* master have taken theirs.
Slots(w) == ConnectionN - Cardinality(Sockets(w)) - 1

ASSUME SlotsAssumption == ConnectionN > Cardinality(Shared) + 2

Goto(w, l) == pc' = [pc EXCEPT ![w] = l]

\* ngx_event_process_init(): reuseport sockets are registered at once, the
\* shared ones only when there is no mutex.
InitialActive(w) == IF UseMutex THEN Sockets(w) \ Shared ELSE Sockets(w)

Init ==
    /\ lock = NoWorker
    /\ held = [w \in Worker |-> FALSE]
    /\ disabled = [w \in Worker |-> 0]
    /\ active = [w \in Worker |-> InitialActive(w)]
    /\ post = [w \in Worker |-> FALSE]
    /\ timed = [w \in Worker |-> FALSE]
    /\ timer = [w \in Worker |-> {}]
    /\ ready = [w \in Worker |-> {}]
    /\ free = [w \in Worker |-> Slots(w)]
    /\ pc = [w \in Worker |-> "top"]
    /\ queue = [s \in AllSockets |-> 0]
    /\ arrivals = 0 /\ fdErrors = 0 /\ epollErrors = 0 /\ exits = 0

\* A client connects; the kernel queues the connection on a socket.
Connect(s) ==
    /\ arrivals < MaxArrivals
    /\ queue[s] < MaxPending
    /\ queue' = [queue EXCEPT ![s] = @ + 1]
    /\ arrivals' = arrivals + 1
    /\ UNCHANGED <<lock, local, pc, fdErrors, epollErrors, exits>>

-----------------------------------------------------------------------------
\* The top of ngx_process_events_and_timers().

\* The iteration goes on to epoll_wait().
EnterPoll(w, p, t) ==
    /\ post' = [post EXCEPT ![w] = p]
    /\ timed' = [timed EXCEPT ![w] = t]
    /\ Goto(w, "poll")

\* No mutex, or a worker with too many connections, which skips its turn.
SkipMutex(w) ==
    /\ pc[w] = "top"
    /\ ~UseMutex \/ disabled[w] > 0
    /\ disabled' = [disabled EXCEPT ![w] = IF UseMutex THEN @ - 1 ELSE @]
    /\ EnterPoll(w, FALSE, FALSE)
    /\ UNCHANGED <<lock, held, active, timer, ready, free, queue, counts>>

TriesMutex(w) == pc[w] = "top" /\ UseMutex /\ disabled[w] = 0

\* ngx_trylock_accept_mutex(): the mutex is free.  A worker that believes it
\* still holds it has its events registered already.
TrylockWon(w) ==
    /\ TriesMutex(w)
    /\ lock = NoWorker
    /\ lock' = w
    /\ held' = [held EXCEPT ![w] = TRUE]
    /\ active' = [active EXCEPT ![w] = IF held[w] THEN @ ELSE Sockets(w)]
    /\ EnterPoll(w, TRUE, FALSE)
    /\ UNCHANGED <<disabled, timer, ready, free, queue, counts>>

\* ngx_enable_accept_events() failed half way: the mutex is given back and the
\* iteration ends.
TrylockEnableFails(w) ==
    /\ TriesMutex(w)
    /\ lock = NoWorker
    /\ ~held[w]
    /\ epollErrors < MaxEpollErrors
    /\ epollErrors' = epollErrors + 1
    /\ \E S \in SUBSET Sockets(w) :
          /\ active[w] \subseteq S /\ S # Sockets(w)
          /\ active' = [active EXCEPT ![w] = S]
    /\ UNCHANGED <<lock, held, disabled, post, timed, timer, ready, free, pc,
                   queue, arrivals, fdErrors, exits>>

\* Wrong on purpose: the loser of the race waits as long as the winner.
TrylockLost_NoDelay(w) ==
    /\ TriesMutex(w)
    /\ lock # NoWorker
    /\ held' = [held EXCEPT ![w] = FALSE]
    /\ active' = [active EXCEPT ![w] = IF held[w] THEN @ \ Shared ELSE @]
    /\ EnterPoll(w, FALSE, FALSE)
    /\ UNCHANGED <<lock, disabled, timer, ready, free, queue, counts>>

\* The mutex is taken: the shared sockets are left to its owner, and the wait
\* is cut short so that the worker tries again.
TrylockLost(w) ==
    /\ TriesMutex(w)
    /\ lock # NoWorker
    /\ held' = [held EXCEPT ![w] = FALSE]
    /\ active' = [active EXCEPT ![w] = IF held[w] THEN @ \ Shared ELSE @]
    /\ EnterPoll(w, FALSE, TRUE)
    /\ UNCHANGED <<lock, disabled, timer, ready, free, queue, counts>>

\* ngx_disable_accept_events() failed half way and the iteration ends.
TrylockDisableFails(w) ==
    /\ TriesMutex(w)
    /\ lock # NoWorker
    /\ held[w]
    /\ epollErrors < MaxEpollErrors
    /\ epollErrors' = epollErrors + 1
    /\ \E S \in SUBSET Shared :
          active' = [active EXCEPT ![w] = @ \ S]
    /\ active'[w] \cap Shared # {}
    /\ UNCHANGED <<lock, held, disabled, post, timed, timer, ready, free, pc,
                   queue, arrivals, fdErrors, exits>>

-----------------------------------------------------------------------------
\* ngx_epoll_process_events()

Pending(w) == {s \in active[w] : queue[s] > 0}

\* epoll_wait() reports the registered sockets on which connections wait.
PollReady(w) ==
    /\ pc[w] = "poll"
    /\ Pending(w) # {}
    /\ ready' = [ready EXCEPT ![w] = Pending(w)]
    /\ Goto(w, "accept")
    /\ UNCHANGED <<lock, held, disabled, active, post, timed, timer, free, queue,
                   counts>>

PollReturns(w) ==
    /\ pc[w] = "poll"
    /\ Pending(w) = {}
    /\ Goto(w, "accept")
    /\ UNCHANGED <<lock, local, queue, counts>>

\* The wait ends with nothing to accept: the delay of the mutex or a timer of a
\* listening socket has run out,
PollTimeout(w) == (timed[w] \/ timer[w] # {}) /\ PollReturns(w)

\* or one of the worker's connections has something to do.
PollOther(w) == free[w] < Slots(w) /\ PollReturns(w)

-----------------------------------------------------------------------------
\* ngx_event_accept()

\* The handler of s runs: from the queue of posted events, from the loop of
\* ngx_epoll_process_events() or from the timers.  That loop, unlike the other
\* two, leaves out an event that is no longer active.
Handles(w, s) ==
    /\ pc[w] \in {"accept", "timers"}
    /\ s \in ready[w]
    /\ s \in active[w] \/ post[w] \/ pc[w] = "timers"

Handled(w, s) == ready' = [ready EXCEPT ![w] = @ \ {s}]

\* An event of the epoll loop that a handler before it has disabled.
SkipInactive(w, s) ==
    /\ pc[w] = "accept"
    /\ s \in ready[w] \ active[w]
    /\ ~post[w]
    /\ Handled(w, s)
    /\ UNCHANGED <<lock, held, disabled, active, post, timed, timer, free, pc, queue,
                   counts>>

\* EAGAIN: another worker was faster.
AcceptNothing(w, s) ==
    /\ Handles(w, s)
    /\ queue[s] = 0
    /\ Handled(w, s)
    /\ UNCHANGED <<lock, held, disabled, active, post, timed, timer, free, pc, queue,
                   counts>>

Dequeue(s) == queue[s] > 0 /\ queue' = [queue EXCEPT ![s] = @ - 1]

\* ECONNABORTED: the client has gone.
AcceptAborted(w, s) ==
    /\ Handles(w, s)
    /\ Dequeue(s)
    /\ IF MultiAccept THEN UNCHANGED ready ELSE Handled(w, s)
    /\ UNCHANGED <<lock, held, disabled, active, post, timed, timer, free, pc, counts>>

\* ngx_cycle->connection_n / 8 - ngx_cycle->free_connection_n
Overload(w) ==
    IF free[w] < ConnectionN \div 8 THEN ConnectionN \div 8 - free[w] ELSE 0

\* A connection is accepted.  With less than an eighth of the connections left
\* the worker stays away from the mutex for a while.
AcceptConnection(w, s) ==
    /\ Handles(w, s)
    /\ Dequeue(s)
    /\ disabled' = [disabled EXCEPT ![w] = Overload(w)]
    /\ \/ /\ free[w] > 0
          /\ free' = [free EXCEPT ![w] = @ - 1]
          /\ IF MultiAccept THEN UNCHANGED ready ELSE Handled(w, s)
       \* ngx_drain_connections() closed a reusable connection,
       \/ /\ free[w] = 0
          /\ UNCHANGED free
          /\ IF MultiAccept THEN UNCHANGED ready ELSE Handled(w, s)
       \* or there was none, or no memory: the socket is closed, the connection
       \* goes back to the free ones and the handler returns.
       \/ /\ UNCHANGED free
          /\ Handled(w, s)
    /\ UNCHANGED <<lock, held, active, post, timed, timer, pc, counts>>

\* Wrong on purpose: "held" is cleared and the mutex is not given up.
AcceptNoFd_KeepsMutex(w, s) ==
    /\ Handles(w, s)
    /\ fdErrors < MaxFdErrors
    /\ fdErrors' = fdErrors + 1
    /\ active' = [active EXCEPT ![w] = {}]
    /\ Handled(w, s)
    /\ held' = [held EXCEPT ![w] = FALSE]
    /\ disabled' = [disabled EXCEPT ![w] = 1]
    /\ UNCHANGED <<lock, timer, post, timed, free, pc, queue, arrivals, epollErrors, exits>>

\* Wrong on purpose: the mutex is given up and "held" is not cleared.
AcceptNoFd_StaysHeld(w, s) ==
    /\ Handles(w, s)
    /\ fdErrors < MaxFdErrors
    /\ fdErrors' = fdErrors + 1
    /\ active' = [active EXCEPT ![w] = {}]
    /\ Handled(w, s)
    /\ lock' = IF held[w] /\ lock = w THEN NoWorker ELSE lock
    /\ disabled' = [disabled EXCEPT ![w] = 1]
    /\ UNCHANGED <<held, timer, post, timed, free, pc, queue, arrivals, epollErrors, exits>>

\* Wrong on purpose: no timer brings the accept events back.
AcceptNoFd_NoTimer(w, s) ==
    /\ Handles(w, s)
    /\ fdErrors < MaxFdErrors
    /\ fdErrors' = fdErrors + 1
    /\ active' = [active EXCEPT ![w] = {}]
    /\ Handled(w, s)
    /\ UNCHANGED <<lock, held, disabled, timer, post, timed, free, pc, queue, arrivals,
                   epollErrors, exits>>

\* EMFILE or ENFILE: the worker stops listening, gives up the mutex and stays
\* away from it for one iteration, or sets a timer when there is no mutex.
AcceptNoFd(w, s) ==
    /\ Handles(w, s)
    /\ fdErrors < MaxFdErrors
    /\ fdErrors' = fdErrors + 1
    /\ active' = [active EXCEPT ![w] = {}]
    /\ Handled(w, s)
    /\ \/ /\ UseMutex
          /\ lock' = IF held[w] /\ lock = w THEN NoWorker ELSE lock
          /\ held' = [held EXCEPT ![w] = FALSE]
          /\ disabled' = [disabled EXCEPT ![w] = 1]
          /\ UNCHANGED timer
       \/ /\ ~UseMutex
          /\ timer' = [timer EXCEPT ![w] = @ \cup {s}]
          /\ UNCHANGED <<lock, held, disabled>>
    /\ UNCHANGED <<post, timed, free, pc, queue, arrivals, epollErrors, exits>>

\* The same, and ngx_disable_accept_events() fails half way: nothing else.
AcceptNoFdDisableFails(w, s) ==
    /\ Handles(w, s)
    /\ fdErrors < MaxFdErrors /\ epollErrors < MaxEpollErrors
    /\ fdErrors' = fdErrors + 1
    /\ epollErrors' = epollErrors + 1
    /\ \E S \in SUBSET active[w] :
          /\ S # {}
          /\ active' = [active EXCEPT ![w] = S]
    /\ Handled(w, s)
    /\ UNCHANGED <<lock, held, disabled, post, timed, timer, free, pc, queue, arrivals,
                   exits>>

\* All accept events of the iteration have been handled.
AcceptDone(w) ==
    /\ pc[w] = "accept"
    /\ ready[w] = {}
    /\ Goto(w, "unlock")
    /\ UNCHANGED <<lock, local, queue, counts>>

-----------------------------------------------------------------------------
\* Wrong on purpose: the word is cleared without comparing the pid.
Unlock_PlainStore(w) ==
    /\ pc[w] = "unlock"
    /\ lock' = IF held[w] THEN NoWorker ELSE lock
    /\ Goto(w, "timers")
    /\ UNCHANGED <<local, queue, counts>>

\* if (ngx_accept_mutex_held) ngx_shmtx_unlock(&ngx_accept_mutex): "held" stays,
\* and the compare-and-set fails for a worker that is not the owner.
Unlock(w) ==
    /\ pc[w] = "unlock"
    /\ lock' = IF held[w] /\ lock = w THEN NoWorker ELSE lock
    /\ Goto(w, "timers")
    /\ UNCHANGED <<local, queue, counts>>

\* ngx_event_expire_timers() finds the timer of a listening socket expired:
\* the events are enabled again and the handler tries to accept.
TimerFires(w, s) ==
    /\ pc[w] = "timers"
    /\ ready[w] = {}
    /\ s \in timer[w]
    /\ timer' = [timer EXCEPT ![w] = @ \ {s}]
    /\ \/ /\ active' = [active EXCEPT ![w] = Sockets(w)]
          /\ ready' = [ready EXCEPT ![w] = {s}]
          /\ UNCHANGED epollErrors
       \/ /\ epollErrors < MaxEpollErrors
          /\ epollErrors' = epollErrors + 1
          /\ \E S \in SUBSET Sockets(w) :
                /\ active[w] \subseteq S /\ S # Sockets(w)
                /\ active' = [active EXCEPT ![w] = S]
          /\ UNCHANGED ready
    /\ UNCHANGED <<lock, held, disabled, post, timed, free, pc, queue, arrivals,
                   fdErrors, exits>>

\* The other timers and the posted events: connections are opened and closed.
IterationEnds(w) ==
    /\ pc[w] = "timers"
    /\ ready[w] = {}
    /\ \E n \in 0..Slots(w) : free' = [free EXCEPT ![w] = n]
    /\ post' = [post EXCEPT ![w] = FALSE]
    /\ timed' = [timed EXCEPT ![w] = FALSE]
    /\ Goto(w, "top")
    /\ UNCHANGED <<lock, held, disabled, active, timer, ready, queue, counts>>

-----------------------------------------------------------------------------
\* The memory of worker w is lost; what is recorded instead is that of the
\* process that will take its place, as ngx_event_process_init() leaves it.
Forget(w) ==
    /\ held' = [held EXCEPT ![w] = FALSE]
    /\ disabled' = [disabled EXCEPT ![w] = 0]
    /\ active' = [active EXCEPT ![w] = InitialActive(w)]
    /\ post' = [post EXCEPT ![w] = FALSE]
    /\ timed' = [timed EXCEPT ![w] = FALSE]
    /\ timer' = [timer EXCEPT ![w] = {}]
    /\ ready' = [ready EXCEPT ![w] = {}]
    /\ free' = [free EXCEPT ![w] = Slots(w)]

\* A worker dies.
Crash(w) ==
    /\ Alive(w)
    /\ exits < MaxExits
    /\ exits' = exits + 1
    /\ Goto(w, "dead")
    /\ Forget(w)
    /\ UNCHANGED <<lock, queue, arrivals, fdErrors, epollErrors>>

\* Wrong on purpose: the mutex of the dead worker is forgotten.
ForceUnlock_Forgotten(w) ==
    /\ pc[w] = "dead"
    /\ Goto(w, "reaped")
    /\ UNCHANGED <<lock, local, queue, counts>>

\* ngx_unlock_mutexes() in the master, with the pid of the dead worker.
ForceUnlock(w) ==
    /\ pc[w] = "dead"
    /\ lock' = IF lock = w THEN NoWorker ELSE lock
    /\ Goto(w, "reaped")
    /\ UNCHANGED <<local, queue, counts>>

\* A worker told to quit closes its listening sockets and leaves.
Quit(w) ==
    /\ pc[w] = "top"
    /\ exits < MaxExits
    /\ exits' = exits + 1
    /\ Goto(w, "reaped")
    /\ Forget(w)
    /\ UNCHANGED <<lock, queue, arrivals, fdErrors, epollErrors>>

\* The master starts a new worker.
Respawn(w) ==
    /\ pc[w] = "reaped"
    /\ Goto(w, "top")
    /\ UNCHANGED <<lock, local, queue, counts>>

-----------------------------------------------------------------------------
Accept(w) ==
    \E s \in AllSockets :
        \/ SkipInactive(w, s) \/ AcceptNothing(w, s) \/ AcceptAborted(w, s)
        \/ AcceptConnection(w, s) \/ AcceptNoFd(w, s)
        \/ AcceptNoFdDisableFails(w, s)

Top(w) ==
    \/ SkipMutex(w) \/ TrylockWon(w) \/ TrylockEnableFails(w)
    \/ TrylockLost(w) \/ TrylockDisableFails(w)

\* The steps of an iteration that nothing outside the worker can hold up.
Run(w) == Top(w) \/ PollTimeout(w) \/ Accept(w) \/ AcceptDone(w) \/ Unlock(w) \/ IterationEnds(w)

Next ==
    \/ \E s \in AllSockets : Connect(s)
    \/ \E w \in Worker : \/ Run(w) \/ PollReady(w) \/ PollOther(w)
                         \/ Crash(w) \/ ForceUnlock(w) \/ Quit(w) \/ Respawn(w)
    \/ \E w \in Worker, s \in AllSockets : TimerFires(w, s)

Spec == Init /\ [][Next]_vars

(***************************************************************************)
(* The kernel runs every runnable worker and wakes at least one of those   *)
(* that wait for a socket with a connection; time passes, so that a timer  *)
(* fires sooner or later; the master handles deaths and starts new         *)
(* workers.  No fairness is assumed of clients and of other connections.   *)
(***************************************************************************)
Fairness ==
    /\ \A w \in Worker : /\ WF_vars(Run(w))
                         /\ WF_vars(ForceUnlock(w)) /\ WF_vars(Respawn(w))
                         /\ \A s \in AllSockets : SF_vars(TimerFires(w, s))
    /\ \A s \in AllSockets : WF_vars(\E w \in Worker : s \in Pending(w) /\ PollReady(w))

FairSpec == Spec /\ Fairness

-----------------------------------------------------------------------------
\* The variables hold what they are declared to hold: the counters of free
\* connections and of skipped turns stay within the connection table.
TypeOK ==
    /\ lock \in Worker \cup {NoWorker}
    /\ held \in [Worker -> BOOLEAN]
    /\ disabled \in [Worker -> 0..ConnectionN]
    /\ active \in [Worker -> SUBSET AllSockets]
    /\ post \in [Worker -> BOOLEAN]
    /\ timed \in [Worker -> BOOLEAN]
    /\ timer \in [Worker -> SUBSET AllSockets]
    /\ ready \in [Worker -> SUBSET AllSockets]
    /\ free \in [Worker -> 0..ConnectionN]
    /\ pc \in [Worker -> Pcs]
    /\ queue \in [AllSockets -> 0..MaxPending]
    /\ arrivals \in 0..MaxArrivals
    /\ fdErrors \in 0..MaxFdErrors
    /\ epollErrors \in 0..MaxEpollErrors
    /\ exits \in 0..MaxExits

\* A worker that owns the mutex knows it and gives it back in the same
\* iteration, whichever error path ngx_event_accept() or
\* ngx_trylock_accept_mutex() takes; it never owns it at the top of the loop,
\* where it could be told to quit, and the pid of a reaped worker owns nothing.
MutexNotLeaked ==
    \A w \in Worker :
        /\ lock = w /\ Alive(w) => held[w] /\ pc[w] \in {"poll", "accept", "unlock"}
        /\ pc[w] = "reaped" => lock # w

\* w handles accept events in its turn: they were posted under the mutex, and
\* it has not given the mutex up since.
InTurn(w) == pc[w] \in {"poll", "accept"} /\ post[w] /\ held[w]

\* Two workers are never in their turn together, although "held" stays set
\* after the unlock at the end of the turn.
TurnsAreExclusive ==
    \A w, v \in Worker : InTurn(w) /\ InTurn(v) => w = v

\* A worker that waits in epoll_wait() with no timeout listens on every socket
\* it may accept from; only a failed system call can leave it deaf, or, where
\* there are reuseport sockets, a connection accepted on one of them out of turn.
NoDeafWait ==
    \A w \in Worker :
        pc[w] = "poll" /\ ~timed[w] /\ timer[w] = {} /\ ~(Sockets(w) \subseteq active[w])
            => fdErrors > 0 \/ epollErrors > 0 \/ ReusePort

\* Nobody but the owner releases the mutex of a live worker: the unlock at the
\* end of the iteration of a worker that skipped its turn is without effect.
NotReleasedByOthers ==
    [][\A w \in Worker : lock = w /\ lock' # w =>
          pc[w] = "dead" \/ pc'[w] # pc[w] \/ ready'[w] # ready[w]]_vars

\* A call has failed after which nothing bounds the wait of a worker: epoll_ctl(),
\* or, with the mutex, accept() for want of a descriptor.
MayBeDeaf == epollErrors > 0 \/ (UseMutex /\ fdErrors > 0)

\* Every connection is taken off its socket, whoever dies with the mutex or is
\* overloaded meanwhile, and without the mutex also when descriptors run out;
\* ngx_event_accept() gives this up only after the failures of MayBeDeaf.
ConnectionsAreServed ==
    \A s \in AllSockets : (queue[s] > 0) ~> (queue[s] = 0 \/ MayBeDeaf)
=============================================================================
