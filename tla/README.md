# Specifications for voxxit/dockerfiles

The repository is a collection of container images. Most of them are lists of
packages; three things in it are programs of their own, with state that
survives a step, and with steps that can come in an order nobody wrote down:

* **nginx 1.15.12**, kept as source in `nginx-geoip2/` and compiled there with
  the default configuration plus one module. It is a master process with
  workers that share memory, listening sockets and signals.
* **ngx_http_geoip2_module 1.0**, the module added to it, which looks clients
  up in MaxMind databases and caches the last lookup.
* **the start scripts** of the images (`pg/start` and its like), which set a
  volume up and may be stopped and started again at any command.

This directory holds TLA+ specifications of the parts of these that are hard to
test, TLC configurations that check them on small instances, and proofs for
TLAPS. `PROJECT.json` is the index: components, runs, mutants, the lines of
source each definition stands for, hazards and theorems. Below, `N`
is `src/nginx-geoip2/nginx-1.15.12/src`.

## Inventory

| component | state | operations | what is hard | correct if |
|---|---|---|---|---|
| mutex in shared memory, `N/core/ngx_shmtx.c` | lock word, counter of waiters, semaphore | trylock, lock, unlock, wakeup, forced unlock | every instruction interleaves with other processes; a process dies anywhere | exclusion; no lost wakeup; a dead owner's mutex is freed, a living one's never |
| event loop and accept mutex, `N/event/ngx_event.c`, `ngx_event_accept.c`, `modules/ngx_epoll_module.c` | the mutex, per worker: held, disabled, registered sockets, timers, free connections | one iteration: try for the mutex, wait, accept, unlock, timers | stale `held`, error paths in the middle of a turn, overload, deaths | the mutex is given back; turns are exclusive; no connection waits for ever |
| master, `N/os/unix/ngx_process_cycle.c`, `ngx_process.c`, `N/core/nginx.c` | process table, signal flags, `live`, `delay`, `ngx_new_binary` | start, reap, respawn, reload, reopen, upgrade, quit, terminate | signals and deaths in any order, failed forks, children that do not obey | no orphans, no surplus and no missing workers, the master ends when told to |
| channels, `N/os/unix/ngx_channel.c`, `ngx_process_cycle.c` | a copy of the process table in every process, messages under way | open, close, read | processes forked in the middle of an update | the copies agree in the end, nothing leaks |
| geoip2 variables, `ngx_http_geoip2_module.c` | last address and its result, per database | look up, reuse | requests and variables share the cache; failures | the cache is not noticed |
| `pg/start` | the volume: password file, cluster, configuration | the commands of the script | being stopped between any two | what is served is completely set up |
| upstream requests, `N/http/ngx_http_upstream.c`, `ngx_http_upstream_round_robin.c`, `modules/ngx_http_upstream_keepalive_module.c` | shared: connections, failures and weights of each server; per worker: connections kept alive; per request: the server held, tries left, what was sent | choose a server, connect or reuse, send, read, retry, finalize | a dozen ways for an attempt to end, retries after the request went out, connections used again | every server is given back once; weights stay balanced; a POST goes out once; answers are not mixed up; requests end |
| file cache, `N/http/ngx_http_file_cache.c` | nodes, their queue, size and watermark in a zone; the files; per request: node, lock, what it updates | open, lock, wait, update, free; expire, forced expire, delete; load | the lock of the zone is released around file operations; workers die while they update | nodes are not freed under their users; a lock has somebody behind it; requests end |
| subrequests, `N/http/ngx_http_request.c`, `ngx_http_core_module.c`, `ngx_http_postpone_filter_module.c` | handlers, postponed output, active request, posted requests, references, blocked operations | start, produce, finalize, wake, terminate, free | parts get ready in any order; failures while others wait or run in the background | output in order; references match; memory is freed, and not too early |
| resolver, `N/core/ngx_resolver.c` | nodes per name with their queries, two queues, one resend timer; per asker: node, timer | ask, time out, cancel, answer, resend, expire | answers late, repeated, truncated, failing, aliases; askers leave from within handlers | lists and queues agree; timers run; answers of one query; everyone is told |
| forwarded address, read-write lock, slab, connection table, timers, limits, open file cache | | | | planned, see below |
| other start scripts, CI | | | | planned, see below |
| http parsing, configuration, zlib, code the image does not compile | | | | not planned: sequential work on bytes, or third-party |

How they interact: the accept mutex is one instance of the shared-memory mutex,
used with `trylock` only; the slab pools are the others. The master frees the
mutexes of dead workers (`ngx_unlock_mutexes()`) from its SIGCHLD handler, before it
may respawn them. The master tells its children what to do through the channels,
or by a signal where a write fails, and keeps their tables current through the same
channels. The geoip2 handler runs inside a worker and shares nothing with the others.
A proxied request asks the file cache first, the resolver if its server is a name in a
variable, then the balancer and a server; it may be a subrequest, and while it waits for
the lock of the cache its main request is `blocked`. The servers of a block and the nodes
of the cache are shared by all workers through a zone, under a read-write lock and a
shared-memory mutex; connections kept alive, resolver and requests belong to one worker.

The hazards, one by one and with their lines, are in `PROJECT.json`.

## Modules

`CrashMutex` says what a mutex that survives the death of its owner promises:
acquire, release, die, recover. It is small on purpose; `ShMtx` implements it.

`ShMtx` is `ngx_shmtx.c` in the variant with atomics and semaphores. A step is one
access to shared memory or one semaphore call; `pc` says where in the functions a
process stands. `TryLock`, `LockCall`..`LockSemWait`, `Unlock` and `WakeupRead`,
`WakeupCas`, `WakeupPost` follow the functions line by line. `Crash` is death at any
place, `ForceUnlock` the master's call for a process it has waited for, `Respawn` a
process taking the place. The test in front of a compare-and-set has no effect of
its own and is one step with it. Signed reading of `wait` is kept: the counter does
go below zero.

`AcceptMutex` is `ngx_process_events_and_timers()` with everything it calls that
touches listening sockets. A worker goes through top, poll, accept, unlock, timers.
`SkipMutex` and the four `Trylock...` actions are the top; `PollReady`, `PollTimeout`,
`PollOther` the ways out of `epoll_wait()`; `Accept...` the outcomes of the accept
handler; `Unlock`, `TimerFires`, `IterationEnds` the rest. Constants choose the mutex
(`accept_mutex` is off by default in this version; the image leaves the default and
one worker, so both variants matter to those who configure more), `reuseport` sockets (which
no run has; the theorems cover them) and `multi_accept`. Connections are counted, not named.

`MasterCycle` is `ngx_master_process_cycle()` with `ngx_reap_children()`,
`ngx_signal_worker_processes()`, `ngx_spawn_process()` and the signal handler. A slot of
`ngx_processes[]` is a record of its flags and of what has become of the process. Signals
are blocked except in `sigsuspend()`, so `pending` is a set and `Suspend` runs all
handlers. The phases of an iteration are actions in the order of the code; starting a
set of processes and reaping go slot by slot, because children change meanwhile.
`Daemonized` is FALSE in the image, where USR2 and WINCH are ignored: the handler
compares the parent with `ngx_parent`, and they are equal for a master in the foreground.

`Channel` has the table of the master and the copies of the workers, and queues of OPEN
and CLOSE messages. When processes start and die is left open, which covers whatever
`MasterCycle` decides. `ch`, the local message variable of `ngx_reap_children()`, is state
because it is not reset between two dead children.

`Geoip2` is the variable handler. An address is its family and the number its bytes
make, so that the bytes of a.b.c.d and of ::a.b.c.d can coincide as they do in the code.
The database is external: which addresses it knows, which lookups fail. The result the
cache holds before the first lookup is arbitrary, since the code does not write it.

`PgStart` is `pg/start`, an action for each command that changes the volume, and `Kill`
for a stop and start of the container at any of them. There is no `set -e`, so a failed
command is passed over. PASSWORD is given or not (`env`), and without it every start makes a
new password. `Interrupted` is what a killed initdb leaves, as a command that the script passes over
or with the whole container: files that postgres does not start on ("broken"), or, once its
bootstrap is done, a cluster on which it does ("bare"), with the password of the superuser set
or not yet. `Exec` starts postgres on whatever is there, as the script does.

`Peers` has the servers of upstream blocks: `Pick` is `ngx_http_upstream_get_peer()`, which
gives every eligible server its effective weight and makes the best one pay the sum, `Free`
is `ngx_http_upstream_free_round_robin_peer()` with its accounting of failures. Both run
under the lock of the zone, so each is one step. `Upstream` extends it with requests and with
the connections kept alive. An attempt goes through connect, got, push, connecting or sending,
header and body; a handler that goes on without returning to the event loop passes through
several of these, and nothing else happens in its worker meanwhile (`InHandler`, `Idle`).
All failures lead to `GoNext`, which is `ngx_http_upstream_next()`. A connection is the
server, the requests whose answers are still to be read from it, and the request whose body is
incomplete, if any: that is what decides whose answer the next request on it is given.

`FileCache` splits each function of `ngx_http_file_cache.c` where the lock of the zone is
released. `Exists` is lookup or creation, `MakeRoom` and `Retry` the case of a full zone;
`Open`, `Unreadable`, `Read`, `ReadStale`, `Lock`, `LockWait` follow `ngx_http_file_cache_open()`; `Answer` is
what the server says, and `Rename`/`Update`, `UpdateHeader` and `Free` are what the cache makes
of it. `DeleteBegin`, `DeleteFile`, `DeleteEnd` are the three parts of a deletion, by the manager
or by a request. The loader adds what it finds in one section (`LoaderAdd`) and, if that fails,
deletes the file after it (`LoaderDelete`), which by then may be another. A file is named by its inode, so that a name can come to stand for another
file between two steps. `lockers` is the set of requests whose `lock_time` equals that of the
node, which is all the code compares it for.

`Subrequests` gives every request a script, the parts of its body and the subrequests it
starts between them. `RunPosted` is `ngx_http_run_posted_requests()` with the handler of the first
one; an event is only handled when nothing is posted. `PostponeFilter`, `FinalizeGood`,
`Terminate` and `CloseRequest` are the functions of those names. The cleanup handlers that
`Terminate` calls finalize the upstream requests under way and give back their references.

`Resolver` makes every handler one step, a function on states, since a handler of an asker
calls `ngx_resolve_name_done()` from within the resolver. A query has a number; an answer to
any query ever made may come at any time, any number of times, with any content, and
`Expected` says which are taken. `mem` is FALSE where an allocation fails.

The `MC...` modules hold what the configurations need, functions given as constants.
Definitions named `X_Something` and commented "Wrong on purpose" are mutants of X: each
is a plausible mistake in the code that makes a property fail, and so shows that the
property is not empty. No specification uses them.

## Runs

| run | instance | result |
|---|---|---|
| ShMtx | 3 processes, 2 deaths, fair | exclusion, accounting, no lost wakeup; refines `CrashMutex`; sleepers are served; dead owners are recovered |
| AcceptMutex | 2 workers, a shared socket, `multi_accept`, one EMFILE, one epoll error, one exit or death, overload, fair | mutex not leaked nor released by others, turns exclusive, no deaf wait, connections are served |
| AcceptNoMutex | without the mutex, 2 sockets, EMFILE twice, fair | connections are served |
| MasterImage | the image's foreground master, 2 workers, 6 slots, two signals of QUIT, TERM, HUP, one death; children told to quit leave | no orphans, no surplus; TERM and QUIT end the master; otherwise it settles with exactly the configured workers |
| MasterUpgrade | daemon, 1 worker and cache processes, two signals of QUIT, HUP, USR1, USR2, WINCH, a failed fork, a fatal start, a death | old workers retire, a stopping master starts nothing |
| ChannelTables | 3 slots, 6 processes, up to 3 deaths in a pass | the living are reachable |
| Geoip2Cache | 2 databases, 3 variables, colliding and failing addresses | the cache is transparent |
| PgStart | PASSWORD given or not, 4 stops, initdb fails or is killed before or after its bootstrap, fair | a running server is set up, the server comes up |
| Upstream | 2 workers, 2 requests (a POST, a cacheable GET), servers of weight 2 and 1 with a backup, a block with one server, max_conns, max_fails 1, 2 tries, one connection kept per worker and block, fair | connections are counted, weights cancel, a POST is sent once, answers are one's own, requests end |
| FileCache | 2 requests for a key, one of whose workers may be killed; a file of that key and of another on disk; one node, fair | holders are counted, updates have an updater, requests end |
| Subrequests | 6 requests, nested three deep, one in the background, one waited for, three that may block; failures and the client leaving, fair | output in order, references match, nothing outlives the memory, the request is freed |
| Resolver | 2 askers of a name, which may be an alias of another name, of itself or of a malformed one; both types; 3 queries, recursion 1, fair | waiters are listed, the resend timer runs, answers are of one query, askers are told |

Two of the liveness properties name the cases in which the code gives no such promise.
`ConnectionsAreServed` holds unless `MayBeDeaf`: after a failed `epoll_ctl()` a worker may
have no socket registered, and with the mutex a worker that ran out of descriptors sets `ngx_accept_disabled` to 1,
skips its next turn and so waits without a timeout, with its sockets off, until another
event wakes it.
`ServesInTheEnd` holds unless initdb failed, or was killed before its bootstrap was done: the
script takes the directory for a cluster from then on and never repairs it. If it was killed
after that, the server runs and `SetUpIsComplete` holds but for the password: the superuser may
have none, and with `md5` as the only method for the network nobody then gets in from there.

### Disagreements met

Some instances outside the runs above violate a property, and the code disagrees there with
what a document or a message of the program says. The constants that reproduce them are given.

* **Orphans** (`NoOrphans` of `MasterCycle`; `Daemonized`, `Workers = 1`, signals QUIT, HUP, USR2,
  WINCH, four of them): HUP while a new binary runs starts workers without `live = 1`
  (`ngx_process_cycle.c:224`); QUIT then leaves them behind. The sequence is USR2, WINCH, HUP,
  QUIT, the documented way to go back to the old binary.
* **Stale message** (`DeadAreForgotten` of `Channel`; the instance of ChannelTables): a child that
  died is announced with OPEN if another one was respawned before it in the same pass
  (`ngx_process_cycle.c:634`), although the log says "pass close channel" (line 607).
* **Address zero** (`CacheIsTransparent` of `Geoip2`; the address zero among the clients): it
  hits the cache that nothing has filled (`ngx_http_geoip2_module.c:329`).
* **Generated password** (`ShownPasswordWorks` of `PgStart`; one stop, whether or not initdb may
  fail): without PASSWORD a restart logs a password that the cluster does not have. The
  test at `pg/start:6` reads `PWFILE` without its dollar sign and always succeeds; the comment
  at line 34 says "log the postgres user/password".
* **Interrupted initdb** (`PgStart`; `SetUpIsComplete` without its exception for a "bare" cluster): an
  initdb killed between its bootstrap and the setting of the password leaves a cluster that is
  served, whose superuser has no password. No later start sets one.
* **Size of the cache**: that `sh->size` is the sum of the sizes of the nodes does not hold.
  A deletion subtracts before it unlinks (`ngx_http_file_cache.c:1918`) and, if a request took the node
  meanwhile, leaves it with `exists` and its size, which the next update subtracts again.
* **A useless answer**: after "no A or CNAME types in DNS response" (`ngx_resolver.c:2510`) a node
  stays on the resend queue and expects nothing more; who asks meanwhile joins it and times out.

Two more behaviours of `MasterCycle` lie outside the instances that pass and are noted
with their hazards: when no worker could be forked at the start, SIGTERM never ends the
master; and after a failed USR2 every HUP adds workers and retires none. `MasterImage`
has neither failed forks nor USR2, so its properties say nothing about them.

### Bounds

Every bound is a constant with a comment. The behaviours of interest need few actors:
a lost wakeup needs a sleeper, an owner and a third process that slips in; the stale `held` needs two workers; a reload that races a death needs one
worker of each generation, and `MasterImage` has six slots so that two reloads of two
workers fit beside the old ones; the stale message needs two deaths in a pass and a
third process to read it. `ConnectionN` is 8, the smallest table in which an eighth is
one connection, so that overload happens; without the mutex it does not matter.
`QueueSize` holds all messages of a run: a full socket is a hazard of its own, noted in
`PROJECT.json`. In `Upstream` two tries on three servers are enough for a failure, a backup server and
the end of the tries, and one kept connection for it to be reused and to be pushed out;
`FailTimeout` 0 and two ticks of the clock let a server fail and come back. In `FileCache` a zone
of one node is full at once, which is when nodes are deleted under pressure; two requests suffice for a node to be deleted,
taken over or updated under somebody, and a killed one for a lock without owner. In
`Subrequests` depth three has a subrequest whose parent is neither active nor the main request. In
`Resolver` three queries let a second query overtake the first and an alias be followed.
`delay` stops growing above a second, where the code no longer looks at it.
Deadlock is not checked where the system comes to rest when its bounds are used up; the
configurations say so.

### Fairness

`ShMtx`: a process inside the functions, or holding the mutex, goes on (weak fairness of
its steps), the master handles deaths. Nobody has to lock. `AcceptMutex`: the same for an
iteration of the loop; epoll wakes somebody who waits for a socket with a connection;
a timer that is due again and again fires (strong fairness, since `epoll_wait()` may return
for other reasons in between). Nothing is assumed of clients. `MasterCycle`: the master
and its timer (`FairSpec`); `PoliteSpec`, which `MasterImage` uses, adds that a worker
told to quit leaves, because its connections have timeouts. One told to terminate may
ignore it, and then the master kills it.
`PgStart`: the shell goes on to its next command. `Upstream`: a handler runs to its end, and the
timers of connecting, sending and reading fire if nothing else happens; servers need not do
anything. `FileCache`: a request goes on, the timer of one that waits for the lock fires;
neither the manager nor the loader has to run, and a killed worker does nothing.
`Subrequests`: posted requests run before the next event, parts get ready (a request to a server
has timeouts), waits in the cache end, the client reads or times out. `Resolver`: only the timers
of the askers; no server has to answer and the resend timer need not fire.

## Proofs

TLAPS proves the following for all values of the constants that meet the ASSUMEs of the
modules (finite sets, a connection table larger than the listening sockets): any number of
processes, sockets, connections, deaths and errors.

`ShMtxProofs`. The inductive invariant is `OwnershipInv`: the types, and `Ownership`, which
ties the lock word to the program counters: a living process is in its critical section
exactly if the word holds its pid, and a reaped one's pid is not there. `MutualExclusion`
by itself is not inductive, since it does not say what the word holds when the master
compares it. `Mutex` and `Refinement` follow from it. `BooksBalance` goes by the change of
the two cardinalities in `Drift` at each action, with lemmas on a set that gains or loses an
element; only `Crash` upsets the balance. `WakeupsNotLost` uses the balance: a waker that
reads a count of zero or less, while somebody sleeps and nobody has died, finds a post
under way or a semaphore above zero, or else a waiter on its way to the second attempt.

`AcceptMutexProofs`. `TurnInv` adds to `MutexNotLeaked` that a worker in its turn owns the
mutex; `NeverLeaked` and `ExclusiveTurns` follow. `OnlyOwnReleases` is an action
property, with a lemma on what each step does to the lock word. `NeverDeaf` needs `DeafInv`: as long
as no call has failed, a worker without the mutex has no socket registered, nothing ready
and no reason to skip its turn, and one that waits without a timeout holds it.

`ImageProofs`, the geoip2 module. `Transparent` says the cache is never noticed, assuming that no client has
the address zero and that every database has an IPv6 tree. Both assumptions are needed:
TLC refutes it without the first, and with an IPv4-only database the client
::a.b.c.d finds the entry of a.b.c.d although its own lookup would fail. The invariant is
that a non-zero cached address comes with the result of its lookup.

`ImageProofs`, `pg/start`.
`CompleteSetUp` needs `SetUpInv`, which says for every place in the script
what the commands before it have left on the volume. Two lines are not obvious:
that postgresql.conf listens is demanded only of a cluster postgres starts on, since one made
after a stop begins without it; and whatever postgres starts on has that file, as otherwise
the `sed` that changes it would be passed over. It holds for any passwords, given or generated,
any number of stops, and a killed initdb.

`ImageProofs`, the resolver. `Listed`, `TimedResend` and `OneQueryAnswers` hold for any number of askers,
names, aliases and queries. All three come from one invariant, `ResolverInv`, which TLC checked on the states
of the run before it was proved. A handler passes through states that are not states
between steps: it takes a list off a node, frees or moves the node, and tells one asker after the other, each of
whom calls `ngx_resolve_name_done()`, which may free other nodes and delete the timer. `Good(s, pending)` is what
holds of those: the lists are right except for the askers in `pending`, who are off their list and not
told yet. The lemmas `...Good` say how each step of a handler changes `pending`; `AnswerGood` empties it, one
asker at a time, `JoinGood` at once, and `ResolverInv` is `Good(Now, {})`. Besides the lists and queues, `Good` says that
a node that is valid has nobody waiting and has all its answers, of one query (`NodeOK`): this is
why the nodes passed on the way along aliases may go to the queue that expires. The loops of the code are
recursive functions on an interval (`Without`, `Answer`, `AllToExpire`, `AliasPath`); `RecursionExists` shows
that a function with such an equation exists, and `UpTo` is the induction used on it.

`SubrequestsProofs`. `Counted` and `FreedLast` are conjuncts of one invariant, `RefInv`, for every
tree of subrequests. It adds three things: the subrequests that a script has still to come to
are not started (`NotStarted`, which is where "started once" is used); `blocked` is the number of
requests that wait; and once the main request is to be terminated, that handler is alone in
the queue and nothing is under way (`Terminating`). Each lemma `...Rest` treats one kind of change
to the handlers and the count, and the actions are sorted into those. The last reference frees: then
the set of live requests has cardinality zero, so it is empty. The terminate
handler frees regardless of the count; there `Terminating` and the absence of blocked requests do
the work.

`OrderKept` is the same module's third theorem: `OutputInOrder`, for every tree and every script. The
invariant `OrderRest` speaks of the line of requests from the main one down to the active one (`Line`)
and of the place `B[r]` in the output where what a request of the line stands for begins (`Places`). For
the active request, what is sent and what it still keeps is its place and what its script has
come to (`Sent`); for every request above it, the subrequest under way fills its stretch and what is kept
follows it (`Above`); a request whose turn has not come keeps all it has produced (`Aside`). There are three
ways the line changes: the active request comes to a subrequest in its list (`OrderEnters`), ends
(`OrderReturns`), or sends (`OrderSends`); every list may grow at its end (`OrderGrows`). `Flat` is
a recursive function over the tree: `FlatExists` shows by the depth of the subrequests that a function
with its equation exists, which is why `ScriptAssumption` says that the scripts are not circular (a
subrequest is started by one that was there before it), and `FlattenRuns` to `FlattenConcat` derive what
`FlattenSeq` of the community modules computes.

`ChannelProofs`. `Reachable` needs `ChannelInv`. Its core is `AllTold`: for every living process p and every
slot that another process has, the last message about the slot that p has not read yet announces that
process, or there is none and p's table is right. It does not matter what else is announced, and so the
stale command and descriptor in `ch` (see above) do no harm here. `Room` bounds the queues by one message per
process started and one per process reaped; with the hypothesis that a socket holds two messages for
every process no message is lost. Without it `LivingAreReachable` is false, as
`ngx_write_channel()` drops what does not fit.

`UpstreamProofs`. `PostIsSentOnce` and `OwnAnswers` come from `UInv`, for any servers, workers,
requests and any size of the cache. It says, for every place where a request can stand, what is
outstanding on its connection (`UpstreamOK`): nothing before the push, the request itself until its
answer was read, and an incomplete body only if `bodySent` is not set; everything in the cache is clean
(`CacheOK`); and a POST that was sent is still with that server or at its end (`SentOK`). The
lemmas `GoNextStep` and `FinalizeStep` treat the two ends of an attempt once for all actions that reach
them.

`ServersAreGivenBack` and `NoWeightIsLost` come from a second invariant, `NInv`: the types of the
servers, who holds one (`CurOK`), and the two properties themselves. The weights need facts
about the sum of a function over a finite set, which the library defines by a fold: `SumExists` to
`SumPays` derive them, by a smallest set that would be a counterexample (`MinimalSet`), since an
induction theorem with an operator parameter cannot be applied here. `LexMax` shows that there is a best
server at all, so that the CHOOSE in `Best` means something. What is assumed of the configuration is what
the parser ensures: weights are positive, `max_fails` and `max_conns` natural, and no server is in two lists.

`MasterCycleProofs`. `TypeCorrect` has the types and `TableOK`, what an entry of the process table can
say. `StoppingSpawnsNothing` rests on `StopOK`: where the master starts something, it was not told to
stop. `OldRetire` rests on `GenOK`: a process that serves is of the current cycle, except during a
reload, where `just_spawn` tells the new ones. `LeavesNoOrphans` has the hypothesis `NoUpgrade` (the master
is no daemon, as in the image, or is never sent SIGUSR2): TLC refutes it without, by USR2, WINCH, HUP
and QUIT, after which workers run that the master no longer counts as live. Its invariant `LiveOK` says
that a process that has not left is known: "live" is set, or will be before it is looked at.
`NoneTwice` counts claims (`ClaimsOK`): an entry that serves, or will be respawned, is a claim to one of the
configured jobs. It has the further hypothesis that fork() does not fail: an entry whose respawn failed
is respawned later, after a reload has given its job to another one.

`FileCacheProofs`. `CountsAreRight` needs `CInv`: besides the count itself, that free memory is clean, and that
a request deletes only while it waits for memory. The two cardinalities change by one element with each
step that takes or gives back a reference. `UpdatersExist` uses it: the memory of a node that
somebody marked is not given to another key, because its updater is counted. The number of requests
is finite, not bounded.

A set of naturals that is not empty has a least element (`LeastExists`, in six of the modules): the first
subrequest of a list, the first kept connection, the first free entry of a table.

Only model-checked: all liveness properties, which TLAPS cannot treat with fairness. Every safety
invariant and action property of the runs is also a theorem.

## What is left out

Logging, log files and the pid file; memory pools; the data on connections; the listening
sockets in the master; the text of variables. A write through a channel and a signal are
the same event for a child in `MasterCycle`. Time is the order of events: timers fire at any
time after they are set. Memory is sequentially consistent, as the compare-and-set of the
build is a locked instruction.

Of the parts added last: in `Upstream` TLS, upgraded and non-buffered responses, request bodies
passed on while they are read, other balancers, `proxy_next_upstream_timeout`; in `FileCache` Vary, background update,
`min_uses` above 1, aio and the contents of files beyond readable or not; in `Subrequests` post_action, error pages,
pipelined requests and lingering close; in `Resolver` SRV and PTR queries (nothing in the image
makes them: there is no mail module, and SRV records are not used), the choice of the server and the
bytes of messages. That a random identifier of a query is never repeated is an assumption of
`Resolver`; the code has 16 bits for it. A `resolver_timeout` of 0, with which an asker has no timer
and `AskersEnd` cannot hold, is outside, and so is a handler that ends the main request and with it
another waiter of the list that has just been detached: in the model a handler ends only its own.

Some hazards are met outside the instances that pass: an accept that fails for want of
descriptors under the mutex, forks that fail at the start or during a respawn, a full process
table, a full channel, the address zero. No property is listed with them; their notes say
what happens there.

## Plan

1. More of the system: `ngx_http_get_forwarded_addr()` as a function against a reference
   definition, and its composition with `Geoip2`; the read-write lock under `Peers`; the
   connection table with reusable connections and the instance bit; failed spawns in `Channel`; the
   sequence WINCH, HUP, death of a new binary in `MasterCycle`; the slab allocator under
   `FileCache`; timers with wrap-around; limit_req and limit_conn; the open file cache; the start
   scripts of icecast, bind, memcached and apt-mirror; the CI workflows.
2. More proofs: none is open for the runs there are; what is added under 1 needs its own.
