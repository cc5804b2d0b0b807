------------------------------- MODULE Peers -------------------------------
(***************************************************************************)
(* The round robin balancer of ngx_http_upstream_round_robin.c: the state  *)
(* of the servers of an upstream block, which all workers share when the   *)
(* block has a zone, and what getting and freeing a server does to it.     *)
(* Both run under the lock of the zone (ngx_rwlock.c): getting writes      *)
(* under the lock of all servers, freeing under a read lock of them and    *)
(* the lock of the one server.  Each is therefore one step here.           *)
(***************************************************************************)
EXTENDS Integers, FiniteSets, Sequences, Functions

CONSTANTS
    Block,       \* upstream { } blocks
    Primary,     \* per block: the sequence of its servers
    Backup,      \* per block: the sequence of its backup servers
    Weight,      \* per server
    MaxFails,    \* per server, 0: failures are not counted
    MaxConns,    \* per server, 0: no limit
    Down,        \* the servers marked down
    FailTimeout, \* in seconds
    MaxTime      \* bound: the time at which the clock stops

Servers(b) == Range(Primary[b]) \cup Range(Backup[b])
Peer == UNION {Servers(b) : b \in Block}

ASSUME ServersAssumption ==
    /\ \A b \in Block : /\ Primary[b] \in Seq(Range(Primary[b])) /\ Len(Primary[b]) > 0
                       /\ Backup[b] \in Seq(Range(Backup[b]))
                       /\ IsInjective(Primary[b] \o Backup[b])
    /\ \A b, c \in Block : b # c => Servers(b) \cap Servers(c) = {}
    /\ \A p \in Peer : Weight[p] \in Nat \ {0} /\ MaxFails[p] \in Nat /\ MaxConns[p] \in Nat

VARIABLES
    peer,  \* per server: conns, fails, accessed, checked, eff (effective_weight)
           \* and cw (current_weight)
    now    \* ngx_time(); every server was last checked long ago at the start

\* ngx_http_upstream_init_round_robin(): peers->single
Single(b) == Len(Primary[b]) = 1 /\ Backup[b] = <<>>

\* ngx_http_upstream_tries(): the number of attempts a request begins with
Tries(b) == Len(Primary[b]) + Len(Backup[b])

PeersInit ==
    /\ peer = [p \in Peer |-> [conns |-> 0, fails |-> 0, accessed |-> 0, checked |-> 0,
                               eff |-> Weight[p], cw |-> 0]]
    /\ now = FailTimeout + 1

Tick ==
    /\ now < MaxTime
    /\ now' = now + 1
    /\ UNCHANGED peer

-----------------------------------------------------------------------------
Full(p) == MaxConns[p] > 0 /\ peer[p].conns >= MaxConns[p]

\* Enough failures, and the last one is not long enough ago.
Disabled(p) ==
    /\ MaxFails[p] > 0
    /\ peer[p].fails >= MaxFails[p]
    /\ now - peer[p].checked <= FailTimeout

\* The servers of a sequence that ngx_http_upstream_get_peer() takes into account.
Eligible(servers, tried) ==
    {p \in Range(servers) \ tried : p \notin Down /\ ~Disabled(p) /\ ~Full(p)}

Index(servers, p) == CHOOSE i \in 1..Len(servers) : servers[i] = p

\* The server with the largest current weight, the first one of several.
Best(servers, tried) ==
    CHOOSE p \in Eligible(servers, tried) :
        \A q \in Eligible(servers, tried) :
            LET wp == peer[p].cw + peer[p].eff
                wq == peer[q].cw + peer[q].eff
            IN  wp > wq \/ (wp = wq /\ Index(servers, p) <= Index(servers, q))

\* Wrong on purpose: the total is made of the weights that have grown already.
Pick_LateTotal(servers, tried) ==
    LET E == Eligible(servers, tried)
        best == Best(servers, tried)
        Grown(p) == IF peer[p].eff < Weight[p] THEN peer[p].eff + 1 ELSE peer[p].eff
        total == SumFunction([p \in E |-> Grown(p)])
    IN  [p \in Peer |->
            IF p \notin E THEN peer[p]
            ELSE [peer[p] EXCEPT
                    !.eff = Grown(p),
                    !.cw = @ + peer[p].eff - (IF p = best THEN total ELSE 0),
                    !.checked = IF p = best /\ now - @ > FailTimeout THEN now ELSE @,
                    !.conns = IF p = best THEN @ + 1 ELSE @]]

\* Every eligible server gains its effective weight, the best one pays for all;
\* it is due for its next check, and has a connection more.
Pick(servers, tried) ==
    LET E == Eligible(servers, tried)
        best == Best(servers, tried)
        total == SumFunction([p \in E |-> peer[p].eff])
    IN  [p \in Peer |->
            IF p \notin E THEN peer[p]
            ELSE [peer[p] EXCEPT
                    !.eff = IF @ < Weight[p] THEN @ + 1 ELSE @,
                    !.cw = @ + peer[p].eff - (IF p = best THEN total ELSE 0),
                    !.checked = IF p = best /\ now - @ > FailTimeout THEN now ELSE @,
                    !.conns = IF p = best THEN @ + 1 ELSE @]]

\* The only server of a block: neither failures nor weights count.
PickSingle(p) == [peer EXCEPT ![p].conns = @ + 1]

\* ngx_http_upstream_free_round_robin_peer()
Free(b, p, failed) ==
    IF Single(b) THEN [peer EXCEPT ![p].conns = @ - 1]
    ELSE IF failed
    THEN LET less == IF MaxFails[p] > 0 THEN peer[p].eff - (Weight[p] \div MaxFails[p])
                                        ELSE peer[p].eff
         IN  [peer EXCEPT ![p].fails = @ + 1,
                          ![p].accessed = now,
                          ![p].checked = now,
                          ![p].eff = IF less < 0 THEN 0 ELSE less,
                          ![p].conns = @ - 1]
    ELSE [peer EXCEPT ![p].fails = IF peer[p].accessed < peer[p].checked THEN 0 ELSE @,
                      ![p].conns = @ - 1]
=============================================================================
