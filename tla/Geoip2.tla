------------------------------- MODULE Geoip2 -------------------------------
(***************************************************************************)
(* ngx_http_geoip2_module: the handler of its variables, which looks the   *)
(* address of a client up in a MaxMind database.  All the variables of a   *)
(* database share one cache of one entry, in every worker process: the     *)
(* last address and the result of its lookup.                              *)
(*                                                                         *)
(* An address is its family and the number that its 16 bytes make: the     *)
(* IPv4 address a.b.c.d and the IPv6 address ::a.b.c.d have the same       *)
(* bytes.  Which of the peer's and the X-Forwarded-For addresses is looked *)
(* up is decided by the http core and left open here.                      *)
(***************************************************************************)
EXTENDS Naturals, FiniteSets

CONSTANTS
    V4, V6,     \* the IPv4 and the IPv6 addresses that occur
    Database,   \* the databases
    Var,        \* the variables
    Of,         \* Of[v]: the database that variable v belongs to
    Known,      \* Known[d]: the addresses database d has an entry for
    Has,        \* Has[v]: those whose entry has what variable v asks for
    Bad,        \* the addresses whose lookup fails (a corrupt search tree)
    Tree6       \* Tree6[d]: d holds an IPv6 tree, not an IPv4 tree only

ASSUME AddressAssumption == V4 \subseteq Nat /\ V6 \subseteq Nat
ASSUME DataAssumption ==
    /\ Of \in [Var -> Database]
    /\ Known \in [Database -> SUBSET Nat]
    /\ Has \in [Var -> SUBSET Nat] /\ \A v \in Var : Has[v] \subseteq Known[Of[v]]
    /\ Bad \subseteq Nat
    /\ Tree6 \in [Database -> BOOLEAN]

VARIABLES
    address,  \* database->address
    result,   \* database->result: the entry that was found, or none; before
              \* the first lookup, whatever the memory held
    reply     \* the request served last, if any, and the value it was given

geoVars == <<address, result, reply>>

Client == [family : {"inet"}, n : V4] \cup [family : {"inet6"}, n : V6]
             \cup {[family |-> "unix", n |-> 0]}
HasBytes(a) == a.family \in {"inet", "inet6"}

NotFound == [found |-> FALSE, entry |-> 0]
Found(n) == [found |-> TRUE, entry |-> n]
AllKnown == UNION {Known[d] : d \in Database}

\* MMDB_lookup_sockaddr()
LookupFails(d, a) == a.n \in Bad \/ (a.family = "inet6" /\ ~Tree6[d])
Lookup(d, a) == IF ~LookupFails(d, a) /\ a.n \in Known[d] THEN Found(a.n) ELSE NotFound

\* ngx_http_geoip2(): the address is zeroed and the result left as it is.
GeoInit ==
    /\ address = [d \in Database |-> 0]
    /\ result \in [Database -> {NotFound} \cup {Found(n) : n \in AllKnown}]
    /\ reply = {}

-----------------------------------------------------------------------------
\* MMDB_aget_value(): the entry that variable v takes its value from, or none;
\* then it has its default value.
Value(v, res) == IF res.found /\ res.entry \in Has[v] THEN {res.entry} ELSE {}

Reply(a, v, value) == reply' = {[client |-> a, var |-> v, value |-> value]}

\* A client without an IP address
Unknown(a, v) ==
    /\ ~HasBytes(a)
    /\ Reply(a, v, {})
    /\ UNCHANGED <<address, result>>

\* The address is the one looked up last.
Cached(a, v) ==
    /\ HasBytes(a)
    /\ a.n = address[Of[v]]
    /\ Reply(a, v, Value(v, result[Of[v]]))
    /\ UNCHANGED <<address, result>>

\* Wrong on purpose: the address is stored only after a lookup that succeeds.
Uncached_StoreLate(a, v) ==
    LET d == Of[v]
    IN  /\ HasBytes(a)
        /\ a.n # address[d]
        /\ address' = IF LookupFails(d, a) THEN address ELSE [address EXCEPT ![d] = a.n]
        /\ result' = [result EXCEPT ![d] = Lookup(d, a)]
        /\ Reply(a, v, Value(v, Lookup(d, a)))

\* It is not.  A lookup that fails replaces the cached entry all the same.
Uncached(a, v) ==
    LET d == Of[v]
    IN  /\ HasBytes(a)
        /\ a.n # address[d]
        /\ address' = [address EXCEPT ![d] = a.n]
        /\ result' = [result EXCEPT ![d] = Lookup(d, a)]
        /\ Reply(a, v, Value(v, Lookup(d, a)))

GeoNext == \E a \in Client, v \in Var : Unknown(a, v) \/ Cached(a, v) \/ Uncached(a, v)

GeoSpec == GeoInit /\ [][GeoNext]_geoVars

-----------------------------------------------------------------------------
\* Properties

\* What a request would get if nothing were cached.
Fresh(a, v) == IF HasBytes(a) THEN Value(v, Lookup(Of[v], a)) ELSE {}

\* The cache is not noticed: every variable of every request has the value
\* that the database holds for the address of that request, whatever was
\* asked for before, by whom, and whether it failed.
CacheIsTransparent == \A r \in reply : r.value = Fresh(r.client, r.var)
=============================================================================
