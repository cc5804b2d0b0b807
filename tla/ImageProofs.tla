---------------------------- MODULE ImageProofs ----------------------------
(***************************************************************************)
(* Three parts of the images, each on its own: the variables of the geoip2 *)
(* module, pg/start, and the resolver of an nginx worker.                  *)
(***************************************************************************)
EXTENDS Geoip2, PgStart, Resolver, FiniteSetTheorems, SequenceTheorems, WellFoundedInduction, TLAPS

-----------------------------------------------------------------------------
(* The cache of the geoip2 module is transparent for every set of databases, *)
(* variables and addresses, under two conditions that are needed: no client  *)
(* has the address 0, and every database has an IPv6 tree.                   *)

\* The cached result is that of the cached address, except before the first
\* lookup, when the address is 0.
CacheOK ==
    \A d \in Database : address[d] # 0 =>
        \A a \in Client : HasBytes(a) /\ a.n = address[d] => result[d] = Lookup(d, a)

\* Both parts of the cache are functions on the databases.
Typed == address \in [Database -> Nat] /\ result = [d \in Database |-> result[d]]

Inv == Typed /\ CacheOK /\ CacheIsTransparent

\* With IPv6 trees only, the result of a lookup depends on nothing but the
\* bytes of the address: those of the two families that share them agree.
LEMMA SameBytes ==
    ASSUME \A d \in Database : Tree6[d],
           NEW d \in Database, NEW a \in Client, NEW b \in Client, a.n = b.n
    PROVE  Lookup(d, a) = Lookup(d, b)
BY DEF Lookup, LookupFails

\* A client with an IP address has a number that is not 0.
LEMMA ClientNumber ==
    ASSUME 0 \notin V4 \cup V6, NEW a \in Client, HasBytes(a)
    PROVE  a.n \in Nat /\ a.n # 0
<1>1. a.family # "unix"
  BY DEF HasBytes
<1>2. a \in [family : {"inet"}, n : V4] \/ a \in [family : {"inet6"}, n : V6]
  BY <1>1 DEF Client
<1>3. a.n \in V4 \cup V6
  BY <1>2
<1> QED
  BY <1>3, AddressAssumption

\* ngx_http_geoip2_variable() returns for every request the value that a
\* lookup of its own would have found: neither another request, nor another
\* variable, nor a failed lookup is noticed.
THEOREM Transparent ==
    ASSUME 0 \notin V4 \cup V6, \A d \in Database : Tree6[d]
    PROVE  GeoSpec => []CacheIsTransparent
<1>1. GeoInit => Inv
  BY DEF GeoInit, Inv, Typed, CacheOK, CacheIsTransparent
<1>2. Inv /\ [GeoNext]_geoVars => Inv'
  <2> SUFFICES ASSUME Inv, [GeoNext]_geoVars PROVE Inv'
    OBVIOUS
  <2>1. CASE UNCHANGED geoVars
    BY <2>1 DEF Inv, Typed, CacheOK, CacheIsTransparent, geoVars
  <2>2. ASSUME NEW a \in Client, NEW v \in Var, Unknown(a, v) PROVE Inv'
    BY <2>2 DEF Inv, Typed, CacheOK, CacheIsTransparent, Unknown, Reply, Fresh
  <2>3. ASSUME NEW a \in Client, NEW v \in Var, Cached(a, v) PROVE Inv'
    <3>1. Of[v] \in Database
      BY DataAssumption
    <3>2. result[Of[v]] = Lookup(Of[v], a)
      BY <2>3, <3>1, ClientNumber DEF Inv, CacheOK, Cached
    <3> QED
      BY <2>3, <3>2 DEF Inv, Typed, CacheOK, CacheIsTransparent, Cached, Reply, Fresh
  <2>4. ASSUME NEW a \in Client, NEW v \in Var, Uncached(a, v) PROVE Inv'
    <3>1. Of[v] \in Database /\ a.n \in Nat
      BY <2>4, DataAssumption, ClientNumber DEF Uncached
    <3>2. Typed'
      BY <2>4, <3>1 DEF Inv, Typed, Uncached
    <3>3. CacheOK'
      <4> SUFFICES ASSUME NEW d \in Database, NEW b \in Client, HasBytes(b),
                          address'[d] # 0, b.n = address'[d]
                   PROVE  result'[d] = Lookup(d, b)
        BY DEF CacheOK
      <4>1. CASE d = Of[v]
        <5>1. b.n = a.n /\ result'[d] = Lookup(d, a)
          BY <2>4, <3>1, <4>1 DEF Uncached, Inv, Typed
        <5> QED
          BY <5>1, SameBytes
      <4>2. CASE d # Of[v]
        <5>1. address'[d] = address[d] /\ result'[d] = result[d]
          BY <2>4, <3>1, <4>2 DEF Uncached, Inv, Typed
        <5> QED
          BY <5>1 DEF Inv, CacheOK
      <4> QED
        BY <4>1, <4>2
    <3>4. CacheIsTransparent'
      BY <2>4 DEF Uncached, Reply, Fresh, CacheIsTransparent
    <3> QED
      BY <3>2, <3>3, <3>4 DEF Inv
  <2> QED
    BY <2>1, <2>2, <2>3, <2>4 DEF GeoNext
<1>3. Inv => CacheIsTransparent
  BY DEF Inv
<1> QED
  BY <1>1, <1>2, <1>3, PTL DEF GeoSpec

-----------------------------------------------------------------------------
(* What pg/start leaves a server with, for any number of stops and any set   *)
(* of passwords, given or generated, whether or not initdb fails or is       *)
(* killed.                                                                   *)

\* The commands that run after "initdb" and before the one named here have been
\* done on this start; what they do is not undone by a stop, but a cluster that
\* is made after a stop begins without it.  Whatever postgres starts on has a
\* postgresql.conf, so that the command which changes it is not passed over.
SetUpInv ==
    /\ pc = "initdb" => pwfile \in Password
    /\ env \in Password \cup {NoPassword}
    /\ cluster = "made" => superuser \in Password
    /\ cluster \in {"made", "bare"} => conf # "absent"
    /\ cluster \in {"made", "bare"} /\ pc \in {"hba", "hba2", "show", "exec", "serving"}
          => conf = "listens"
    /\ pc \in {"show", "exec", "serving"} => hba = "md5"
    /\ pc = "serving" => cluster \in {"made", "bare"}

LEMMA SetUpInit == PgInit => SetUpInv
BY DEF PgInit, SetUpInv

LEMMA SetUpStep == SetUpInv /\ [PgNext]_pgVars => SetUpInv'
<1> SUFFICES ASSUME SetUpInv, [PgNext]_pgVars PROVE SetUpInv'
  OBVIOUS
<1> USE DEF SetUpInv
<1>1. CASE MkDir
  BY <1>1 DEF MkDir
<1>2. CASE Install
  BY <1>2 DEF Install
<1>3. CASE NewPassword
  BY <1>3 DEF NewPassword
<1>4. CASE Initdb
  BY <1>4 DEF Initdb, Interrupted
<1>5. CASE Listen
  BY <1>5 DEF Listen
<1>6. CASE Hba \/ Hba2
  BY <1>6 DEF Hba, Hba2
<1>7. CASE Show \/ Exec
  BY <1>7 DEF Show, Exec
<1>8. CASE Kill
  BY <1>8 DEF Kill, Interrupted
<1>9. CASE UNCHANGED pgVars
  BY <1>9 DEF pgVars
<1> QED
  BY <1>1, <1>2, <1>3, <1>4, <1>5, <1>6, <1>7, <1>8, <1>9 DEF PgNext, Script

\* However often and wherever the script or initdb is stopped, and whether or
\* not initdb succeeds, a server that runs listens and asks for a password, and
\* has one unless its initdb was killed before it set it.
THEOREM CompleteSetUp == PgSpec => []SetUpIsComplete
<1>1. SetUpInv => SetUpIsComplete
  BY DEF SetUpInv, SetUpIsComplete
<1> QED
  BY <1>1, SetUpInit, SetUpStep, PTL DEF PgSpec

-----------------------------------------------------------------------------
(* The resolver, for any names, askers, aliases and number of queries.  A    *)
(* handler passes through states that no step shows: Good(s, pending) is     *)
(* what holds of them, "pending" those whom it has taken off a list and has  *)
(* not told yet.  Between the handlers nobody is pending.                    *)

\* The askers and the nodes.
CtxRec == [state : {"new", "again", "timedout", "cancelled", "ok", "failed", "error"},
           node : Name \cup {NoName}, event : BOOLEAN, recursion : Nat,
           answer : {<<>>} \cup [Type -> Int]]

NodeRec == [waiting : Seq(Ctx), query : Nat, addrs : [Type -> Int], tcp : SUBSET Type,
            code : BOOLEAN, cname : Name \cup {NoName}, valid : BOOLEAN]

\* The states that a handler passes through.
State == [ctx : [Ctx -> CtxRec], tree : SUBSET Name, node : [Name -> NodeRec],
          resend : Seq(Name), expire : Seq(Name), old : SUBSET Name, timer : BOOLEAN,
          asked : Seq(Name)]

Unique(seq) == \A i, j \in DOMAIN seq : seq[i] = seq[j] => i = j

\* A node is on one of the two queues, once.
Queues(s) ==
    /\ Unique(s.resend) /\ Unique(s.expire)
    /\ Range(s.resend) \cap Range(s.expire) = {}
    /\ Range(s.resend) \cup Range(s.expire) = s.tree

\* Those in the list of n are those who wait for n, but for those in "pending",
\* whom a handler has taken off the list and is about to tell.
ListOf(s, pending, n) ==
    /\ Unique(s.node[n].waiting)
    /\ \A q \in Ctx : q \in Range(s.node[n].waiting)
                         <=> q \notin pending /\ s.ctx[q].state = "again" /\ s.ctx[q].node = n
    /\ s.node[n].waiting # <<>> => n \in Range(s.resend)

Lists(s, pending) == \A n \in Name : ListOf(s, pending, n)

Timers(s) ==
    /\ \A q \in Ctx : s.ctx[q].state = "again" => s.ctx[q].event
    /\ s.resend # <<>> => s.timer

\* The addresses are those of one query.
OneQuery(addrs) == \E v \in Int : \A t \in Type : addrs[t] \in {Empty, v}

NodeOK(rn) ==
    /\ rn.valid => /\ rn.waiting = <<>>
                   /\ \A t \in Type : rn.addrs[t] # Unanswered
                   /\ OneQuery(rn.addrs)
                   /\ HasAddrs(rn) \/ rn.cname \in Name
    /\ rn.query # 0 => \A t \in Type : rn.addrs[t] \in {Unanswered, Empty, rn.query}

\* What was given to an asker.
TellOK(c) ==
    c.state = "ok" => /\ c.answer \in [Type -> Int]
                      /\ \E t \in Type : c.answer[t] # Empty
                      /\ OneQuery(c.answer)

Good(s, pending) ==
    /\ s \in State
    /\ Queues(s)
    /\ Lists(s, pending)
    /\ Timers(s)
    /\ \A n \in Name : NodeOK(s.node[n])
    /\ \A q \in Ctx : TellOK(s.ctx[q])

ResolverInv == Good(Now, {})

-----------------------------------------------------------------------------
(* Recursive definitions and induction over an interval. *)

\* A set of natural numbers that is not empty has a least element.
LEMMA LeastExists ==
  ASSUME NEW S \in SUBSET Nat, S # {}
  PROVE  \E j \in S : \A k \in S : j <= k
<1>1. \E j \in S : \A k \in S : ~(<<k, j>> \in OpToRel(<, Nat))
  BY WFMin, NatLessThanWellFounded, Zenon
<1>2. ASSUME NEW j \in Nat, NEW k \in Nat, ~(<<k, j>> \in OpToRel(<, Nat))
      PROVE  j <= k
  <2>1. ~(k < j)
    BY <1>2, Zenon DEF OpToRel
  <2> QED
    BY <2>1
<1> QED
  BY <1>1, <1>2

\* A set that has 0, and k with k - 1, has all numbers up to N.
LEMMA UpTo ==
  ASSUME NEW N \in Nat, NEW S, 0 \in S, \A k \in 1 .. N : k - 1 \in S => k \in S
  PROVE  N \in S /\ \A k \in 0 .. N : k \in S
<1> DEFINE T == {k \in 0 .. N : k \notin S}
<1> SUFFICES ASSUME T # {} PROVE FALSE
  OBVIOUS
<1>1. T \in SUBSET Nat
  OBVIOUS
<1>2. PICK j \in T : \A k \in T : j <= k
  <2> HIDE DEF T
  <2> QED
    BY <1>1, LeastExists
<1>3. j \in 1 .. N /\ j - 1 \in 0 .. N
  BY <1>2
<1>4. j - 1 \notin T
  <2> HIDE DEF T
  <2> QED
    BY <1>1, <1>2
<1> QED
  BY <1>2, <1>3, <1>4

\* f is defined by recursion: F[k] makes its value at k of that at k - 1.
Recursive(f, x, N, F) == f = [k \in 0 .. N |-> IF k = 0 THEN x ELSE F[k][f[k - 1]]]

\* Such a function exists, so that the definition says what it seems to say.
LEMMA RecursionExists ==
  ASSUME NEW X, NEW x \in X, NEW N \in Nat, NEW F \in [1 .. N -> [X -> X]]
  PROVE  \E f \in [0 .. N -> X] : Recursive(f, x, N, F)
<1> DEFINE Good0(f, m) == f[0] = x /\ \A k \in 1 .. m : f[k] = F[k][f[k - 1]]
           S == {m \in 0 .. N : \E f \in [0 .. N -> X] : Good0(f, m)}
<1>1. 0 \in S
  <2> DEFINE f == [k \in 0 .. N |-> x]
  <2>1. f \in [0 .. N -> X] /\ Good0(f, 0)
    OBVIOUS
  <2> HIDE DEF f, Good0
  <2> QED
    BY <2>1
<1>2. ASSUME NEW m \in 1 .. N, m - 1 \in S PROVE m \in S
  <2>1. PICK g \in [0 .. N -> X] : Good0(g, m - 1)
    BY <1>2
  <2> DEFINE f == [g EXCEPT ![m] = F[m][g[m - 1]]]
  <2>2. F[m] \in [X -> X] /\ g[m - 1] \in X
    OBVIOUS
  <2>3. f \in [0 .. N -> X]
    BY <2>2
  <2>4. f[0] = x
    BY <2>1
  <2>5. ASSUME NEW k \in 1 .. m PROVE f[k] = F[k][f[k - 1]]
    <3>1. CASE k = m
      BY <3>1
    <3>2. CASE k # m
      <4>1. k \in 1 .. (m - 1) /\ k \in 0 .. N /\ k - 1 \in 0 .. N /\ k - 1 # m
        BY <3>2
      <4>2. g[k] = F[k][g[k - 1]]
        BY <2>1, <4>1
      <4>3. f[k] = g[k] /\ f[k - 1] = g[k - 1]
        BY <3>2, <4>1
      <4> QED
        BY <4>2, <4>3
    <3> QED
      BY <3>1, <3>2
  <2>6. Good0(f, m)
    BY <2>4, <2>5
  <2> HIDE DEF f, Good0
  <2> QED
    BY <2>3, <2>6
<1>3. N \in S
  <2> HIDE DEF S
  <2>1. \A m \in 1 .. N : m - 1 \in S => m \in S
    BY <1>2
  <2> QED
    BY <1>1, <2>1, UpTo, Zenon
<1>4. PICK f \in [0 .. N -> X] : Good0(f, N)
  BY <1>3
<1>5. ASSUME NEW k \in 0 .. N PROVE f[k] = IF k = 0 THEN x ELSE F[k][f[k - 1]]
  BY <1>4
<1>6. f = [k \in 0 .. N |-> IF k = 0 THEN x ELSE F[k][f[k - 1]]]
  BY <1>5
<1> QED
  BY <1>6 DEF Recursive

-----------------------------------------------------------------------------
(* Lists without some of their members. *)

Remaining(T, queue, S, w) ==
    /\ w \in Seq(T)
    /\ Range(w) = Range(queue) \ S
    /\ Unique(queue) => Unique(w)

\* Without() leaves the members that are not in S.
LEMMA WithoutRemains ==
  ASSUME NEW T, NEW queue \in Seq(T), NEW S
  PROVE  Remaining(T, queue, S, Without(queue, S))
<1> DEFINE N == Len(queue)
           F == [k \in 1 .. N |-> [w \in Seq(T) |->
                    IF queue[k] \in S THEN w ELSE Append(w, queue[k])]]
           kept == CHOOSE f : f = [k \in 0 .. N |->
                    IF k = 0 THEN <<>>
                    ELSE IF queue[k] \in S THEN f[k - 1] ELSE Append(f[k - 1], queue[k])]
<1>1. N \in Nat /\ DOMAIN queue = 1 .. N /\ \A k \in 1 .. N : queue[k] \in T
  BY LenProperties, ElementOfSeq
<1>2. F \in [1 .. N -> [Seq(T) -> Seq(T)]]
  BY <1>1, AppendProperties
<1>3. \E f \in [0 .. N -> Seq(T)] : Recursive(f, <<>>, N, F)
  <2>1. <<>> \in Seq(T)
    BY EmptySeq
  <2> HIDE DEF F, N
  <2> QED
    BY <1>1, <1>2, <2>1, RecursionExists
<1>4. PICK f \in [0 .. N -> Seq(T)] : Recursive(f, <<>>, N, F)
  BY <1>3
<1>5. ASSUME NEW k \in 1 .. N
      PROVE  f[k] = IF queue[k] \in S THEN f[k - 1] ELSE Append(f[k - 1], queue[k])
  <2>1. k \in 0 .. N /\ k # 0 /\ f[k - 1] \in Seq(T)
    <3> HIDE DEF N, F
    <3>1. k - 1 \in 0 .. N
      BY <1>1
    <3> QED
      BY <1>1, <1>4, <3>1
  <2>2. f[k] = F[k][f[k - 1]]
    BY <1>4, <2>1 DEF Recursive
  <2> QED
    BY <2>1, <2>2
<1>6. f[0] = <<>>
  BY <1>1, <1>4 DEF Recursive
<1>7. f = [k \in 0 .. N |->
             IF k = 0 THEN <<>>
             ELSE IF queue[k] \in S THEN f[k - 1] ELSE Append(f[k - 1], queue[k])]
  <2> HIDE DEF N
  <2>1. ASSUME NEW k \in 0 .. N
        PROVE  f[k] = IF k = 0 THEN <<>>
                      ELSE IF queue[k] \in S THEN f[k - 1] ELSE Append(f[k - 1], queue[k])
    <3>1. CASE k = 0
      BY <1>6, <3>1
    <3>2. CASE k # 0
      <4>1. k \in 1 .. N
        BY <1>1, <3>2
      <4> QED
        BY <1>5, <3>2, <4>1
    <3> QED
      BY <3>1, <3>2
  <2> QED
    BY <1>4, <2>1
<1>8. kept = [k \in 0 .. N |->
             IF k = 0 THEN <<>>
             ELSE IF queue[k] \in S THEN kept[k - 1] ELSE Append(kept[k - 1], queue[k])]
  BY <1>7
<1>9. Without(queue, S) = kept[N]
  BY DEF Without
<1>10. ASSUME NEW k \in 0 .. N PROVE kept[k] = f[k]
  <2> DEFINE E == {j \in 0 .. N : kept[j] = f[j]}
  <2>1. 0 \in E
    <3> HIDE DEF kept, N
    <3>1. 0 \in 0 .. N
      BY <1>1
    <3>2. kept[0] = <<>>
      BY <1>8, <3>1
    <3> QED
      BY <1>6, <3>1, <3>2
  <2>2. ASSUME NEW j \in 1 .. N, j - 1 \in E PROVE j \in E
    <3>1. j \in 0 .. N /\ j # 0 /\ kept[j - 1] = f[j - 1]
      BY <1>1, <2>2
    <3> HIDE DEF kept, N
    <3>2. kept[j] = IF queue[j] \in S THEN kept[j - 1] ELSE Append(kept[j - 1], queue[j])
      BY <1>8, <3>1
    <3> QED
      BY <1>5, <2>2, <3>1, <3>2
  <2>3. \A j \in 0 .. N : j \in E
    <3> HIDE DEF E, N
    <3> QED
      <4>1. \A j \in 1 .. N : j - 1 \in E => j \in E
        BY <2>2
      <4> QED
        BY <1>1, <2>1, <4>1, UpTo, Zenon
  <2> QED
    BY <2>3
<1> DEFINE Done(k) ==
              /\ Range(f[k]) = {queue[j] : j \in 1 .. k} \ S
              /\ Unique(queue) => Unique(f[k])
           D == {k \in 0 .. N : Done(k)}
<1> HIDE DEF F, kept, N
<1>11. 0 \in D
  <2>1. Range(f[0]) = {} /\ Unique(f[0])
    BY <1>6 DEF Range, Unique
  <2>2. {queue[j] : j \in 1 .. 0} = {}
    OBVIOUS
  <2> QED
    BY <1>1, <2>1, <2>2
<1>12. ASSUME NEW k \in 1 .. N, k - 1 \in D PROVE k \in D
  <2>1. k \in 0 .. N /\ k - 1 \in 0 .. N /\ Done(k - 1)
    <3>1. k \in 0 .. N /\ k - 1 \in 0 .. N
      BY <1>1
    <3> QED
      BY <1>12, <3>1, Zenon
  <2>2. {queue[j] : j \in 1 .. k} = {queue[j] : j \in 1 .. (k - 1)} \cup {queue[k]}
    BY <1>1
  <2>3. CASE queue[k] \in S
    <3>1. f[k] = f[k - 1]
      BY <1>5, <2>3
    <3> QED
      BY <2>1, <2>2, <2>3, <3>1
  <2>4. CASE queue[k] \notin S
    <3> DEFINE w == f[k - 1]
    <3>1. w \in Seq(T) /\ f[k] = Append(w, queue[k])
      BY <1>4, <1>5, <2>1, <2>4
    <3>2. /\ Len(w) \in Nat /\ DOMAIN w = 1 .. Len(w) /\ DOMAIN f[k] = 1 .. (Len(w) + 1)
          /\ \A i \in 1 .. Len(w) : f[k][i] = w[i]
          /\ f[k][Len(w) + 1] = queue[k]
      BY <1>1, <3>1, AppendProperties, LenProperties
    <3> HIDE DEF w
    <3>3. Range(f[k]) = Range(w) \cup {queue[k]}
      BY <3>2 DEF Range
    <3>4. ASSUME Unique(queue) PROVE Unique(f[k])
      <4>1. Unique(w)
        BY <2>1, <3>4 DEF w
      <4>2. queue[k] \notin Range(w)
        <5>1. \A j \in 1 .. (k - 1) : queue[j] # queue[k]
          <6>1. ASSUME NEW j \in 1 .. (k - 1) PROVE queue[j] # queue[k]
            <7>1. j \in 1 .. N /\ j # k
              BY <1>1
            <7> QED
              BY <1>1, <3>4, <7>1, Zenon DEF Unique
          <6> QED
            BY <6>1
        <5> QED
          BY <2>1, <5>1 DEF w
      <4> QED
        BY <3>2, <4>1, <4>2 DEF Unique, Range
    <3>5. Range(f[k]) = {queue[j] : j \in 1 .. k} \ S
      BY <2>1, <2>2, <2>4, <3>3 DEF w
    <3> QED
      BY <2>1, <3>4, <3>5
  <2> QED
    BY <2>3, <2>4
<1>13. N \in D
  <2> HIDE DEF D
  <2> QED
    <3>1. \A k \in 1 .. N : k - 1 \in D => k \in D
      BY <1>12
    <3> QED
      BY <1>1, <1>11, <3>1, UpTo, Zenon
<1>14. {queue[j] : j \in 1 .. N} = Range(queue)
  BY <1>1 DEF Range
<1>15. Without(queue, S) = f[N] /\ f[N] \in Seq(T)
  BY <1>1, <1>4, <1>9, <1>10
<1> QED
  BY <1>13, <1>14, <1>15 DEF Remaining

-----------------------------------------------------------------------------
(* What the steps of the handlers do to the parts of a state. *)

\* The parts of a state.
LEMMA StateFields ==
  ASSUME NEW s \in State
  PROVE  /\ s.ctx \in [Ctx -> CtxRec] /\ s.tree \in SUBSET Name /\ s.node \in [Name -> NodeRec]
         /\ s.resend \in Seq(Name) /\ s.expire \in Seq(Name) /\ s.old \in SUBSET Name
         /\ s.timer \in BOOLEAN /\ s.asked \in Seq(Name)
BY DEF State

\* A freed node is a good one.
LEMMA NoNodeType == NoNode \in NodeRec /\ NodeOK(NoNode)
<1>1. [t \in Type |-> Unanswered] \in [Type -> Int]
  BY DEF Unanswered
<1>2. <<>> \in Seq(Ctx) /\ {} \in SUBSET Type
  BY EmptySeq
<1> QED
  BY <1>1, <1>2 DEF NoNode, NodeRec, NodeOK

Freed(s, S, r) ==
    /\ r \in State
    /\ r.ctx = s.ctx /\ r.tree = s.tree \ S
    /\ r.node = [n \in Name |-> IF n \in S THEN NoNode ELSE s.node[n]]
    /\ r.resend = Without(s.resend, S) /\ r.expire = Without(s.expire, S)
    /\ r.old = s.old \ S /\ r.timer = s.timer /\ r.asked = s.asked

\* FreeNodes() in terms of the parts of a state.
LEMMA FreeNodesIs ==
  ASSUME NEW s \in State, NEW S
  PROVE  Freed(s, S, FreeNodes(s, S))
<1>1. Without(s.resend, S) \in Seq(Name) /\ Without(s.expire, S) \in Seq(Name)
  BY StateFields, WithoutRemains DEF Remaining
<1>2. [n \in Name |-> IF n \in S THEN NoNode ELSE s.node[n]] \in [Name -> NodeRec]
  BY StateFields, NoNodeType
<1> QED
  BY <1>1, <1>2 DEF FreeNodes, Freed, State

Resolved(s, n, r) ==
    /\ r \in State
    /\ r.ctx = s.ctx /\ r.tree = s.tree /\ r.node = s.node
    /\ r.resend = Without(s.resend, {n}) /\ r.expire = <<n>> \o Without(s.expire, {n})
    /\ r.old = s.old \ {n} /\ r.timer = s.timer /\ r.asked = s.asked

\* The same for ToExpire().
LEMMA ToExpireIs ==
  ASSUME NEW s \in State, NEW n \in Name
  PROVE  Resolved(s, n, ToExpire(s, n))
<1>1. Without(s.resend, {n}) \in Seq(Name) /\ Without(s.expire, {n}) \in Seq(Name)
  BY StateFields, WithoutRemains DEF Remaining
<1>2. <<n>> \o Without(s.expire, {n}) \in Seq(Name)
  BY <1>1, ConcatProperties
<1> QED
  BY <1>1, <1>2 DEF ToExpire, Resolved, State

Resent(s, n, r) ==
    /\ r \in State
    /\ r.ctx = s.ctx /\ r.tree = s.tree /\ r.node = s.node
    /\ r.resend = <<n>> \o Without(s.resend, {n}) /\ r.expire = Without(s.expire, {n})
    /\ r.old = s.old \ {n} /\ r.timer = s.timer /\ r.asked = s.asked

\* The same for ToResend().
LEMMA ToResendIs ==
  ASSUME NEW s \in State, NEW n \in Name
  PROVE  Resent(s, n, ToResend(s, n))
<1>1. Without(s.resend, {n}) \in Seq(Name) /\ Without(s.expire, {n}) \in Seq(Name)
  BY StateFields, WithoutRemains DEF Remaining
<1>2. <<n>> \o Without(s.resend, {n}) \in Seq(Name)
  BY <1>1, ConcatProperties
<1> QED
  BY <1>1, <1>2 DEF ToResend, Resent, State

-----------------------------------------------------------------------------
(* Queues. *)

Prefixed(T, n, seq, all) ==
    /\ all \in Seq(T)
    /\ Range(all) = {n} \cup Range(seq)
    /\ Unique(seq) /\ n \notin Range(seq) => Unique(all)

\* One more member at the head of a list.
LEMMA RangeCons ==
  ASSUME NEW T, NEW n \in T, NEW seq \in Seq(T)
  PROVE  Prefixed(T, n, seq, <<n>> \o seq)
<1> DEFINE all == <<n>> \o seq
<1>1. /\ all \in Seq(T) /\ Len(all) = Len(seq) + 1 /\ Len(seq) \in Nat
      /\ DOMAIN all = 1 .. (Len(seq) + 1) /\ DOMAIN seq = 1 .. Len(seq)
      /\ all[1] = n /\ \A i \in 1 .. Len(seq) : all[i + 1] = seq[i]
  <2>1. <<n>> \in Seq(T) /\ Len(<<n>>) = 1 /\ <<n>>[1] = n
    OBVIOUS
  <2> QED
    BY <2>1, ConcatProperties, LenProperties
<1> HIDE DEF all
<1>2. \A i \in 2 .. (Len(seq) + 1) : i - 1 \in 1 .. Len(seq) /\ all[i] = seq[i - 1]
  BY <1>1
<1>3. Range(all) = {n} \cup Range(seq)
  <2>1. ASSUME NEW x \in Range(all) PROVE x \in {n} \cup Range(seq)
    BY <1>1, <1>2, <2>1 DEF Range
  <2>2. ASSUME NEW x \in Range(seq) PROVE x \in Range(all)
    BY <1>1, <2>2 DEF Range
  <2>3. n \in Range(all)
    BY <1>1 DEF Range
  <2> QED
    BY <2>1, <2>2, <2>3
<1>4. ASSUME Unique(seq), n \notin Range(seq) PROVE Unique(all)
  <2>1. \A i \in 1 .. Len(seq) : seq[i] # n
    BY <1>1, <1>4 DEF Range
  <2>2. ASSUME NEW i \in 1 .. (Len(seq) + 1), NEW j \in 1 .. (Len(seq) + 1), all[i] = all[j]
        PROVE  i = j
    <3>1. CASE i = 1 \/ j = 1
      BY <1>1, <1>2, <2>1, <2>2, <3>1
    <3>2. CASE i # 1 /\ j # 1
      <4>1. /\ i - 1 \in 1 .. Len(seq) /\ all[i] = seq[i - 1]
            /\ j - 1 \in 1 .. Len(seq) /\ all[j] = seq[j - 1]
        BY <1>1, <1>2, <3>2
      <4>2. i - 1 = j - 1
        BY <1>1, <1>4, <2>2, <4>1 DEF Unique
      <4> QED
        BY <4>2
    <3> QED
      BY <3>1, <3>2
  <2> QED
    BY <1>1, <2>2 DEF Unique
<1> QED
  BY <1>1, <1>3, <1>4 DEF all, Prefixed

\* A list is empty when it has no members.
LEMMA EmptyRange ==
  ASSUME NEW T, NEW seq \in Seq(T)
  PROVE  Range(seq) \subseteq T /\ (seq = <<>> <=> Range(seq) = {})
<1>1. Len(seq) \in Nat /\ DOMAIN seq = 1 .. Len(seq) /\ \A i \in 1 .. Len(seq) : seq[i] \in T
  BY LenProperties, ElementOfSeq
<1>2. seq = <<>> <=> Len(seq) = 0
  BY EmptySeq
<1>3. Range(seq) = {seq[i] : i \in 1 .. Len(seq)}
  BY <1>1 DEF Range
<1> QED
  BY <1>1, <1>2, <1>3

-----------------------------------------------------------------------------
(* Each step keeps the state good. *)

\* The queues are as they should be, but that n may be on none of them.
QueuesBut(s, n) ==
    /\ Unique(s.resend) /\ Unique(s.expire)
    /\ Range(s.resend) \cap Range(s.expire) = {}
    /\ Range(s.resend) \cup Range(s.expire) \cup {n} = s.tree

\* The queues when nodes are freed.
LEMMA QueuesFree ==
  ASSUME NEW s \in State, NEW S, Queues(s), NEW r, Freed(s, S, r)
  PROVE  Queues(r)
<1>1. s.resend \in Seq(Name) /\ s.expire \in Seq(Name)
  BY StateFields
<1>2. r.tree = s.tree \ S /\ r.resend = Without(s.resend, S) /\ r.expire = Without(s.expire, S)
  BY DEF Freed
<1>3. Remaining(Name, s.resend, S, r.resend) /\ Remaining(Name, s.expire, S, r.expire)
  BY <1>1, <1>2, WithoutRemains, Zenon
<1> QED
  BY <1>2, <1>3 DEF Queues, Remaining

\* The queues when a node goes to the head of the one that expires.
LEMMA QueuesToExpire ==
  ASSUME NEW s \in State, NEW n \in Name, QueuesBut(s, n), NEW r, Resolved(s, n, r)
  PROVE  Queues(r) /\ Range(r.resend) = Range(s.resend) \ {n}
<1> DEFINE w == Without(s.expire, {n})
           v == Without(s.resend, {n})
<1>1. s.resend \in Seq(Name) /\ s.expire \in Seq(Name)
  BY StateFields
<1>2. r.tree = s.tree /\ r.resend = v /\ r.expire = <<n>> \o w
  BY DEF Resolved
<1>3. Remaining(Name, s.expire, {n}, w) /\ Remaining(Name, s.resend, {n}, v)
  BY <1>1, WithoutRemains, Zenon
<1> HIDE DEF w, v
<1>4. Prefixed(Name, n, w, r.expire)
  <2>1. w \in Seq(Name)
    BY <1>3 DEF Remaining
  <2> QED
    BY <1>2, <2>1, RangeCons, Zenon
<1>5. /\ Range(r.resend) = Range(s.resend) \ {n}
      /\ Range(r.expire) = {n} \cup Range(s.expire)
  BY <1>2, <1>3, <1>4 DEF Remaining, Prefixed
<1>6. Unique(r.resend) /\ Unique(r.expire)
  BY <1>2, <1>3, <1>4 DEF Remaining, Prefixed, QueuesBut
<1> QED
  BY <1>2, <1>5, <1>6 DEF Queues, QueuesBut

\* The queues when a node goes to the head of the one that is asked for again.
LEMMA QueuesToResend ==
  ASSUME NEW s \in State, NEW n \in Name, QueuesBut(s, n), NEW r, Resent(s, n, r)
  PROVE  Queues(r) /\ Range(r.resend) = Range(s.resend) \cup {n}
<1> DEFINE w == Without(s.resend, {n})
           v == Without(s.expire, {n})
<1>1. s.resend \in Seq(Name) /\ s.expire \in Seq(Name)
  BY StateFields
<1>2. r.tree = s.tree /\ r.expire = v /\ r.resend = <<n>> \o w
  BY DEF Resent
<1>3. Remaining(Name, s.resend, {n}, w) /\ Remaining(Name, s.expire, {n}, v)
  BY <1>1, WithoutRemains, Zenon
<1> HIDE DEF w, v
<1>4. Prefixed(Name, n, w, r.resend)
  <2>1. w \in Seq(Name)
    BY <1>3 DEF Remaining
  <2> QED
    BY <1>2, <2>1, RangeCons, Zenon
<1>5. /\ Range(r.expire) = Range(s.expire) \ {n}
      /\ Range(r.resend) = {n} \cup Range(s.resend)
  BY <1>2, <1>3, <1>4 DEF Remaining, Prefixed
<1>6. Unique(r.resend) /\ Unique(r.expire)
  BY <1>2, <1>3, <1>4 DEF Remaining, Prefixed, QueuesBut
<1> QED
  BY <1>2, <1>5, <1>6 DEF Queues, QueuesBut

\* Nobody is on the list of a freed node.
LEMMA NoNodeList == NoNode.waiting = <<>> /\ Range(<<>>) = {} /\ Unique(<<>>)
BY DEF NoNode, Range, Unique

\* Those who waited for a node that is freed are pending.
LEMMA FreeGood ==
  ASSUME NEW s, NEW pending, Good(s, pending), NEW S, NEW r, r = FreeNodes(s, S), NEW more,
         more = pending \cup {q \in Ctx : \E n \in Name \cap S : q \in Range(s.node[n].waiting)}
  PROVE  Good(r, more)
<1>1. s \in State /\ Queues(s) /\ Lists(s, pending) /\ Timers(s)
  BY DEF Good
<1>0. Freed(s, S, r)
  BY <1>1, FreeNodesIs, Zenon
<1>2. /\ r \in State
      /\ r.ctx = s.ctx /\ r.tree = s.tree \ S
      /\ r.node = [n \in Name |-> IF n \in S THEN NoNode ELSE s.node[n]]
      /\ r.resend = Without(s.resend, S) /\ r.expire = Without(s.expire, S)
      /\ r.timer = s.timer
  BY <1>0 DEF Freed
<1>3. Queues(r)
  BY <1>0, <1>1, QueuesFree
<1>4. s.resend \in Seq(Name) /\ r.resend \in Seq(Name) /\ Range(r.resend) = Range(s.resend) \ S
  BY <1>1, <1>2, StateFields, WithoutRemains DEF Remaining
<1>5. ASSUME NEW n \in Name PROVE ListOf(r, more, n)
  <2>1. /\ Unique(s.node[n].waiting)
        /\ \A q \in Ctx : q \in Range(s.node[n].waiting)
                             <=> q \notin pending /\ s.ctx[q].state = "again" /\ s.ctx[q].node = n
        /\ s.node[n].waiting # <<>> => n \in Range(s.resend)
    BY <1>1 DEF Lists, ListOf
  <2>2. CASE n \in S
    <3>1. r.node[n] = NoNode
      BY <1>2, <2>2
    <3>2. \A q \in Ctx : ~(q \notin more /\ s.ctx[q].state = "again" /\ s.ctx[q].node = n)
      BY <2>1, <2>2
    <3> QED
      BY <1>2, <3>1, <3>2, NoNodeList DEF ListOf
  <2>3. CASE n \notin S
    <3>1. r.node[n] = s.node[n]
      BY <1>2, <2>3
    <3>2. ASSUME NEW q \in Ctx, q \in Range(s.node[n].waiting) PROVE q \notin more
      <4>1. ASSUME NEW m \in Name \cap S PROVE q \notin Range(s.node[m].waiting)
        <5>1. s.ctx[q].node = n /\ n # m
          BY <2>1, <2>3, <3>2
        <5> QED
          BY <1>1, <5>1 DEF Lists, ListOf
      <4> QED
        BY <2>1, <3>2, <4>1
    <3>3. pending \subseteq more
      OBVIOUS
    <3>4. \A q \in Ctx : q \in Range(s.node[n].waiting)
                             <=> q \notin more /\ s.ctx[q].state = "again" /\ s.ctx[q].node = n
      BY <2>1, <3>2, <3>3
    <3>5. s.node[n].waiting # <<>> => n \in Range(r.resend)
      BY <1>4, <2>1, <2>3
    <3> QED
      BY <1>2, <2>1, <3>1, <3>4, <3>5 DEF ListOf
  <2> QED
    BY <2>2, <2>3
<1>6. Timers(r)
  <2>1. r.resend # <<>> => s.resend # <<>>
    BY <1>4, EmptyRange
  <2> QED
    BY <1>1, <1>2, <2>1 DEF Timers
<1>7. ASSUME NEW n \in Name PROVE NodeOK(r.node[n])
  BY <1>2, NoNodeType DEF Good
<1>8. ASSUME NEW q \in Ctx PROVE TellOK(r.ctx[q])
  BY <1>2 DEF Good
<1> QED
  BY <1>2, <1>3, <1>5, <1>6, <1>7, <1>8 DEF Good, Lists

\* Nobody is pending when nobody waited.
LEMMA FreeIdleGood ==
  ASSUME NEW s, NEW pending, Good(s, pending), NEW S,
         \A n \in Name \cap S : s.node[n].waiting = <<>>
  PROVE  Good(FreeNodes(s, S), pending)
<1>1. pending = pending \cup {q \in Ctx : \E n \in Name \cap S : q \in Range(s.node[n].waiting)}
  BY NoNodeList
<1> DEFINE r == FreeNodes(s, S)
<1>2. r = FreeNodes(s, S)
  OBVIOUS
<1> HIDE DEF r
<1>3. Good(r, pending)
  BY <1>1, <1>2, FreeGood
<1> QED
  BY <1>3 DEF r

\* A node nobody waits for may go to the queue that expires.
LEMMA ToExpireGood ==
  ASSUME NEW s, NEW pending, Good(s, pending), NEW n \in Name, n \in s.tree,
         s.node[n].waiting = <<>>, NEW r, r = ToExpire(s, n)
  PROVE  Good(r, pending)
<1>1. s \in State /\ Queues(s) /\ Lists(s, pending) /\ Timers(s)
  BY DEF Good
<1>0. Resolved(s, n, r)
  BY <1>1, ToExpireIs, Zenon
<1>2. /\ r \in State
      /\ r.ctx = s.ctx /\ r.tree = s.tree /\ r.node = s.node /\ r.timer = s.timer
  BY <1>0 DEF Resolved
<1>3. QueuesBut(s, n)
  BY <1>1 DEF Queues, QueuesBut
<1>4. Queues(r) /\ Range(r.resend) = Range(s.resend) \ {n}
  BY <1>0, <1>1, <1>3, QueuesToExpire
<1>5. ASSUME NEW m \in Name PROVE ListOf(r, pending, m)
  <2>1. ListOf(s, pending, m)
    BY <1>1 DEF Lists
  <2> QED
    BY <1>2, <1>4, <2>1 DEF ListOf
<1>6. Timers(r)
  <2>1. r.resend # <<>> => s.resend # <<>>
    <3>1. s.resend \in Seq(Name) /\ r.resend \in Seq(Name)
      BY <1>1, <1>2, StateFields
    <3>2. /\ r.resend = <<>> <=> Range(r.resend) = {}
          /\ s.resend = <<>> <=> Range(s.resend) = {}
      BY <3>1, EmptyRange, Zenon
    <3> QED
      BY <1>4, <3>2
  <2> QED
    BY <1>1, <1>2, <2>1 DEF Timers
<1> QED
  BY <1>2, <1>4, <1>5, <1>6 DEF Good, Lists

\* Any node may go to the queue that is asked for again, while its timer runs.
LEMMA ToResendGood ==
  ASSUME NEW s, NEW pending, Good(s, pending), NEW n \in Name, n \in s.tree, s.timer,
         NEW r, r = ToResend(s, n)
  PROVE  Good(r, pending)
<1>1. s \in State /\ Queues(s) /\ Lists(s, pending) /\ Timers(s)
  BY DEF Good
<1>0. Resent(s, n, r)
  BY <1>1, ToResendIs, Zenon
<1>2. /\ r \in State
      /\ r.ctx = s.ctx /\ r.tree = s.tree /\ r.node = s.node /\ r.timer = s.timer
  BY <1>0 DEF Resent
<1>3. QueuesBut(s, n)
  BY <1>1 DEF Queues, QueuesBut
<1>4. Queues(r) /\ Range(r.resend) = Range(s.resend) \cup {n}
  BY <1>0, <1>1, <1>3, QueuesToResend
<1>5. ASSUME NEW m \in Name PROVE ListOf(r, pending, m)
  <2>1. ListOf(s, pending, m)
    BY <1>1 DEF Lists
  <2> QED
    BY <1>2, <1>4, <2>1 DEF ListOf
<1>6. Timers(r)
  BY <1>1, <1>2 DEF Timers
<1> QED
  BY <1>2, <1>4, <1>5, <1>6 DEF Good, Lists

\* Only nodes that nobody waits for are on name_expire_queue.
LEMMA ExpireGood ==
  ASSUME NEW s, NEW pending, Good(s, pending)
  PROVE  Good(Expire(s), pending)
<1> DEFINE last2 == {s.expire[i] : i \in {j \in DOMAIN s.expire : j > Len(s.expire) - 2}}
<1>1. \A n \in Name \cap (last2 \cap s.old) : n \in Range(s.expire)
  BY DEF Range
<1>2. \A n \in Name \cap (last2 \cap s.old) : s.node[n].waiting = <<>>
  BY <1>1 DEF Good, Queues, Lists, ListOf
<1>3. Expire(s) = FreeNodes(s, last2 \cap s.old)
  BY DEF Expire
<1> HIDE DEF last2
<1> QED
  BY <1>2, <1>3, FreeIdleGood

-----------------------------------------------------------------------------
(* ngx_resolve_name_done(), for one asker and for a list of them. *)

\* The state in which q has been taken off the list it was on.
Left(s, q) ==
    IF s.ctx[q].state \in {"again", "timedout"} /\ s.ctx[q].node # NoName
    THEN [s EXCEPT !.node[s.ctx[q].node].waiting = Without(@, {q})] ELSE s

Parted(c) == [c EXCEPT !.node = NoName, !.event = FALSE, !.recursion = 0]

\* r is e, but for the shared timer and what is known of q.
DoneFrom(e, q, c, r) ==
    /\ r \in State
    /\ r.ctx = [e.ctx EXCEPT ![q] = c]
    /\ r.tree = e.tree /\ r.node = e.node /\ r.resend = e.resend /\ r.expire = e.expire
    /\ r.old = e.old /\ r.asked = e.asked
    /\ r.timer = (e.timer /\ e.resend # <<>>)

\* ngx_resolver_expire() does not touch the askers.
LEMMA ExpireIs ==
  ASSUME NEW s \in State
  PROVE  Expire(s) \in State /\ Expire(s).ctx = s.ctx
<1> DEFINE S == {s.expire[i] : i \in {j \in DOMAIN s.expire : j > Len(s.expire) - 2}} \cap s.old
<1>1. Expire(s) = FreeNodes(s, S)
  BY DEF Expire
<1>2. Freed(s, S, FreeNodes(s, S))
  BY FreeNodesIs, Zenon
<1> HIDE DEF S
<1> QED
  BY <1>1, <1>2 DEF Freed

\* An asker that has left.
LEMMA PartedType ==
  ASSUME NEW c \in CtxRec
  PROVE  /\ Parted(c) \in CtxRec /\ Parted(c).state = c.state /\ Parted(c).answer = c.answer
         /\ TellOK(c) => TellOK(Parted(c))
<1>1. /\ Parted(c) \in CtxRec /\ Parted(c).state = c.state /\ Parted(c).answer = c.answer
  BY DEF Parted, CtxRec
<1> QED
  BY <1>1 DEF TellOK

\* ngx_resolve_name_done() in terms of the parts of a state.
LEMMA NameDoneIs ==
  ASSUME NEW s \in State, NEW q \in Ctx, Left(s, q) \in State, Left(s, q).ctx = s.ctx
  PROVE  DoneFrom(Expire(Left(s, q)), q, Parted(s.ctx[q]), NameDone(s, q))
<1> DEFINE e == Expire(Left(s, q))
           r == [e EXCEPT !.timer = @ /\ e.resend # <<>>, !.ctx[q].node = NoName,
                          !.ctx[q].event = FALSE, !.ctx[q].recursion = 0]
<1>1. NameDone(s, q) = r
  BY DEF NameDone, Left
<1>2. e \in State /\ e.ctx = s.ctx
  BY ExpireIs
<1>3. s.ctx \in [Ctx -> CtxRec] /\ s.ctx[q] \in CtxRec
  BY StateFields
<1> HIDE DEF e
<1>4. /\ r.tree = e.tree /\ r.node = e.node /\ r.resend = e.resend /\ r.expire = e.expire
      /\ r.old = e.old /\ r.asked = e.asked
      /\ r.timer = (e.timer /\ e.resend # <<>>)
      /\ r.ctx = [e.ctx EXCEPT ![q].node = NoName, ![q].event = FALSE, ![q].recursion = 0]
  BY <1>2 DEF State
<1>5. r.ctx = [e.ctx EXCEPT ![q] = Parted(s.ctx[q])]
  <2>1. e.ctx[q] = s.ctx[q] /\ e.ctx \in [Ctx -> CtxRec]
    BY <1>2, <1>3
  <2> QED
    BY <1>3, <1>4, <2>1 DEF Parted
<1>6. r.ctx \in [Ctx -> CtxRec]
  <2>1. Parted(s.ctx[q]) \in CtxRec
    BY <1>3, PartedType
  <2> HIDE DEF r
  <2> QED
    BY <1>2, <1>3, <1>5, <2>1
<1>7. r \in State
  <2>1. (e.timer /\ e.resend # <<>>) \in BOOLEAN
    OBVIOUS
  <2> QED
    BY <1>2, <1>6, <2>1 DEF State
<1> QED
  BY <1>1, <1>4, <1>5, <1>7 DEF DoneFrom, e

\* One who was pending is done, and is pending no more.
LEMMA DoneGood ==
  ASSUME NEW e, NEW pending, Good(e, pending), NEW q \in Ctx, q \in pending,
         NEW c \in CtxRec, c.state # "again", TellOK(c), NEW r, DoneFrom(e, q, c, r)
  PROVE  Good(r, pending) /\ Good(r, pending \ {q})
<1>1. e \in State /\ Queues(e) /\ Lists(e, pending) /\ Timers(e)
  BY DEF Good
<1>2. /\ r \in State
      /\ r.ctx = [e.ctx EXCEPT ![q] = c]
      /\ r.tree = e.tree /\ r.node = e.node /\ r.resend = e.resend /\ r.expire = e.expire
      /\ r.timer = (e.timer /\ e.resend # <<>>)
  BY DEF DoneFrom
<1>3. e.ctx \in [Ctx -> CtxRec]
  BY <1>1, StateFields
<1>4. r.ctx[q] = c /\ \A p \in Ctx : p # q => r.ctx[p] = e.ctx[p]
  BY <1>2, <1>3
<1>5. Queues(r)
  BY <1>1, <1>2 DEF Queues
<1>6. ASSUME NEW n \in Name PROVE ListOf(r, pending, n) /\ ListOf(r, pending \ {q}, n)
  <2>1. /\ Unique(e.node[n].waiting)
        /\ \A p \in Ctx : p \in Range(e.node[n].waiting)
                             <=> p \notin pending /\ e.ctx[p].state = "again" /\ e.ctx[p].node = n
        /\ e.node[n].waiting # <<>> => n \in Range(e.resend)
    BY <1>1 DEF Lists, ListOf
  <2> QED
    BY <1>2, <1>4, <2>1 DEF ListOf
<1>7. Timers(r)
  BY <1>1, <1>2, <1>4 DEF Timers
<1>8. ASSUME NEW n \in Name PROVE NodeOK(r.node[n])
  BY <1>2 DEF Good
<1>9. ASSUME NEW p \in Ctx PROVE TellOK(r.ctx[p])
  BY <1>4 DEF Good
<1> QED
  BY <1>2, <1>5, <1>6, <1>7, <1>8, <1>9 DEF Good, Lists

\* One step of Answer().
Tell(s, q, state, addrs) ==
    NameDone([s EXCEPT !.ctx[q].state = state, !.ctx[q].answer = addrs], q)

ToldType(state, addrs) ==
    /\ state \in {"ok", "failed"}
    /\ addrs \in {<<>>} \cup [Type -> Int]
    /\ state = "ok" => /\ addrs \in [Type -> Int]
                       /\ \E t \in Type : addrs[t] # Empty
                       /\ OneQuery(addrs)

\* Telling one asker, in terms of the parts of a state.
LEMMA TellIs ==
  ASSUME NEW s \in State, NEW q \in Ctx, NEW state, NEW addrs, ToldType(state, addrs)
  PROVE  /\ Tell(s, q, state, addrs) \in State
         /\ Tell(s, q, state, addrs).ctx[q].state = state
         /\ \A p \in Ctx : p # q => Tell(s, q, state, addrs).ctx[p] = s.ctx[p]
         /\ \A pending : Good(s, pending) /\ q \in pending
                            => Good(Tell(s, q, state, addrs), pending)
<1> DEFINE u == [s EXCEPT !.ctx[q].state = state, !.ctx[q].answer = addrs]
           c == [s.ctx[q] EXCEPT !.state = state, !.answer = addrs]
           e == Expire(u)
           r == NameDone(u, q)
<1>1. s.ctx \in [Ctx -> CtxRec] /\ s.ctx[q] \in CtxRec
  BY StateFields
<1>2. c \in CtxRec /\ c.state = state /\ c.answer = addrs
  BY <1>1 DEF CtxRec, ToldType
<1>3. u.ctx = [s.ctx EXCEPT ![q] = c]
  <2>1. u.ctx = [s.ctx EXCEPT ![q].state = state, ![q].answer = addrs]
    BY DEF State
  <2> QED
    BY <1>1, <2>1
<1>4. /\ u.tree = s.tree /\ u.node = s.node /\ u.resend = s.resend /\ u.expire = s.expire
      /\ u.old = s.old /\ u.asked = s.asked /\ u.timer = s.timer
  BY DEF State
<1>5. u \in State
  <2>1. u.ctx \in [Ctx -> CtxRec]
    BY <1>1, <1>2, <1>3
  <2> QED
    BY <2>1 DEF State
<1>6. u.ctx[q] = c /\ \A p \in Ctx : p # q => u.ctx[p] = s.ctx[p]
  BY <1>1, <1>3
<1> HIDE DEF u, c
<1>7. Left(u, q) = u
  BY <1>2, <1>6 DEF Left, ToldType
<1>8. DoneFrom(e, q, Parted(c), r)
  BY <1>5, <1>6, <1>7, NameDoneIs
<1>9. e.ctx = u.ctx
  BY <1>5, ExpireIs
<1>10. Parted(c) \in CtxRec /\ Parted(c).state = state /\ Parted(c).answer = addrs
  BY <1>2, PartedType
<1>11. TellOK(c) /\ TellOK(Parted(c)) /\ state # "again"
  BY <1>2, PartedType DEF TellOK, ToldType
<1> HIDE DEF e, r
<1>12. r.ctx = [u.ctx EXCEPT ![q] = Parted(c)]
  BY <1>8, <1>9 DEF DoneFrom
<1>13. r.ctx[q].state = state /\ \A p \in Ctx : p # q => r.ctx[p] = s.ctx[p]
  <2>1. u.ctx \in [Ctx -> CtxRec]
    BY <1>5, StateFields
  <2> QED
    BY <1>6, <1>10, <1>12, <2>1
<1>14. ASSUME NEW pending, Good(s, pending), q \in pending PROVE Good(r, pending)
  <2>1. Good(u, pending)
    <3>1. Queues(s) /\ Lists(s, pending) /\ Timers(s)
      BY <1>14 DEF Good
    <3>2. Queues(u)
      BY <1>4, <3>1 DEF Queues
    <3>3. ASSUME NEW n \in Name PROVE ListOf(u, pending, n)
      <4>1. ListOf(s, pending, n)
        BY <3>1 DEF Lists
      <4> QED
        BY <1>4, <1>6, <1>14, <4>1 DEF ListOf
    <3>4. Timers(u)
      BY <1>2, <1>4, <1>6, <1>11, <3>1 DEF Timers
    <3>5. ASSUME NEW n \in Name PROVE NodeOK(u.node[n])
      BY <1>4, <1>14 DEF Good
    <3>6. ASSUME NEW p \in Ctx PROVE TellOK(u.ctx[p])
      BY <1>6, <1>11, <1>14 DEF Good
    <3> QED
      BY <1>5, <3>2, <3>3, <3>4, <3>5, <3>6 DEF Good, Lists
  <2>2. Good(e, pending)
    BY <2>1, ExpireGood DEF e
  <2> QED
    BY <1>8, <1>10, <1>11, <1>14, <2>2, DoneGood
<1>15. r \in State
  BY <1>8 DEF DoneFrom
<1>16. r = Tell(s, q, state, addrs)
  BY DEF r, u, Tell
<1> QED
  BY <1>13, <1>14, <1>15, <1>16

\* Answer() tells one after the other.
AnswerSteps(f, s, list, state, addrs) ==
    /\ f[0] = s /\ f[Len(list)] = Answer(s, list, state, addrs)
    /\ \A k \in 1 .. Len(list) : f[k] = Tell(f[k - 1], list[k], state, addrs)

\* Answer() passes through states.
LEMMA AnswerStepsExist ==
  ASSUME NEW s \in State, NEW list \in Seq(Ctx), NEW state, NEW addrs, ToldType(state, addrs)
  PROVE  \E f : AnswerSteps(f, s, list, state, addrs)
<1> DEFINE N == Len(list)
           F == [k \in 1 .. N |-> [u \in State |-> Tell(u, list[k], state, addrs)]]
           Eq(f) == f = [k \in 0 .. N |->
                           IF k = 0 THEN s ELSE Tell(f[k - 1], list[k], state, addrs)]
           told == CHOOSE f : Eq(f)
<1>1. N \in Nat /\ \A k \in 1 .. N : list[k] \in Ctx
  BY LenProperties, ElementOfSeq
<1>2. F \in [1 .. N -> [State -> State]]
  <2>1. ASSUME NEW k \in 1 .. N, NEW u \in State PROVE Tell(u, list[k], state, addrs) \in State
    BY <1>1, TellIs
  <2> HIDE DEF N
  <2> QED
    BY <2>1
<1>3. \E f \in [0 .. N -> State] : Recursive(f, s, N, F)
  <2> HIDE DEF F, N
  <2> QED
    BY <1>1, <1>2, RecursionExists
<1>4. PICK f \in [0 .. N -> State] : Recursive(f, s, N, F)
  BY <1>3
<1>5. Eq(f)
  <2>1. ASSUME NEW k \in 0 .. N
        PROVE  f[k] = IF k = 0 THEN s ELSE Tell(f[k - 1], list[k], state, addrs)
    <3> HIDE DEF N, F
    <3>1. f[k] = IF k = 0 THEN s ELSE F[k][f[k - 1]]
      BY <1>4 DEF Recursive
    <3>2. CASE k = 0
      BY <3>1, <3>2
    <3>3. CASE k # 0
      <4>1. k \in 1 .. N /\ k - 1 \in 0 .. N
        BY <1>1, <3>3
      <4>2. f[k - 1] \in State
        BY <1>4, <4>1
      <4>3. F[k][f[k - 1]] = Tell(f[k - 1], list[k], state, addrs)
        BY <4>1, <4>2 DEF F
      <4> QED
        BY <3>1, <3>3, <4>3
    <3> QED
      BY <3>2, <3>3
  <2> HIDE DEF N, F
  <2>2. f = [k \in 0 .. N |-> f[k]]
    BY <1>4
  <2>3. [k \in 0 .. N |-> f[k]]
          = [k \in 0 .. N |-> IF k = 0 THEN s ELSE Tell(f[k - 1], list[k], state, addrs)]
    BY <2>1
  <2> QED
    BY <2>2, <2>3
<1> HIDE DEF Eq
<1>6. Eq(told)
  BY <1>5
<1>7. Answer(s, list, state, addrs) = told[N]
  BY DEF Answer, Tell, Eq
<1> HIDE DEF told, F
<1>8. told = [k \in 0 .. N |-> IF k = 0 THEN s ELSE Tell(told[k - 1], list[k], state, addrs)]
  BY <1>6 DEF Eq
<1> HIDE DEF N
<1>9. told[0] = s
  BY <1>1, <1>8
<1>10. ASSUME NEW k \in 1 .. N PROVE told[k] = Tell(told[k - 1], list[k], state, addrs)
  BY <1>1, <1>8
<1>11. AnswerSteps(told, s, list, state, addrs)
  BY <1>7, <1>9, <1>10 DEF AnswerSteps, N
<1> QED
  BY <1>11

\* Everyone of the list is told, and nobody is pending afterwards.
LEMMA AnswerGood ==
  ASSUME NEW s, NEW list \in Seq(Ctx), Good(s, Range(list)), NEW state, NEW addrs,
         ToldType(state, addrs)
  PROVE  Good(Answer(s, list, state, addrs), {})
<1> DEFINE N == Len(list)
<1>0. s \in State
  BY DEF Good
<1>1. N \in Nat /\ DOMAIN list = 1 .. N /\ \A k \in 1 .. N : list[k] \in Ctx
  BY LenProperties, ElementOfSeq
<1>2. PICK f : AnswerSteps(f, s, list, state, addrs)
  BY <1>0, AnswerStepsExist
<1> DEFINE OK(k) == /\ Good(f[k], Range(list))
                    /\ \A j \in 1 .. k : f[k].ctx[list[j]].state # "again"
           D == {k \in 0 .. N : OK(k)}
<1>3. f[0] = s /\ \A k \in 1 .. N : f[k] = Tell(f[k - 1], list[k], state, addrs)
  BY <1>2 DEF AnswerSteps
<1>4. Answer(s, list, state, addrs) = f[N]
  BY <1>2 DEF AnswerSteps
<1> HIDE DEF N
<1>5. 0 \in D
  BY <1>1, <1>3
<1>6. ASSUME NEW k \in 1 .. N, k - 1 \in D PROVE k \in D
  <2>1. k \in 0 .. N /\ OK(k - 1) /\ list[k] \in Ctx /\ list[k] \in Range(list)
    <3>1. k \in 0 .. N /\ k - 1 \in 0 .. N
      BY <1>1
    <3>2. list[k] \in Range(list)
      BY <1>1 DEF Range
    <3> QED
      BY <1>1, <1>6, <3>1, <3>2
  <2> DEFINE u == f[k - 1]
             r == f[k]
  <2>2. r = Tell(u, list[k], state, addrs) /\ Good(u, Range(list)) /\ u \in State
    BY <1>3, <2>1 DEF Good
  <2>3. /\ r.ctx[list[k]].state = state
        /\ \A p \in Ctx : p # list[k] => r.ctx[p] = u.ctx[p]
        /\ Good(r, Range(list))
    BY <2>1, <2>2, TellIs
  <2>4. state # "again"
    BY DEF ToldType
  <2>5. ASSUME NEW j \in 1 .. k PROVE r.ctx[list[j]].state # "again"
    <3>1. CASE list[j] = list[k]
      BY <2>3, <2>4, <3>1
    <3>2. CASE list[j] # list[k]
      <4>1. j \in 1 .. (k - 1) /\ list[j] \in Ctx
        BY <1>1, <3>2
      <4> QED
        BY <2>1, <2>3, <3>2, <4>1
    <3> QED
      BY <3>1, <3>2
  <2> QED
    BY <2>1, <2>3, <2>5
<1>7. N \in D
  <2> HIDE DEF D
  <2>1. \A k \in 1 .. N : k - 1 \in D => k \in D
    BY <1>6
  <2> QED
    BY <1>1, <1>5, <2>1, UpTo, Zenon
<1> DEFINE r == f[N]
<1>8. Good(r, Range(list)) /\ \A q \in Range(list) : r.ctx[q].state # "again"
  BY <1>1, <1>7 DEF Range
<1> HIDE DEF r, D, OK
<1>9. ASSUME NEW n \in Name PROVE ListOf(r, {}, n)
  BY <1>8 DEF Good, Lists, ListOf
<1> QED
  BY <1>4, <1>8, <1>9 DEF Good, Lists, r

-----------------------------------------------------------------------------
(* The way along the aliases. *)

\* AllToExpire() moves one node after the other.
MoveSteps(f, s, path) ==
    /\ f[0] = s /\ f[Len(path)] = AllToExpire(s, path)
    /\ \A k \in 1 .. Len(path) : f[k] = ToExpire(f[k - 1], path[k])

\* AllToExpire() passes through states.
LEMMA MoveStepsExist ==
  ASSUME NEW s \in State, NEW path \in Seq(Name)
  PROVE  \E f : MoveSteps(f, s, path)
<1> DEFINE N == Len(path)
           F == [k \in 1 .. N |-> [u \in State |-> ToExpire(u, path[k])]]
           Eq(f) == f = [k \in 0 .. N |-> IF k = 0 THEN s ELSE ToExpire(f[k - 1], path[k])]
           moved == CHOOSE f : Eq(f)
<1>1. N \in Nat /\ \A k \in 1 .. N : path[k] \in Name
  BY LenProperties, ElementOfSeq
<1>2. F \in [1 .. N -> [State -> State]]
  <2>1. ASSUME NEW k \in 1 .. N, NEW u \in State PROVE ToExpire(u, path[k]) \in State
    <3>1. Resolved(u, path[k], ToExpire(u, path[k]))
      BY <1>1, ToExpireIs, Zenon
    <3> QED
      BY <3>1 DEF Resolved
  <2> HIDE DEF N
  <2> QED
    BY <2>1
<1>3. \E f \in [0 .. N -> State] : Recursive(f, s, N, F)
  <2> HIDE DEF F, N
  <2> QED
    BY <1>1, <1>2, RecursionExists
<1>4. PICK f \in [0 .. N -> State] : Recursive(f, s, N, F)
  BY <1>3
<1>5. Eq(f)
  <2>1. ASSUME NEW k \in 0 .. N
        PROVE  f[k] = IF k = 0 THEN s ELSE ToExpire(f[k - 1], path[k])
    <3> HIDE DEF N, F
    <3>1. f[k] = IF k = 0 THEN s ELSE F[k][f[k - 1]]
      BY <1>4 DEF Recursive
    <3>2. CASE k = 0
      BY <3>1, <3>2
    <3>3. CASE k # 0
      <4>1. k \in 1 .. N /\ k - 1 \in 0 .. N
        BY <1>1, <3>3
      <4>2. f[k - 1] \in State
        BY <1>4, <4>1
      <4>3. F[k][f[k - 1]] = ToExpire(f[k - 1], path[k])
        BY <4>1, <4>2 DEF F
      <4> QED
        BY <3>1, <3>3, <4>3
    <3> QED
      BY <3>2, <3>3
  <2> HIDE DEF N, F
  <2>2. f = [k \in 0 .. N |-> f[k]]
    BY <1>4
  <2>3. [k \in 0 .. N |-> f[k]]
          = [k \in 0 .. N |-> IF k = 0 THEN s ELSE ToExpire(f[k - 1], path[k])]
    BY <2>1
  <2> QED
    BY <2>2, <2>3
<1> HIDE DEF Eq
<1>6. Eq(moved)
  BY <1>5
<1>7. AllToExpire(s, path) = moved[N]
  BY DEF AllToExpire, Eq
<1> HIDE DEF moved, F
<1>8. moved = [k \in 0 .. N |-> IF k = 0 THEN s ELSE ToExpire(moved[k - 1], path[k])]
  BY <1>6 DEF Eq
<1> HIDE DEF N
<1>9. moved[0] = s
  BY <1>1, <1>8
<1>10. ASSUME NEW k \in 1 .. N PROVE moved[k] = ToExpire(moved[k - 1], path[k])
  BY <1>1, <1>8
<1>11. MoveSteps(moved, s, path)
  BY <1>7, <1>9, <1>10 DEF MoveSteps, N
<1> QED
  BY <1>11

\* Only the queues differ.
SameNodes(s, r) ==
    r.ctx = s.ctx /\ r.tree = s.tree /\ r.node = s.node /\ r.timer = s.timer /\ r.asked = s.asked

\* Nodes that are valid have no list, so all of them may be moved.
LEMMA AllToExpireGood ==
  ASSUME NEW s, NEW pending, Good(s, pending), NEW path \in Seq(Name),
         \A k \in 1 .. Len(path) : path[k] \in s.tree /\ s.node[path[k]].waiting = <<>>
  PROVE  Good(AllToExpire(s, path), pending) /\ SameNodes(s, AllToExpire(s, path))
<1> DEFINE N == Len(path)
<1>0. s \in State
  BY DEF Good
<1>1. N \in Nat /\ \A k \in 1 .. N : path[k] \in Name
  BY LenProperties, ElementOfSeq
<1>2. PICK f : MoveSteps(f, s, path)
  BY <1>0, MoveStepsExist
<1> DEFINE OK(k) == Good(f[k], pending) /\ SameNodes(s, f[k])
           D == {k \in 0 .. N : OK(k)}
<1>3. f[0] = s /\ \A k \in 1 .. N : f[k] = ToExpire(f[k - 1], path[k])
  BY <1>2 DEF MoveSteps
<1>4. AllToExpire(s, path) = f[N]
  BY <1>2 DEF MoveSteps
<1> HIDE DEF N
<1>5. 0 \in D
  BY <1>1, <1>3 DEF SameNodes
<1>6. ASSUME NEW k \in 1 .. N, k - 1 \in D PROVE k \in D
  <2>1. k \in 0 .. N /\ OK(k - 1)
    <3>1. k \in 0 .. N /\ k - 1 \in 0 .. N
      BY <1>1
    <3> QED
      BY <1>6, <3>1
  <2> DEFINE u == f[k - 1]
             r == f[k]
  <2>2. r = ToExpire(u, path[k]) /\ Good(u, pending) /\ u \in State /\ SameNodes(s, u)
    BY <1>3, <2>1 DEF Good
  <2>3. path[k] \in Name /\ path[k] \in u.tree /\ u.node[path[k]].waiting = <<>>
    BY <1>1, <2>2 DEF SameNodes, N
  <2>4. Resolved(u, path[k], r)
    BY <2>2, <2>3, ToExpireIs
  <2>5. SameNodes(s, r)
    BY <2>2, <2>4 DEF SameNodes, Resolved
  <2>6. Good(r, pending)
    BY <2>2, <2>3, ToExpireGood
  <2> QED
    BY <2>1, <2>5, <2>6
<1>7. N \in D
  <2> HIDE DEF D
  <2>1. \A k \in 1 .. N : k - 1 \in D => k \in D
    BY <1>6
  <2> QED
    BY <1>1, <1>5, <2>1, UpTo, Zenon
<1> QED
  BY <1>4, <1>7

-----------------------------------------------------------------------------
\* A path of aliases to a name.
Path(s, path) ==
    /\ path \in Seq(Name) /\ Len(path) \in Nat /\ Len(path) >= 1
    /\ \A k \in 1 .. (Len(path) - 1) : IsAlias(s, path[k])

\* A node that is an alias names another.
LEMMA AliasName ==
  ASSUME NEW s, NEW pending, Good(s, pending), NEW n \in Name, IsAlias(s, n)
  PROVE  s.node[n].cname \in Name /\ n \in s.tree /\ s.node[n].waiting = <<>>
BY DEF Good, NodeOK, IsAlias

\* What the way along the aliases consists of.
LEMMA AliasPathIs ==
  ASSUME NEW s, NEW pending, Good(s, pending), NEW n \in Name, NEW allowed \in Nat
  PROVE  Path(s, AliasPath(s, n, allowed))
<1> DEFINE F == [k \in 1 .. allowed |-> [m \in Name |->
                    IF IsAlias(s, m) THEN s.node[m].cname ELSE m]]
           Eq(f) == f = [k \in 0 .. allowed |->
                    IF k = 0 THEN n
                    ELSE IF IsAlias(s, f[k - 1]) THEN s.node[f[k - 1]].cname ELSE f[k - 1]]
           at == CHOOSE f : Eq(f)
           Stop(k) == /\ k = allowed \/ ~IsAlias(s, at[k])
                      /\ \A j \in 0 .. (k - 1) : IsAlias(s, at[j])
           hops == CHOOSE k \in 0 .. allowed : Stop(k)
<1>1. F \in [1 .. allowed -> [Name -> Name]]
  BY AliasName
<1>2. \E f \in [0 .. allowed -> Name] : Recursive(f, n, allowed, F)
  <2> HIDE DEF F
  <2> QED
    BY <1>1, RecursionExists
<1>3. PICK f \in [0 .. allowed -> Name] : Recursive(f, n, allowed, F)
  BY <1>2
<1>4. Eq(f)
  <2>1. ASSUME NEW k \in 0 .. allowed
        PROVE  f[k] = IF k = 0 THEN n
                      ELSE IF IsAlias(s, f[k - 1]) THEN s.node[f[k - 1]].cname ELSE f[k - 1]
    <3> HIDE DEF F
    <3>1. f[k] = IF k = 0 THEN n ELSE F[k][f[k - 1]]
      BY <1>3 DEF Recursive
    <3>2. CASE k = 0
      BY <3>1, <3>2
    <3>3. CASE k # 0
      <4>1. k \in 1 .. allowed /\ k - 1 \in 0 .. allowed
        BY <3>3
      <4>2. f[k - 1] \in Name
        BY <1>3, <4>1
      <4>3. F[k][f[k - 1]] = IF IsAlias(s, f[k - 1]) THEN s.node[f[k - 1]].cname ELSE f[k - 1]
        BY <4>1, <4>2 DEF F
      <4> QED
        BY <3>1, <3>3, <4>3
    <3> QED
      BY <3>2, <3>3
  <2> HIDE DEF F
  <2>2. f = [k \in 0 .. allowed |-> f[k]]
    BY <1>3
  <2>3. [k \in 0 .. allowed |-> f[k]]
          = [k \in 0 .. allowed |->
                    IF k = 0 THEN n
                    ELSE IF IsAlias(s, f[k - 1]) THEN s.node[f[k - 1]].cname ELSE f[k - 1]]
    BY <2>1
  <2> QED
    BY <2>2, <2>3
<1> HIDE DEF Eq
<1>5. Eq(at)
  BY <1>4
<1>6. AliasPath(s, n, allowed) = [k \in 1 .. (hops + 1) |-> at[k - 1]]
  BY DEF AliasPath, Eq
<1> HIDE DEF at, F
<1>7. at = [k \in 0 .. allowed |->
                    IF k = 0 THEN n
                    ELSE IF IsAlias(s, at[k - 1]) THEN s.node[at[k - 1]].cname ELSE at[k - 1]]
  BY <1>5 DEF Eq
<1>8. \A k \in 0 .. allowed : at[k] \in Name
  <2> DEFINE D == {k \in 0 .. allowed : at[k] \in Name}
  <2>1. 0 \in D
    BY <1>7
  <2>2. ASSUME NEW k \in 1 .. allowed, k - 1 \in D PROVE k \in D
    <3>1. k \in 0 .. allowed /\ k # 0 /\ at[k - 1] \in Name
      BY <2>2
    <3>2. at[k] = IF IsAlias(s, at[k - 1]) THEN s.node[at[k - 1]].cname ELSE at[k - 1]
      BY <1>7, <3>1
    <3> QED
      BY <3>1, <3>2, AliasName
  <2>3. \A k \in 0 .. allowed : k \in D
    <3> HIDE DEF D
    <3>1. \A k \in 1 .. allowed : k - 1 \in D => k \in D
      BY <2>2
    <3> QED
      BY <2>1, <3>1, UpTo, Zenon
  <2> QED
    BY <2>3
<1>9. \E k \in 0 .. allowed : Stop(k)
  <2> DEFINE S == {k \in 0 .. allowed : k = allowed \/ ~IsAlias(s, at[k])}
  <2>1. S \in SUBSET Nat /\ allowed \in S
    OBVIOUS
  <2>2. PICK k \in S : \A j \in S : k <= j
    <3> HIDE DEF S
    <3> QED
      BY <2>1, LeastExists
  <2>3. \A j \in 0 .. (k - 1) : j \in 0 .. allowed /\ j \notin S
    <3>1. k \in Nat /\ k <= allowed
      BY <2>2
    <3> HIDE DEF S
    <3>2. ASSUME NEW j \in 0 .. (k - 1) PROVE j \in 0 .. allowed /\ j \notin S
      BY <2>2, <3>1
    <3> QED
      BY <3>2
  <2>4. Stop(k)
    BY <2>2, <2>3
  <2> QED
    BY <2>2, <2>4
<1> HIDE DEF Stop
<1>10. hops \in 0 .. allowed /\ Stop(hops)
  BY <1>9
<1> HIDE DEF hops
<1> DEFINE path == [k \in 1 .. (hops + 1) |-> at[k - 1]]
<1>11. path \in Seq(Name) /\ Len(path) = hops + 1
  <2>1. hops + 1 \in Nat /\ \A k \in 1 .. (hops + 1) : at[k - 1] \in Name
    BY <1>8, <1>10
  <2>2. path \in [1 .. (hops + 1) -> Name]
    BY <2>1
  <2> HIDE DEF path
  <2> QED
    BY <2>1, <2>2
<1>12. ASSUME NEW k \in 1 .. hops PROVE IsAlias(s, path[k])
  <2>1. k - 1 \in 0 .. (hops - 1) /\ k \in 1 .. (hops + 1)
    BY <1>10
  <2> QED
    BY <1>10, <2>1 DEF Stop
<1> HIDE DEF path
<1>13. Path(s, path)
  BY <1>10, <1>11, <1>12 DEF Path
<1> QED
  BY <1>6, <1>13 DEF path

-----------------------------------------------------------------------------
(* ngx_resolve_name_locked(). *)

\* Those of the list wait for nothing, and all but the first have a timer.
Askers(s, list) ==
    /\ list \in Seq(Ctx) /\ list # <<>> /\ Unique(list)
    /\ \A q \in Range(list) : ~(s.ctx[q].state = "again" /\ s.ctx[q].node \in Name)
    /\ \A q \in Range(list) : q # Head(list) => s.ctx[q].event

\* The first of a list that is not empty.
LEMMA HeadIs ==
  ASSUME NEW list \in Seq(Ctx), list # <<>>
  PROVE  Head(list) \in Ctx /\ Head(list) \in Range(list) /\ Range(list) \subseteq Ctx
<1>1. Len(list) \in Nat /\ Len(list) # 0 /\ DOMAIN list = 1 .. Len(list)
  BY LenProperties, EmptySeq
<1>2. Head(list) = list[1] /\ list[1] \in Ctx
  BY <1>1, ElementOfSeq, HeadTailProperties
<1>3. list[1] \in Range(list)
  BY <1>1 DEF Range
<1> QED
  BY <1>2, <1>3, EmptyRange

\* As they wait for nothing, it makes no difference whether they count as pending.
LEMMA NotPending ==
  ASSUME NEW s, NEW list, Good(s, Range(list)), Askers(s, list)
  PROVE  Good(s, {})
<1>1. ASSUME NEW n \in Name PROVE ListOf(s, {}, n)
  BY DEF Good, Lists, ListOf, Askers
<1> QED
  BY <1>1 DEF Good, Lists

\* Those who wait for no node are on no list, pending or not.
LEMMA Pending ==
  ASSUME NEW s, NEW list, Good(s, {}), Askers(s, list)
  PROVE  Good(s, Range(list))
<1>1. ASSUME NEW n \in Name PROVE ListOf(s, Range(list), n)
  BY DEF Good, Lists, ListOf, Askers
<1> QED
  BY <1>1 DEF Good, Lists

Joined(T, a, b, all) ==
    /\ all \in Seq(T)
    /\ Range(all) = Range(a) \cup Range(b)
    /\ Unique(a) /\ Unique(b) /\ Range(a) \cap Range(b) = {} => Unique(all)

\* Two lists put together.
LEMMA RangeConcat ==
  ASSUME NEW T, NEW a \in Seq(T), NEW b \in Seq(T)
  PROVE  Joined(T, a, b, a \o b)
<1> DEFINE all == a \o b
           m == Len(a)
           l == Len(b)
<1>1. m \in Nat /\ l \in Nat /\ DOMAIN a = 1 .. m /\ DOMAIN b = 1 .. l
  BY LenProperties
<1>2. /\ all \in Seq(T) /\ DOMAIN all = 1 .. (m + l)
      /\ \A i \in 1 .. (m + l) : all[i] = IF i <= m THEN a[i] ELSE b[i - m]
  BY ConcatProperties, LenProperties
<1> HIDE DEF all, m, l
<1>3. \A i \in 1 .. m : i \in 1 .. (m + l) /\ all[i] = a[i]
  BY <1>1, <1>2
<1>4. \A i \in 1 .. l : i + m \in 1 .. (m + l) /\ all[i + m] = b[i]
  BY <1>1, <1>2
<1>5. \A i \in 1 .. (m + l) : i \notin 1 .. m => i - m \in 1 .. l /\ all[i] = b[i - m]
  BY <1>1, <1>2
<1>6. Range(all) = Range(a) \cup Range(b)
  <2>1. ASSUME NEW x \in Range(all) PROVE x \in Range(a) \cup Range(b)
    <3>1. PICK i \in 1 .. (m + l) : x = all[i]
      BY <1>2 DEF Range
    <3> QED
      BY <1>1, <1>3, <1>5, <3>1 DEF Range
  <2>2. ASSUME NEW x \in Range(a) PROVE x \in Range(all)
    BY <1>1, <1>2, <1>3 DEF Range
  <2>3. ASSUME NEW x \in Range(b) PROVE x \in Range(all)
    <3>1. PICK i \in 1 .. l : x = b[i]
      BY <1>1, <2>3 DEF Range
    <3>2. i + m \in DOMAIN all /\ all[i + m] = x
      BY <1>2, <1>4, <3>1
    <3> QED
      BY <3>2, Zenon DEF Range
  <2> QED
    BY <2>1, <2>2, <2>3
<1>7. ASSUME Unique(a), Unique(b), Range(a) \cap Range(b) = {} PROVE Unique(all)
  <2>1. \A i \in 1 .. m, j \in 1 .. l : a[i] # b[j]
    BY <1>1, <1>7 DEF Range
  <2>2. ASSUME NEW i \in 1 .. (m + l), NEW j \in 1 .. (m + l), all[i] = all[j]
        PROVE  i = j
    <3>1. CASE i \in 1 .. m /\ j \in 1 .. m
      BY <1>1, <1>3, <1>7, <2>2, <3>1 DEF Unique
    <3>2. CASE i \notin 1 .. m /\ j \notin 1 .. m
      <4>1. i - m = j - m
        BY <1>1, <1>5, <1>7, <2>2, <3>2 DEF Unique
      <4> QED
        BY <1>1, <4>1
    <3>3. CASE i \in 1 .. m /\ j \notin 1 .. m
      BY <1>3, <1>5, <2>1, <2>2, <3>3
    <3>4. CASE i \notin 1 .. m /\ j \in 1 .. m
      BY <1>3, <1>5, <2>1, <2>2, <3>4
    <3> QED
      BY <3>1, <3>2, <3>3, <3>4
  <2> QED
    BY <1>2, <2>2 DEF Unique
<1> QED
  BY <1>2, <1>6, <1>7 DEF Joined, all

-----------------------------------------------------------------------------
JoinedAsker(s, list, n, q) ==
    [s.ctx[q] EXCEPT !.state = "again", !.node = n,
                     !.event = IF q = Head(list) THEN TRUE ELSE @]

JoinedState(s, list, n, r) ==
    /\ r \in State
    /\ r.ctx = [q \in Ctx |-> IF q \in Range(list) THEN JoinedAsker(s, list, n, q)
                              ELSE s.ctx[q]]
    /\ r.node = [m \in Name |-> IF m = n
                                THEN [s.node[n] EXCEPT !.waiting = list \o s.node[n].waiting]
                                ELSE s.node[m]]
    /\ r.tree = s.tree /\ r.resend = s.resend /\ r.expire = s.expire
    /\ r.old = s.old /\ r.asked = s.asked /\ r.timer = s.timer

\* Join() in terms of the parts of a state.
LEMMA JoinIs ==
  ASSUME NEW s \in State, NEW list, Askers(s, list), NEW n \in Name
  PROVE  JoinedState(s, list, n, Join(s, list, n))
<1> DEFINE h == Head(list)
           u == SetTimeout(s, h)
           w == list \o s.node[n].waiting
           nodes == [s.node EXCEPT ![n].waiting = w]
           asker(q) == IF q \in Range(list)
                       THEN [u.ctx[q] EXCEPT !.state = "again", !.node = n] ELSE u.ctx[q]
           r == Join(s, list, n)
<1>1. h \in Ctx /\ h \in Range(list) /\ list \in Seq(Ctx)
  BY HeadIs DEF Askers
<1>2. /\ s.ctx \in [Ctx -> CtxRec] /\ s.node \in [Name -> NodeRec] /\ s.node[n] \in NodeRec
      /\ \A q \in Ctx : s.ctx[q] \in CtxRec
  BY StateFields
<1>3. /\ u.ctx = [s.ctx EXCEPT ![h].event = TRUE]
      /\ u.tree = s.tree /\ u.node = s.node /\ u.resend = s.resend /\ u.expire = s.expire
      /\ u.old = s.old /\ u.asked = s.asked /\ u.timer = s.timer
  BY DEF SetTimeout, State
<1>4. u \in State
  <2>1. [s.ctx[h] EXCEPT !.event = TRUE] \in CtxRec
    BY <1>1, <1>2 DEF CtxRec
  <2>2. u.ctx \in [Ctx -> CtxRec]
    BY <1>1, <1>2, <1>3, <2>1
  <2> QED
    BY <1>3, <2>2 DEF SetTimeout, State
<1> HIDE DEF u, h
<1>5. w \in Seq(Ctx)
  <2>1. s.node[n].waiting \in Seq(Ctx)
    BY <1>2 DEF NodeRec
  <2> QED
    BY <1>1, <2>1, ConcatProperties
<1>6. /\ r.node = [u.node EXCEPT ![n].waiting = list \o @]
      /\ r.ctx = [q \in Ctx |-> asker(q)]
      /\ r.tree = u.tree /\ r.resend = u.resend /\ r.expire = u.expire
      /\ r.old = u.old /\ r.asked = u.asked /\ r.timer = u.timer
  BY <1>4 DEF Join, State, u, h
<1>7. r.node = [m \in Name |-> IF m = n
                               THEN [s.node[n] EXCEPT !.waiting = list \o s.node[n].waiting]
                               ELSE s.node[m]]
  BY <1>2, <1>3, <1>6
<1>8. ASSUME NEW q \in Ctx
      PROVE  asker(q) = (IF q \in Range(list) THEN JoinedAsker(s, list, n, q) ELSE s.ctx[q])
  <2>1. CASE q = h
    <3>1. u.ctx[q] = [s.ctx[q] EXCEPT !.event = TRUE]
      BY <1>2, <1>3, <2>1
    <3> QED
      BY <1>1, <1>2, <2>1, <3>1 DEF JoinedAsker, h, CtxRec
  <2>2. CASE q # h
    <3>1. u.ctx[q] = s.ctx[q]
      BY <1>2, <1>3, <2>2
    <3>2. JoinedAsker(s, list, n, q) = [s.ctx[q] EXCEPT !.state = "again", !.node = n]
      BY <1>2, <2>2 DEF JoinedAsker, h, CtxRec
    <3> QED
      BY <3>1, <3>2
  <2> QED
    BY <2>1, <2>2
<1>9. r.ctx = [q \in Ctx |-> IF q \in Range(list) THEN JoinedAsker(s, list, n, q)
                             ELSE s.ctx[q]]
  <2> HIDE DEF asker
  <2> QED
    BY <1>6, <1>8
<1>10. r.ctx \in [Ctx -> CtxRec] /\ r.node \in [Name -> NodeRec]
  <2>1. ASSUME NEW q \in Ctx PROVE JoinedAsker(s, list, n, q) \in CtxRec
    BY <1>2 DEF JoinedAsker, CtxRec
  <2>2. [s.node[n] EXCEPT !.waiting = w] \in NodeRec
    BY <1>2, <1>5 DEF NodeRec
  <2> QED
    BY <1>2, <1>7, <1>9, <2>1, <2>2
<1>11. r \in State
  BY <1>4, <1>6, <1>10 DEF Join, State, u, h
<1> QED
  BY <1>3, <1>6, <1>7, <1>9, <1>11 DEF JoinedState

\* Those who come are in the list of the node, which is being resolved.
LEMMA JoinGood ==
  ASSUME NEW s, NEW list, Good(s, Range(list)), Askers(s, list), NEW n \in Name,
         n \in Range(s.resend), ~s.node[n].valid
  PROVE  Good(Join(s, list, n), {})
<1> DEFINE r == Join(s, list, n)
           w == s.node[n].waiting
<1>1. s \in State /\ Queues(s) /\ Lists(s, Range(list)) /\ Timers(s)
  BY DEF Good
<1>2. JoinedState(s, list, n, r)
  BY <1>1, JoinIs
<1>3. /\ s.ctx \in [Ctx -> CtxRec] /\ s.node \in [Name -> NodeRec] /\ s.node[n] \in NodeRec
      /\ \A q \in Ctx : s.ctx[q] \in CtxRec
  BY <1>1, StateFields
<1>4. list \in Seq(Ctx) /\ Unique(list) /\ Range(list) \subseteq Ctx
  BY HeadIs DEF Askers
<1> HIDE DEF r
<1>5. /\ r \in State
      /\ r.tree = s.tree /\ r.resend = s.resend /\ r.expire = s.expire /\ r.timer = s.timer
  BY <1>2 DEF JoinedState
<1>6. ASSUME NEW q \in Range(list)
      PROVE  r.ctx[q].state = "again" /\ r.ctx[q].node = n /\ r.ctx[q].event
  <2>1. q \in Ctx /\ s.ctx[q] \in CtxRec
    BY <1>3, <1>4
  <2>2. r.ctx[q] = JoinedAsker(s, list, n, q)
    BY <1>2, <2>1 DEF JoinedState
  <2>3. q # Head(list) => s.ctx[q].event
    BY DEF Askers
  <2> QED
    BY <2>1, <2>2, <2>3 DEF JoinedAsker, CtxRec
<1>7. \A q \in Ctx : q \notin Range(list) => r.ctx[q] = s.ctx[q]
  BY <1>2 DEF JoinedState
<1>8. /\ r.node[n] = [s.node[n] EXCEPT !.waiting = list \o w]
      /\ \A m \in Name : m # n => r.node[m] = s.node[m]
  BY <1>2 DEF JoinedState
<1>9. r.node[n].waiting = list \o w /\ r.node[n].valid = s.node[n].valid
      /\ r.node[n].query = s.node[n].query /\ r.node[n].addrs = s.node[n].addrs
  BY <1>3, <1>8 DEF NodeRec
<1>10. /\ Unique(w)
       /\ \A q \in Ctx : q \in Range(w)
             <=> q \notin Range(list) /\ s.ctx[q].state = "again" /\ s.ctx[q].node = n
  BY <1>1 DEF Lists, ListOf
<1>11. w \in Seq(Ctx)
  BY <1>3 DEF NodeRec
<1> HIDE DEF w
<1>12. Joined(Ctx, list, w, list \o w)
  BY <1>4, <1>11, RangeConcat
<1>13. Range(list) \cap Range(w) = {}
  BY <1>4, <1>10
<1>14. ListOf(r, {}, n)
  <2>1. Unique(list \o w) /\ Range(list \o w) = Range(list) \cup Range(w)
    BY <1>4, <1>10, <1>12, <1>13 DEF Joined
  <2>2. \A q \in Ctx : q \in Range(list) \cup Range(w)
                          <=> r.ctx[q].state = "again" /\ r.ctx[q].node = n
    BY <1>6, <1>7, <1>10
  <2> QED
    BY <1>5, <1>9, <2>1, <2>2 DEF ListOf
<1>15. ASSUME NEW m \in Name, m # n PROVE ListOf(r, {}, m)
  <2>1. ListOf(s, Range(list), m)
    BY <1>1 DEF Lists
  <2> QED
    BY <1>5, <1>6, <1>7, <1>8, <1>15, <2>1 DEF ListOf
<1>16. Timers(r)
  BY <1>1, <1>5, <1>6, <1>7 DEF Timers
<1>17. ASSUME NEW m \in Name PROVE NodeOK(r.node[m])
  <2>1. NodeOK(s.node[m])
    BY DEF Good
  <2> QED
    BY <1>8, <1>9, <2>1 DEF NodeOK
<1>18. ASSUME NEW q \in Ctx PROVE TellOK(r.ctx[q])
  BY <1>6, <1>7 DEF Good, TellOK
<1>19. Queues(r)
  BY <1>1, <1>5 DEF Queues
<1> QED
  BY <1>5, <1>14, <1>15, <1>16, <1>17, <1>18, <1>19 DEF Good, Lists, r

-----------------------------------------------------------------------------
\* What those who get no address are told.
LEMMA FailedType == ToldType("failed", <<>>)
BY DEF ToldType

\* The node of a new query is on name_resend_queue, and the timer runs.
LEMMA QueryGood ==
  ASSUME NEW s, NEW list, Good(s, Range(list)), Askers(s, list), NEW n \in Name,
         s.node[n].waiting = <<>>
  PROVE  Good(Query(s, list, n), {})
<1>0. s \in State /\ Queues(s) /\ Lists(s, Range(list)) /\ Timers(s) /\ list \in Seq(Ctx)
  BY DEF Good, Askers
<1>1. CASE n \in Malformed
  <2>1. Good(FreeNodes(s, {n}), Range(list))
    BY FreeIdleGood
  <2> QED
    BY <1>0, <1>1, <2>1, AnswerGood, FailedType DEF Query
<1>2. CASE n \notin Malformed
  <2> DEFINE rn == [NoNode EXCEPT !.query = Len(s.asked) + 1]
             u == [s EXCEPT !.tree = @ \cup {n}, !.node[n] = rn, !.asked = Append(@, n),
                            !.timer = @ \/ Without(s.resend, {n}) = <<>>]
             r == ToResend(u, n)
  <2>1. Query(s, list, n) = Join(r, list, n)
    BY <1>2 DEF Query
  <2>2. /\ s.node \in [Name -> NodeRec] /\ s.asked \in Seq(Name) /\ s.tree \in SUBSET Name
        /\ s.resend \in Seq(Name)
    BY <1>0, StateFields
  <2>3. Len(s.asked) \in Nat /\ Append(s.asked, n) \in Seq(Name)
    BY <2>2, LenProperties, AppendProperties
  <2>4. /\ rn \in NodeRec /\ rn.waiting = <<>> /\ ~rn.valid
        /\ rn.addrs = [t \in Type |-> Unanswered]
    <3>1. /\ rn \in NodeRec /\ rn.waiting = NoNode.waiting /\ rn.valid = NoNode.valid
          /\ rn.addrs = NoNode.addrs
      <4>1. NoNode \in NodeRec /\ Len(s.asked) + 1 \in Nat
        BY <2>3, NoNodeType
      <4>2. ASSUME NEW x \in NodeRec, NEW k \in Nat
            PROVE  /\ [x EXCEPT !.query = k] \in NodeRec
                   /\ [x EXCEPT !.query = k].waiting = x.waiting
                   /\ [x EXCEPT !.query = k].valid = x.valid
                   /\ [x EXCEPT !.query = k].addrs = x.addrs
        BY DEF NodeRec
      <4> QED
        BY <4>1, <4>2
    <3>2. /\ NoNode.waiting = <<>> /\ ~NoNode.valid
          /\ NoNode.addrs = [t \in Type |-> Unanswered]
      BY DEF NoNode
    <3> QED
      BY <3>1, <3>2
  <2>5. NodeOK(rn)
    BY <2>4 DEF NodeOK
  <2> HIDE DEF rn
  <2>6. /\ u.tree = s.tree \cup {n} /\ u.node = [s.node EXCEPT ![n] = rn]
        /\ u.asked = Append(s.asked, n)
        /\ u.timer = (s.timer \/ Without(s.resend, {n}) = <<>>)
        /\ u.ctx = s.ctx /\ u.resend = s.resend /\ u.expire = s.expire /\ u.old = s.old
    BY <1>0 DEF State
  <2>7. u \in State
    <3>1. u.node \in [Name -> NodeRec]
      BY <2>2, <2>4, <2>6
    <3>2. u.timer \in BOOLEAN
      BY <2>6
    <3> QED
      BY <1>0, <2>2, <2>3, <3>1, <3>2 DEF State
  <2> HIDE DEF u
  <2>8. QueuesBut(u, n)
    BY <1>0, <2>6 DEF Queues, QueuesBut
  <2>9. Resent(u, n, r)
    BY <2>7, ToResendIs
  <2> HIDE DEF r
  <2>10. Queues(r) /\ Range(r.resend) = Range(s.resend) \cup {n}
    BY <2>6, <2>7, <2>8, <2>9, QueuesToResend
  <2>11. r \in State /\ r.ctx = s.ctx /\ r.node = [s.node EXCEPT ![n] = rn] /\ r.timer = u.timer
    BY <2>6, <2>9 DEF Resent
  <2>12. r.node[n] = rn /\ \A m \in Name : m # n => r.node[m] = s.node[m]
    BY <2>2, <2>11
  <2>13. ASSUME NEW m \in Name PROVE ListOf(r, Range(list), m)
    <3>1. ListOf(s, Range(list), m)
      BY <1>0 DEF Lists
    <3>2. CASE m = n
      BY <2>4, <2>11, <2>12, <3>1, <3>2, NoNodeList DEF ListOf
    <3>3. CASE m # n
      BY <2>10, <2>11, <2>12, <3>1, <3>3 DEF ListOf
    <3> QED
      BY <3>2, <3>3
  <2>14. r.timer
    <3>1. Remaining(Name, s.resend, {n}, Without(s.resend, {n}))
      BY <2>2, WithoutRemains
    <3>2. CASE Without(s.resend, {n}) = <<>>
      BY <2>6, <2>11, <3>2
    <3>3. CASE Without(s.resend, {n}) # <<>>
      <4>1. s.resend # <<>>
        <5>1. Range(Without(s.resend, {n})) # {}
          <6> DEFINE w == Without(s.resend, {n})
          <6>1. w \in Seq(Name) /\ w # <<>>
            BY <3>1, <3>3 DEF Remaining
          <6> HIDE DEF w
          <6>2. Range(w) # {}
            BY <6>1, EmptyRange
          <6> QED
            BY <6>2 DEF w
        <5>2. Range(s.resend) # {}
          BY <3>1, <5>1 DEF Remaining
        <5> QED
          BY <5>2, NoNodeList
      <4> QED
        BY <1>0, <2>6, <2>11, <4>1 DEF Timers
    <3> QED
      BY <3>2, <3>3
  <2>15. Timers(r)
    BY <1>0, <2>11, <2>14 DEF Timers
  <2>16. ASSUME NEW m \in Name PROVE NodeOK(r.node[m])
    BY <2>5, <2>12 DEF Good
  <2>17. Good(r, Range(list))
    BY <2>10, <2>11, <2>13, <2>15, <2>16 DEF Good, Lists
  <2>18. Askers(r, list)
    BY <2>11 DEF Askers
  <2>19. n \in Range(r.resend) /\ ~r.node[n].valid
    BY <2>4, <2>10, <2>12
  <2> QED
    BY <2>1, <2>17, <2>18, <2>19, JoinGood
<1> QED
  BY <1>1, <1>2

-----------------------------------------------------------------------------
\* Only the count of the aliases passed differs.
LEMMA RecursionGood ==
  ASSUME NEW s, NEW list, Good(s, Range(list)), Askers(s, list), NEW k \in Nat, NEW r,
         r = [s EXCEPT !.ctx[Head(list)].recursion = @ + k]
  PROVE  /\ Good(r, Range(list)) /\ Askers(r, list)
         /\ r.node = s.node /\ r.tree = s.tree /\ r.resend = s.resend
<1> DEFINE h == Head(list)
           c == [s.ctx[h] EXCEPT !.recursion = @ + k]
<1>1. s \in State /\ Queues(s) /\ Lists(s, Range(list)) /\ Timers(s) /\ list \in Seq(Ctx)
  BY DEF Good, Askers
<1>2. h \in Ctx /\ Range(list) \subseteq Ctx
  BY HeadIs DEF Askers
<1>3. s.ctx \in [Ctx -> CtxRec] /\ s.ctx[h] \in CtxRec
  BY <1>1, <1>2, StateFields
<1> HIDE DEF h
<1>4. /\ c \in CtxRec /\ c.state = s.ctx[h].state /\ c.node = s.ctx[h].node
      /\ c.event = s.ctx[h].event /\ c.answer = s.ctx[h].answer
  BY <1>3 DEF CtxRec
<1>5. /\ r.ctx = [s.ctx EXCEPT ![h] = c]
      /\ r.tree = s.tree /\ r.node = s.node /\ r.resend = s.resend /\ r.expire = s.expire
      /\ r.old = s.old /\ r.asked = s.asked /\ r.timer = s.timer
  BY <1>1, <1>2, <1>3 DEF State, h
<1>6. r \in State
  <2>1. r.ctx \in [Ctx -> CtxRec]
    <3> HIDE DEF c
    <3>1. [s.ctx EXCEPT ![h] = c] \in [Ctx -> CtxRec]
      BY <1>3, <1>4
    <3> QED
      BY <1>5, <3>1
  <2> QED
    <3>1. r = [s EXCEPT !.ctx = r.ctx]
      BY <1>1 DEF State
    <3> QED
      BY <1>1, <2>1, <3>1 DEF State
<1>7. \A q \in Ctx : /\ r.ctx[q].state = s.ctx[q].state /\ r.ctx[q].node = s.ctx[q].node
                     /\ r.ctx[q].event = s.ctx[q].event /\ r.ctx[q].answer = s.ctx[q].answer
  BY <1>3, <1>4, <1>5
<1>8. ASSUME NEW n \in Name PROVE ListOf(r, Range(list), n)
  <2>1. ListOf(s, Range(list), n)
    BY <1>1 DEF Lists
  <2> QED
    BY <1>5, <1>7, <2>1 DEF ListOf
<1>9. Timers(r)
  BY <1>1, <1>5, <1>7 DEF Timers
<1>10. ASSUME NEW n \in Name PROVE NodeOK(r.node[n])
  BY <1>5 DEF Good
<1>11. ASSUME NEW q \in Ctx PROVE TellOK(r.ctx[q])
  <2>1. TellOK(s.ctx[q])
    BY DEF Good
  <2> QED
    BY <1>7, <2>1 DEF TellOK
<1>12. Queues(r)
  BY <1>1, <1>5 DEF Queues
<1>13. Good(r, Range(list))
  BY <1>6, <1>8, <1>9, <1>10, <1>11, <1>12 DEF Good, Lists
<1>14. Askers(r, list)
  BY <1>2, <1>7 DEF Askers
<1> QED
  BY <1>5, <1>13, <1>14

\* The addresses of a node that are given to an asker.
LEMMA NodeTold ==
  ASSUME NEW rn \in NodeRec, HasAddrs(rn), OneQuery(rn.addrs)
  PROVE  ToldType("ok", rn.addrs)
<1>1. rn.addrs \in [Type -> Int]
  BY DEF NodeRec
<1>2. \E t \in Type : rn.addrs[t] # Empty
  BY DEF HasAddrs, Answered
<1> QED
  BY <1>1, <1>2 DEF ToldType

\* ngx_resolve_name_locked() leaves nobody pending, with memory or without.
LEMMA ResolveNameGood ==
  ASSUME NEW s, NEW list, Good(s, Range(list)), Askers(s, list), NEW n \in Name,
         NEW mem \in BOOLEAN
  PROVE  Good(ResolveName(s, list, n, mem), {})
<1> DEFINE first == Head(list)
           allowed == MaxRecursion - s.ctx[first].recursion
           path == AliasPath(s, n, IF allowed < 0 THEN 0 ELSE allowed)
           m == Last(path)
           rn == s.node[m]
           cached == m \in s.tree /\ rn.valid
           passed == IF cached THEN path ELSE Front(path)
           moved == AllToExpire(s, passed)
           s1 == [moved EXCEPT !.ctx[first].recursion = @ + Len(path) - 1]
           R == ResolveName(s, list, n, mem)
<1>1. /\ IsAlias(s, m) => R = Answer(s1, list, "failed", <<>>)
      /\ cached /\ ~IsAlias(s, m) => R = IF mem THEN Answer(s1, list, "ok", rn.addrs) ELSE s1
      /\ ~cached /\ rn.waiting # <<>> => R = IF mem THEN Join(s1, list, m) ELSE s1
      /\ ~cached /\ rn.waiting = <<>>
           => R = IF mem THEN Query(s1, list, m) ELSE FreeNodes(s1, {m})
  <2>1. IsAlias(s, m) => cached
    BY DEF IsAlias
  <2> DEFINE A == IsAlias(s, m)
             B == cached /\ ~IsAlias(s, m)
             C == ~cached /\ rn.waiting # <<>>
             D == ~cached /\ rn.waiting = <<>>
             X == IF mem THEN Answer(s1, list, "ok", rn.addrs) ELSE s1
             Y == IF mem THEN Join(s1, list, m) ELSE s1
             Z == IF mem THEN Query(s1, list, m) ELSE FreeNodes(s1, {m})
             W == Answer(s1, list, "failed", <<>>)
  <2>2. R = CASE A -> W [] B -> X [] C -> Y [] D -> Z
    BY Zenon DEF ResolveName
  <2>3. (A => ~B /\ ~C /\ ~D) /\ (B => ~C /\ ~D) /\ (C => ~D)
    BY <2>1
  <2> HIDE DEF R, A, B, C, D, X, Y, Z, W
  <2>4. /\ A => R = W
        /\ B => R = X
        /\ C => R = Y
        /\ D => R = Z
    BY <2>2, <2>3
  <2> QED
    BY <2>4, Zenon DEF A, B, C, D, X, Y, Z, W
<1>2. s \in State /\ list \in Seq(Ctx) /\ first \in Ctx
  BY HeadIs DEF Good, Askers
<1>3. (IF allowed < 0 THEN 0 ELSE allowed) \in Nat
  <2>1. s.ctx[first].recursion \in Nat
    BY <1>2, StateFields DEF CtxRec
  <2> QED
    BY <2>1, ResolverAssumption
<1> HIDE DEF R, allowed
<1>4. Path(s, path)
  BY <1>3, AliasPathIs
<1> HIDE DEF path
<1>5. /\ path \in Seq(Name) /\ Len(path) \in Nat /\ Len(path) >= 1 /\ m \in Name
      /\ m = path[Len(path)]
      /\ \A k \in 1 .. (Len(path) - 1) : IsAlias(s, path[k])
      /\ \A k \in 1 .. Len(path) : path[k] \in Name
  <2>1. path \in Seq(Name) /\ Len(path) \in Nat /\ Len(path) >= 1
    BY <1>4 DEF Path
  <2>2. \A k \in 1 .. Len(path) : path[k] \in Name
    BY <2>1, ElementOfSeq
  <2>3. m = path[Len(path)]
    BY DEF Last
  <2> QED
    BY <1>4, <2>1, <2>2, <2>3 DEF Path
<1> HIDE DEF m
<1>6. rn \in NodeRec /\ NodeOK(rn)
  BY <1>2, <1>5, StateFields DEF Good
<1> HIDE DEF rn
<1>7. /\ passed \in Seq(Name)
      /\ \A k \in 1 .. Len(passed) :
            passed[k] \in s.tree /\ s.node[passed[k]].waiting = <<>>
  <2>1. \A k \in 1 .. (Len(path) - 1) : path[k] \in s.tree /\ s.node[path[k]].waiting = <<>>
    BY <1>5, AliasName
  <2>2. CASE cached
    <3>1. m \in s.tree /\ s.node[m].waiting = <<>>
      BY <1>6, <2>2 DEF NodeOK, rn
    <3>2. passed = path
      BY <2>2
    <3>3. ASSUME NEW k \in 1 .. Len(path)
          PROVE  path[k] \in s.tree /\ s.node[path[k]].waiting = <<>>
      <4>1. CASE k = Len(path)
        BY <1>5, <3>1, <4>1
      <4>2. CASE k # Len(path)
        <5>1. k \in 1 .. (Len(path) - 1)
          BY <1>5, <4>2
        <5> QED
          BY <2>1, <5>1
      <4> QED
        BY <4>1, <4>2
    <3> QED
      BY <1>5, <3>2, <3>3
  <2>3. CASE ~cached
    <3>1. passed = SubSeq(path, 1, Len(path) - 1)
      BY <2>3 DEF Front
    <3>2. /\ passed \in Seq(Name) /\ Len(passed) = Len(path) - 1
          /\ \A k \in 1 .. (Len(path) - 1) : passed[k] = path[k]
      BY <1>5, <3>1, SubSeqProperties
    <3> HIDE DEF passed
    <3> QED
      BY <2>1, <3>2
  <2> HIDE DEF passed
  <2> QED
    BY <2>2, <2>3
<1> HIDE DEF passed
<1>8. Good(moved, Range(list)) /\ SameNodes(s, moved)
  BY <1>7, AllToExpireGood
<1>9. Askers(moved, list)
  BY <1>8 DEF SameNodes, Askers
<1> HIDE DEF moved
<1> DEFINE k == Len(path) - 1
           s2 == [moved EXCEPT !.ctx[first].recursion = @ + k]
<1>10. s1 = s2 /\ k \in Nat
  <2>1. k \in Nat
    BY <1>5
  <2>2. moved.ctx[first].recursion \in Nat
    <3>1. moved \in State
      BY <1>8 DEF Good
    <3> QED
      BY <1>2, <3>1, StateFields DEF CtxRec
  <2>3. moved.ctx[first].recursion + Len(path) - 1 = moved.ctx[first].recursion + k
    BY <1>5, <2>2
  <2> QED
    BY <2>1, <2>3
<1>11. /\ Good(s1, Range(list)) /\ Askers(s1, list)
       /\ s1.node = s.node /\ s1.tree = s.tree
  <2> HIDE DEF k, s1
  <2> QED
    BY <1>8, <1>9, <1>10, RecursionGood DEF SameNodes
<1>12. Good(s1, {})
  <2> HIDE DEF s1
  <2> QED
    BY <1>11, NotPending
<1> HIDE DEF s1
<1>13. CASE IsAlias(s, m)
  BY <1>1, <1>2, <1>11, <1>13, AnswerGood, FailedType DEF R
<1>14. CASE cached /\ ~IsAlias(s, m)
  <2>1. ToldType("ok", rn.addrs)
    <3>1. HasAddrs(rn)
      BY <1>14 DEF IsAlias, rn
    <3>2. OneQuery(rn.addrs)
      BY <1>6, <1>14 DEF NodeOK
    <3> QED
      BY <1>6, <3>1, <3>2, NodeTold
  <2>2. Good(Answer(s1, list, "ok", rn.addrs), {})
    BY <1>2, <1>11, <2>1, AnswerGood
  <2> QED
    BY <1>1, <1>12, <1>14, <2>2 DEF R
<1>15. CASE ~cached /\ rn.waiting # <<>>
  <2>1. m \in Range(s1.resend)
    BY <1>5, <1>11, <1>15 DEF Good, Lists, ListOf, rn
  <2>2. m \in s1.tree
    BY <1>11, <2>1 DEF Good, Queues
  <2>3. ~s1.node[m].valid
    BY <1>11, <1>15, <2>2 DEF rn
  <2>4. Good(Join(s1, list, m), {})
    BY <1>5, <1>11, <2>1, <2>3, JoinGood
  <2> QED
    BY <1>1, <1>12, <1>15, <2>4 DEF R
<1>16. CASE ~cached /\ rn.waiting = <<>>
  <2>1. s1.node[m].waiting = <<>>
    BY <1>11, <1>16 DEF rn
  <2>2. Good(Query(s1, list, m), {})
    BY <1>5, <1>11, <2>1, QueryGood
  <2>3. Good(FreeNodes(s1, {m}), {})
    BY <1>12, <2>1, FreeIdleGood
  <2> QED
    BY <1>1, <1>16, <2>2, <2>3 DEF R
<1> QED
  BY <1>13, <1>14, <1>15, <1>16

-----------------------------------------------------------------------------
(* The ends of a query. *)

\* u is s, but for the node n, which is rn and has nobody waiting.
Emptied(s, n, rn, u) ==
    /\ u \in State
    /\ u.node = [s.node EXCEPT ![n] = rn]
    /\ u.ctx = s.ctx /\ u.tree = s.tree /\ u.resend = s.resend /\ u.expire = s.expire
    /\ u.old = s.old /\ u.asked = s.asked /\ u.timer = s.timer

\* Those who waited for the node are pending.
LEMMA EmptiedGood ==
  ASSUME NEW s, Good(s, {}), NEW n \in Name, NEW rn \in NodeRec, NodeOK(rn), rn.waiting = <<>>,
         NEW u, Emptied(s, n, rn, u)
  PROVE  Good(u, Range(s.node[n].waiting))
<1> DEFINE P == Range(s.node[n].waiting)
<1>1. s \in State /\ Queues(s) /\ Lists(s, {}) /\ Timers(s) /\ s.node \in [Name -> NodeRec]
  BY StateFields DEF Good
<1>2. /\ u \in State
      /\ u.node[n] = rn /\ \A m \in Name : m # n => u.node[m] = s.node[m]
      /\ u.ctx = s.ctx /\ u.tree = s.tree /\ u.resend = s.resend /\ u.expire = s.expire
      /\ u.timer = s.timer
  BY <1>1 DEF Emptied
<1>3. ASSUME NEW m \in Name PROVE ListOf(u, P, m)
  <2>1. ListOf(s, {}, m) /\ ListOf(s, {}, n)
    BY <1>1 DEF Lists
  <2>2. CASE m = n
    BY <1>2, <2>1, <2>2, NoNodeList DEF ListOf
  <2>3. CASE m # n
    BY <1>2, <2>1, <2>3 DEF ListOf
  <2> QED
    BY <2>2, <2>3
<1>4. Queues(u) /\ Timers(u)
  BY <1>1, <1>2 DEF Queues, Timers
<1>5. ASSUME NEW m \in Name PROVE NodeOK(u.node[m])
  BY <1>2 DEF Good
<1>6. ASSUME NEW q \in Ctx PROVE TellOK(u.ctx[q])
  BY <1>2 DEF Good
<1> QED
  BY <1>2, <1>3, <1>4, <1>5, <1>6 DEF Good, Lists

\* The list of a node.
LEMMA ListType ==
  ASSUME NEW s, NEW pending, Good(s, pending), NEW n \in Name
  PROVE  s.node[n] \in NodeRec /\ s.node[n].waiting \in Seq(Ctx)
<1>1. s \in State
  BY DEF Good
<1>2. s.node[n] \in NodeRec
  BY <1>1, StateFields
<1> QED
  BY <1>2 DEF NodeRec

\* A node may be freed once all of its list are told.
LEMMA FailAllGood ==
  ASSUME NEW s, Good(s, {}), NEW n \in Name
  PROVE  Good(FailAll(s, n), {})
<1> DEFINE list == s.node[n].waiting
<1>1. list \in Seq(Ctx) /\ Range(list) \subseteq Ctx
  BY ListType, EmptyRange
<1>2. Range(list) = {} \cup {q \in Ctx : \E m \in Name \cap {n} : q \in Range(s.node[m].waiting)}
  BY <1>1
<1>3. Good(FreeNodes(s, {n}), Range(list))
  BY <1>2, FreeGood
<1> QED
  BY <1>1, <1>3, AnswerGood, FailedType DEF FailAll

\* All the answers are there, they have addresses and are of one query.
LEMMA ExportGood ==
  ASSUME NEW s, Good(s, {}), NEW n \in Name, n \in s.tree,
         \A t \in Type : s.node[n].addrs[t] # Unanswered,
         s.node[n].query # 0, HasAddrs(s.node[n])
  PROVE  Good(Export(s, n), {})
<1> DEFINE list == s.node[n].waiting
           addrs == s.node[n].addrs
           rn == [s.node[n] EXCEPT !.valid = TRUE, !.waiting = <<>>, !.query = 0, !.tcp = {}]
           u == [s EXCEPT !.node[n].valid = TRUE, !.node[n].waiting = <<>>,
                          !.node[n].query = 0, !.node[n].tcp = {}]
<1>1. s \in State /\ s.node \in [Name -> NodeRec] /\ s.node[n] \in NodeRec /\ list \in Seq(Ctx)
  BY ListType, StateFields DEF Good
<1>2. <<>> \in Seq(Ctx)
  BY EmptySeq
<1>3. /\ rn \in NodeRec /\ rn.waiting = <<>> /\ rn.valid /\ rn.query = 0 /\ rn.addrs = addrs
      /\ rn.cname = s.node[n].cname
  BY <1>1, <1>2 DEF NodeRec
<1>4. OneQuery(addrs)
  <2>1. NodeOK(s.node[n]) /\ s.node[n].query \in Int
    BY <1>1 DEF Good, NodeRec
  <2>2. \A t \in Type : addrs[t] \in {Empty, s.node[n].query}
    BY <2>1 DEF NodeOK
  <2> QED
    BY <2>1, <2>2 DEF OneQuery
<1>5. HasAddrs(rn) /\ NodeOK(rn)
  <2>1. HasAddrs(rn)
    BY <1>3 DEF HasAddrs, Answered
  <2> HIDE DEF rn
  <2> QED
    BY <1>3, <1>4, <2>1 DEF NodeOK
<1>6. Emptied(s, n, rn, u)
  <2>1. u.node = [s.node EXCEPT ![n].valid = TRUE, ![n].waiting = <<>>, ![n].query = 0,
                                ![n].tcp = {}]
    BY <1>1 DEF State
  <2>2. u.node = [s.node EXCEPT ![n] = rn]
    BY <1>1, <2>1
  <2>3. /\ u.ctx = s.ctx /\ u.tree = s.tree /\ u.resend = s.resend /\ u.expire = s.expire
        /\ u.old = s.old /\ u.asked = s.asked /\ u.timer = s.timer
    BY <1>1 DEF State
  <2>4. u \in State
    <3>1. u.node \in [Name -> NodeRec]
      <4> HIDE DEF rn, u
      <4> QED
        BY <1>1, <1>3, <2>2
    <3> QED
      BY <1>1, <3>1 DEF State
  <2> HIDE DEF u, rn
  <2> QED
    BY <2>2, <2>3, <2>4 DEF Emptied
<1> HIDE DEF u, rn
<1>7. Good(u, Range(list)) /\ n \in u.tree /\ u.node[n].waiting = <<>>
  <2>1. Good(u, Range(list))
    BY <1>3, <1>5, <1>6, EmptiedGood
  <2> QED
    BY <1>1, <1>3, <1>6, <2>1 DEF Emptied
<1>8. Good(ToExpire(u, n), Range(list))
  BY <1>7, ToExpireGood
<1>9. ToldType("ok", addrs)
  BY <1>1, <1>4, NodeTold
<1>10. Export(s, n) = Answer(ToExpire(u, n), list, "ok", addrs)
  BY DEF Export, u
<1> QED
  BY <1>1, <1>8, <1>9, <1>10, AnswerGood

\* Those who waited for the alias go on to wait for what it names.
LEMMA FollowGood ==
  ASSUME NEW s, NEW list \in Seq(Ctx), Good(s, Range(list)), Unique(list),
         \A q \in Range(list) : s.ctx[q].state = "again",
         NEW n, NEW c \in Name, NEW mem \in BOOLEAN
  PROVE  Good(Follow(s, n, list, c, mem), {})
<1> DEFINE freed == [s EXCEPT !.ctx = [q \in Ctx |-> IF q \in Range(list)
                                                     THEN [@[q] EXCEPT !.node = NoName]
                                                     ELSE @[q]]]
           first == [freed EXCEPT !.ctx[Head(list)].recursion = @ + 1]
           R == Follow(s, n, list, c, mem)
<1>1. s \in State /\ Queues(s) /\ Lists(s, Range(list)) /\ Timers(s)
  BY DEF Good
<1>2. /\ list = <<>> => R = s
      /\ list # <<>> /\ s.ctx[Head(list)].recursion >= MaxRecursion
            => R = Answer(s, list, "failed", <<>>)
      /\ list # <<>> /\ ~(s.ctx[Head(list)].recursion >= MaxRecursion)
            => R = ResolveName(first, list, c, mem)
  BY Zenon DEF Follow
<1> HIDE DEF R
<1>3. CASE list = <<>>
  BY <1>2, <1>3, NoNodeList DEF R
<1>4. CASE list # <<>> /\ s.ctx[Head(list)].recursion >= MaxRecursion
  BY <1>2, <1>4, AnswerGood, FailedType DEF R
<1>5. CASE list # <<>> /\ ~(s.ctx[Head(list)].recursion >= MaxRecursion)
  <2>1. Range(list) \subseteq Ctx
    BY EmptyRange
  <2>2. s.ctx \in [Ctx -> CtxRec] /\ \A q \in Ctx : s.ctx[q] \in CtxRec
    BY <1>1, StateFields
  <2>3. /\ freed.ctx = [q \in Ctx |-> IF q \in Range(list)
                                      THEN [s.ctx[q] EXCEPT !.node = NoName] ELSE s.ctx[q]]
        /\ freed.tree = s.tree /\ freed.node = s.node /\ freed.resend = s.resend
        /\ freed.expire = s.expire /\ freed.timer = s.timer
    BY <1>1 DEF State
  <2>4. freed \in State
    <3>1. ASSUME NEW q \in Ctx PROVE [s.ctx[q] EXCEPT !.node = NoName] \in CtxRec
      BY <2>2 DEF CtxRec
    <3>2. freed.ctx \in [Ctx -> CtxRec]
      <4> HIDE DEF freed
      <4> QED
        BY <2>2, <2>3, <3>1
    <3> QED
      BY <1>1, <3>2 DEF State
  <2> HIDE DEF freed
  <2>5. ASSUME NEW q \in Range(list)
        PROVE  /\ freed.ctx[q].node = NoName /\ freed.ctx[q].state = "again"
               /\ freed.ctx[q].event
    <3>1. q \in Ctx /\ s.ctx[q] \in CtxRec
      BY <2>1, <2>2
    <3>2. freed.ctx[q] = [s.ctx[q] EXCEPT !.node = NoName]
      BY <2>3, <3>1
    <3>3. s.ctx[q].state = "again" /\ s.ctx[q].event
      BY <1>1, <3>1 DEF Timers
    <3> QED
      BY <3>1, <3>2, <3>3 DEF CtxRec
  <2>6. \A q \in Ctx : q \notin Range(list) => freed.ctx[q] = s.ctx[q]
    BY <2>3
  <2>7. ASSUME NEW m \in Name PROVE ListOf(freed, Range(list), m)
    <3>1. ListOf(s, Range(list), m)
      BY <1>1 DEF Lists
    <3> QED
      BY <2>3, <2>6, <3>1 DEF ListOf
  <2>8. Timers(freed)
    BY <1>1, <2>3, <2>5, <2>6 DEF Timers
  <2>9. Queues(freed)
    BY <1>1, <2>3 DEF Queues
  <2>10. ASSUME NEW m \in Name PROVE NodeOK(freed.node[m])
    BY <2>3 DEF Good
  <2>11. ASSUME NEW q \in Ctx PROVE TellOK(freed.ctx[q])
    BY <2>5, <2>6 DEF Good, TellOK
  <2>12. Good(freed, Range(list))
    BY <2>4, <2>7, <2>8, <2>9, <2>10, <2>11 DEF Good, Lists
  <2>13. Askers(freed, list)
    BY <1>5, <2>5, ResolverAssumption DEF Askers
  <2>14. Good(first, Range(list)) /\ Askers(first, list)
    <3> HIDE DEF first
    <3>1. first = [freed EXCEPT !.ctx[Head(list)].recursion = @ + 1]
      BY DEF first
    <3> QED
      BY <2>12, <2>13, <3>1, RecursionGood
  <2> HIDE DEF first
  <2> QED
    BY <1>2, <1>5, <2>14, ResolveNameGood DEF R
<1> QED
  BY <1>3, <1>4, <1>5

-----------------------------------------------------------------------------
(* Changes of one node or of one asker. *)

\* u is s, but for what is known of the node n.
OneNode(s, n, rn, u) ==
    /\ u \in State
    /\ u.node = [s.node EXCEPT ![n] = rn]
    /\ u.ctx = s.ctx /\ u.tree = s.tree /\ u.resend = s.resend /\ u.expire = s.expire
    /\ u.timer = s.timer

\* The list of the node must be the same.
LEMMA OneNodeGood ==
  ASSUME NEW s, NEW pending, Good(s, pending), NEW n \in Name, NEW rn \in NodeRec, NodeOK(rn),
         rn.waiting = s.node[n].waiting, NEW u, OneNode(s, n, rn, u)
  PROVE  Good(u, pending)
<1>1. s \in State /\ Queues(s) /\ Lists(s, pending) /\ Timers(s) /\ s.node \in [Name -> NodeRec]
  BY StateFields DEF Good
<1>2. /\ u \in State
      /\ u.node[n] = rn /\ \A m \in Name : m # n => u.node[m] = s.node[m]
      /\ u.ctx = s.ctx /\ u.tree = s.tree /\ u.resend = s.resend /\ u.expire = s.expire
      /\ u.timer = s.timer
  BY <1>1 DEF OneNode
<1>3. ASSUME NEW m \in Name PROVE ListOf(u, pending, m)
  <2>1. ListOf(s, pending, m)
    BY <1>1 DEF Lists
  <2>2. u.node[m].waiting = s.node[m].waiting
    BY <1>2
  <2> QED
    BY <1>2, <2>1, <2>2 DEF ListOf
<1>4. Queues(u) /\ Timers(u)
  BY <1>1, <1>2 DEF Queues, Timers
<1>5. ASSUME NEW m \in Name PROVE NodeOK(u.node[m])
  BY <1>2 DEF Good
<1>6. ASSUME NEW q \in Ctx PROVE TellOK(u.ctx[q])
  BY <1>2 DEF Good
<1> QED
  BY <1>2, <1>3, <1>4, <1>5, <1>6 DEF Good, Lists

\* u is s, but for the state of the asker q.
OneState(s, q, state, u) ==
    /\ u \in State
    /\ u.ctx[q] = [s.ctx[q] EXCEPT !.state = state]
    /\ \A p \in Ctx : p # q => u.ctx[p] = s.ctx[p]
    /\ u.node = s.node /\ u.tree = s.tree /\ u.resend = s.resend /\ u.expire = s.expire
    /\ u.old = s.old /\ u.asked = s.asked /\ u.timer = s.timer

\* The state of one asker is set.
LEMMA OneStateIs ==
  ASSUME NEW s \in State, NEW q \in Ctx,
         NEW state \in {"again", "timedout", "cancelled", "error"}
  PROVE  OneState(s, q, state, [s EXCEPT !.ctx[q].state = state])
<1> DEFINE u == [s EXCEPT !.ctx[q].state = state]
           c == [s.ctx[q] EXCEPT !.state = state]
<1>1. s.ctx \in [Ctx -> CtxRec] /\ s.ctx[q] \in CtxRec
  BY StateFields
<1>2. c \in CtxRec
  BY <1>1 DEF CtxRec
<1>3. /\ u.ctx = [s.ctx EXCEPT ![q] = c]
      /\ u.node = s.node /\ u.tree = s.tree /\ u.resend = s.resend /\ u.expire = s.expire
      /\ u.old = s.old /\ u.asked = s.asked /\ u.timer = s.timer
  BY DEF State
<1>4. u \in State
  <2>1. u.ctx \in [Ctx -> CtxRec]
    <3> HIDE DEF u, c
    <3> QED
      BY <1>1, <1>2, <1>3
  <2> QED
    BY <2>1 DEF State
<1> HIDE DEF u
<1>5. u.ctx[q] = c /\ \A p \in Ctx : p # q => u.ctx[p] = s.ctx[p]
  BY <1>1, <1>3
<1> QED
  BY <1>3, <1>4, <1>5 DEF OneState, u

\* One who does not wait may be told of an error.
LEMMA ErrorGood ==
  ASSUME NEW s, Good(s, {}), NEW q \in Ctx, s.ctx[q].state # "again"
  PROVE  Good([s EXCEPT !.ctx[q].state = "error"], {})
<1> DEFINE u == [s EXCEPT !.ctx[q].state = "error"]
<1>1. s \in State /\ Queues(s) /\ Lists(s, {}) /\ Timers(s)
  BY DEF Good
<1>2. OneState(s, q, "error", u)
  BY <1>1, OneStateIs
<1> HIDE DEF u
<1>3. s.ctx[q] \in CtxRec
  BY <1>1, StateFields
<1>4. /\ u \in State /\ u.ctx[q].state = "error"
      /\ \A p \in Ctx : p # q => u.ctx[p] = s.ctx[p]
      /\ u.node = s.node /\ u.tree = s.tree /\ u.resend = s.resend /\ u.expire = s.expire
      /\ u.timer = s.timer
  BY <1>2, <1>3 DEF OneState, CtxRec
<1>5. ASSUME NEW n \in Name PROVE ListOf(u, {}, n)
  <2>1. ListOf(s, {}, n)
    BY <1>1 DEF Lists
  <2> QED
    BY <1>4, <2>1 DEF ListOf
<1>6. Queues(u) /\ Timers(u)
  BY <1>1, <1>4 DEF Queues, Timers
<1>7. ASSUME NEW n \in Name PROVE NodeOK(u.node[n])
  BY <1>4 DEF Good
<1>8. ASSUME NEW p \in Ctx PROVE TellOK(u.ctx[p])
  BY <1>4 DEF Good, TellOK
<1> QED
  BY <1>4, <1>5, <1>6, <1>7, <1>8 DEF Good, Lists, u

-----------------------------------------------------------------------------
\* One who waits is taken off the list of the node.
LEMMA LeftGood ==
  ASSUME NEW s, Good(s, {}), NEW q \in Ctx, s.ctx[q].state = "again",
         NEW state \in {"again", "timedout"}, NEW u, OneState(s, q, state, u)
  PROVE  Left(u, q) \in State /\ Left(u, q).ctx = u.ctx /\ Good(Left(u, q), {q})
<1> DEFINE n == u.ctx[q].node
           r == Left(u, q)
<1>1. s \in State /\ Queues(s) /\ Lists(s, {}) /\ Timers(s)
  BY DEF Good
<1>2. s.ctx[q] \in CtxRec /\ s.node \in [Name -> NodeRec]
  BY <1>1, StateFields
<1>3. /\ u \in State /\ u.ctx[q].state = state /\ u.ctx[q].node = s.ctx[q].node
      /\ u.ctx[q].event = s.ctx[q].event
      /\ \A p \in Ctx : p # q => u.ctx[p] = s.ctx[p]
      /\ u.node = s.node /\ u.tree = s.tree /\ u.resend = s.resend /\ u.expire = s.expire
      /\ u.timer = s.timer
  BY <1>2 DEF OneState, CtxRec
<1>4. n \in Name \cup {NoName}
  BY <1>2, <1>3 DEF CtxRec
<1>5. Queues(u) /\ Timers(u)
  BY <1>1, <1>3 DEF Queues, Timers
<1>6. \A m \in Name : NodeOK(u.node[m])
  BY <1>3 DEF Good
<1>7. ASSUME NEW p \in Ctx PROVE TellOK(u.ctx[p])
  BY <1>3 DEF Good, TellOK
<1>8. CASE n = NoName
  <2>1. r = u
    BY <1>8 DEF Left
  <2>2. ASSUME NEW m \in Name PROVE ListOf(u, {q}, m)
    <3>1. ListOf(s, {}, m)
      BY <1>1 DEF Lists
    <3>2. s.ctx[q].node # m
      BY <1>3, <1>8, ResolverAssumption
    <3> QED
      BY <1>3, <3>1, <3>2 DEF ListOf
  <2>3. Good(u, {q})
    BY <1>3, <1>5, <1>6, <1>7, <2>2 DEF Good, Lists
  <2> QED
    BY <1>3, <2>1, <2>3
<1>9. CASE n # NoName
  <2> DEFINE w == Without(s.node[n].waiting, {q})
             rn == [s.node[n] EXCEPT !.waiting = w]
  <2>0. n \in Name
    BY <1>4, <1>9
  <2>1. r = [u EXCEPT !.node[n].waiting = Without(@, {q})]
    BY <1>3, <1>9 DEF Left
  <2> HIDE DEF n
  <2>2. s.node[n] \in NodeRec /\ s.node[n].waiting \in Seq(Ctx)
    BY <2>0, ListType
  <2>3. Remaining(Ctx, s.node[n].waiting, {q}, w)
    BY <2>2, WithoutRemains
  <2>4. w \in Seq(Ctx) /\ Range(w) = Range(s.node[n].waiting) \ {q}
    BY <2>3 DEF Remaining
  <2>5. /\ rn \in NodeRec /\ rn.waiting = w /\ rn.valid = s.node[n].valid
        /\ rn.addrs = s.node[n].addrs /\ rn.query = s.node[n].query
        /\ rn.cname = s.node[n].cname
    <3> HIDE DEF w
    <3> QED
      BY <2>2, <2>4 DEF NodeRec
  <2>6. /\ r.node = [s.node EXCEPT ![n] = rn]
        /\ r.ctx = u.ctx /\ r.tree = u.tree /\ r.resend = u.resend /\ r.expire = u.expire
        /\ r.timer = u.timer
    <3> HIDE DEF r
    <3> QED
      BY <1>3, <2>1 DEF State
  <2> HIDE DEF w, rn
  <2>7. r \in State
    <3>1. r.node \in [Name -> NodeRec]
      <4> HIDE DEF r
      <4> QED
        BY <1>2, <2>5, <2>6
    <3> HIDE DEF r
    <3> QED
      BY <1>3, <2>1, <3>1 DEF State
  <2> HIDE DEF r
  <2>8. r.node[n] = rn /\ \A m \in Name : m # n => r.node[m] = s.node[m]
    BY <1>2, <2>0, <2>6
  <2>9. ASSUME NEW m \in Name PROVE ListOf(r, {q}, m)
    <3>1. ListOf(s, {}, m) /\ ListOf(s, {}, n)
      BY <1>1, <2>0 DEF Lists
    <3>2. CASE m = n
      <4>1. Unique(w)
        BY <2>3, <3>1 DEF Remaining, ListOf
      <4>2. w # <<>> => s.node[n].waiting # <<>>
        BY <2>2, <2>4, EmptyRange
      <4> QED
        BY <1>3, <2>4, <2>5, <2>6, <2>8, <3>1, <3>2, <4>1, <4>2 DEF ListOf
    <3>3. CASE m # n
      <4>1. s.ctx[q].node # m
        BY <1>3, <3>3 DEF n
      <4> QED
        BY <1>3, <2>6, <2>8, <3>1, <3>3, <4>1 DEF ListOf
    <3> QED
      BY <3>2, <3>3
  <2>10. Queues(r) /\ Timers(r)
    BY <1>5, <2>6 DEF Queues, Timers
  <2>11. ASSUME NEW m \in Name PROVE NodeOK(r.node[m])
    <3>1. NodeOK(s.node[m]) /\ NodeOK(s.node[n])
      BY <2>0 DEF Good
    <3>2. CASE m = n
      <4>1. s.node[n].waiting = <<>> => w = <<>>
        BY <2>4, EmptyRange, NoNodeList
      <4>2. HasAddrs(s.node[n]) => HasAddrs(rn)
        BY <2>5 DEF HasAddrs, Answered
      <4> QED
        BY <2>5, <2>8, <3>1, <3>2, <4>1, <4>2 DEF NodeOK
    <3>3. CASE m # n
      BY <2>8, <3>1, <3>3
    <3> QED
      BY <3>2, <3>3
  <2>12. Good(r, {q})
    BY <1>7, <2>6, <2>7, <2>9, <2>10, <2>11 DEF Good, Lists
  <2> QED
    BY <2>6, <2>7, <2>12 DEF r
<1> QED
  BY <1>8, <1>9

-----------------------------------------------------------------------------
(* The actions. *)

\* The parts of the present state.
LEMMA NowFields ==
  /\ Now.ctx = ctx /\ Now.tree = tree /\ Now.node = node /\ Now.resend = resend
  /\ Now.expire = expire /\ Now.old = old /\ Now.timer = timer /\ Now.asked = asked
BY DEF Now

\* A step to a good state keeps the invariant.
LEMMA BecomesGood ==
  ASSUME NEW next, Good(next, {}), Becomes(next)
  PROVE  ResolverInv'
<1>1. /\ ctx' = next.ctx /\ tree' = next.tree /\ node' = next.node /\ resend' = next.resend
      /\ expire' = next.expire /\ old' = next.old /\ timer' = next.timer /\ asked' = next.asked
  BY DEF Becomes
<1>2. next \in State
  BY DEF Good
<1>3. next = [ctx |-> next.ctx, tree |-> next.tree, node |-> next.node, resend |-> next.resend,
              expire |-> next.expire, old |-> next.old, timer |-> next.timer,
              asked |-> next.asked]
  BY <1>2 DEF State
<1>4. Now' = next
  BY <1>1, <1>3, Zenon DEF Now
<1>5. Good(Now', {})
  BY <1>4
<1> QED
  BY <1>5 DEF ResolverInv

\* Nobody has asked yet.
LEMMA InitGood == Init => ResolverInv
<1> SUFFICES ASSUME Init PROVE Good(Now, {})
  BY DEF ResolverInv
<1> DEFINE c == [state |-> "new", node |-> NoName, event |-> FALSE, recursion |-> 0,
                 answer |-> <<>>]
<1>1. /\ ctx = [q \in Ctx |-> c]
      /\ tree = {} /\ node = [n \in Name |-> NoNode]
      /\ resend = <<>> /\ expire = <<>> /\ old = {}
      /\ timer = FALSE /\ asked = <<>>
  BY DEF Init
<1>2. c \in CtxRec /\ c.state = "new"
  BY DEF CtxRec
<1> HIDE DEF c
<1>3. \A q \in Ctx : ctx[q] = c
  BY <1>1
<1>4. \A n \in Name : node[n] = NoNode
  BY <1>1
<1>5. Now \in State
  <2>1. <<>> \in Seq(Name)
    BY EmptySeq
  <2>2. ctx \in [Ctx -> CtxRec] /\ node \in [Name -> NodeRec]
    BY <1>1, <1>2, NoNodeType
  <2> QED
    BY <1>1, <2>1, <2>2 DEF State, Now
<1>6. Queues(Now)
  BY <1>1, NowFields, NoNodeList DEF Queues
<1>7. ASSUME NEW n \in Name PROVE ListOf(Now, {}, n)
  BY <1>2, <1>3, <1>4, NowFields, NoNodeList DEF ListOf
<1>8. Timers(Now)
  BY <1>1, <1>2, <1>3, NowFields DEF Timers
<1>9. ASSUME NEW n \in Name PROVE NodeOK(Now.node[n])
  BY <1>4, NowFields, NoNodeType
<1>10. ASSUME NEW q \in Ctx PROVE TellOK(Now.ctx[q])
  BY <1>2, <1>3, NowFields DEF TellOK
<1> QED
  BY <1>5, <1>6, <1>7, <1>8, <1>9, <1>10 DEF Good, Lists

\* Who asks for the first time is a list of one.
LEMMA AskerAlone ==
  ASSUME NEW q \in Ctx, ctx[q].state = "new"
  PROVE  Askers(Now, <<q>>)
<1>1. <<q>> \in Seq(Ctx) /\ <<q>> # <<>> /\ Head(<<q>>) = q
  OBVIOUS
<1>2. Range(<<q>>) = {q} /\ Unique(<<q>>)
  BY DEF Range, Unique
<1> QED
  BY <1>1, <1>2, NowFields DEF Askers

\* ngx_resolve_name()
LEMMA AskStep ==
  ASSUME ResolverInv, NEW q \in Ctx, NEW n \in Name, Ask(q, n) \/ AskFails(q, n)
  PROVE  ResolverInv'
<1> DEFINE s(mem) == ResolveName(Now, <<q>>, n, mem)
<1>1. Askers(Now, <<q>>)
  BY AskerAlone DEF Ask, AskFails
<1>2. Good(Now, Range(<<q>>))
  BY <1>1, Pending DEF ResolverInv
<1>3. Good(s(TRUE), {}) /\ Good(s(FALSE), {})
  BY <1>1, <1>2, ResolveNameGood
<1> HIDE DEF s
<1>4. CASE Ask(q, n)
  <2>1. Becomes(s(TRUE))
    BY <1>4 DEF Ask, s
  <2> QED
    BY <1>3, <2>1, BecomesGood
<1>5. CASE AskFails(q, n)
  <2>1. s(FALSE).ctx[q].state = "new" /\ Becomes([s(FALSE) EXCEPT !.ctx[q].state = "error"])
    BY <1>5, Zenon DEF AskFails, s
  <2>2. Good([s(FALSE) EXCEPT !.ctx[q].state = "error"], {})
    BY <1>3, <2>1, ErrorGood
  <2> QED
    BY <2>1, <2>2, BecomesGood
<1> QED
  BY <1>4, <1>5

\* ngx_resolver_timeout_handler()
LEMMA TimeoutStep ==
  ASSUME ResolverInv, NEW q \in Ctx, Timeout(q)
  PROVE  ResolverInv'
<1> DEFINE u == [Now EXCEPT !.ctx[q].state = "timedout"]
           e == Expire(Left(u, q))
           r == NameDone(u, q)
           c == Parted(u.ctx[q])
<1>1. ctx[q].state = "again" /\ Becomes(r)
  BY DEF Timeout
<1>2. Good(Now, {}) /\ Now \in State /\ Now.ctx[q].state = "again" /\ Now.ctx[q] \in CtxRec
  BY <1>1, NowFields, StateFields DEF ResolverInv, Good
<1>3. OneState(Now, q, "timedout", u)
  BY <1>2, OneStateIs
<1> HIDE DEF u
<1>4. Left(u, q) \in State /\ Left(u, q).ctx = u.ctx /\ Good(Left(u, q), {q})
  BY <1>2, <1>3, LeftGood
<1>5. u \in State /\ u.ctx[q] \in CtxRec /\ u.ctx[q].state = "timedout"
  <2>1. u \in State
    BY <1>3 DEF OneState
  <2> QED
    BY <1>2, <1>3, <2>1, StateFields DEF OneState, CtxRec
<1>6. Good(e, {q}) /\ DoneFrom(e, q, c, r)
  BY <1>4, <1>5, ExpireGood, NameDoneIs
<1>7. c \in CtxRec /\ c.state = "timedout"
  BY <1>5, PartedType
<1> HIDE DEF e, r, c
<1>8. Good(r, {q} \ {q})
  BY <1>6, <1>7, DoneGood DEF TellOK
<1>9. {q} \ {q} = {}
  OBVIOUS
<1> QED
  BY <1>1, <1>8, <1>9, BecomesGood

\* ngx_resolve_name_done() for one who waits
LEMMA CancelStep ==
  ASSUME ResolverInv, NEW q \in Ctx, Cancel(q)
  PROVE  ResolverInv'
<1> DEFINE e == Expire(Left(Now, q))
           r == NameDone(Now, q)
           c == Parted(Now.ctx[q])
           d == [c EXCEPT !.state = "cancelled"]
           u == [r EXCEPT !.ctx[q].state = "cancelled"]
<1>1. ctx[q].state = "again" /\ Becomes(u)
  BY DEF Cancel
<1>2. /\ Good(Now, {}) /\ Now \in State /\ Now.ctx[q].state = "again" /\ Now.ctx[q] \in CtxRec
      /\ Now.ctx \in [Ctx -> CtxRec]
  BY <1>1, NowFields, StateFields DEF ResolverInv, Good
<1>3. OneState(Now, q, "again", Now)
  <2>1. Now.ctx[q] = [Now.ctx[q] EXCEPT !.state = "again"]
    BY <1>2 DEF CtxRec
  <2> QED
    BY <1>2, <2>1 DEF OneState
<1>4. Left(Now, q) \in State /\ Left(Now, q).ctx = Now.ctx /\ Good(Left(Now, q), {q})
  BY <1>2, <1>3, LeftGood
<1>5. Good(e, {q}) /\ DoneFrom(e, q, c, r)
  BY <1>2, <1>4, ExpireGood, NameDoneIs
<1>6. c \in CtxRec
  BY <1>2, PartedType
<1> HIDE DEF e, r, c
<1>7. d \in CtxRec /\ d.state = "cancelled"
  BY <1>6 DEF CtxRec
<1>8. r \in State /\ e \in State /\ e.ctx \in [Ctx -> CtxRec]
  BY <1>5, StateFields DEF DoneFrom, Good
<1>9. OneState(r, q, "cancelled", u)
  BY <1>8, OneStateIs
<1> HIDE DEF u
<1>10. DoneFrom(e, q, d, u)
  <2>1. u \in State /\ u.ctx \in [Ctx -> CtxRec] /\ r.ctx = [e.ctx EXCEPT ![q] = c]
    BY <1>5, <1>9, StateFields DEF OneState, DoneFrom
  <2>2. u.ctx[q] = d /\ \A p \in Ctx : p # q => u.ctx[p] = e.ctx[p]
    BY <1>8, <1>9, <2>1 DEF OneState
  <2> HIDE DEF d
  <2>3. u.ctx = [e.ctx EXCEPT ![q] = d]
    BY <1>8, <2>1, <2>2
  <2> QED
    BY <1>5, <1>9, <2>1, <2>3 DEF OneState, DoneFrom
<1> HIDE DEF d
<1>11. Good(u, {q} \ {q})
  BY <1>5, <1>7, <1>10, DoneGood DEF TellOK
<1>12. {q} \ {q} = {}
  OBVIOUS
<1> QED
  BY <1>1, <1>11, <1>12, BecomesGood

-----------------------------------------------------------------------------
Parts(T, seq, a, b) ==
    /\ a \in Seq(T) /\ b \in Seq(T)
    /\ Range(seq) = Range(a) \cup Range(b)
    /\ Unique(seq) => Unique(a) /\ Unique(b) /\ Range(a) \cap Range(b) = {}

\* A list in two parts.
LEMMA SplitSeq ==
  ASSUME NEW T, NEW seq \in Seq(T), NEW d \in 0 .. Len(seq)
  PROVE  Parts(T, seq, SubSeq(seq, 1, Len(seq) - d), SubSeq(seq, Len(seq) - d + 1, Len(seq)))
<1> DEFINE N == Len(seq)
           l == Len(seq) - d
           a == SubSeq(seq, 1, l)
           b == SubSeq(seq, l + 1, N)
<1>1. N \in Nat /\ DOMAIN seq = 1 .. N /\ l \in 0 .. N /\ \A i \in 1 .. N : seq[i] \in T
  BY LenProperties, ElementOfSeq
<1>2. a \in Seq(T) /\ DOMAIN a = 1 .. l /\ \A i \in 1 .. l : a[i] = seq[i]
  <2>1. /\ SubSeq(seq, 1, l) \in Seq(T)
        /\ Len(SubSeq(seq, 1, l)) = IF 1 <= l THEN l - 1 + 1 ELSE 0
        /\ \A i \in 1 .. (l - 1 + 1) : SubSeq(seq, 1, l)[i] = seq[1 + i - 1]
    <3> HIDE DEF l
    <3>1. \A i \in 1 .. l : seq[i] \in T
      BY <1>1
    <3> QED
      BY <1>1, <3>1, SubSeqProperties
  <2> HIDE DEF l
  <2>2. Len(a) = l
    BY <1>1, <2>1
  <2>3. \A i \in 1 .. l : a[i] = seq[i]
    BY <1>1, <2>1
  <2> QED
    BY <2>1, <2>2, <2>3, LenProperties
<1>3. /\ b \in Seq(T) /\ DOMAIN b = 1 .. (N - l)
      /\ \A i \in 1 .. (N - l) : b[i] = seq[l + i]
  <2> HIDE DEF l
  <2>0. \A i \in (l + 1) .. N : seq[i] \in T
    BY <1>1
  <2>1. /\ b \in Seq(T)
        /\ Len(b) = IF l + 1 <= N THEN N - (l + 1) + 1 ELSE 0
        /\ \A i \in 1 .. (N - (l + 1) + 1) : b[i] = seq[l + 1 + i - 1]
    BY <1>1, <2>0, SubSeqProperties
  <2> HIDE DEF b, N
  <2>2. Len(b) = N - l
    <3>1. N - (l + 1) + 1 = N - l /\ (~(l + 1 <= N) => N - l = 0)
      BY <1>1
    <3> QED
      BY <2>1, <3>1
  <2>3. ASSUME NEW i \in 1 .. (N - l) PROVE b[i] = seq[l + i]
    <3>1. i \in 1 .. (N - (l + 1) + 1) /\ l + 1 + i - 1 = l + i
      BY <1>1
    <3> QED
      BY <2>1, <3>1
  <2> QED
    BY <2>1, <2>2, <2>3, LenProperties
<1> HIDE DEF N, l, a, b
<1>4. \A i \in 1 .. l : i \in 1 .. N
  BY <1>1
<1>5. \A i \in 1 .. (N - l) : l + i \in 1 .. N /\ l + i \notin 1 .. l
  BY <1>1
<1>6. \A i \in 1 .. N : i \notin 1 .. l => i - l \in 1 .. (N - l) /\ l + (i - l) = i
  BY <1>1
<1>7. Range(seq) = Range(a) \cup Range(b)
  <2>1. ASSUME NEW x \in Range(seq) PROVE x \in Range(a) \cup Range(b)
    <3>1. PICK i \in 1 .. N : x = seq[i]
      BY <1>1 DEF Range
    <3>2. CASE i \in 1 .. l
      BY <1>2, <3>1, <3>2 DEF Range
    <3>3. CASE i \notin 1 .. l
      <4>1. i - l \in DOMAIN b /\ b[i - l] = x
        BY <1>3, <1>6, <3>1, <3>3
      <4> QED
        BY <4>1 DEF Range
    <3> QED
      BY <3>2, <3>3
  <2>2. ASSUME NEW x \in Range(a) PROVE x \in Range(seq)
    BY <1>1, <1>2, <1>4 DEF Range
  <2>3. ASSUME NEW x \in Range(b) PROVE x \in Range(seq)
    <3>1. PICK i \in 1 .. (N - l) : x = b[i]
      BY <1>3 DEF Range
    <3>2. l + i \in DOMAIN seq /\ seq[l + i] = x
      BY <1>1, <1>3, <1>5, <3>1
    <3> QED
      BY <3>2 DEF Range
  <2> QED
    BY <2>1, <2>2, <2>3
<1>8. ASSUME Unique(seq) PROVE Unique(a) /\ Unique(b) /\ Range(a) \cap Range(b) = {}
  <2>1. \A i, j \in 1 .. N : seq[i] = seq[j] => i = j
    BY <1>1, <1>8 DEF Unique
  <2>2. Unique(a)
    BY <1>2, <1>4, <2>1 DEF Unique
  <2>3. Unique(b)
    <3>1. ASSUME NEW i \in 1 .. (N - l), NEW j \in 1 .. (N - l), b[i] = b[j] PROVE i = j
      <4>1. l + i = l + j
        BY <1>3, <1>5, <2>1, <3>1
      <4> QED
        BY <1>1, <4>1
    <3> QED
      BY <1>3, <3>1 DEF Unique
  <2>4. ASSUME NEW x \in Range(a), x \in Range(b) PROVE FALSE
    <3>1. PICK i \in 1 .. l : x = a[i]
      BY <1>2 DEF Range
    <3>2. PICK j \in 1 .. (N - l) : x = b[j]
      BY <1>3, <2>4 DEF Range
    <3>3. seq[i] = seq[l + j] /\ i \in 1 .. N /\ l + j \in 1 .. N /\ l + j \notin 1 .. l
      BY <1>2, <1>3, <1>4, <1>5, <3>1, <3>2
    <3> QED
      BY <2>1, <3>3
  <2> QED
    BY <2>2, <2>3, <2>4
<1> QED
  BY <1>2, <1>3, <1>7, <1>8 DEF Parts, a, b, l, N

\* Those asked for again change their order only; the others are freed.
LEMMA ResendStep ==
  ASSUME ResolverInv, ResendHandler
  PROVE  ResolverInv'
<1>1. PICK due \in 0 .. Len(resend) :
         LET front == SubSeq(resend, 1, Len(resend) - due)
             tail  == SubSeq(resend, Len(resend) - due + 1, Len(resend))
             idle  == {n \in Range(tail) : node[n].waiting = <<>>}
             s     == FreeNodes(Now, idle)
             again == Without(tail, idle) \o front
         IN  Becomes([s EXCEPT !.resend = again, !.timer = again # <<>>])
  BY Zenon DEF ResendHandler
<1> DEFINE front == SubSeq(resend, 1, Len(resend) - due)
           tail  == SubSeq(resend, Len(resend) - due + 1, Len(resend))
           idle  == {n \in Range(tail) : node[n].waiting = <<>>}
           s     == FreeNodes(Now, idle)
           left  == Without(tail, idle)
           again == left \o front
           r     == [s EXCEPT !.resend = again, !.timer = again # <<>>]
<1>2. Becomes(r)
  BY <1>1
<1>3. Good(Now, {}) /\ Now \in State
  BY DEF ResolverInv, Good
<1>4. resend \in Seq(Name) /\ Unique(resend)
  BY <1>3, NowFields, StateFields DEF Good, Queues
<1>5. Parts(Name, resend, front, tail)
  BY <1>4, SplitSeq
<1> HIDE DEF front, tail
<1>6. \A n \in Name \cap idle : Now.node[n].waiting = <<>>
  BY NowFields
<1>7. Good(s, {})
  BY <1>3, <1>6, FreeIdleGood
<1>8. Freed(Now, idle, s)
  BY <1>3, FreeNodesIs
<1>9. idle \subseteq Range(tail)
  OBVIOUS
<1> HIDE DEF idle, s
<1>10. Remaining(Name, tail, idle, left)
  BY <1>5, WithoutRemains DEF Parts
<1>11. Joined(Name, left, front, again)
  BY <1>5, <1>10, RangeConcat DEF Parts, Remaining
<1>12. s.resend = Without(resend, idle) /\ Remaining(Name, resend, idle, s.resend)
  BY <1>4, <1>8, NowFields, WithoutRemains DEF Freed
<1> HIDE DEF left, again
<1>13. again \in Seq(Name) /\ Range(again) = Range(s.resend) /\ Unique(again)
  <2>1. again \in Seq(Name) /\ Range(again) = (Range(tail) \ idle) \cup Range(front)
    BY <1>10, <1>11 DEF Remaining, Joined
  <2>2. Range(front) \cap idle = {} /\ Range(s.resend) = (Range(front) \cup Range(tail)) \ idle
    <3>1. Range(front) \cap Range(tail) = {} /\ Range(resend) = Range(front) \cup Range(tail)
      BY <1>4, <1>5 DEF Parts
    <3>2. Range(s.resend) = Range(resend) \ idle
      BY <1>12 DEF Remaining
    <3> QED
      BY <1>9, <3>1, <3>2
  <2>3. Unique(left) /\ Unique(front) /\ Range(left) \cap Range(front) = {}
    BY <1>4, <1>5, <1>10 DEF Parts, Remaining
  <2>4. Unique(again)
    BY <1>11, <2>3 DEF Joined
  <2> QED
    BY <2>1, <2>2, <2>4
<1>14. s \in State /\ Queues(s) /\ Lists(s, {}) /\ Timers(s)
  BY <1>7 DEF Good
<1>15. /\ r.resend = again /\ r.timer = (again # <<>>) /\ r.ctx = s.ctx /\ r.tree = s.tree
       /\ r.node = s.node /\ r.expire = s.expire /\ r.old = s.old /\ r.asked = s.asked
  BY <1>14 DEF State
<1>16. r \in State
  <2>1. (again # <<>>) \in BOOLEAN
    OBVIOUS
  <2> QED
    BY <1>13, <1>14, <2>1 DEF State
<1> HIDE DEF r
<1>17. Queues(r)
  BY <1>13, <1>14, <1>15 DEF Queues
<1>18. ASSUME NEW n \in Name PROVE ListOf(r, {}, n)
  <2>1. ListOf(s, {}, n)
    BY <1>14 DEF Lists
  <2> QED
    BY <1>13, <1>15, <2>1 DEF ListOf
<1>19. Timers(r)
  BY <1>14, <1>15 DEF Timers
<1>20. Good(r, {})
  BY <1>7, <1>15, <1>16, <1>17, <1>18, <1>19 DEF Good, Lists
<1> QED
  BY <1>2, <1>20, BecomesGood

-----------------------------------------------------------------------------
\* An address is no longer valid.
LEMMA InvalidStep ==
  ASSUME ResolverInv, NEW n \in Name, Invalid(n)
  PROVE  ResolverInv'
<1> DEFINE rn == [node[n] EXCEPT !.valid = FALSE]
<1>1. Good(Now, {}) /\ Now \in State
  BY DEF ResolverInv, Good
<1>2. node \in [Name -> NodeRec] /\ node[n] \in NodeRec /\ NodeOK(node[n])
  BY <1>1, NowFields, StateFields DEF Good
<1>3. /\ rn \in NodeRec /\ rn.waiting = node[n].waiting /\ ~rn.valid /\ rn.query = node[n].query
      /\ rn.addrs = node[n].addrs
  BY <1>2 DEF NodeRec
<1>4. NodeOK(rn)
  <2> HIDE DEF rn
  <2> QED
    BY <1>2, <1>3 DEF NodeOK
<1>5. /\ node' = [node EXCEPT ![n] = rn]
      /\ UNCHANGED <<ctx, tree, resend, expire, old, timer, asked>>
  BY DEF Invalid
<1> HIDE DEF rn
<1>6. node' \in [Name -> NodeRec]
  BY <1>2, <1>3, <1>5
<1>7. Now' \in State
  <2>1. /\ ctx' \in [Ctx -> CtxRec] /\ tree' \in SUBSET Name /\ resend' \in Seq(Name)
        /\ expire' \in Seq(Name) /\ old' \in SUBSET Name /\ timer' \in BOOLEAN
        /\ asked' \in Seq(Name)
    BY <1>1, <1>5, NowFields, StateFields
  <2> QED
    BY <1>6, <2>1 DEF State, Now
<1>8. OneNode(Now, n, rn, Now')
  BY <1>5, <1>7 DEF OneNode, Now
<1>9. Now.node[n] = node[n]
  BY NowFields
<1>10. Good(Now', {})
  BY <1>1, <1>3, <1>4, <1>8, <1>9, OneNodeGood
<1> QED
  BY <1>10 DEF ResolverInv

\* Time passes.
LEMMA AgesStep ==
  ASSUME ResolverInv, Ages
  PROVE  ResolverInv'
<1>1. Good(Now, {}) /\ Now \in State
  BY DEF ResolverInv, Good
<1>2. /\ ctx \in [Ctx -> CtxRec] /\ tree \in SUBSET Name /\ node \in [Name -> NodeRec]
      /\ resend \in Seq(Name) /\ expire \in Seq(Name) /\ old \in SUBSET Name
      /\ timer \in BOOLEAN /\ asked \in Seq(Name)
  BY <1>1, NowFields, StateFields
<1>3. PICK k \in DOMAIN expire : old' = old \cup {expire[k]}
  BY Zenon DEF Ages
<1>4. UNCHANGED <<ctx, tree, node, resend, expire, timer, asked>>
  BY DEF Ages
<1>5. old' \in SUBSET Name
  BY <1>2, <1>3, ElementOfSeq, LenProperties
<1>6. Now' \in State
  BY <1>2, <1>4, <1>5 DEF State, Now
<1>7. /\ Now'.ctx = Now.ctx /\ Now'.tree = Now.tree /\ Now'.node = Now.node
      /\ Now'.resend = Now.resend /\ Now'.expire = Now.expire /\ Now'.timer = Now.timer
  BY <1>4 DEF Now
<1>8. Good(Now', {})
  BY <1>1, <1>6, <1>7 DEF Good, Queues, Lists, ListOf, Timers
<1> QED
  BY <1>8 DEF ResolverInv

-----------------------------------------------------------------------------
(* Answers of the servers. *)

Taken(n, t, value, s) ==
    /\ Good(s, {}) /\ n \in s.tree /\ s.node[n].query # 0 /\ ~s.node[n].valid
    /\ s.node[n] = [node[n] EXCEPT !.addrs[t] = value]
    /\ s.node[n].waiting = node[n].waiting
    /\ s.node[n] \in NodeRec
    /\ Others(n, t) => \A u \in Type : s.node[n].addrs[u] # Unanswered

\* The answer that is waited for is taken down.
LEMMA GivenGood ==
  ASSUME ResolverInv, NEW n \in Name, NEW t \in Type, NEW i, Expected(n, t, i),
         NEW value \in {Empty, i}
  PROVE  Taken(n, t, value, Given(n, t, value))
<1> DEFINE s == Given(n, t, value)
           rn == [node[n] EXCEPT !.addrs[t] = value]
<1>1. Good(Now, {}) /\ Now \in State
  BY DEF ResolverInv, Good
<1>2. /\ node \in [Name -> NodeRec] /\ node[n] \in NodeRec /\ NodeOK(node[n])
      /\ asked \in Seq(Name)
  BY <1>1, NowFields, StateFields DEF Good
<1>3. /\ i \in Nat /\ i # 0 /\ n \in tree /\ node[n].query = i /\ node[n].addrs[t] = Unanswered
  <2>1. DOMAIN asked = 1 .. Len(asked) /\ Len(asked) \in Nat
    BY <1>2, LenProperties
  <2> QED
    BY <2>1 DEF Expected
<1>4. /\ node[n].addrs \in [Type -> Int] /\ node[n].valid \in BOOLEAN
      /\ value \in Int /\ value # Unanswered
  BY <1>2, <1>3 DEF NodeRec, Empty, Unanswered
<1>5. ~node[n].valid
  BY <1>2, <1>3 DEF NodeOK
<1>6. /\ rn \in NodeRec /\ rn.waiting = node[n].waiting /\ ~rn.valid /\ rn.query = i
      /\ rn.addrs = [node[n].addrs EXCEPT ![t] = value]
  BY <1>2, <1>3, <1>4, <1>5 DEF NodeRec
<1> HIDE DEF rn
<1>7. NodeOK(rn)
  <2>1. \A u \in Type : rn.addrs[u] \in {Unanswered, Empty, i}
    BY <1>2, <1>3, <1>4, <1>6 DEF NodeOK
  <2> QED
    BY <1>6, <2>1 DEF NodeOK
<1>8. OneNode(Now, n, rn, s)
  <2>1. /\ s.node = [node EXCEPT ![n] = rn]
        /\ s.ctx = Now.ctx /\ s.tree = Now.tree /\ s.resend = Now.resend
        /\ s.expire = Now.expire /\ s.timer = Now.timer
    BY <1>1, NowFields DEF Given, State, rn
  <2>2. s.node \in [Name -> NodeRec]
    BY <1>2, <1>6, <2>1
  <2>3. s = [Now EXCEPT !.node = s.node]
    BY <1>1 DEF Given, State
  <2> HIDE DEF s
  <2>4. s \in State
    BY <1>1, <2>2, <2>3 DEF State
  <2> QED
    BY <2>1, <2>4, NowFields DEF OneNode
<1> HIDE DEF s
<1>9. Now.node[n] = node[n] /\ Now.node = node /\ Now.tree = tree
  BY NowFields
<1>10. Good(s, {})
  BY <1>1, <1>6, <1>7, <1>8, <1>9, OneNodeGood
<1>11. s.node[n] = rn /\ n \in s.tree
  BY <1>2, <1>3, <1>8, <1>9 DEF OneNode
<1>12. ASSUME Others(n, t), NEW u \in Type PROVE rn.addrs[u] # Unanswered
  <2>1. CASE u = t
    BY <1>4, <1>6, <2>1
  <2>2. CASE u # t
    <3>1. node[n].addrs[u] # Unanswered
      BY <1>12, <2>2 DEF Others, Answered
    <3> QED
      BY <1>4, <1>6, <2>2, <3>1
  <2> QED
    BY <2>1, <2>2
<1> QED
  BY <1>3, <1>6, <1>10, <1>11, <1>12 DEF rn, s, Taken

\* ngx_resolver_process_response(), an answer that was cut short
LEMMA TruncatedStep ==
  ASSUME ResolverInv, NEW n \in Name, NEW t \in Type, NEW i, Truncated(n, t, i)
  PROVE  ResolverInv'
<1> DEFINE rn == [node[n] EXCEPT !.tcp = @ \cup {t}]
           u == [Now EXCEPT !.node[n].tcp = @ \cup {t}]
<1>1. Good(Now, {}) /\ Now \in State
  BY DEF ResolverInv, Good
<1>2. node \in [Name -> NodeRec] /\ node[n] \in NodeRec /\ NodeOK(node[n])
  BY <1>1, NowFields, StateFields DEF Good
<1>3. CASE node[n].waiting = <<>>
  <2>1. Becomes(FreeNodes(Now, {n}))
    BY <1>3 DEF Truncated
  <2>2. Good(FreeNodes(Now, {n}), {})
    BY <1>1, <1>3, FreeIdleGood, NowFields
  <2> QED
    BY <2>1, <2>2, BecomesGood
<1>4. CASE node[n].waiting # <<>>
  <2>1. Becomes(ToResend(u, n)) /\ n \in tree
    BY <1>4 DEF Truncated, Expected
  <2>2. /\ rn \in NodeRec /\ rn.waiting = node[n].waiting /\ rn.valid = node[n].valid
        /\ rn.query = node[n].query /\ rn.addrs = node[n].addrs /\ rn.cname = node[n].cname
    BY <1>2 DEF NodeRec
  <2>3. NodeOK(rn)
    <3> HIDE DEF rn
    <3>1. HasAddrs(node[n]) => HasAddrs(rn)
      BY <2>2 DEF HasAddrs, Answered
    <3> QED
      BY <1>2, <2>2, <3>1 DEF NodeOK
  <2>4. OneNode(Now, n, rn, u)
    <3>1. /\ u.node = [node EXCEPT ![n] = rn]
          /\ u.ctx = Now.ctx /\ u.tree = Now.tree /\ u.resend = Now.resend
          /\ u.expire = Now.expire /\ u.timer = Now.timer
      BY <1>1, NowFields DEF State
    <3>2. u.node \in [Name -> NodeRec]
      <4> HIDE DEF u, rn
      <4> QED
        BY <1>2, <2>2, <3>1
    <3>3. u \in State
      BY <1>1, <3>2 DEF State
    <3> HIDE DEF u, rn
    <3> QED
      BY <3>1, <3>3, NowFields DEF OneNode
  <2> HIDE DEF u, rn
  <2>5. Now.node[n] = node[n] /\ Now.tree = tree /\ Now.timer = timer
    BY NowFields
  <2>6. Good(u, {})
    BY <1>1, <2>2, <2>3, <2>4, <2>5, OneNodeGood
  <2>7. n \in u.tree /\ u.timer
    <3>1. n \in Range(Now.resend)
      BY <1>1, <1>4, <2>5 DEF Good, Lists, ListOf
    <3>2. Now.resend # <<>>
      BY <3>1, NoNodeList
    <3> QED
      BY <1>1, <2>1, <2>4, <2>5, <3>2 DEF Good, Timers, OneNode
  <2>8. Good(ToResend(u, n), {})
    BY <2>6, <2>7, ToResendGood
  <2> QED
    BY <2>1, <2>8, BecomesGood
<1> QED
  BY <1>3, <1>4

\* ngx_resolver_process_a(), an error or no records
LEMMA NoRecordsStep ==
  ASSUME ResolverInv, NEW n \in Name, NEW t \in Type, NEW i, NEW error \in BOOLEAN,
         NoRecords(n, t, i, error)
  PROVE  ResolverInv'
<1> DEFINE s == Given(n, t, Empty)
           code == error \/ node[n].code
           u == [s EXCEPT !.node[n].code = code]
           rn == [s.node[n] EXCEPT !.code = code]
<1>1. /\ Expected(n, t, i)
      /\ Becomes(IF ~Others(n, t) THEN u
                 ELSE IF ~code /\ HasAddrs(s.node[n]) THEN Export(s, n) ELSE FailAll(s, n))
  BY Zenon DEF NoRecords
<1> HIDE DEF s
<1>2. /\ Good(s, {}) /\ n \in s.tree /\ s.node[n].query # 0 /\ ~s.node[n].valid
      /\ s.node[n] \in NodeRec
      /\ Others(n, t) => \A v \in Type : s.node[n].addrs[v] # Unanswered
  <2>1. Taken(n, t, Empty, s)
    BY <1>1, GivenGood, Zenon DEF s
  <2> QED
    BY <2>1 DEF Taken
<1>3. s \in State /\ s.node \in [Name -> NodeRec] /\ NodeOK(s.node[n])
  BY <1>2, StateFields DEF Good
<1>4. CASE ~Others(n, t)
  <2>1. Becomes(u)
    BY <1>1, <1>4
  <2>2. /\ rn \in NodeRec /\ rn.waiting = s.node[n].waiting /\ rn.valid = s.node[n].valid
        /\ rn.query = s.node[n].query /\ rn.addrs = s.node[n].addrs
    <3>1. code \in BOOLEAN
      OBVIOUS
    <3> HIDE DEF code
    <3> QED
      BY <1>2, <3>1 DEF NodeRec
  <2>3. NodeOK(rn)
    <3> HIDE DEF rn
    <3> QED
      BY <1>2, <1>3, <2>2 DEF NodeOK
  <2>4. OneNode(s, n, rn, u)
    <3> HIDE DEF code
    <3>1. /\ u.node = [s.node EXCEPT ![n] = rn]
          /\ u.ctx = s.ctx /\ u.tree = s.tree /\ u.resend = s.resend
          /\ u.expire = s.expire /\ u.timer = s.timer
      BY <1>3 DEF State
    <3>2. u.node \in [Name -> NodeRec]
      <4> HIDE DEF u, rn
      <4> QED
        BY <1>3, <2>2, <3>1
    <3>3. u \in State
      BY <1>3, <3>2 DEF State
    <3> HIDE DEF u, rn
    <3> QED
      BY <3>1, <3>3 DEF OneNode
  <2> HIDE DEF u, rn
  <2>5. Good(u, {})
    BY <1>2, <2>2, <2>3, <2>4, OneNodeGood
  <2> QED
    BY <2>1, <2>5, BecomesGood
<1>5. CASE Others(n, t) /\ ~code /\ HasAddrs(s.node[n])
  <2>1. Good(Export(s, n), {})
    BY <1>2, <1>5, ExportGood
  <2>2. Becomes(Export(s, n))
    BY <1>1, <1>5
  <2> QED
    BY <2>1, <2>2, BecomesGood
<1>6. CASE Others(n, t) /\ ~(~code /\ HasAddrs(s.node[n]))
  <2>1. Good(FailAll(s, n), {})
    BY <1>2, FailAllGood
  <2>2. Becomes(FailAll(s, n))
    BY <1>1, <1>6, Zenon
  <2> QED
    BY <2>1, <2>2, BecomesGood
<1> QED
  BY <1>4, <1>5, <1>6

\* ngx_resolver_process_a(), addresses
LEMMA AddressesStep ==
  ASSUME ResolverInv, NEW n \in Name, NEW t \in Type, NEW i, Addresses(n, t, i)
  PROVE  ResolverInv'
<1> DEFINE s == Given(n, t, i)
<1>1. /\ Expected(n, t, i)
      /\ \/ Becomes(FailAll(Now, n))
         \/ Becomes(IF Others(n, t) THEN Export(s, n) ELSE s)
         \/ Becomes(s)
  BY Zenon DEF Addresses
<1> HIDE DEF s
<1>2. /\ Good(s, {}) /\ n \in s.tree /\ s.node[n].query # 0
      /\ s.node[n] = [node[n] EXCEPT !.addrs[t] = i]
      /\ Others(n, t) => \A v \in Type : s.node[n].addrs[v] # Unanswered
  <2>1. Taken(n, t, i, s)
    BY <1>1, GivenGood, Zenon DEF s
  <2> QED
    BY <2>1 DEF Taken
<1>3. Good(FailAll(Now, n), {})
  BY FailAllGood DEF ResolverInv
<1>4. ASSUME Others(n, t) PROVE Good(Export(s, n), {})
  <2>1. s.node[n].addrs[t] = i /\ i # Empty
    <3>1. Good(Now, {}) /\ Now \in State
      BY DEF ResolverInv, Good
    <3>2. node[n] \in NodeRec /\ node[n].addrs \in [Type -> Int] /\ asked \in Seq(Name)
      BY <3>1, NowFields, StateFields DEF NodeRec
    <3>3. s.node[n].addrs = [node[n].addrs EXCEPT ![t] = i]
      BY <1>2, <3>2 DEF NodeRec
    <3>4. i # Empty
      BY <1>1, <3>2, LenProperties DEF Expected, Empty
    <3> QED
      BY <3>2, <3>3, <3>4
  <2>2. HasAddrs(s.node[n])
    BY <1>2, <1>4, <2>1 DEF HasAddrs, Answered
  <2> QED
    BY <1>2, <1>4, <2>2, ExportGood
<1>5. CASE Becomes(FailAll(Now, n))
  BY <1>3, <1>5, BecomesGood
<1>6. CASE Becomes(IF Others(n, t) THEN Export(s, n) ELSE s)
  <2>1. CASE Others(n, t)
    BY <1>4, <1>6, <2>1, BecomesGood
  <2>2. CASE ~Others(n, t)
    BY <1>2, <1>6, <2>2, BecomesGood
  <2> QED
    BY <2>1, <2>2
<1>7. CASE Becomes(s)
  BY <1>2, <1>7, BecomesGood
<1> QED
  BY <1>1, <1>5, <1>6, <1>7

\* ngx_resolver_process_a(), neither addresses nor an alias
LEMMA NothingUsefulStep ==
  ASSUME ResolverInv, NEW n \in Name, NEW t \in Type, NEW i, NothingUseful(n, t, i)
  PROVE  ResolverInv'
<1> DEFINE s == Given(n, t, Empty)
<1>1. /\ Expected(n, t, i)
      /\ Becomes(IF node[n].code /\ Others(n, t) THEN FailAll(Now, n)
                 ELSE IF Others(n, t) /\ HasAddrs(s.node[n]) THEN Export(s, n) ELSE s)
  BY Zenon DEF NothingUseful
<1> HIDE DEF s
<1>2. /\ Good(s, {}) /\ n \in s.tree /\ s.node[n].query # 0
      /\ Others(n, t) => \A v \in Type : s.node[n].addrs[v] # Unanswered
  <2>1. Taken(n, t, Empty, s)
    BY <1>1, GivenGood, Zenon DEF s
  <2> QED
    BY <2>1 DEF Taken
<1>3. Good(FailAll(Now, n), {})
  BY FailAllGood DEF ResolverInv
<1>4. Others(n, t) /\ HasAddrs(s.node[n]) => Good(Export(s, n), {})
  BY <1>2, ExportGood
<1>5. \E next : Good(next, {}) /\ Becomes(next)
  BY <1>1, <1>2, <1>3, <1>4
<1> QED
  BY <1>5, BecomesGood

\* All the answers have come and none has an address.
LEMMA NoAddresses ==
  ASSUME NEW rn \in NodeRec, ~HasAddrs(rn), \A v \in Type : rn.addrs[v] # Unanswered
  PROVE  OneQuery(rn.addrs)
<1>1. \A v \in Type : rn.addrs[v] = Empty
  BY DEF HasAddrs, Answered
<1>2. 0 \in Int /\ \A v \in Type : rn.addrs[v] \in {Empty, 0}
  BY <1>1
<1> QED
  BY <1>2 DEF OneQuery

\* The node becomes an alias, and those who waited for it are pending.
LEMMA AliasGood ==
  ASSUME NEW s, Good(s, {}), NEW n \in Name, n \in s.tree, NEW c \in Name,
         NEW mem \in BOOLEAN, ~HasAddrs(s.node[n]),
         \A v \in Type : s.node[n].addrs[v] # Unanswered
  PROVE  Good(Follow(ToExpire([s EXCEPT !.node[n].cname = c, !.node[n].valid = TRUE,
                                        !.node[n].query = 0, !.node[n].tcp = {},
                                        !.node[n].waiting = <<>>], n),
                     n, s.node[n].waiting, c, mem), {})
<1> DEFINE list == s.node[n].waiting
           rn == [s.node[n] EXCEPT !.cname = c, !.valid = TRUE, !.query = 0, !.tcp = {},
                                   !.waiting = <<>>]
           u == [s EXCEPT !.node[n].cname = c, !.node[n].valid = TRUE,
                          !.node[n].query = 0, !.node[n].tcp = {}, !.node[n].waiting = <<>>]
           r == ToExpire(u, n)
<1>1. /\ s \in State /\ Lists(s, {}) /\ s.node \in [Name -> NodeRec] /\ s.node[n] \in NodeRec
      /\ list \in Seq(Ctx)
  BY ListType, StateFields DEF Good
<1>2. <<>> \in Seq(Ctx) /\ {} \in SUBSET Type
  BY EmptySeq
<1>3. /\ rn \in NodeRec /\ rn.waiting = <<>> /\ rn.valid /\ rn.query = 0
      /\ rn.addrs = s.node[n].addrs /\ rn.cname = c
  BY <1>1, <1>2 DEF NodeRec
<1>4. /\ u.node = [s.node EXCEPT ![n] = rn]
      /\ u.ctx = s.ctx /\ u.tree = s.tree /\ u.resend = s.resend /\ u.expire = s.expire
      /\ u.old = s.old /\ u.asked = s.asked /\ u.timer = s.timer
  BY <1>1 DEF State
<1>5. u \in State
  <2>1. u.node \in [Name -> NodeRec]
    <3> HIDE DEF u, rn
    <3> QED
      BY <1>1, <1>3, <1>4
  <2> QED
    BY <1>1, <2>1 DEF State
<1> HIDE DEF rn, u
<1>6. NodeOK(rn)
  <2>1. OneQuery(s.node[n].addrs)
    BY <1>1, NoAddresses
  <2> QED
    BY <1>3, <2>1 DEF NodeOK
<1>7. Emptied(s, n, rn, u)
  BY <1>4, <1>5 DEF Emptied
<1>8. Good(u, Range(list))
  BY <1>3, <1>6, <1>7, EmptiedGood
<1>9. n \in u.tree /\ u.node[n].waiting = <<>>
  BY <1>1, <1>3, <1>4
<1>10. Good(r, Range(list))
  BY <1>8, <1>9, ToExpireGood
<1>11. r.ctx = s.ctx
  BY <1>4, <1>5, ToExpireIs DEF Resolved
<1>12. Unique(list) /\ \A q \in Range(list) : s.ctx[q].state = "again"
  <2>1. ListOf(s, {}, n) /\ Range(list) \subseteq Ctx
    BY <1>1, EmptyRange DEF Lists
  <2> QED
    BY <2>1 DEF ListOf
<1> HIDE DEF r, list
<1>13. Good(Follow(r, n, list, c, mem), {})
  <2>1. list \in Seq(Ctx)
    BY <1>1 DEF list
  <2> QED
    BY <1>10, <1>11, <1>12, <2>1, FollowGood
<1> QED
  BY <1>13, Zenon DEF r, u, list

\* ngx_resolver_process_a(), an alias
LEMMA AliasStep ==
  ASSUME ResolverInv, NEW n \in Name, NEW t \in Type, NEW i, NEW c \in Name,
         NEW mem \in BOOLEAN, Alias(n, t, i, c, mem)
  PROVE  ResolverInv'
<1> DEFINE s == Given(n, t, Empty)
           alias(x) == ToExpire([x EXCEPT !.node[n].cname = c, !.node[n].valid = TRUE,
                                          !.node[n].query = 0, !.node[n].tcp = {},
                                          !.node[n].waiting = <<>>], n)
           F == Follow(alias(s), n, node[n].waiting, c, mem)
<1>1. /\ Expected(n, t, i)
      /\ Becomes(IF ~Others(n, t) THEN s
                 ELSE IF node[n].code THEN FailAll(Now, n)
                 ELSE IF HasAddrs(s.node[n]) THEN Export(s, n) ELSE F)
  BY Zenon DEF Alias
<1>2. Taken(n, t, Empty, s)
  BY <1>1, GivenGood, Zenon
<1> HIDE DEF s
<1>3. /\ Good(s, {}) /\ n \in s.tree /\ s.node[n].query # 0
      /\ s.node[n].waiting = node[n].waiting
      /\ Others(n, t) => \A v \in Type : s.node[n].addrs[v] # Unanswered
  BY <1>2 DEF Taken
<1>4. Good(FailAll(Now, n), {})
  BY FailAllGood DEF ResolverInv
<1>5. Others(n, t) /\ HasAddrs(s.node[n]) => Good(Export(s, n), {})
  BY <1>3, ExportGood
<1>6. ASSUME Others(n, t), ~HasAddrs(s.node[n]) PROVE Good(F, {})
  <2>1. \A v \in Type : s.node[n].addrs[v] # Unanswered
    BY <1>3, <1>6
  <2>2. Good(Follow(alias(s), n, s.node[n].waiting, c, mem), {})
    BY <1>3, <1>6, <2>1, AliasGood, Zenon
  <2> QED
    BY <1>3, <2>2
<1> HIDE DEF F
<1>7. \E next : Good(next, {}) /\ Becomes(next)
  BY <1>1, <1>3, <1>4, <1>5, <1>6
<1> QED
  BY <1>7, BecomesGood

-----------------------------------------------------------------------------
\* Every answer of a server.
LEMMA ResponseStep ==
  ASSUME ResolverInv, NEW n \in Name, NEW t \in Type, NEW i, Response(n, t, i)
  PROVE  ResolverInv'
<1>1. CASE Truncated(n, t, i)
  BY <1>1, TruncatedStep
<1>2. CASE \E error \in BOOLEAN : NoRecords(n, t, i, error)
  BY <1>2, NoRecordsStep
<1>3. CASE Addresses(n, t, i)
  BY <1>3, AddressesStep
<1>4. CASE \E c \in Name, mem \in BOOLEAN : Alias(n, t, i, c, mem)
  BY <1>4, AliasStep
<1>5. CASE NothingUseful(n, t, i)
  BY <1>5, NothingUsefulStep
<1> QED
  BY <1>1, <1>2, <1>3, <1>4, <1>5 DEF Response

\* The invariant is inductive.
LEMMA ResolverStep == ResolverInv /\ [Next]_vars => ResolverInv'
<1> SUFFICES ASSUME ResolverInv, [Next]_vars PROVE ResolverInv'
  OBVIOUS
<1>1. CASE \E q \in Ctx, n \in Wanted : Ask(q, n) \/ AskFails(q, n)
  <2>1. PICK q \in Ctx, n \in Wanted : Ask(q, n) \/ AskFails(q, n)
    BY <1>1
  <2>2. n \in Name
    BY ResolverAssumption
  <2> QED
    BY <2>1, <2>2, AskStep
<1>2. CASE \E q \in Ctx : Timeout(q) \/ Cancel(q)
  BY <1>2, TimeoutStep, CancelStep
<1>3. CASE ResendHandler
  BY <1>3, ResendStep
<1>4. CASE \E n \in Name, t \in Type : \E i \in DOMAIN asked : Response(n, t, i)
  BY <1>4, ResponseStep
<1>5. CASE \E n \in Name : Invalid(n)
  BY <1>5, InvalidStep
<1>6. CASE Ages
  BY <1>6, AgesStep
<1>7. CASE UNCHANGED vars
  <2>1. Now' = Now
    BY <1>7, Zenon DEF vars, Now
  <2> QED
    BY <2>1 DEF ResolverInv
<1> QED
  BY <1>1, <1>2, <1>3, <1>4, <1>5, <1>6, <1>7 DEF Next

-----------------------------------------------------------------------------
\* A list in which nobody is twice is as long as the set of its members is large.
LEMMA UniqueLength ==
  ASSUME NEW T, NEW w \in Seq(T), Unique(w)
  PROVE  Cardinality(Range(w)) = Len(w)
<1>1. Len(w) \in Nat /\ DOMAIN w = 1 .. Len(w) /\ w \in [1 .. Len(w) -> T]
  BY LenProperties
<1>2. Range(w) = {w[i] : i \in DOMAIN w}
  BY DEF Range
<1>3. w \in Bijection(1 .. Len(w), Range(w))
  <2>1. w \in [1 .. Len(w) -> Range(w)]
    BY <1>1, <1>2
  <2>2. \A a, b \in 1 .. Len(w) : w[a] = w[b] => a = b
    BY <1>1 DEF Unique
  <2>3. \A y \in Range(w) : \E a \in 1 .. Len(w) : w[a] = y
    BY <1>1, <1>2
  <2> QED
    BY <2>1, <2>2, <2>3 DEF Bijection, Injection, Surjection, IsInjective
<1>4. ExistsBijection(1 .. Len(w), Range(w))
  BY <1>3 DEF ExistsBijection
<1>5. IsFiniteSet(1 .. Len(w)) /\ Cardinality(1 .. Len(w)) = Len(w)
  <2>1. /\ IsFiniteSet(1 .. Len(w))
        /\ Cardinality(1 .. Len(w)) = IF 1 > Len(w) THEN 0 ELSE Len(w) - 1 + 1
    BY <1>1, FS_Interval
  <2> QED
    BY <1>1, <2>1
<1> QED
  BY <1>4, <1>5, FS_Bijection

\* A member of a list without repetitions has one place in it.
LEMMA OnePlace ==
  ASSUME NEW T, NEW w \in Seq(T), Unique(w), NEW n
  PROVE  Cardinality({k \in DOMAIN w : w[k] = n}) = IF n \in Range(w) THEN 1 ELSE 0
<1>1. CASE n \in Range(w)
  <2>1. PICK k \in DOMAIN w : w[k] = n
    BY <1>1 DEF Range
  <2>2. {j \in DOMAIN w : w[j] = n} = {k}
    BY <2>1 DEF Unique
  <2>3. Cardinality({k}) = 1
    BY FS_Singleton
  <2> QED
    BY <1>1, <2>2, <2>3
<1>2. CASE n \notin Range(w)
  <2>1. {j \in DOMAIN w : w[j] = n} = {}
    BY <1>2 DEF Range
  <2>2. Cardinality({}) = 0
    BY FS_EmptySet
  <2> QED
    BY <1>2, <2>1, <2>2
<1> QED
  BY <1>1, <1>2

\* What the invariant says of the lists and queues.
LEMMA InvListed == ResolverInv => WaitersAreListed
<1> SUFFICES ASSUME ResolverInv PROVE WaitersAreListed
  OBVIOUS
<1>1. Good(Now, {}) /\ Now \in State /\ Queues(Now) /\ Lists(Now, {}) /\ Timers(Now)
  BY DEF ResolverInv, Good
<1>2. resend \in Seq(Name) /\ expire \in Seq(Name)
  BY <1>1, NowFields, StateFields
<1>3. ASSUME NEW n \in Name
      PROVE  /\ Cardinality({k \in DOMAIN (resend \o expire) : (resend \o expire)[k] = n})
                   = IF n \in tree THEN 1 ELSE 0
             /\ Range(node[n].waiting) = {q \in Ctx : ctx[q].state = "again" /\ ctx[q].node = n}
             /\ Cardinality(Range(node[n].waiting)) = Len(node[n].waiting)
             /\ node[n].waiting # <<>> => n \in Range(resend)
  <2>1. Joined(Name, resend, expire, resend \o expire)
    BY <1>2, RangeConcat
  <2>2. /\ resend \o expire \in Seq(Name) /\ Unique(resend \o expire)
        /\ Range(resend \o expire) = tree
    BY <1>1, <2>1, NowFields DEF Joined, Queues
  <2>3. Cardinality({k \in DOMAIN (resend \o expire) : (resend \o expire)[k] = n})
           = IF n \in tree THEN 1 ELSE 0
    <3> DEFINE all == resend \o expire
    <3> HIDE DEF all
    <3>1. Cardinality({k \in DOMAIN all : all[k] = n}) = IF n \in tree THEN 1 ELSE 0
      BY <2>2, OnePlace DEF all
    <3> QED
      BY <3>1 DEF all
  <2>4. ListOf(Now, {}, n) /\ node[n].waiting \in Seq(Ctx)
    BY <1>1, ListType, NowFields DEF Lists
  <2>5. Range(node[n].waiting) \subseteq Ctx
    BY <2>4, EmptyRange
  <2>6. Range(node[n].waiting) = {q \in Ctx : ctx[q].state = "again" /\ ctx[q].node = n}
    BY <2>4, <2>5, NowFields DEF ListOf
  <2>7. Unique(node[n].waiting) /\ (node[n].waiting # <<>> => n \in Range(resend))
    BY <2>4, NowFields DEF ListOf
  <2>8. Cardinality(Range(node[n].waiting)) = Len(node[n].waiting)
    BY <2>4, <2>7, UniqueLength
  <2> QED
    BY <2>3, <2>6, <2>7, <2>8
<1>4. \A q \in Ctx : ctx[q].state = "again" => ctx[q].event
  BY <1>1, NowFields DEF Timers
<1> QED
  BY <1>3, <1>4, Zenon DEF WaitersAreListed

\* What it says of the timer and of the answers.
LEMMA InvTimedAndOne == ResolverInv => ResendIsTimed /\ AnswersAreOfOneQuery
<1> SUFFICES ASSUME ResolverInv PROVE ResendIsTimed /\ AnswersAreOfOneQuery
  OBVIOUS
<1>1. Good(Now, {}) /\ Timers(Now) /\ \A q \in Ctx : TellOK(Now.ctx[q])
  BY DEF ResolverInv, Good
<1>2. ResendIsTimed
  BY <1>1, NowFields DEF Timers, ResendIsTimed
<1>3. ASSUME NEW q \in Ctx, ctx[q].state = "ok"
      PROVE  /\ \E t \in Type : ctx[q].answer[t] # Empty
             /\ \A t, u \in Type :
                   ctx[q].answer[t] # Empty /\ ctx[q].answer[u] # Empty =>
                       ctx[q].answer[t] = ctx[q].answer[u]
  BY <1>1, <1>3, NowFields DEF TellOK, OneQuery
<1> QED
  BY <1>2, <1>3 DEF AnswersAreOfOneQuery

-----------------------------------------------------------------------------
\* For any names, askers, aliases and answers, late, doubled or cut short: a node is
\* on one of the two queues, once, and its list is those who wait for it, all of
\* whom have a timer.
THEOREM Listed == Spec => []WaitersAreListed
<1>1. Spec => []ResolverInv
  BY InitGood, ResolverStep, PTL DEF Spec
<1> QED
  BY <1>1, InvListed, PTL

\* While a name is being resolved the timer runs that all names share, whoever of
\* ngx_resolve_name_done(), ngx_resolver_resend_handler() and the answers ran last.
THEOREM TimedResend == Spec => []ResendIsTimed
<1>1. Spec => []ResolverInv
  BY InitGood, ResolverStep, PTL DEF Spec
<1> QED
  BY <1>1, InvTimedAndOne, PTL

\* However many queries were made for a name, an asker is given the addresses of one
\* of them: ngx_resolver_process_a() never mixes a late answer with the present one.
THEOREM OneQueryAnswers == Spec => []AnswersAreOfOneQuery
<1>1. Spec => []ResolverInv
  BY InitGood, ResolverStep, PTL DEF Spec
<1> QED
  BY <1>1, InvTimedAndOne, PTL
=============================================================================
