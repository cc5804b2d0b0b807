-------------------------- MODULE FileCacheProofs --------------------------
(***************************************************************************)
(* The counts and the update marks of the cache nodes, for any number of   *)
(* requests, keys and nodes, with workers killed at any point.             *)
(***************************************************************************)
EXTENDS FileCache, FiniteSetTheorems, SequenceTheorems, WellFoundedInduction, TLAPS

IsNode(x) ==
    x = [key |-> x.key, count |-> x.count, exists |-> x.exists, fs |-> x.fs, error |-> x.error,
         errorValid |-> x.errorValid, updating |-> x.updating, young |-> x.young,
         lockers |-> x.lockers, deleting |-> x.deleting]

NodeOK(x) == IsNode(x) /\ x.key \in Key \cup {None} /\ x.count \in Int

NodesOK ==
    /\ node = [n \in Node |-> node[n]]
    /\ \A n \in Node : NodeOK(node[n])

\* A request with its ngx_http_cache_t: it has a node between the lookup and its end.
IsRequest(u) ==
    u = [pc |-> u.pc, node |-> u.node, file |-> u.file, expired |-> u.expired,
         updating |-> u.updating, cacheable |-> u.cacheable, patient |-> u.patient,
         timer |-> u.timer, renamed |-> u.renamed, error |-> u.error]

Holding == {"again", "open", "read", "stale", "lock", "wait", "fetch", "header", "rename",
            "update", "free"}
NotHolding == {"idle", "nomem", "retry", "done"}

RequestOK(u) ==
    /\ IsRequest(u)
    /\ u.pc \in Holding \cup NotHolding \cup {"killed"}
    /\ u.pc \in Holding => u.node \in Node
    /\ u.pc \in NotHolding => u.node = None
    /\ u.node \in Node \cup {None}

\* The loader has failed only on a file that it looks at.
LoaderType == {l \in [todo : SUBSET Key, at : Key \cup {None}, failed : BOOLEAN] :
                  l.failed => l.at # None}

Types ==
    /\ NodesOK
    /\ queue \in Seq(Node)
    /\ req = [r \in Request |-> req[r]]
    /\ \A r \in Request : RequestOK(req[r])
    /\ del \in [Request \cup {Manager} -> [node : Node \cup {None}, unlinked : BOOLEAN]]
    /\ loader \in LoaderType

\* Free memory is clean.
UnusedFree == \A n \in Node : node[n].key = None => node[n] = FreeNode

\* A request deletes a node only while it waits for memory.
DeletesOK == \A r \in Request : del[r].node # None => req[r].pc \in {"retry", "killed"}

CInv == Types /\ UnusedFree /\ DeletesOK /\ HoldersAreCounted

-----------------------------------------------------------------------------
\* A set of natural numbers that is not empty has a least element: what a CHOOSE
\* of the least index relies on.
LEMMA LeastExists ==
  ASSUME NEW S \in SUBSET Nat, S # {}
  PROVE  \E j \in S : \A k \in S : j <= k
<1>1. \E j \in S : \A k \in S : ~(<<k, j>> \in OpToRel(<, Nat))
  BY WFMin, NatLessThanWellFounded, Zenon
<1>2. ASSUME NEW j \in Nat, NEW k \in Nat, ~(<<k, j>> \in OpToRel(<, Nat))
      PROVE  j <= k
  <2>1. ~(k < j)
    BY <1>2, Zenon DEF OpToRel
  <2> QED
    BY <2>1
<1> QED
  BY <1>1, <1>2

LEMMA GreatestExists ==
  ASSUME NEW m \in Nat, NEW S \in SUBSET (1 .. m), S # {}
  PROVE  \E j \in S : \A k \in S : k <= j
<1> DEFINE T == {m - j : j \in S}
<1>1. T \in SUBSET Nat /\ T # {}
  <2>1. ASSUME NEW j \in S
        PROVE  m - j \in Nat
    BY <2>1
  <2>2. PICK j \in S : TRUE
    OBVIOUS
  <2>3. m - j \in T
    BY <2>2
  <2> QED
    BY <2>1, <2>3
<1>2. PICK t \in T : \A k \in T : t <= k
  <2> HIDE DEF T
  <2> QED
    BY <1>1, LeastExists
<1>3. PICK j \in S : t = m - j
  BY <1>2
<1>4. \A k \in S : m - j <= m - k
  BY <1>2, <1>3
<1>5. \A k \in S : k <= j
  BY <1>4
<1> QED
  BY <1>5

-----------------------------------------------------------------------------
\* The queue of nodes.

LEMMA QueueCons ==
  ASSUME NEW s \in Seq(Node), NEW n \in Node
  PROVE  Cons(n, s) \in Seq(Node)
<1>1. <<n>> \in Seq(Node)
  OBVIOUS
<1> QED
  BY <1>1, ConcatProperties DEF Cons

LEMMA QueueSubSeq ==
  ASSUME NEW s \in Seq(Node), NEW m \in 1 .. Len(s) + 1, NEW n \in 0 .. Len(s)
  PROVE  SubSeq(s, m, n) \in Seq(Node)
<1>1. Len(s) \in Nat
  BY LenProperties
<1>2. \A i \in m .. n : s[i] \in Node
  BY <1>1, ElementOfSeq
<1> QED
  BY <1>1, <1>2, SubSeqProperties

LEMMA QueueRemove ==
  ASSUME NEW s \in Seq(Node), NEW e
  PROVE  RemoveFirst(s, e) \in Seq(Node)
<1>1. CASE ~\E i \in 1 .. Len(s) : s[i] = e
  BY <1>1 DEF RemoveFirst
<1>2. CASE \E i \in 1 .. Len(s) : s[i] = e
  <2> DEFINE I == {i \in 1 .. Len(s) : s[i] = e}
             m == Min(I)
  <2>1. RemoveFirst(s, e) = RemoveAt(s, m)
    <3>1. I # {}
      BY <1>2
    <3>2. SelectInSeq(s, LAMBDA v : v = e) = IF I # {} THEN m ELSE 0
      BY DEF SelectInSeq
    <3> QED
      BY <1>2, <3>1, <3>2 DEF RemoveFirst
  <2>2. Len(s) \in Nat
    BY LenProperties
  <2>3. I \in SUBSET Nat /\ I # {}
    BY <1>2, <2>2
  <2>4. m \in I
    <3> HIDE DEF I
    <3>1. \E j \in I : \A k \in I : j <= k
      BY <2>3, LeastExists
    <3> QED
      BY <3>1 DEF Min
  <2>5. m \in 1 .. Len(s)
    BY <2>4
  <2> HIDE DEF m
  <2>6. SubSeq(s, 1, m - 1) \in Seq(Node) /\ SubSeq(s, m + 1, Len(s)) \in Seq(Node)
    BY <2>2, <2>5, QueueSubSeq
  <2> QED
    BY <2>1, <2>6, ConcatProperties DEF RemoveAt
<1> QED
  BY <1>1, <1>2

LEMMA QueueToHead ==
  ASSUME queue \in Seq(Node), NEW n \in Node
  PROVE  ToHead(n) \in Seq(Node)
BY QueueRemove, QueueCons DEF ToHead

LEMMA QueueLast ==
  ASSUME queue \in Seq(Node), queue # <<>>
  PROVE  Last(queue) \in Node
<1>1. Len(queue) \in Nat /\ Len(queue) # 0
  BY LenProperties, EmptySeq
<1> QED
  BY <1>1, ElementOfSeq DEF Last

-----------------------------------------------------------------------------
\* The numbers of those that refer to a node.

LEMMA ReferrersFinite ==
  ASSUME Types, NEW n
  PROVE  /\ IsFiniteSet(Holders(n)) /\ IsFiniteSet(Deleters(n))
         /\ Cardinality(Holders(n)) \in Nat /\ Cardinality(Deleters(n)) \in Nat
         /\ Cardinality(Holders(n)) = 0 <=> Holders(n) = {}
         /\ Cardinality(Deleters(n)) = 0 <=> Deleters(n) = {}
<1>1. IsFiniteSet(Request) /\ IsFiniteSet(Request \cup {Manager})
  BY CacheAssumption, FS_AddElement
<1>2. Holders(n) \subseteq Request /\ Deleters(n) \subseteq Request \cup {Manager}
  BY DEF Holders, Deleters, Types
<1>3. IsFiniteSet(Holders(n)) /\ IsFiniteSet(Deleters(n))
  BY <1>1, <1>2, FS_Subset
<1> QED
  BY <1>3, FS_CardinalityType, FS_EmptySet

\* A node that is not counted is not referred to.
LEMMA NotCounted ==
  ASSUME Types, HoldersAreCounted, NEW n \in Node, node[n].count = 0
  PROVE  Holders(n) = {} /\ Deleters(n) = {}
<1>1. Cardinality(Holders(n)) + Cardinality(Deleters(n)) = 0
  BY DEF HoldersAreCounted
<1> QED
  BY <1>1, ReferrersFinite

\* Nobody takes a reference or gives one up.
LEMMA KeepReferences ==
  ASSUME Types, HoldersAreCounted,
         \A q \in Request : req'[q].node = req[q].node,
         del' = del,
         \A n \in Node : \/ node'[n].count = node[n].count /\ node'[n].key = node[n].key
                         \/ node[n].count = 0 /\ node'[n].count = 0
  PROVE  HoldersAreCounted'
<1> SUFFICES ASSUME NEW n \in Node
             PROVE  /\ node'[n].count = Cardinality(Holders(n)') + Cardinality(Deleters(n)')
                    /\ \A r \in Holders(n)' : node'[n].key = KeyOf[r]
  BY DEF HoldersAreCounted
<1>1. Holders(n)' = Holders(n) /\ Deleters(n)' = Deleters(n)
  BY DEF Holders, Deleters
<1>2. CASE node'[n].count = node[n].count /\ node'[n].key = node[n].key
  BY <1>1, <1>2 DEF HoldersAreCounted
<1>3. CASE node[n].count = 0 /\ node'[n].count = 0
  BY <1>1, <1>3, NotCounted DEF HoldersAreCounted
<1> QED
  BY <1>2, <1>3

\* A request takes a reference: c->node = fcn, fcn->count++.
LEMMA TakeReference ==
  ASSUME Types, HoldersAreCounted, NEW r \in Request, NEW n \in Node, req[r].node = None,
         req'[r].node = n, \A q \in Request \ {r} : req'[q].node = req[q].node,
         del' = del,
         \A m \in Node \ {n} : node'[m] = node[m],
         node'[n].count = node[n].count + 1, node'[n].key = KeyOf[r],
         node[n].key = KeyOf[r] \/ node[n].count = 0
  PROVE  HoldersAreCounted'
<1>0. None \notin Node
  BY CacheAssumption
<1> SUFFICES ASSUME NEW m \in Node
             PROVE  /\ node'[m].count = Cardinality(Holders(m)') + Cardinality(Deleters(m)')
                    /\ \A q \in Holders(m)' : node'[m].key = KeyOf[q]
  BY DEF HoldersAreCounted
<1>1. Deleters(m)' = Deleters(m)
  BY DEF Deleters
<1>2. CASE m # n
  <2>1. Holders(m)' = Holders(m) /\ node'[m] = node[m]
    BY <1>0, <1>2 DEF Holders
  <2> QED
    BY <1>1, <2>1 DEF HoldersAreCounted
<1>3. CASE m = n
  <2>1. Holders(n)' = Holders(n) \cup {r} /\ r \notin Holders(n)
    BY <1>0 DEF Holders
  <2>2. Cardinality(Holders(n)') = Cardinality(Holders(n)) + 1
    <3>1. IsFiniteSet(Holders(n))
      BY ReferrersFinite
    <3>2. Cardinality(Holders(n) \cup {r}) = Cardinality(Holders(n)) + 1
      BY <2>1, <3>1, FS_AddElement
    <3> QED
      BY <2>1, <3>2
  <2>3. node'[n].count = Cardinality(Holders(n)') + Cardinality(Deleters(n)')
    BY <1>1, <1>3, <2>2, ReferrersFinite DEF HoldersAreCounted
  <2>4. \A q \in Holders(n) : node[n].key = KeyOf[q]
    BY DEF HoldersAreCounted
  <2>5. \A q \in Holders(n)' : node'[n].key = KeyOf[q]
    BY <2>1, <2>4, NotCounted
  <2> QED
    BY <1>3, <2>3, <2>5
<1> QED
  BY <1>2, <1>3

\* A request gives its reference up: fcn->count--, c->node = NULL.
LEMMA GiveReference ==
  ASSUME Types, HoldersAreCounted, NEW r \in Request, NEW n \in Node, req[r].node = n,
         req'[r].node = None, \A q \in Request \ {r} : req'[q].node = req[q].node,
         del' = del,
         \A m \in Node \ {n} : node'[m] = node[m],
         node'[n].count = node[n].count - 1,
         node'[n].key = node[n].key \/ node'[n].count = 0
  PROVE  HoldersAreCounted'
<1>0. None \notin Node
  BY CacheAssumption
<1> SUFFICES ASSUME NEW m \in Node
             PROVE  /\ node'[m].count = Cardinality(Holders(m)') + Cardinality(Deleters(m)')
                    /\ \A q \in Holders(m)' : node'[m].key = KeyOf[q]
  BY DEF HoldersAreCounted
<1>1. Deleters(m)' = Deleters(m)
  BY DEF Deleters
<1>2. CASE m # n
  <2>1. Holders(m)' = Holders(m) /\ node'[m] = node[m]
    BY <1>0, <1>2 DEF Holders
  <2> QED
    BY <1>1, <2>1 DEF HoldersAreCounted
<1>3. CASE m = n
  <2>1. Holders(n)' = Holders(n) \ {r} /\ r \in Holders(n)
    BY <1>0 DEF Holders
  <2>2. /\ Cardinality(Holders(n)') = Cardinality(Holders(n)) - 1
        /\ IsFiniteSet(Holders(n)') /\ Cardinality(Holders(n)') \in Nat
    BY <2>1, ReferrersFinite, FS_RemoveElement, FS_CardinalityType
  <2>3. node'[n].count = Cardinality(Holders(n)') + Cardinality(Deleters(n)')
    BY <1>1, <1>3, <2>2, ReferrersFinite DEF HoldersAreCounted
  <2>4. CASE node'[n].key = node[n].key
    BY <1>3, <2>1, <2>3, <2>4 DEF HoldersAreCounted
  <2>5. CASE node'[n].count = 0
    <3>1. Cardinality(Holders(n)') = 0
      BY <1>1, <1>3, <2>2, <2>3, <2>5, ReferrersFinite
    <3>2. Holders(n)' = {}
      BY <2>2, <3>1, FS_EmptySet
    <3> QED
      BY <1>3, <2>3, <3>2
  <2> QED
    BY <2>4, <2>5
<1> QED
  BY <1>2, <1>3

\* A deletion takes a reference while it removes the file.
LEMMA TakeDeletion ==
  ASSUME Types, HoldersAreCounted, NEW p \in Request \cup {Manager}, NEW n \in Node,
         del[p].node = None, del'[p].node = n, DOMAIN del' = DOMAIN del,
         \A q \in (Request \cup {Manager}) \ {p} : del'[q] = del[q],
         \A q \in Request : req'[q].node = req[q].node,
         \A m \in Node \ {n} : node'[m] = node[m],
         node'[n].count = node[n].count + 1, node'[n].key = node[n].key
  PROVE  HoldersAreCounted'
<1>0. None \notin Node /\ DOMAIN del = Request \cup {Manager}
  BY CacheAssumption DEF Types
<1> SUFFICES ASSUME NEW m \in Node
             PROVE  /\ node'[m].count = Cardinality(Holders(m)') + Cardinality(Deleters(m)')
                    /\ \A q \in Holders(m)' : node'[m].key = KeyOf[q]
  BY DEF HoldersAreCounted
<1>1. Holders(m)' = Holders(m)
  BY DEF Holders
<1>2. CASE m # n
  <2>1. Deleters(m)' = Deleters(m) /\ node'[m] = node[m]
    BY <1>0, <1>2 DEF Deleters
  <2> QED
    BY <1>1, <2>1 DEF HoldersAreCounted
<1>3. CASE m = n
  <2>1. Deleters(n)' = Deleters(n) \cup {p} /\ p \notin Deleters(n)
    BY <1>0 DEF Deleters
  <2>2. Cardinality(Deleters(n)') = Cardinality(Deleters(n)) + 1
    <3>1. IsFiniteSet(Deleters(n))
      BY ReferrersFinite
    <3>2. Cardinality(Deleters(n) \cup {p}) = Cardinality(Deleters(n)) + 1
      BY <2>1, <3>1, FS_AddElement
    <3> QED
      BY <2>1, <3>2
  <2>3. node[n].count = Cardinality(Holders(n)) + Cardinality(Deleters(n))
    BY DEF HoldersAreCounted
  <2>4. node'[n].count = Cardinality(Holders(n)') + Cardinality(Deleters(n)')
    BY <1>1, <1>3, <2>2, <2>3, ReferrersFinite
  <2> QED
    BY <1>1, <1>3, <2>4 DEF HoldersAreCounted
<1> QED
  BY <1>2, <1>3

\* And gives it up; the last one frees the node.
LEMMA GiveDeletion ==
  ASSUME Types, HoldersAreCounted, NEW p \in Request \cup {Manager}, NEW n \in Node,
         del[p].node = n, del'[p].node = None, DOMAIN del' = DOMAIN del,
         \A q \in (Request \cup {Manager}) \ {p} : del'[q] = del[q],
         \A q \in Request : req'[q].node = req[q].node,
         \A m \in Node \ {n} : node'[m] = node[m],
         node'[n].count = node[n].count - 1,
         node'[n].key = node[n].key \/ node'[n].count = 0
  PROVE  HoldersAreCounted'
<1>0. None \notin Node /\ DOMAIN del = Request \cup {Manager}
  BY CacheAssumption DEF Types
<1> SUFFICES ASSUME NEW m \in Node
             PROVE  /\ node'[m].count = Cardinality(Holders(m)') + Cardinality(Deleters(m)')
                    /\ \A q \in Holders(m)' : node'[m].key = KeyOf[q]
  BY DEF HoldersAreCounted
<1>1. Holders(m)' = Holders(m)
  BY DEF Holders
<1>2. CASE m # n
  <2>1. Deleters(m)' = Deleters(m) /\ node'[m] = node[m]
    BY <1>0, <1>2 DEF Deleters
  <2> QED
    BY <1>1, <2>1 DEF HoldersAreCounted
<1>3. CASE m = n
  <2>1. Deleters(n)' = Deleters(n) \ {p} /\ p \in Deleters(n)
    BY <1>0 DEF Deleters
  <2>2. /\ Cardinality(Deleters(n)') = Cardinality(Deleters(n)) - 1
        /\ Cardinality(Deleters(n)') \in Nat
    BY <2>1, ReferrersFinite, FS_RemoveElement, FS_CardinalityType
  <2>3. node[n].count = Cardinality(Holders(n)) + Cardinality(Deleters(n))
    BY DEF HoldersAreCounted
  <2>4. node'[n].count = Cardinality(Holders(n)') + Cardinality(Deleters(n)')
    BY <1>1, <1>3, <2>2, <2>3, ReferrersFinite
  <2>5. CASE node'[n].key = node[n].key
    BY <1>1, <1>3, <2>4, <2>5 DEF HoldersAreCounted
  <2>6. CASE node'[n].count = 0
    <3>1. Cardinality(Holders(n)) = 0
      BY <1>1, <1>3, <2>2, <2>4, <2>6, ReferrersFinite
    <3>2. Holders(n) = {}
      BY <3>1, ReferrersFinite
    <3> QED
      BY <1>1, <1>3, <2>4, <3>2
  <2> QED
    BY <2>5, <2>6
<1> QED
  BY <1>2, <1>3

-----------------------------------------------------------------------------
\* The types of what the steps leave behind.

LEMMA FreeNodeOK == NodeOK(FreeNode) /\ FreeNode.key = None /\ FreeNode.count = 0
                      /\ FreeNode.updating = FALSE
BY DEF FreeNode, NodeOK, IsNode

\* A node that is changed in some fields.
LEMMA NodeChanges ==
  ASSUME NEW y, NodeOK(y), NEW c \in Int
  PROVE  /\ NodeOK([y EXCEPT !.count = c, !.deleting = TRUE])
         /\ NodeOK([y EXCEPT !.count = c, !.deleting = FALSE])
         /\ \A d \in BOOLEAN : LET x == [y EXCEPT !.count = c, !.deleting = d]
                              IN  /\ x.count = c /\ x.key = y.key /\ x.updating = y.updating
                                  /\ x.lockers = y.lockers
<1>1. ASSUME NEW d \in BOOLEAN, NEW x, x = [y EXCEPT !.count = c, !.deleting = d]
      PROVE  /\ NodeOK(x) /\ x.count = c /\ x.key = y.key /\ x.updating = y.updating
             /\ x.lockers = y.lockers
  <2>1. /\ IsNode(x) /\ x.count = c /\ x.key = y.key /\ x.updating = y.updating
        /\ x.lockers = y.lockers
    BY <1>1 DEF NodeOK, IsNode
  <2> QED
    BY <2>1 DEF NodeOK
<1> QED
  BY <1>1

\* A new node of a request.
LEMMA NewNodeOK ==
  ASSUME NEW k \in Key, NEW x, x = [FreeNode EXCEPT !.key = k, !.count = 1]
  PROVE  NodeOK(x) /\ x.key = k /\ x.count = 1 /\ x.updating = FALSE
<1> DEFINE f == FreeNode
<1>0. IsNode(f) /\ f.updating = FALSE /\ x = [f EXCEPT !.key = k, !.count = 1]
  BY FreeNodeOK DEF NodeOK
<1> HIDE DEF f
<1>1. IsNode(x) /\ x.count = 1 /\ x.key = k /\ x.updating = FALSE
  BY <1>0 DEF IsNode
<1> QED
  BY <1>1 DEF NodeOK

\* And one that the loader makes.
LEMMA LoadedNodeOK ==
  ASSUME NEW k \in Key, NEW x, x = [FreeNode EXCEPT !.key = k, !.exists = TRUE, !.fs = 1]
  PROVE  NodeOK(x) /\ x.key = k /\ x.count = 0 /\ x.updating = FALSE
<1> DEFINE f == FreeNode
<1>0. /\ IsNode(f) /\ f.updating = FALSE /\ f.count = 0
      /\ x = [f EXCEPT !.key = k, !.exists = TRUE, !.fs = 1]
  BY FreeNodeOK DEF NodeOK
<1> HIDE DEF f
<1>1. IsNode(x) /\ x.count = 0 /\ x.key = k /\ x.updating = FALSE
  BY <1>0 DEF IsNode
<1> QED
  BY <1>1 DEF NodeOK

\* One request changes.
LEMMA OneRequest ==
  ASSUME Types, DeletesOK, NEW r \in Request, NEW u, RequestOK(u), req' = [req EXCEPT ![r] = u],
         del' = del, del[r].node # None => u.pc \in {"retry", "killed"}
  PROVE  /\ req' = [q \in Request |-> req'[q]]
         /\ \A q \in Request : RequestOK(req'[q])
         /\ req'[r] = u
         /\ \A q \in Request \ {r} : req'[q] = req[q]
         /\ DeletesOK'
<1>1. /\ req' = [q \in Request |-> req'[q]]
      /\ req'[r] = u
      /\ \A q \in Request \ {r} : req'[q] = req[q]
  BY DEF Types
<1> QED
  BY <1>1 DEF Types, DeletesOK

\* One request changes, none of its reference: it goes on to another place.
LEMMA RequestMoves ==
  ASSUME CInv, NEW r \in Request, NEW u, RequestOK(u), u.node = req[r].node,
         req' = [req EXCEPT ![r] = u], del' = del, loader' = loader, queue' = queue,
         del[r].node # None => u.pc \in {"retry", "killed"},
         NodesOK',
         \A n \in Node : /\ node'[n].count = node[n].count /\ node'[n].key = node[n].key
                         /\ node'[n] = node[n] \/ node[n].key # None
  PROVE  CInv'
<1> USE DEF CInv
<1>1. /\ req' = [q \in Request |-> req'[q]]
      /\ \A q \in Request : RequestOK(req'[q])
      /\ req'[r] = u
      /\ \A q \in Request \ {r} : req'[q] = req[q]
      /\ DeletesOK'
  BY OneRequest
<1>2. HoldersAreCounted'
  <2>1. \A q \in Request : req'[q].node = req[q].node
    BY <1>1
  <2> QED
    BY <2>1, KeepReferences
<1>3. UnusedFree'
  BY DEF UnusedFree
<1>4. Types'
  BY <1>1 DEF Types
<1> QED
  BY <1>1, <1>2, <1>3, <1>4

LEMMA CInit == Init => CInv
<1> SUFFICES ASSUME Init PROVE CInv
  OBVIOUS
<1>1. Types
  <2>1. RequestOK(NewRequest)
    BY DEF RequestOK, IsRequest, NewRequest, Holding, NotHolding
  <2>2. queue \in Seq(Node)
    BY DEF Init
  <2>3. loader \in LoaderType
    BY CacheAssumption DEF Init, LoaderType
  <2>4. del \in [Request \cup {Manager} -> [node : Node \cup {None}, unlinked : BOOLEAN]]
    BY DEF Init
  <2>5. NodesOK
    BY FreeNodeOK DEF Init, NodesOK
  <2> QED
    BY <2>1, <2>2, <2>3, <2>4, <2>5 DEF Init, Types
<1>2. UnusedFree /\ DeletesOK
  BY DEF Init, UnusedFree, DeletesOK
<1>3. HoldersAreCounted
  <2> SUFFICES ASSUME NEW n \in Node
               PROVE  /\ node[n].count = Cardinality(Holders(n)) + Cardinality(Deleters(n))
                      /\ \A r \in Holders(n) : node[n].key = KeyOf[r]
    BY DEF HoldersAreCounted
  <2>1. Holders(n) = {} /\ Deleters(n) = {}
    BY CacheAssumption DEF Init, Holders, Deleters, NewRequest
  <2>2. node[n].count = 0
    BY FreeNodeOK DEF Init, NodesOK
  <2> QED
    BY <2>1, <2>2, FS_EmptySet
<1> QED
  BY <1>1, <1>2, <1>3 DEF CInv

\* One node changes.
LEMMA OneNode ==
  ASSUME Types, UnusedFree, NEW n \in Node, NEW x, NodeOK(x), x.key = None => x = FreeNode,
         node' = [node EXCEPT ![n] = x]
  PROVE  /\ NodesOK' /\ node'[n] = x
         /\ \A m \in Node \ {n} : node'[m] = node[m]
         /\ UnusedFree'
<1>1. /\ NodesOK' /\ node'[n] = x
      /\ \A m \in Node \ {n} : node'[m] = node[m]
  BY DEF Types, NodesOK
<1> QED
  BY <1>1 DEF UnusedFree

\* A request at some place, by whether it has a node there.
LEMMA RequestAt ==
  ASSUME NEW u, IsRequest(u),
         \/ u.pc \in Holding /\ u.node \in Node
         \/ u.pc \in NotHolding /\ u.node = None
         \/ u.pc = "killed" /\ u.node \in Node \cup {None}
  PROVE  RequestOK(u)
BY DEF RequestOK, Holding, NotHolding

\* A request refers to the node of its key, which is in use.
LEMMA HeldNode ==
  ASSUME CInv, NEW r \in Request, req[r].node \in Node
  PROVE  /\ node[req[r].node].key = KeyOf[r] /\ KeyOf[r] \in Key /\ KeyOf[r] # None
         /\ NodeOK(node[req[r].node])
<1>1. r \in Holders(req[r].node)
  BY DEF Holders
<1> QED
  BY <1>1, CacheAssumption DEF CInv, HoldersAreCounted, Types, NodesOK

-----------------------------------------------------------------------------
\* The steps.

LEMMA FoundStep ==
  ASSUME CInv, NEW r \in Request, NEW n \in Node, Found(r, n), UNCHANGED <<del, loader>>,
         req[r].pc \in {"idle", "again"}, node[n].key = KeyOf[r],
         req[r].node = None \/ req[r].node = n
  PROVE  CInv'
<1> DEFINE renew == node[n].error /\ ~node[n].errorValid
           held == IF req[r].node = None THEN node[n].count + 1 ELSE node[n].count
           x == IF renew THEN [node[n] EXCEPT !.count = held, !.error = FALSE,
                                              !.exists = FALSE, !.fs = 0]
                         ELSE [node[n] EXCEPT !.count = held]
           err == IF node[n].error /\ ~renew THEN "seen" ELSE "no"
           to == IF node[n].error /\ ~renew THEN "free"
                 ELSE IF IF renew THEN cold ELSE node[n].exists THEN "open" ELSE "lock"
           u == [req[r] EXCEPT !.node = n, !.error = err, !.pc = to]
<1>0. /\ Types /\ UnusedFree /\ DeletesOK /\ HoldersAreCounted
      /\ NodeOK(node[n]) /\ RequestOK(req[r]) /\ KeyOf[r] \in Key /\ KeyOf[r] # None
  BY CacheAssumption DEF CInv, Types, NodesOK
<1>1. node' = [node EXCEPT ![n] = x] /\ queue' = ToHead(n)
  BY <1>0 DEF Found, Types
<1>2. req' = [req EXCEPT ![r] = u]
  <2>1. req' = [req EXCEPT ![r].node = n, ![r].error = err, ![r].pc = to]
    BY Zenon DEF Found
  <2> HIDE DEF err, to
  <2> QED
    BY <1>0, <2>1 DEF Types
<1>3. NodeOK(x) /\ x.key = KeyOf[r] /\ x.count = held
  <2> DEFINE y == node[n]
  <2>1. held \in Int /\ NodeOK(y) /\ y.key = KeyOf[r]
    BY <1>0 DEF NodeOK
  <2>2. x = [y EXCEPT !.count = held, !.error = FALSE, !.exists = FALSE, !.fs = 0]
        \/ x = [y EXCEPT !.count = held]
    OBVIOUS
  <2> HIDE DEF held, x, y
  <2> QED
    BY <2>1, <2>2 DEF NodeOK, IsNode
<1>4. to \in Holding
  BY DEF Holding
<1>5. RequestOK(u) /\ u.node = n /\ u.pc = to
  <2> DEFINE v == req[r]
  <2>1. IsRequest(v)
    BY <1>0 DEF RequestOK
  <2> HIDE DEF to, err, v
  <2>2. u = [v EXCEPT !.node = n, !.error = err, !.pc = to]
    BY DEF v
  <2> HIDE DEF u
  <2>3. IsRequest(u) /\ u.node = n /\ u.pc = to
    BY <2>1, <2>2 DEF IsRequest
  <2> QED
    BY <1>4, <2>3, RequestAt
<1> HIDE DEF x, u, to, err
<1>6. del[r].node = None
  BY <1>0 DEF DeletesOK
<1>7. /\ req' = [q \in Request |-> req'[q]]
      /\ \A q \in Request : RequestOK(req'[q])
      /\ req'[r] = u
      /\ \A q \in Request \ {r} : req'[q] = req[q]
      /\ DeletesOK'
  BY <1>0, <1>2, <1>5, <1>6, OneRequest
<1>8. /\ NodesOK' /\ node'[n] = x
      /\ \A m \in Node \ {n} : node'[m] = node[m]
      /\ UnusedFree'
  BY <1>0, <1>1, <1>3, OneNode
<1>9. HoldersAreCounted'
  <2>1. CASE req[r].node = None
    <3>1. x.count = node[n].count + 1
      BY <1>3, <2>1
    <3> QED
      BY <1>0, <1>3, <1>5, <1>7, <1>8, <2>1, <3>1, TakeReference
  <2>2. CASE req[r].node = n
    <3>1. x.count = node[n].count /\ n # None
      BY <1>3, <2>2, CacheAssumption
    <3>2. \A q \in Request : req'[q].node = req[q].node
      BY <1>5, <1>7, <2>2
    <3>3. \A m \in Node : node'[m].count = node[m].count /\ node'[m].key = node[m].key
      BY <1>3, <1>8, <3>1
    <3> QED
      BY <1>0, <3>2, <3>3, KeepReferences
  <2> QED
    BY <2>1, <2>2
<1>10. queue' \in Seq(Node)
  BY <1>0, <1>1, QueueToHead DEF Types
<1>11. Types'
  BY <1>0, <1>7, <1>8, <1>10 DEF Types
<1> QED
  BY <1>7, <1>8, <1>9, <1>11 DEF CInv

LEMMA CreateStep ==
  ASSUME CInv, NEW r \in Request, NEW n \in Unused, Create(r, n), UNCHANGED <<del, loader>>,
         req[r].pc \in {"idle", "retry"}, del[r].node = None
  PROVE  CInv'
<1> DEFINE x == [FreeNode EXCEPT !.key = KeyOf[r], !.count = 1]
           to == IF cold THEN "open" ELSE "lock"
           u == [req[r] EXCEPT !.node = n, !.pc = to]
<1>0. /\ Types /\ UnusedFree /\ DeletesOK /\ HoldersAreCounted
      /\ n \in Node /\ node[n].key = None
      /\ RequestOK(req[r]) /\ KeyOf[r] \in Key /\ KeyOf[r] # None
  BY CacheAssumption DEF CInv, Types, Unused
<1>1. node' = [node EXCEPT ![n] = x] /\ queue' = Cons(n, queue)
  BY DEF Create
<1>2. req' = [req EXCEPT ![r] = u]
  BY <1>0 DEF Create, Types
<1>3. NodeOK(x) /\ x.key = KeyOf[r] /\ x.count = 1 /\ node[n].count = 0
  <2>1. node[n].count = 0
    BY <1>0, FreeNodeOK DEF UnusedFree
  <2>2. NodeOK(x) /\ x.key = KeyOf[r] /\ x.count = 1
    <3>1. x = [FreeNode EXCEPT !.key = KeyOf[r], !.count = 1]
      OBVIOUS
    <3> HIDE DEF x
    <3> QED
      BY <1>0, <3>1, NewNodeOK
  <2> QED
    BY <2>1, <2>2
<1>4. to \in Holding
  BY DEF Holding
<1>5. RequestOK(u) /\ u.node = n /\ u.pc = to /\ req[r].node = None
  <2> DEFINE v == req[r]
  <2>1. IsRequest(v) /\ v.node = None
    BY <1>0 DEF RequestOK, NotHolding
  <2> HIDE DEF to, v
  <2>2. u = [v EXCEPT !.node = n, !.pc = to]
    BY DEF v
  <2> HIDE DEF u
  <2>3. IsRequest(u) /\ u.node = n /\ u.pc = to
    BY <2>1, <2>2 DEF IsRequest
  <2> QED
    BY <1>0, <1>4, <2>1, <2>3, RequestAt DEF v
<1> HIDE DEF x, u, to
<1>7. /\ req' = [q \in Request |-> req'[q]]
      /\ \A q \in Request : RequestOK(req'[q])
      /\ req'[r] = u
      /\ \A q \in Request \ {r} : req'[q] = req[q]
      /\ DeletesOK'
  BY <1>0, <1>2, <1>5, OneRequest
<1>8. /\ NodesOK' /\ node'[n] = x
      /\ \A m \in Node \ {n} : node'[m] = node[m]
      /\ UnusedFree'
  BY <1>0, <1>1, <1>3, OneNode
<1>9. HoldersAreCounted'
  BY <1>0, <1>3, <1>5, <1>7, <1>8, TakeReference
<1>10. queue' \in Seq(Node)
  BY <1>0, <1>1, QueueCons DEF Types
<1>11. Types'
  BY <1>0, <1>7, <1>8, <1>10 DEF Types
<1> QED
  BY <1>7, <1>8, <1>9, <1>11 DEF CInv

LEMMA ExistsStep ==
  ASSUME CInv, NEW r \in Request, Exists(r)
  PROVE  CInv'
<1>0. /\ Types /\ DeletesOK /\ RequestOK(req[r]) /\ req[r].pc \in {"idle", "again"}
      /\ UNCHANGED <<del, loader>> /\ None \notin Node
  BY CacheAssumption DEF CInv, Types, Exists, Others
<1>1. del[r].node = None
  BY <1>0 DEF DeletesOK
<1>2. CASE req[r].node # None
  <2>1. req[r].node \in Node /\ Found(r, req[r].node)
    BY <1>0, <1>2 DEF RequestOK, Exists
  <2> QED
    BY <1>0, <2>1, HeldNode, FoundStep
<1>3. CASE req[r].node = None /\ Lookup(KeyOf[r]) # {}
  <2>1. PICK n \in Lookup(KeyOf[r]) : Found(r, n)
    BY <1>3 DEF Exists
  <2>2. n \in Node /\ node[n].key = KeyOf[r]
    BY <2>1 DEF Lookup
  <2> QED
    BY <1>0, <1>3, <2>1, <2>2, FoundStep
<1>4. CASE req[r].node = None /\ Lookup(KeyOf[r]) = {} /\ Unused # {}
  <2>1. Create(r, CHOOSE n \in Unused : TRUE)
    BY <1>4 DEF Exists
  <2>2. (CHOOSE n \in Unused : TRUE) \in Unused
    BY <1>4
  <2>3. req[r].pc = "idle"
    BY <1>0, <1>4 DEF RequestOK, Holding
  <2> QED
    BY <1>0, <1>1, <2>1, <2>2, <2>3, CreateStep
<1>5. CASE req[r].node = None /\ Lookup(KeyOf[r]) = {} /\ Unused = {}
  <2> DEFINE u == [req[r] EXCEPT !.pc = "nomem"]
  <2>1. req' = [req EXCEPT ![r] = u] /\ UNCHANGED <<node, queue>>
    BY <1>0, <1>5 DEF Exists, Types
  <2>2. RequestOK(u) /\ u.node = req[r].node
    BY <1>0, <1>5 DEF RequestOK, IsRequest, Holding, NotHolding
  <2>3. NodesOK'
    BY <1>0, <2>1 DEF Types, NodesOK
  <2> HIDE DEF u
  <2> QED
    BY <1>0, <1>1, <2>1, <2>2, <2>3, RequestMoves
<1> QED
  BY <1>2, <1>3, <1>4, <1>5

\* ngx_http_file_cache_delete() up to the unlink, of a node that nobody refers to.
LEMMA DeleteBeginStep ==
  ASSUME CInv, NEW p \in Request \cup {Manager}, NEW n \in Node, NEW order \in Seq(Node),
         node[n].count = 0, del[p].node = None, DeleteBegin(p, n, order)
  PROVE  /\ NodesOK' /\ UnusedFree' /\ queue' \in Seq(Node)
         /\ del' \in [Request \cup {Manager} -> [node : Node \cup {None}, unlinked : BOOLEAN]]
         /\ \A q \in Request \ {p} : del'[q] = del[q]
         /\ (\A q \in Request : req'[q].node = req[q].node) => HoldersAreCounted'
<1>0. Types /\ UnusedFree /\ HoldersAreCounted /\ NodeOK(node[n])
  BY DEF CInv, Types, NodesOK
<1>1. CASE node[n].exists
  <2> DEFINE y == node[n]
             x == [y EXCEPT !.count = y.count + 1, !.deleting = TRUE]
             d == [node |-> n, unlinked |-> FALSE]
  <2>1. /\ node' = [node EXCEPT ![n] = x] /\ queue' = order
        /\ del' = [del EXCEPT ![p] = d]
    BY <1>0, <1>1 DEF DeleteBegin, Types, NodesOK
  <2>2. y.key # None
    <3>1. y.key = None => y.exists = FALSE
      BY <1>0 DEF UnusedFree, FreeNode
    <3> QED
      BY <1>1, <3>1
  <2>3. NodeOK(x) /\ x.key = y.key /\ x.count = y.count + 1
    <3>1. NodeOK(y) /\ y.count + 1 \in Int
      BY <1>0 DEF NodeOK
    <3> HIDE DEF y
    <3> QED
      BY <3>1, NodeChanges
  <2>4. x.key = node[n].key /\ x.count = node[n].count + 1
    BY <2>3
  <2>5. d \in [node : Node \cup {None}, unlinked : BOOLEAN] /\ d.node = n
    OBVIOUS
  <2> HIDE DEF x, d
  <2>6. /\ NodesOK' /\ node'[n] = x
        /\ \A m \in Node \ {n} : node'[m] = node[m]
        /\ UnusedFree'
    BY <1>0, <2>1, <2>2, <2>3, OneNode
  <2>7. /\ del' \in [Request \cup {Manager} -> [node : Node \cup {None}, unlinked : BOOLEAN]]
        /\ del'[p] = d /\ DOMAIN del' = DOMAIN del
        /\ \A q \in (Request \cup {Manager}) \ {p} : del'[q] = del[q]
    BY <1>0, <2>1, <2>5 DEF Types
  <2>8. (\A q \in Request : req'[q].node = req[q].node) => HoldersAreCounted'
    BY <1>0, <2>4, <2>5, <2>6, <2>7, TakeDeletion
  <2> QED
    BY <2>1, <2>6, <2>7, <2>8
<1>2. CASE ~node[n].exists
  <2>1. node' = [node EXCEPT ![n] = FreeNode] /\ queue' = RemoveFirst(order, n) /\ del' = del
    BY <1>2 DEF DeleteBegin
  <2>2. /\ NodesOK' /\ node'[n] = FreeNode
        /\ \A m \in Node \ {n} : node'[m] = node[m]
        /\ UnusedFree'
    BY <1>0, <2>1, FreeNodeOK, OneNode
  <2>3. (\A q \in Request : req'[q].node = req[q].node) => HoldersAreCounted'
    BY <1>0, <2>1, <2>2, FreeNodeOK, KeepReferences
  <2> QED
    BY <1>0, <2>1, <2>2, <2>3, QueueRemove DEF Types
<1> QED
  BY <1>1, <1>2

LEMMA ForcedExpireStep ==
  ASSUME CInv, NEW p \in Request \cup {Manager}, del[p].node = None, ForcedExpire(p)
  PROVE  /\ NodesOK' /\ UnusedFree' /\ queue' \in Seq(Node)
         /\ del' \in [Request \cup {Manager} -> [node : Node \cup {None}, unlinked : BOOLEAN]]
         /\ \A q \in Request \ {p} : del'[q] = del[q]
         /\ (\A q \in Request : req'[q].node = req[q].node) => HoldersAreCounted'
<1>0. Types /\ UnusedFree /\ HoldersAreCounted /\ queue \in Seq(Node)
  BY DEF CInv, Types
<1>1. CASE Victims = {}
  <2>1. UNCHANGED <<node, queue, del>>
    BY <1>1 DEF ForcedExpire
  <2>2. (\A q \in Request : req'[q].node = req[q].node) => HoldersAreCounted'
    BY <1>0, <2>1, KeepReferences
  <2> QED
    BY <1>0, <2>1, <2>2 DEF Types, NodesOK, UnusedFree
<1>2. CASE Victims # {}
  <2> DEFINE i == CHOOSE j \in Victims : \A k \in Victims : k <= j
             order == SubSeq(queue, i + 1, Len(queue)) \o SubSeq(queue, 1, i)
  <2>1. Len(queue) \in Nat /\ Victims \subseteq 1 .. Len(queue)
    BY <1>0, LenProperties DEF Victims
  <2>2. \E j \in Victims : \A k \in Victims : k <= j
    BY <1>2, <2>1, GreatestExists
  <2>3. i \in Victims
    BY <2>2
  <2>4. DeleteBegin(p, queue[i], order)
    BY <1>2 DEF ForcedExpire
  <2> HIDE DEF i
  <2>5. i \in 1 .. Len(queue) /\ node[queue[i]].count = 0
    BY <2>3 DEF Victims
  <2>6. queue[i] \in Node
    BY <1>0, <2>5, ElementOfSeq
  <2>7. SubSeq(queue, i + 1, Len(queue)) \in Seq(Node) /\ SubSeq(queue, 1, i) \in Seq(Node)
    BY <1>0, <2>1, <2>5, QueueSubSeq
  <2>8. order \in Seq(Node)
    BY <2>7, ConcatProperties
  <2> HIDE DEF order
  <2> QED
    BY <2>4, <2>5, <2>6, <2>8, DeleteBeginStep
<1> QED
  BY <1>1, <1>2

\* No memory: MakeRoom gives a node up, Retry makes the one wanted.
LEMMA RoomStep ==
  ASSUME CInv, NEW r \in Request, MakeRoom(r) \/ Retry(r)
  PROVE  CInv'
<1>0. /\ Types /\ UnusedFree /\ DeletesOK /\ HoldersAreCounted /\ RequestOK(req[r])
      /\ r # Manager
  BY CacheAssumption DEF CInv, Types
<1>1. CASE MakeRoom(r)
  <2> DEFINE v == req[r]
             u == [v EXCEPT !.pc = "retry"]
  <2>1. req' = [req EXCEPT ![r] = u] /\ ForcedExpire(r) /\ loader' = loader /\ v.pc = "nomem"
    BY <1>0, <1>1 DEF MakeRoom, Types
  <2>2. RequestOK(u) /\ u.pc = "retry" /\ u.node = v.node
    <3>1. IsRequest(v) /\ v.node = None
      BY <1>0, <2>1 DEF RequestOK, NotHolding
    <3> HIDE DEF v
    <3>2. IsRequest(u) /\ u.pc = "retry" /\ u.node = None
      BY <3>1 DEF IsRequest
    <3> HIDE DEF u
    <3> QED
      BY <3>1, <3>2, RequestAt DEF NotHolding
  <2> HIDE DEF u
  <2>3. del[r].node = None
    BY <1>0, <2>1 DEF DeletesOK
  <2>4. /\ req' = [q \in Request |-> req'[q]] /\ req'[r] = u
        /\ \A q \in Request \ {r} : req'[q] = req[q]
    BY <1>0, <2>1 DEF Types
  <2>5. \A q \in Request : req'[q].node = req[q].node
    BY <2>2, <2>4
  <2>6. /\ NodesOK' /\ UnusedFree' /\ queue' \in Seq(Node)
        /\ del' \in [Request \cup {Manager} -> [node : Node \cup {None}, unlinked : BOOLEAN]]
        /\ \A q \in Request \ {r} : del'[q] = del[q]
        /\ HoldersAreCounted'
    BY <2>1, <2>3, <2>5, ForcedExpireStep
  <2>7. DeletesOK'
    BY <1>0, <2>2, <2>4, <2>6 DEF DeletesOK
  <2>8. Types'
    BY <1>0, <2>1, <2>2, <2>4, <2>6 DEF Types
  <2> QED
    BY <2>6, <2>7, <2>8 DEF CInv
<1>2. CASE Retry(r)
  <2>1. /\ req[r].pc = "retry" /\ del[r].node = None /\ UNCHANGED <<del, loader>>
        /\ \/ Unused # {} /\ Create(r, CHOOSE n \in Unused : TRUE)
           \/ req' = [req EXCEPT ![r].pc = "done"] /\ UNCHANGED <<node, queue>>
    BY <1>2 DEF Retry, Others
  <2>2. CASE Unused # {} /\ Create(r, CHOOSE n \in Unused : TRUE)
    <3>1. (CHOOSE n \in Unused : TRUE) \in Unused
      BY <2>2
    <3> QED
      BY <2>1, <2>2, <3>1, CreateStep
  <2>3. CASE req' = [req EXCEPT ![r].pc = "done"] /\ UNCHANGED <<node, queue>>
    <3> DEFINE v == req[r]
               u == [v EXCEPT !.pc = "done"]
    <3>1. req' = [req EXCEPT ![r] = u]
      BY <1>0, <2>3 DEF Types
    <3>2. RequestOK(u) /\ u.node = v.node
      <4>1. IsRequest(v) /\ v.node = None
        BY <1>0, <2>1 DEF RequestOK, NotHolding
      <4> HIDE DEF v
      <4>2. IsRequest(u) /\ u.pc = "done" /\ u.node = None
        BY <4>1 DEF IsRequest
      <4> HIDE DEF u
      <4> QED
        BY <4>1, <4>2, RequestAt DEF NotHolding
    <3>3. NodesOK'
      BY <1>0, <2>3 DEF Types, NodesOK
    <3> HIDE DEF u
    <3> QED
      BY <2>1, <2>3, <3>1, <3>2, <3>3, RequestMoves
  <2> QED
    BY <2>1, <2>2, <2>3
<1> QED
  BY <1>1, <1>2

\* A request that has a node goes on; its node may change, its reference does not.
LEMMA HolderMoves ==
  ASSUME CInv, NEW r \in Request, req[r].pc \in Holding,
         NEW u, IsRequest(u), u.node = req[r].node, u.pc \in Holding,
         req' = [req EXCEPT ![r] = u], UNCHANGED <<del, loader, queue>>,
         NEW x, NodeOK(x), x.key = node[req[r].node].key, x.count = node[req[r].node].count,
         node' = [node EXCEPT ![req[r].node] = x]
  PROVE  CInv'
<1> DEFINE n == req[r].node
<1>0. /\ Types /\ UnusedFree /\ DeletesOK /\ RequestOK(req[r]) /\ n \in Node
      /\ node[n].key # None
  BY HeldNode DEF CInv, Types, RequestOK
<1>1. RequestOK(u)
  BY <1>0, RequestAt
<1>2. del[r].node = None
  BY <1>0 DEF DeletesOK, Holding
<1>3. x.key # None
  BY <1>0
<1>4. /\ NodesOK' /\ node'[n] = x
      /\ \A m \in Node \ {n} : node'[m] = node[m]
  BY <1>0, <1>3, OneNode
<1>5. \A m \in Node : /\ node'[m].count = node[m].count /\ node'[m].key = node[m].key
                      /\ node'[m] = node[m] \/ node[m].key # None
  BY <1>0, <1>4
<1> HIDE DEF n
<1> QED
  BY <1>1, <1>2, <1>4, <1>5, RequestMoves

\* The same, its node as it was.
LEMMA HolderMovesAlone ==
  ASSUME CInv, NEW r \in Request, req[r].pc \in Holding,
         NEW u, IsRequest(u), u.node = req[r].node, u.pc \in Holding,
         req' = [req EXCEPT ![r] = u], UNCHANGED <<del, loader, queue, node>>
  PROVE  CInv'
<1>0. req[r].node \in Node /\ Types
  BY DEF CInv, Types, RequestOK
<1>1. NodeOK(node[req[r].node]) /\ node' = [node EXCEPT ![req[r].node] = node[req[r].node]]
  BY <1>0 DEF Types, NodesOK
<1> QED
  BY <1>1, HolderMoves

\* The steps that only change the request: the file is opened and read, the wait for
\* the lock ends, the server answers, the temporary file gets its name.
LEMMA MoveStep ==
  ASSUME CInv, NEW r \in Request,
         Open(r) \/ LockWait(r) \/ Answer(r) \/ UpdateHeader(r) \/ Rename(r)
  PROVE  CInv'
<1> DEFINE v == req[r]
<1>0. /\ IsRequest(v) /\ v.pc \in Holding /\ req = [q \in Request |-> req[q]]
      /\ UNCHANGED <<del, loader, queue, node>>
  <2>1. v.pc \in {"open", "wait", "fetch", "header", "rename"}
    BY DEF Open, LockWait, Answer, UpdateHeader, Rename
  <2>2. UNCHANGED <<del, loader, queue, node>>
    BY DEF Open, LockWait, Answer, UpdateHeader, Rename, Others
  <2> QED
    BY <2>1, <2>2 DEF CInv, Types, RequestOK, Holding
<1>1. ASSUME NEW u, IsRequest(u), u.node = v.node, u.pc \in Holding,
             req' = [req EXCEPT ![r] = u]
      PROVE  CInv'
  BY <1>0, <1>1, HolderMovesAlone
<1>2. CASE Open(r)
  <2> DEFINE f == disk[KeyOf[r]]
             e == f \notin fresh
             to == IF f = None THEN "lock" ELSE "read"
             u == [v EXCEPT !.file = f, !.expired = e, !.pc = to]
  <2>1. req' = [req EXCEPT ![r] = u]
    BY <1>0, <1>2 DEF Open
  <2>2. to \in Holding
    BY DEF Holding
  <2> HIDE DEF v, f, e, to
  <2>3. IsRequest(u) /\ u.node = v.node /\ u.pc = to
    <3>1. u = [v EXCEPT !.file = f, !.expired = e, !.pc = to]
      OBVIOUS
    <3> HIDE DEF u
    <3> QED
      BY <1>0, <3>1 DEF IsRequest
  <2> HIDE DEF u
  <2> QED
    BY <1>1, <2>1, <2>2, <2>3
<1>3. CASE LockWait(r)
  <2>1. PICK patient \in BOOLEAN :
          req' = [req EXCEPT ![r].pc = "again", ![r].timer = FALSE, ![r].patient = patient]
    BY <1>3 DEF LockWait
  <2> DEFINE u == [v EXCEPT !.pc = "again", !.timer = FALSE, !.patient = patient]
  <2>2. req' = [req EXCEPT ![r] = u]
    BY <1>0, <2>1
  <2> HIDE DEF v
  <2>3. IsRequest(u) /\ u.node = v.node /\ u.pc = "again"
    <3>1. u = [v EXCEPT !.pc = "again", !.timer = FALSE, !.patient = patient]
      OBVIOUS
    <3> HIDE DEF u
    <3> QED
      BY <1>0, <3>1 DEF IsRequest
  <2> HIDE DEF u
  <2> QED
    BY <1>1, <2>2, <2>3 DEF Holding
<1>4. ASSUME NEW to \in {"rename", "free", "header", "update"},
             req' = [req EXCEPT ![r].pc = to]
      PROVE  CInv'
  <2> DEFINE u == [v EXCEPT !.pc = to]
  <2>1. req' = [req EXCEPT ![r] = u] /\ to \in Holding
    BY <1>0, <1>4 DEF Holding
  <2> HIDE DEF v
  <2>2. IsRequest(u) /\ u.node = v.node /\ u.pc = to
    BY <1>0 DEF IsRequest
  <2> HIDE DEF u
  <2> QED
    BY <1>1, <2>1, <2>2
<1>5. CASE Answer(r)
  <2>1. CASE req' = [req EXCEPT ![r].pc = "free", ![r].error = "new"]
    <3> DEFINE u == [v EXCEPT !.pc = "free", !.error = "new"]
    <3>1. req' = [req EXCEPT ![r] = u]
      BY <1>0, <2>1
    <3> HIDE DEF v
    <3>2. IsRequest(u) /\ u.node = v.node /\ u.pc = "free"
      <4>1. u = [v EXCEPT !.pc = "free", !.error = "new"]
        OBVIOUS
      <4> HIDE DEF u
      <4> QED
        BY <1>0, <4>1 DEF IsRequest
    <3> HIDE DEF u
    <3> QED
      BY <1>1, <3>1, <3>2 DEF Holding
  <2>2. CASE \/ req' = [req EXCEPT ![r].pc = "rename"]
             \/ req' = [req EXCEPT ![r].pc = "free"]
             \/ req' = [req EXCEPT ![r].pc = "header"]
    BY <1>4, <2>2
  <2> QED
    BY <1>5, <2>1, <2>2 DEF Answer
<1>6. CASE UpdateHeader(r)
  BY <1>4, <1>6 DEF UpdateHeader
<1>7. CASE Rename(r)
  <2>1. CASE req' = [req EXCEPT ![r].pc = "update", ![r].renamed = TRUE]
    <3> DEFINE u == [v EXCEPT !.pc = "update", !.renamed = TRUE]
    <3>1. req' = [req EXCEPT ![r] = u]
      BY <1>0, <2>1
    <3> HIDE DEF v
    <3>2. IsRequest(u) /\ u.node = v.node /\ u.pc = "update"
      <4>1. u = [v EXCEPT !.pc = "update", !.renamed = TRUE]
        OBVIOUS
      <4> HIDE DEF u
      <4> QED
        BY <1>0, <4>1 DEF IsRequest
    <3> HIDE DEF u
    <3> QED
      BY <1>1, <3>1, <3>2 DEF Holding
  <2>2. CASE req' = [req EXCEPT ![r].pc = "update"]
    BY <1>4, <2>2
  <2> QED
    BY <1>7, <2>1, <2>2 DEF Rename
<1> QED
  BY <1>2, <1>3, <1>5, <1>6, <1>7

\* A worker is killed: its references stay.
LEMMA KillStep ==
  ASSUME CInv, NEW r \in Request, Kill(r)
  PROVE  CInv'
<1> DEFINE v == req[r]
           u == [v EXCEPT !.pc = "killed"]
<1>0. RequestOK(v) /\ Types /\ UNCHANGED <<del, loader, queue, node>>
  BY DEF CInv, Types, Kill, Others
<1>1. req' = [req EXCEPT ![r] = u]
  BY <1>0 DEF Kill, Types
<1>2. RequestOK(u) /\ u.node = v.node /\ u.pc = "killed"
  <2> HIDE DEF v
  <2>1. IsRequest(u) /\ u.node = v.node /\ u.pc = "killed"
    BY <1>0 DEF IsRequest, RequestOK
  <2> HIDE DEF u
  <2> QED
    BY <1>0, <2>1, RequestAt DEF RequestOK
<1>3. NodesOK'
  BY <1>0 DEF Types, NodesOK
<1> HIDE DEF u
<1> QED
  BY <1>0, <1>1, <1>2, <1>3, RequestMoves

LEMMA UnreadableStep ==
  ASSUME CInv, NEW r \in Request, Unreadable(r)
  PROVE  CInv'
<1> DEFINE v == req[r]
<1>0. /\ IsRequest(v) /\ v.pc \in Holding /\ req = [q \in Request |-> req[q]]
      /\ UNCHANGED <<del, loader, queue, node>>
  <2>1. v.pc \in {"open", "read"} /\ UNCHANGED <<del, loader, queue, node>>
    BY DEF Unreadable, Others
  <2> QED
    BY <2>1 DEF CInv, Types, RequestOK, Holding
<1>1. PICK to \in {"free", "fetch"} : req' = [req EXCEPT ![r].pc = to]
  BY DEF Unreadable
<1> DEFINE u == [v EXCEPT !.pc = to]
<1>2. req' = [req EXCEPT ![r] = u]
  BY <1>0, <1>1
<1> HIDE DEF v
<1>3. IsRequest(u) /\ u.node = v.node /\ u.pc \in Holding
  <2>1. u = [v EXCEPT !.pc = to]
    OBVIOUS
  <2>2. to \in Holding
    BY DEF Holding
  <2> HIDE DEF u
  <2> QED
    BY <1>0, <2>1, <2>2 DEF IsRequest
<1> HIDE DEF u
<1>4. u.node = req[r].node /\ req[r].pc \in Holding
  BY <1>0, <1>3 DEF v
<1> QED
  BY <1>0, <1>2, <1>3, <1>4, HolderMovesAlone

\* The steps that change the node of the request, and not its count.
LEMMA ReadStep ==
  ASSUME CInv, NEW r \in Request, Read(r)
  PROVE  CInv'
<1> DEFINE v == req[r]
           n == v.node
           y == node[n]
           to == IF v.expired THEN "stale" ELSE "free"
           u == [v EXCEPT !.pc = to]
           x == [y EXCEPT !.exists = TRUE, !.fs = 1]
<1>0. /\ RequestOK(v) /\ v.pc \in Holding /\ n \in Node /\ Types /\ NodeOK(y)
      /\ UNCHANGED <<del, loader, queue>>
  BY DEF CInv, Types, NodesOK, RequestOK, Read, Others, Holding
<1>1. req' = [req EXCEPT ![r] = u]
  BY <1>0 DEF Read, Types
<1>2. IsRequest(u) /\ u.node = v.node /\ u.pc = to
  <2>1. IsRequest(v)
    BY <1>0 DEF RequestOK
  <2> HIDE DEF v, to
  <2>2. u = [v EXCEPT !.pc = to]
    OBVIOUS
  <2> HIDE DEF u
  <2> QED
    BY <2>1, <2>2 DEF IsRequest
<1>3. to \in Holding
  BY DEF Holding
<1>4. CASE node' = node
  <2> HIDE DEF u, to
  <2> QED
    BY <1>0, <1>1, <1>2, <1>3, <1>4, HolderMovesAlone
<1>5. CASE node' = [node EXCEPT ![n].exists = TRUE, ![n].fs = 1]
  <2>1. node' = [node EXCEPT ![n] = x]
    BY <1>0, <1>5 DEF Types, NodesOK
  <2>2. NodeOK(x) /\ x.key = y.key /\ x.count = y.count
    <3> HIDE DEF y
    <3>1. x = [y EXCEPT !.exists = TRUE, !.fs = 1]
      OBVIOUS
    <3> HIDE DEF x
    <3> QED
      BY <1>0, <3>1 DEF NodeOK, IsNode
  <2> HIDE DEF u, to, x
  <2> QED
    BY <1>0, <1>1, <1>2, <1>3, <2>1, <2>2, HolderMoves
<1> QED
  BY <1>4, <1>5 DEF Read

\* ReadStale and Lock: the request goes on to the server as the one that updates, or
\* not, or waits.
LEMMA UpdaterStep ==
  ASSUME CInv, NEW r \in Request, ReadStale(r) \/ Lock(r)
  PROVE  CInv'
<1> DEFINE v == req[r]
           n == v.node
           y == node[n]
<1>0. /\ IsRequest(v) /\ v.pc \in Holding /\ n \in Node /\ Types /\ NodeOK(y)
      /\ UNCHANGED <<del, loader, queue>>
  <2>1. v.pc \in {"stale", "lock"}
    BY DEF ReadStale, Lock
  <2>2. UNCHANGED <<del, loader, queue>>
    BY DEF ReadStale, Lock, Others
  <2> QED
    BY <2>1, <2>2 DEF CInv, Types, NodesOK, RequestOK, Holding
<1>1. CASE req' = [req EXCEPT ![r].pc = "fetch", ![r].updating = TRUE]
  <2> DEFINE u == [v EXCEPT !.pc = "fetch", !.updating = TRUE]
  <2>1. req' = [req EXCEPT ![r] = u]
    BY <1>0, <1>1 DEF Types
  <2>2. IsRequest(u) /\ u.node = v.node /\ u.pc = "fetch"
    <3> HIDE DEF v
    <3>1. u = [v EXCEPT !.pc = "fetch", !.updating = TRUE]
      OBVIOUS
    <3> HIDE DEF u
    <3> QED
      BY <1>0, <3>1 DEF IsRequest
  <2> HIDE DEF u
  <2>3. u.pc \in Holding
    BY <2>2 DEF Holding
  <2>4. ASSUME NEW x, node' = [node EXCEPT ![n] = x],
               \/ x = [y EXCEPT !.updating = TRUE, !.lockers = @ \cup {r}]
               \/ x = [y EXCEPT !.updating = TRUE, !.young = TRUE, !.lockers = {r}]
        PROVE  CInv'
    <3>1. NodeOK(x) /\ x.key = y.key /\ x.count = y.count
      <4> HIDE DEF y
      <4> QED
        BY <1>0, <2>4 DEF NodeOK, IsNode
    <3> QED
      BY <1>0, <2>1, <2>2, <2>3, <2>4, <3>1, HolderMoves
  <2>5. CASE node' = [node EXCEPT ![n].updating = TRUE, ![n].lockers = @ \cup {r}]
    BY <1>0, <2>4, <2>5 DEF Types, NodesOK
  <2>6. CASE node' = [node EXCEPT ![n].updating = TRUE, ![n].young = TRUE, ![n].lockers = {r}]
    BY <1>0, <2>4, <2>6 DEF Types, NodesOK
  <2>7. CASE node' = node
    BY <1>0, <2>1, <2>2, <2>3, <2>7, HolderMovesAlone
  <2> QED
    BY <1>1, <2>5, <2>6, <2>7 DEF ReadStale, Lock
<1>2. ASSUME NEW to \in Holding, NEW c, NEW t, node' = node,
             \/ req' = [req EXCEPT ![r].pc = to]
             \/ req' = [req EXCEPT ![r].pc = to, ![r].cacheable = c, ![r].timer = t]
      PROVE  CInv'
  <2>1. PICK u : /\ req' = [req EXCEPT ![r] = u]
                 /\ \/ u = [v EXCEPT !.pc = to]
                    \/ u = [v EXCEPT !.pc = to, !.cacheable = c, !.timer = t]
    BY <1>0, <1>2 DEF Types
  <2>2. IsRequest(u) /\ u.node = v.node /\ u.pc = to
    <3> HIDE DEF v
    <3> QED
      BY <1>0, <2>1 DEF IsRequest
  <2> QED
    BY <1>0, <1>2, <2>1, <2>2, HolderMovesAlone
<1>3. CASE ReadStale(r) /\ y.updating
  <2>1. PICK to \in Holding : req' = [req EXCEPT ![r].pc = to]
    BY <1>3 DEF ReadStale, Holding
  <2> QED
    BY <1>2, <1>3, <2>1 DEF ReadStale
<1>4. CASE Lock(r) /\ y.updating /\ y.young
  <2>1. PICK to \in Holding : req' = [req EXCEPT ![r].pc = to, ![r].cacheable = v.patient,
                                                 ![r].timer = v.patient]
    BY <1>4 DEF Lock, Holding
  <2> QED
    BY <1>2, <1>4, <2>1 DEF Lock
<1>5. CASE ReadStale(r) /\ ~y.updating
  BY <1>1, <1>5 DEF ReadStale
<1>6. CASE Lock(r) /\ ~(y.updating /\ y.young)
  BY <1>1, <1>6 DEF Lock
<1> QED
  BY <1>3, <1>4, <1>5, <1>6

LEMMA DoneRequest ==
  LET u == [NewRequest EXCEPT !.pc = "done"]
  IN  RequestOK(u) /\ u.node = None /\ u.updating = FALSE
<1> DEFINE v == NewRequest
           u == [v EXCEPT !.pc = "done"]
<1>1. IsRequest(v) /\ v.node = None /\ v.updating = FALSE
  BY DEF NewRequest, IsRequest
<1> HIDE DEF v
<1>2. u = [v EXCEPT !.pc = "done"]
  OBVIOUS
<1> HIDE DEF u
<1>3. IsRequest(u) /\ u.pc = "done" /\ u.node = None /\ u.updating = FALSE
  BY <1>1, <1>2 DEF IsRequest
<1>4. RequestOK(u)
  BY <1>3, RequestAt DEF NotHolding
<1> QED
  BY <1>3, <1>4 DEF u, v

\* A request ends and gives its node up.
LEMMA EndStep ==
  ASSUME CInv, NEW r \in Request, req[r].pc \in Holding, UNCHANGED <<del, loader>>,
         queue' \in Seq(Node), req' = [req EXCEPT ![r] = [NewRequest EXCEPT !.pc = "done"]],
         NEW x, node' = [node EXCEPT ![req[r].node] = x], NodeOK(x),
         x.count = node[req[r].node].count - 1,
         x.key = node[req[r].node].key \/ x = FreeNode
  PROVE  CInv'
<1> DEFINE n == req[r].node
           u == [NewRequest EXCEPT !.pc = "done"]
<1>0. /\ Types /\ UnusedFree /\ DeletesOK /\ HoldersAreCounted
      /\ n \in Node /\ node[n].key # None /\ del[r].node = None
  <2>1. /\ Types /\ UnusedFree /\ DeletesOK /\ HoldersAreCounted /\ n \in Node
        /\ node[n].key # None
    BY HeldNode DEF CInv, Types, RequestOK
  <2> QED
    BY <2>1 DEF DeletesOK, Holding
<1>1. RequestOK(u) /\ u.node = None
  BY DoneRequest
<1>2. req' = [req EXCEPT ![r] = u]
  OBVIOUS
<1>3. x.key = None => x = FreeNode
  BY <1>0
<1> HIDE DEF u
<1>4. /\ req' = [q \in Request |-> req'[q]]
      /\ \A q \in Request : RequestOK(req'[q])
      /\ req'[r] = u
      /\ \A q \in Request \ {r} : req'[q] = req[q]
      /\ DeletesOK'
  BY <1>0, <1>1, <1>2, OneRequest
<1>5. /\ NodesOK' /\ node'[n] = x
      /\ \A m \in Node \ {n} : node'[m] = node[m]
      /\ UnusedFree'
  BY <1>0, <1>3, OneNode
<1>6. HoldersAreCounted'
  <2>1. node'[n].key = node[n].key \/ node'[n].count = 0
    BY <1>5, FreeNodeOK
  <2>2. node'[n].count = node[n].count - 1 /\ req[r].node = n /\ req'[r].node = None
    BY <1>1, <1>4, <1>5
  <2> HIDE DEF n
  <2> QED
    BY <1>0, <1>4, <1>5, <2>1, <2>2, GiveReference
<1>7. Types'
  BY <1>0, <1>4, <1>5 DEF Types
<1> QED
  BY <1>4, <1>5, <1>6, <1>7 DEF CInv

LEMMA UpdateStep ==
  ASSUME CInv, NEW r \in Request, Update(r)
  PROVE  CInv'
<1> DEFINE n == req[r].node
           y == node[n]
           fs == IF req[r].renamed THEN 1 ELSE 0
           e == y.exists \/ req[r].renamed
           c == y.count - 1
           x == [y EXCEPT !.count = c, !.error = FALSE, !.fs = fs, !.exists = e,
                          !.updating = FALSE]
<1>0. /\ Types /\ n \in Node /\ NodeOK(y) /\ req[r].pc \in Holding
      /\ UNCHANGED <<del, loader, queue>>
      /\ req' = [req EXCEPT ![r] = [NewRequest EXCEPT !.pc = "done"]]
  BY DEF CInv, Types, NodesOK, RequestOK, Update, Others, Holding
<1>1. node' = [node EXCEPT ![n] = x]
  BY <1>0 DEF Update, Types, NodesOK
<1>2. NodeOK(x) /\ x.key = y.key /\ x.count = c
  <2>1. c \in Int
    BY <1>0 DEF NodeOK
  <2> HIDE DEF y, fs, e, c
  <2>2. x = [y EXCEPT !.count = c, !.error = FALSE, !.fs = fs, !.exists = e,
                      !.updating = FALSE]
    OBVIOUS
  <2> HIDE DEF x
  <2> QED
    BY <1>0, <2>1, <2>2 DEF NodeOK, IsNode
<1> HIDE DEF x
<1>3. queue' \in Seq(Node)
  BY <1>0 DEF Types
<1> QED
  BY <1>0, <1>1, <1>2, <1>3, EndStep

LEMMA FreeStep ==
  ASSUME CInv, NEW r \in Request, Free(r)
  PROVE  CInv'
<1> DEFINE n == req[r].node
           y == node[n]
           c == y.count - 1
           up == y.updating /\ ~(req[r].updating /\ r \in y.lockers)
           e == y.error \/ req[r].error # "no"
           ev == y.errorValid \/ req[r].error = "new"
           x == [y EXCEPT !.count = c, !.updating = up, !.error = e, !.errorValid = ev]
<1>0. /\ Types /\ n \in Node /\ NodeOK(y) /\ req[r].pc \in Holding
      /\ UNCHANGED <<del, loader>>
      /\ req' = [req EXCEPT ![r] = [NewRequest EXCEPT !.pc = "done"]]
  BY DEF CInv, Types, NodesOK, RequestOK, Free, Others, Holding
<1>1. \/ node' = [node EXCEPT ![n] = FreeNode] /\ queue' = RemoveFirst(queue, n) /\ x.count = 0
      \/ node' = [node EXCEPT ![n] = x] /\ queue' = queue
  BY Zenon DEF Free
<1>2. NodeOK(x) /\ x.key = y.key /\ x.count = c
  <2>1. c \in Int
    BY <1>0 DEF NodeOK
  <2> HIDE DEF y, c, up, e, ev
  <2>2. x = [y EXCEPT !.count = c, !.updating = up, !.error = e, !.errorValid = ev]
    OBVIOUS
  <2> HIDE DEF x
  <2> QED
    BY <1>0, <2>1, <2>2 DEF NodeOK, IsNode
<1> HIDE DEF x
<1>3. queue' \in Seq(Node)
  BY <1>0, <1>1, QueueRemove DEF Types
<1>4. CASE node' = [node EXCEPT ![n] = FreeNode] /\ x.count = 0
  <2>1. FreeNode.count = node[n].count - 1
    BY <1>2, <1>4, FreeNodeOK
  <2> QED
    BY <1>0, <1>3, <1>4, <2>1, FreeNodeOK, EndStep
<1>5. CASE node' = [node EXCEPT ![n] = x]
  BY <1>0, <1>2, <1>3, <1>5, EndStep
<1> QED
  BY <1>1, <1>4, <1>5

\* The requests do not change, nor what is deleted: the other processes, and time.
LEMMA OthersStep ==
  ASSUME CInv, UNCHANGED <<req, del>>, NodesOK', UnusedFree', queue' \in Seq(Node),
         loader' \in LoaderType,
         \A n \in Node : \/ node'[n].count = node[n].count /\ node'[n].key = node[n].key
                         \/ node[n].count = 0 /\ node'[n].count = 0
  PROVE  CInv'
<1>0. Types /\ DeletesOK /\ HoldersAreCounted
  BY DEF CInv
<1>1. HoldersAreCounted'
  BY <1>0, KeepReferences
<1>2. Types'
  BY <1>0 DEF Types
<1>3. DeletesOK'
  BY <1>0 DEF DeletesOK
<1> QED
  BY <1>1, <1>2, <1>3 DEF CInv

LEMMA LoaderStep ==
  ASSUME CInv, (\E k \in Key : LoaderVisit(k)) \/ LoaderAdd \/ LoaderDelete \/ LoaderEnd
  PROVE  CInv'
<1>0. Types /\ UnusedFree /\ NodesOK /\ queue \in Seq(Node) /\ UNCHANGED <<req, del>>
  <2>1. UNCHANGED <<req, del>>
    BY DEF LoaderVisit, LoaderAdd, LoaderDelete, LoaderEnd, Others
  <2> QED
    BY <2>1 DEF CInv, Types
<1>1. loader' \in LoaderType
  <2>1. loader \in LoaderType
    BY <1>0 DEF Types
  <2>2. ASSUME NEW k \in Key, LoaderVisit(k) PROVE loader' \in LoaderType
    <3>1. PICK at \in Key \cup {None} : loader' = [loader EXCEPT !.todo = @ \ {k}, !.at = at]
      BY <2>2 DEF LoaderVisit
    <3>2. ~loader.failed
      BY <2>1, <2>2 DEF LoaderVisit, LoaderType
    <3> QED
      BY <2>1, <3>1, <3>2 DEF LoaderType
  <2>3. CASE LoaderEnd
    BY <2>1, <2>3 DEF LoaderEnd, Others
  <2>4. CASE LoaderAdd \/ LoaderDelete
    BY <2>1, <2>4 DEF LoaderAdd, LoaderDelete, LoaderType
  <2> QED
    BY <2>2, <2>3, <2>4
<1>2. CASE UNCHANGED node /\ queue' \in Seq(Node)
  <2>1. NodesOK' /\ UnusedFree'
    BY <1>0, <1>2 DEF NodesOK, UnusedFree
  <2> QED
    BY <1>0, <1>1, <1>2, <2>1, OthersStep
<1>3. CASE (\E k \in Key : LoaderVisit(k)) \/ LoaderDelete \/ LoaderEnd
  BY <1>0, <1>2, <1>3 DEF LoaderVisit, LoaderDelete, LoaderEnd
<1>4. CASE LoaderAdd
  <2> DEFINE k == loader.at
             n == CHOOSE m \in Unused : TRUE
             x == [FreeNode EXCEPT !.key = k, !.exists = TRUE, !.fs = 1]
  <2>1. k \in Key
    BY <1>0, <1>4 DEF LoaderAdd, Types, LoaderType
  <2>2. CASE UNCHANGED <<node, queue>>
    BY <1>0, <1>2, <2>2
  <2>3. CASE UNCHANGED node /\ \E m \in Lookup(k) : queue' = ToHead(m)
    <3>1. queue' \in Seq(Node)
      BY <1>0, <2>3, QueueToHead DEF Lookup
    <3> QED
      BY <1>2, <2>3, <3>1
  <2>4. CASE Unused # {} /\ node' = [node EXCEPT ![n] = x] /\ queue' = Cons(n, queue)
    <3>1. n \in Node /\ node[n].key = None
      BY <2>4 DEF Unused
    <3>2. node[n].count = 0
      BY <1>0, <3>1, FreeNodeOK DEF UnusedFree
    <3>3. x = [FreeNode EXCEPT !.key = k, !.exists = TRUE, !.fs = 1]
      OBVIOUS
    <3> HIDE DEF x, n, k
    <3>4. NodeOK(x) /\ x.key = k /\ x.count = 0 /\ x.key # None
      <4>1. NodeOK(x) /\ x.key = k /\ x.count = 0
        BY <2>1, <3>3, LoadedNodeOK
      <4> QED
        BY <2>1, <4>1, CacheAssumption
    <3>5. /\ NodesOK' /\ node'[n] = x
          /\ \A m \in Node \ {n} : node'[m] = node[m]
          /\ UnusedFree'
      BY <1>0, <2>4, <3>1, <3>4, OneNode
    <3>6. queue' \in Seq(Node)
      BY <1>0, <2>4, <3>1, QueueCons
    <3> QED
      BY <1>0, <1>1, <3>2, <3>4, <3>5, <3>6, OthersStep
  <2> QED
    BY <1>4, <2>2, <2>3, <2>4 DEF LoaderAdd
<1> QED
  BY <1>3, <1>4

\* Time passes.
LEMMA TimeStep ==
  ASSUME CInv, \/ \E n \in Node : LockAges(n) \/ ErrorEnds(n)
               \/ \E file \in File : FileExpires(file)
  PROVE  CInv'
<1>0. /\ Types /\ UnusedFree /\ NodesOK /\ queue' \in Seq(Node) /\ UNCHANGED <<req, del>>
      /\ loader' \in LoaderType
  <2>1. UNCHANGED <<req, del, loader, queue>>
    BY DEF LockAges, ErrorEnds, FileExpires, Others
  <2> QED
    BY <2>1 DEF CInv, Types
<1>1. CASE UNCHANGED node
  BY <1>0, <1>1, OthersStep DEF NodesOK, UnusedFree
<1>2. ASSUME NEW n \in Node, LockAges(n) \/ ErrorEnds(n)
      PROVE  CInv'
  <2> DEFINE y == node[n]
  <2>1. PICK x : /\ node' = [node EXCEPT ![n] = x]
                 /\ \/ x = [y EXCEPT !.young = FALSE]
                    \/ x = [y EXCEPT !.errorValid = FALSE]
    BY <1>0, <1>2 DEF LockAges, ErrorEnds, NodesOK
  <2>2. NodeOK(y) /\ y.key # None
    <3>1. y.young \/ y.errorValid
      BY <1>2 DEF LockAges, ErrorEnds
    <3> QED
      BY <1>0, <3>1 DEF NodesOK, UnusedFree, FreeNode
  <2>3. NodeOK(x) /\ x.key = y.key /\ x.count = y.count
    <3> HIDE DEF y
    <3> QED
      BY <2>1, <2>2 DEF NodeOK, IsNode
  <2>4. /\ NodesOK' /\ node'[n] = x
        /\ \A m \in Node \ {n} : node'[m] = node[m]
        /\ UnusedFree'
    BY <1>0, <2>1, <2>2, <2>3, OneNode
  <2> QED
    BY <1>0, <2>3, <2>4, OthersStep
<1> QED
  BY <1>1, <1>2 DEF FileExpires

\* The file is unlinked, and the deletion ends under the lock again.
LEMMA DeletesStep ==
  ASSUME CInv, NEW p \in Request \cup {Manager}, DeleteFile(p) \/ DeleteEnd(p)
  PROVE  CInv'
<1> DEFINE n == del[p].node
           D == [Request \cup {Manager} -> [node : Node \cup {None}, unlinked : BOOLEAN]]
<1>0. /\ Types /\ UnusedFree /\ DeletesOK /\ HoldersAreCounted /\ n \in Node /\ NodeOK(node[n])
      /\ UNCHANGED <<req, loader>> /\ del \in D
  <2>1. n # None /\ UNCHANGED <<req, loader>>
    BY DEF DeleteFile, DeleteEnd
  <2> QED
    BY <2>1 DEF CInv, Types, NodesOK
<1>1. ASSUME NodesOK', UnusedFree', HoldersAreCounted', queue' \in Seq(Node), del' \in D,
             \A q \in Request : del'[q].node # None => del[q].node # None
      PROVE  CInv'
  <2>1. Types' /\ DeletesOK'
    BY <1>0, <1>1 DEF Types, DeletesOK
  <2> QED
    BY <1>1, <2>1 DEF CInv
<1>2. CASE DeleteFile(p)
  <2>1. del' = [del EXCEPT ![p].unlinked = TRUE] /\ UNCHANGED <<node, queue>>
    BY <1>2 DEF DeleteFile
  <2>2. /\ del' \in D /\ DOMAIN del' = DOMAIN del
        /\ \A q \in Request \cup {Manager} : del'[q].node = del[q].node
    BY <1>0, <2>1
  <2>3. HoldersAreCounted'
    <3>1. ASSUME NEW m \in Node
          PROVE  Holders(m)' = Holders(m) /\ Deleters(m)' = Deleters(m)
      BY <1>0, <2>2 DEF Holders, Deleters
    <3> QED
      BY <1>0, <2>1, <3>1 DEF HoldersAreCounted
  <2>4. NodesOK' /\ UnusedFree' /\ queue' \in Seq(Node)
    BY <1>0, <2>1 DEF Types, NodesOK, UnusedFree
  <2> HIDE DEF D
  <2> QED
    BY <1>1, <2>2, <2>3, <2>4
<1>3. CASE DeleteEnd(p)
  <2> DEFINE d == [node |-> None, unlinked |-> FALSE]
             y == node[n]
             c == y.count - 1
             x == [y EXCEPT !.count = c, !.deleting = FALSE]
  <2>1. /\ del' = [del EXCEPT ![p] = d]
        /\ \/ node' = [node EXCEPT ![n] = FreeNode] /\ queue' = RemoveFirst(queue, n) /\ c = 0
           \/ node' = [node EXCEPT ![n] = x] /\ queue' = queue
    <3>1. /\ del' = [del EXCEPT ![p] = d]
          /\ IF y.count = 1
             THEN node' = [node EXCEPT ![n] = FreeNode] /\ queue' = RemoveFirst(queue, n)
             ELSE node' = [node EXCEPT ![n].count = @ - 1, ![n].deleting = FALSE] /\ queue' = queue
      BY <1>3, Zenon DEF DeleteEnd
    <3>2. CASE y.count = 1
      BY <3>1, <3>2
    <3>3. CASE y.count # 1
      <4>1. node' = [node EXCEPT ![n].count = @ - 1, ![n].deleting = FALSE] /\ queue' = queue
        BY <3>1, <3>3
      <4>2. node' = [node EXCEPT ![n] = x]
        BY <1>0, <4>1 DEF Types, NodesOK
      <4> HIDE DEF x, d
      <4> QED
        BY <3>1, <4>1, <4>2
    <3> QED
      BY <3>2, <3>3
  <2>2. NodeOK(x) /\ x.key = y.key /\ x.count = c
    <3>1. NodeOK(y) /\ c \in Int
      BY <1>0 DEF NodeOK
    <3> HIDE DEF y, c
    <3> QED
      BY <3>1, NodeChanges
  <2>3. d \in [node : Node \cup {None}, unlinked : BOOLEAN] /\ d.node = None
    OBVIOUS
  <2> HIDE DEF d, x
  <2>4. /\ del' \in D /\ DOMAIN del' = DOMAIN del /\ del'[p] = d
        /\ \A q \in (Request \cup {Manager}) \ {p} : del'[q] = del[q]
    BY <1>0, <2>1, <2>3
  <2>5. queue' \in Seq(Node)
    BY <1>0, <2>1, QueueRemove DEF Types
  <2>6. y.key # None
    <3>1. p \in Deleters(n)
      BY <1>0 DEF Deleters
    <3>2. y.count # 0
      BY <1>0, <3>1, NotCounted
    <3> QED
      BY <1>0, <3>2, FreeNodeOK DEF UnusedFree
  <2>7. PICK z : /\ node' = [node EXCEPT ![n] = z] /\ NodeOK(z) /\ z.count = c
                 /\ z.key = y.key \/ z = FreeNode
    BY <2>1, <2>2, FreeNodeOK
  <2>8. /\ NodesOK' /\ node'[n] = z
        /\ \A m \in Node \ {n} : node'[m] = node[m]
        /\ UnusedFree'
    BY <1>0, <2>6, <2>7, OneNode
  <2>9. HoldersAreCounted'
    <3>1. /\ node'[n].count = node[n].count - 1
          /\ node'[n].key = node[n].key \/ node'[n].count = 0
          /\ del[p].node = n /\ del'[p].node = None
          /\ \A q \in Request : req'[q].node = req[q].node
      BY <1>0, <2>3, <2>4, <2>7, <2>8, FreeNodeOK
    <3> HIDE DEF n
    <3> QED
      BY <1>0, <2>4, <2>8, <3>1, GiveDeletion
  <2>10. \A q \in Request : del'[q].node # None => del[q].node # None
    BY <2>3, <2>4
  <2> HIDE DEF D
  <2> QED
    BY <1>1, <2>4, <2>5, <2>8, <2>9, <2>10
<1> QED
  BY <1>2, <1>3

\* The cache manager.
LEMMA ManagerStep ==
  ASSUME CInv, ManagerStart \/ ManagerExpire \/ ManagerForced
  PROVE  CInv'
<1> DEFINE D == [Request \cup {Manager} -> [node : Node \cup {None}, unlinked : BOOLEAN]]
<1>0. /\ Types /\ UnusedFree /\ DeletesOK /\ HoldersAreCounted /\ NodesOK /\ queue \in Seq(Node)
      /\ del[Manager].node = None /\ UNCHANGED <<req, loader>> /\ Manager \notin Request
  <2>1. del[Manager].node = None /\ UNCHANGED <<req, loader>>
    BY DEF ManagerStart, ManagerExpire, ManagerForced
  <2> QED
    BY <2>1, CacheAssumption DEF CInv, Types
<1>1. CASE UNCHANGED <<node, del>> /\ queue' \in Seq(Node)
  <2>1. NodesOK' /\ UnusedFree'
    BY <1>0, <1>1 DEF NodesOK, UnusedFree
  <2>2. loader' \in LoaderType
    BY <1>0 DEF Types
  <2> QED
    BY <1>0, <1>1, <2>1, <2>2, OthersStep
<1>2. ASSUME NodesOK', UnusedFree', queue' \in Seq(Node), del' \in D,
             \A q \in Request \ {Manager} : del'[q] = del[q],
             (\A q \in Request : req'[q].node = req[q].node) => HoldersAreCounted'
      PROVE  CInv'
  <2>1. Types' /\ DeletesOK'
    BY <1>0, <1>2 DEF Types, DeletesOK
  <2>2. HoldersAreCounted'
    BY <1>0, <1>2
  <2> QED
    BY <1>2, <2>1, <2>2 DEF CInv
<1>3. CASE UNCHANGED <<node, del, queue>>
  BY <1>0, <1>1, <1>3
<1>4. CASE ForcedExpire(Manager)
  BY <1>0, <1>2, <1>4, ForcedExpireStep
<1>5. CASE queue # <<>> /\ node[Last(queue)].count = 0 /\ DeleteBegin(Manager, Last(queue), queue)
  BY <1>0, <1>2, <1>5, QueueLast, DeleteBeginStep
<1>6. CASE queue # <<>> /\ queue' = ToHead(Last(queue)) /\ UNCHANGED <<node, del>>
  BY <1>0, <1>1, <1>6, QueueLast, QueueToHead
<1> HIDE DEF D
<1>7. CASE ManagerStart
  BY <1>3, <1>7 DEF ManagerStart
<1>8. CASE ManagerExpire
  BY <1>3, <1>5, <1>6, <1>8 DEF ManagerExpire
<1>9. CASE ManagerForced
  BY <1>3, <1>4, <1>9 DEF ManagerForced
<1> QED
  BY <1>7, <1>8, <1>9

LEMMA CStep == CInv /\ [Next]_vars => CInv'
<1> SUFFICES ASSUME CInv, [Next]_vars PROVE CInv'
  OBVIOUS
<1>1. ASSUME NEW r \in Request, Arrive(r) \/ Step(r) \/ Kill(r)
      PROVE  CInv'
  BY <1>1, ExistsStep, RoomStep, DeletesStep, MoveStep, UnreadableStep, ReadStep,
     UpdaterStep, UpdateStep, FreeStep, KillStep DEF Arrive, Step, Deletes
<1>2. CASE Deletes(Manager)
  BY <1>2, DeletesStep DEF Deletes
<1>3. CASE UNCHANGED vars
  <2>1. UNCHANGED <<req, del, node>>
    BY <1>3 DEF vars
  <2>2. NodesOK' /\ UnusedFree' /\ queue' \in Seq(Node)
    BY <1>3 DEF vars, CInv, Types, NodesOK, UnusedFree
  <2>3. loader' \in LoaderType
    BY <1>3 DEF vars, CInv, Types
  <2> QED
    BY <2>1, <2>2, <2>3, OthersStep
<1> QED
  BY <1>1, <1>2, <1>3, ManagerStep, LoaderStep, TimeStep DEF Next

\* The count of every node, which is what keeps its memory, is that of the requests and
\* deletions that refer to it, whatever ngx_http_file_cache_exists(), _free(), _update(),
\* _delete(), the manager and the loader do in between, and whoever is killed.
THEOREM CountsAreRight == Spec => []HoldersAreCounted
<1>1. CInv => HoldersAreCounted
  BY DEF CInv
<1> QED
  BY <1>1, CInit, CStep, PTL DEF Spec

-----------------------------------------------------------------------------
\* The mark of a node that is being updated.

\* The requests that have a node keep it and what they do with it.
RequestsKept ==
    \A q \in Request : req[q].node # None =>
        req'[q].node = req[q].node /\ req'[q].updating = req[q].updating

\* A node that is marked was so, by the same requests.
MarksKept ==
    \A n \in Node : node'[n].updating => node[n].updating /\ node'[n].lockers = node[n].lockers

LEMMA KeepUpdaters ==
  ASSUME UpdatingHasUpdater, RequestsKept, MarksKept
  PROVE  UpdatingHasUpdater'
<1> SUFFICES ASSUME NEW n \in Node, node'[n].updating
             PROVE  \E r \in Holders(n)' : req'[r].updating /\ r \in node'[n].lockers
  BY DEF UpdatingHasUpdater
<1>1. node[n].updating /\ node'[n].lockers = node[n].lockers /\ n # None
  BY CacheAssumption DEF MarksKept
<1>2. PICK r \in Holders(n) : req[r].updating /\ r \in node[n].lockers
  BY <1>1 DEF UpdatingHasUpdater
<1>3. r \in Request /\ req[r].node = n
  BY DEF Holders
<1>4. req'[r].node = n /\ req'[r].updating
  BY <1>1, <1>2, <1>3 DEF RequestsKept
<1> QED
  BY <1>1, <1>2, <1>3, <1>4 DEF Holders

\* A request moves on, by changes of other fields.
LEMMA PlainMove ==
  ASSUME Types, NEW r \in Request, NEW a, NEW b, NEW c,
         \/ req' = [req EXCEPT ![r].pc = a]
         \/ req' = [req EXCEPT ![r].file = b, ![r].expired = c, ![r].pc = a]
         \/ req' = [req EXCEPT ![r].pc = a, ![r].timer = b, ![r].patient = c]
         \/ req' = [req EXCEPT ![r].pc = a, ![r].error = b]
         \/ req' = [req EXCEPT ![r].pc = a, ![r].renamed = b]
         \/ req' = [req EXCEPT ![r].pc = a, ![r].cacheable = b, ![r].timer = c]
  PROVE  RequestsKept
<1> DEFINE v == req[r]
<1>0. IsRequest(v) /\ req = [q \in Request |-> req[q]]
  BY DEF Types, RequestOK
<1>1. PICK u : /\ req' = [req EXCEPT ![r] = u]
               /\ \/ u = [v EXCEPT !.pc = a]
                  \/ u = [v EXCEPT !.file = b, !.expired = c, !.pc = a]
                  \/ u = [v EXCEPT !.pc = a, !.timer = b, !.patient = c]
                  \/ u = [v EXCEPT !.pc = a, !.error = b]
                  \/ u = [v EXCEPT !.pc = a, !.renamed = b]
                  \/ u = [v EXCEPT !.pc = a, !.cacheable = b, !.timer = c]
  BY <1>0
<1>2. u.node = v.node /\ u.updating = v.updating
  <2> HIDE DEF v
  <2> QED
    BY <1>0, <1>1 DEF IsRequest
<1> QED
  BY <1>0, <1>1, <1>2 DEF RequestsKept

LEMMA NodesAsTheyWere ==
  ASSUME UNCHANGED node
  PROVE  MarksKept
BY DEF MarksKept

\* One node changes.
LEMMA OneMark ==
  ASSUME Types, NEW n \in Node, NEW x, node' = [node EXCEPT ![n] = x],
         x.updating => node[n].updating /\ x.lockers = node[n].lockers
  PROVE  MarksKept
BY DEF Types, NodesOK, MarksKept

LEMMA UpdatersMove ==
  ASSUME CInv, UpdatingHasUpdater, NEW r \in Request,
         \/ Open(r) \/ LockWait(r) \/ Answer(r) \/ UpdateHeader(r) \/ Rename(r)
         \/ Kill(r) \/ Unreadable(r) \/ Read(r)
  PROVE  UpdatingHasUpdater'
<1>0. Types
  BY DEF CInv
<1>1. RequestsKept
  <2>1. CASE Open(r)
    BY <1>0, <2>1, PlainMove DEF Open
  <2>2. CASE LockWait(r)
    <3>1. PICK patient \in BOOLEAN :
            req' = [req EXCEPT ![r].pc = "again", ![r].timer = FALSE, ![r].patient = patient]
      BY <2>2 DEF LockWait
    <3> QED
      BY <1>0, <3>1, PlainMove
  <2>3. CASE Answer(r)
    <3>1. \/ \E a : req' = [req EXCEPT ![r].pc = a]
          \/ req' = [req EXCEPT ![r].pc = "free", ![r].error = "new"]
      BY <2>3, Zenon DEF Answer
    <3>2. CASE req' = [req EXCEPT ![r].pc = "free", ![r].error = "new"]
      BY <1>0, <3>2, PlainMove
    <3>3. CASE \E a : req' = [req EXCEPT ![r].pc = a]
      BY <1>0, <3>3, PlainMove
    <3> QED
      BY <3>1, <3>2, <3>3
  <2>4. CASE UpdateHeader(r)
    BY <1>0, <2>4, PlainMove DEF UpdateHeader
  <2>5. CASE Rename(r)
    <3>1. \/ req' = [req EXCEPT ![r].pc = "update", ![r].renamed = TRUE]
          \/ req' = [req EXCEPT ![r].pc = "update"]
      BY <2>5 DEF Rename
    <3> QED
      BY <1>0, <3>1, PlainMove
  <2>6. CASE Kill(r)
    BY <1>0, <2>6, PlainMove DEF Kill
  <2>7. CASE Read(r)
    BY <1>0, <2>7, PlainMove DEF Read
  <2>8. CASE Unreadable(r)
    BY <1>0, <2>8, PlainMove DEF Unreadable
  <2> QED
    BY <2>1, <2>2, <2>3, <2>4, <2>5, <2>6, <2>7, <2>8
<1>2. MarksKept
  <2>1. CASE UNCHANGED node
    BY <2>1, NodesAsTheyWere
  <2>2. CASE Read(r)
    <3> DEFINE n == req[r].node
               y == node[n]
               x == [y EXCEPT !.exists = TRUE, !.fs = 1]
    <3>1. n \in Node /\ IsNode(y)
      BY <1>0, <2>2 DEF Types, NodesOK, NodeOK, RequestOK, Holding, Read
    <3>2. CASE node' = [node EXCEPT ![n].exists = TRUE, ![n].fs = 1]
      <4>1. node' = [node EXCEPT ![n] = x]
        BY <1>0, <3>1, <3>2 DEF Types, NodesOK
      <4>2. x.updating = y.updating /\ x.lockers = y.lockers
        <5> HIDE DEF y
        <5> QED
          BY <3>1 DEF IsNode
      <4> HIDE DEF x
      <4> QED
        BY <1>0, <3>1, <4>1, <4>2, OneMark
    <3> QED
      BY <2>1, <2>2, <3>2 DEF Read
  <2> QED
    BY <2>1, <2>2 DEF Open, LockWait, Answer, UpdateHeader, Rename, Kill, Unreadable
<1> QED
  BY <1>1, <1>2, KeepUpdaters

\* A node is found or made: a request without one is not an updater yet.
LEMMA UpdatersFind ==
  ASSUME CInv, UpdatingHasUpdater, NEW r \in Request, NEW n \in Node,
         \/ Found(r, n) /\ (req[r].node = None \/ req[r].node = n)
         \/ Create(r, n) /\ req[r].node = None
  PROVE  UpdatingHasUpdater'
<1> DEFINE v == req[r]
           y == node[n]
<1>0. /\ Types /\ IsRequest(v) /\ IsNode(y) /\ KeyOf[r] \in Key
      /\ req = [q \in Request |-> req[q]] /\ node = [m \in Node |-> node[m]]
  BY CacheAssumption DEF CInv, Types, NodesOK, NodeOK, RequestOK
<1>1. CASE Found(r, n) /\ (v.node = None \/ v.node = n)
  <2> DEFINE renew == y.error /\ ~y.errorValid
             held == IF v.node = None THEN y.count + 1 ELSE y.count
             err == IF y.error /\ ~renew THEN "seen" ELSE "no"
             to == IF y.error /\ ~renew THEN "free"
                   ELSE IF IF renew THEN cold ELSE y.exists THEN "open" ELSE "lock"
  <2>1. /\ req' = [req EXCEPT ![r].node = n, ![r].error = err, ![r].pc = to]
        /\ node' = [node EXCEPT ![n] =
                      IF renew THEN [@ EXCEPT !.count = held, !.error = FALSE,
                                              !.exists = FALSE, !.fs = 0]
                               ELSE [@ EXCEPT !.count = held]]
    BY <1>1, Zenon DEF Found
  <2> HIDE DEF err, to, held
  <2>2. PICK u : req' = [req EXCEPT ![r] = u] /\ u = [v EXCEPT !.node = n, !.error = err, !.pc = to]
    BY <1>0, <2>1
  <2>3. PICK x : /\ node' = [node EXCEPT ![n] = x]
                 /\ \/ x = [y EXCEPT !.count = held, !.error = FALSE, !.exists = FALSE, !.fs = 0]
                    \/ x = [y EXCEPT !.count = held]
    BY <1>0, <2>1
  <2>4. u.node = n /\ u.updating = v.updating
    <3> HIDE DEF v
    <3> QED
      BY <1>0, <2>2 DEF IsRequest
  <2>5. x.updating = y.updating /\ x.lockers = y.lockers
    <3> HIDE DEF y
    <3> QED
      BY <1>0, <2>3 DEF IsNode
  <2>6. RequestsKept
    BY <1>0, <1>1, <2>2, <2>4 DEF RequestsKept
  <2>7. MarksKept
    BY <1>0, <2>3, <2>5, OneMark
  <2> QED
    BY <2>6, <2>7, KeepUpdaters
<1>2. CASE Create(r, n) /\ v.node = None
  <2>1. PICK x : node' = [node EXCEPT ![n] = x]
                 /\ x = [FreeNode EXCEPT !.key = KeyOf[r], !.count = 1]
    BY <1>2 DEF Create
  <2>2. x.updating = FALSE
    BY <1>0, <2>1, NewNodeOK
  <2>3. MarksKept
    BY <1>0, <2>1, <2>2, OneMark
  <2>4. PICK u : req' = [req EXCEPT ![r] = u]
    BY <1>0, <1>2 DEF Create
  <2>5. RequestsKept
    BY <1>0, <1>2, <2>4 DEF RequestsKept
  <2> QED
    BY <2>3, <2>5, KeepUpdaters
<1> QED
  BY <1>1, <1>2

\* ngx_http_file_cache_delete() of a node that is not in use does not mark it.
LEMMA DeleteMarks ==
  ASSUME CInv, NEW p, NEW n \in Node, NEW order, DeleteBegin(p, n, order)
  PROVE  MarksKept
<1> DEFINE y == node[n]
<1>0. Types /\ NodeOK(y) /\ node = [m \in Node |-> node[m]]
  BY DEF CInv, Types, NodesOK
<1>1. CASE node' = [node EXCEPT ![n] = FreeNode]
  BY <1>0, <1>1, FreeNodeOK, OneMark
<1>2. CASE node' = [node EXCEPT ![n].count = @ + 1, ![n].deleting = TRUE]
  <2> DEFINE c == y.count + 1
  <2>1. PICK x : node' = [node EXCEPT ![n] = x] /\ x = [y EXCEPT !.count = c, !.deleting = TRUE]
    BY <1>0, <1>2
  <2>2. c \in Int
    BY <1>0 DEF NodeOK
  <2>3. x.updating = y.updating /\ x.lockers = y.lockers
    <3> HIDE DEF c, y
    <3> QED
      BY <1>0, <2>1, <2>2, NodeChanges
  <2> QED
    BY <1>0, <2>1, <2>3, OneMark
<1> QED
  BY <1>1, <1>2 DEF DeleteBegin

LEMMA ForcedMarks ==
  ASSUME CInv, NEW p, ForcedExpire(p)
  PROVE  MarksKept
<1>0. queue \in Seq(Node)
  BY DEF CInv, Types
<1>1. CASE Victims = {}
  BY <1>1, NodesAsTheyWere DEF ForcedExpire
<1>2. CASE Victims # {}
  <2> DEFINE i == CHOOSE j \in Victims : \A k \in Victims : k <= j
  <2>1. Len(queue) \in Nat /\ Victims \subseteq 1 .. Len(queue)
    BY <1>0, LenProperties DEF Victims
  <2>2. \E j \in Victims : \A k \in Victims : k <= j
    BY <1>2, <2>1, GreatestExists
  <2>3. i \in Victims
    BY <2>2
  <2>4. \E order : DeleteBegin(p, queue[i], order)
    BY <1>2 DEF ForcedExpire
  <2> HIDE DEF i
  <2>5. queue[i] \in Node
    BY <1>0, <2>1, <2>3, ElementOfSeq
  <2> QED
    BY <2>4, <2>5, DeleteMarks
<1> QED
  BY <1>1, <1>2

LEMMA UpdatersArrive ==
  ASSUME CInv, UpdatingHasUpdater, NEW r \in Request, Exists(r) \/ MakeRoom(r) \/ Retry(r)
  PROVE  UpdatingHasUpdater'
<1>0. Types /\ RequestOK(req[r])
  BY DEF CInv, Types
<1>1. ASSUME NEW to, req' = [req EXCEPT ![r].pc = to], MarksKept
      PROVE  UpdatingHasUpdater'
  BY <1>0, <1>1, PlainMove, KeepUpdaters
<1>2. CASE Exists(r)
  <2>1. CASE req[r].node # None
    <3>1. req[r].node \in Node /\ Found(r, req[r].node)
      BY <1>0, <1>2, <2>1 DEF RequestOK, Exists
    <3> QED
      BY <3>1, UpdatersFind
  <2>2. CASE req[r].node = None /\ Lookup(KeyOf[r]) # {}
    BY <1>2, <2>2, UpdatersFind DEF Exists, Lookup
  <2>3. CASE req[r].node = None /\ Lookup(KeyOf[r]) = {} /\ Unused # {}
    BY <1>2, <2>3, UpdatersFind DEF Exists, Unused
  <2>4. CASE req[r].node = None /\ Lookup(KeyOf[r]) = {} /\ Unused = {}
    BY <1>1, <1>2, <2>4, NodesAsTheyWere DEF Exists
  <2> QED
    BY <2>1, <2>2, <2>3, <2>4
<1>3. CASE MakeRoom(r)
  BY <1>1, <1>3, ForcedMarks DEF MakeRoom
<1>4. CASE Retry(r)
  <2>1. req[r].node = None
    BY <1>0, <1>4 DEF Retry, RequestOK, NotHolding
  <2>2. CASE Unused # {} /\ Create(r, CHOOSE n \in Unused : TRUE)
    BY <2>1, <2>2, UpdatersFind DEF Unused
  <2>3. CASE req' = [req EXCEPT ![r].pc = "done"] /\ UNCHANGED node
    BY <1>1, <2>3, NodesAsTheyWere
  <2> QED
    BY <1>4, <2>2, <2>3 DEF Retry
<1> QED
  BY <1>2, <1>3, <1>4

\* ReadStale and Lock: who marks the node is its updater.
LEMMA UpdatersMark ==
  ASSUME CInv, UpdatingHasUpdater, NEW r \in Request, ReadStale(r) \/ Lock(r)
  PROVE  UpdatingHasUpdater'
<1> DEFINE v == req[r]
           n == v.node
           y == node[n]
<1>0. /\ Types /\ IsRequest(v) /\ n \in Node /\ n # None /\ IsNode(y)
      /\ req = [q \in Request |-> req[q]] /\ node = [m \in Node |-> node[m]]
  <2>1. v.pc \in {"stale", "lock"}
    BY DEF ReadStale, Lock
  <2> QED
    BY <2>1, CacheAssumption DEF CInv, Types, NodesOK, NodeOK, RequestOK, Holding
<1>1. CASE /\ UNCHANGED node
           /\ \E a, b : \/ req' = [req EXCEPT ![r].pc = a]
                        \/ req' = [req EXCEPT ![r].pc = a, ![r].cacheable = b, ![r].timer = b]
  <2>1. PICK a, b : \/ req' = [req EXCEPT ![r].pc = a]
                    \/ req' = [req EXCEPT ![r].pc = a, ![r].cacheable = b, ![r].timer = b]
    BY <1>1
  <2>2. CASE req' = [req EXCEPT ![r].pc = a]
    BY <1>0, <1>1, <2>2, PlainMove, NodesAsTheyWere, KeepUpdaters
  <2>3. CASE req' = [req EXCEPT ![r].pc = a, ![r].cacheable = b, ![r].timer = b]
    <3>1. RequestsKept
      BY <1>0, <2>3, PlainMove
    <3> QED
      BY <1>1, <3>1, NodesAsTheyWere, KeepUpdaters
  <2> QED
    BY <2>1, <2>2, <2>3
<1>2. CASE /\ req' = [req EXCEPT ![r].pc = "fetch", ![r].updating = TRUE]
           /\ \/ node' = [node EXCEPT ![n].updating = TRUE, ![n].lockers = @ \cup {r}]
              \/ node' = [node EXCEPT ![n].updating = TRUE, ![n].young = TRUE, ![n].lockers = {r}]
  <2>1. PICK u : req' = [req EXCEPT ![r] = u] /\ u = [v EXCEPT !.pc = "fetch", !.updating = TRUE]
    BY <1>0, <1>2
  <2>2. PICK x : /\ node' = [node EXCEPT ![n] = x]
                 /\ \/ x = [y EXCEPT !.updating = TRUE, !.lockers = @ \cup {r}]
                    \/ x = [y EXCEPT !.updating = TRUE, !.young = TRUE, !.lockers = {r}]
    BY <1>0, <1>2
  <2>3. u.node = n /\ u.updating = TRUE
    <3>1. u.node = v.node /\ u.updating = TRUE
      <4> HIDE DEF v
      <4> QED
        BY <1>0, <2>1 DEF IsRequest
    <3> QED
      BY <3>1
  <2>4. r \in x.lockers
    <3> HIDE DEF y
    <3> QED
      BY <1>0, <2>2 DEF IsNode
  <2>5. req'[r] = u /\ \A q \in Request \ {r} : req'[q] = req[q]
    BY <1>0, <2>1
  <2>6. node'[n] = x /\ \A m \in Node \ {n} : node'[m] = node[m]
    BY <1>0, <2>2
  <2>7. ASSUME NEW m \in Node, node'[m].updating
        PROVE  \E q \in Holders(m)' : req'[q].updating /\ q \in node'[m].lockers
    <3>1. CASE m = n
      BY <2>3, <2>4, <2>5, <2>6, <3>1 DEF Holders
    <3>2. CASE m # n
      <4>1. PICK q \in Holders(m) : req[q].updating /\ q \in node[m].lockers
        BY <2>6, <2>7, <3>2 DEF UpdatingHasUpdater
      <4>2. q \in Request \ {r} /\ req[q].node = m
        BY <3>2 DEF Holders
      <4> QED
        BY <2>5, <2>6, <3>2, <4>1, <4>2 DEF Holders
    <3> QED
      BY <3>1, <3>2
  <2> QED
    BY <2>7 DEF UpdatingHasUpdater
<1>3. CASE ReadStale(r)
  BY <1>1, <1>2, <1>3 DEF ReadStale
<1>4. CASE Lock(r)
  BY <1>1, <1>2, <1>4 DEF Lock
<1> QED
  BY <1>3, <1>4

\* Update and Free: a request that leaves takes its mark with it.
LEMMA UpdatersLeave ==
  ASSUME CInv, UpdatingHasUpdater, NEW r \in Request, Update(r) \/ Free(r)
  PROVE  UpdatingHasUpdater'
<1> DEFINE n == req[r].node
           y == node[n]
<1>0. /\ Types /\ n \in Node /\ n # None /\ IsNode(y)
      /\ req = [q \in Request |-> req[q]] /\ node = [m \in Node |-> node[m]]
  <2>1. req[r].pc \in {"update", "free"}
    BY DEF Update, Free
  <2> QED
    BY <2>1, CacheAssumption DEF CInv, Types, NodesOK, NodeOK, RequestOK, Holding
<1>1. PICK x : /\ node' = [node EXCEPT ![n] = x]
               /\ x.updating => /\ y.updating /\ x.lockers = y.lockers
                                /\ ~(req[r].updating /\ r \in y.lockers)
  <2>1. CASE node' = [node EXCEPT ![n] = FreeNode]
    BY <2>1, FreeNodeOK
  <2>2. CASE Update(r)
    <3> DEFINE fs == IF req[r].renamed THEN 1 ELSE 0
               e == y.exists \/ req[r].renamed
               c == y.count - 1
    <3>1. PICK x : /\ node' = [node EXCEPT ![n] = x]
                   /\ x = [y EXCEPT !.count = c, !.error = FALSE, !.fs = fs, !.exists = e,
                                    !.updating = FALSE]
      BY <1>0, <2>2 DEF Update
    <3>2. x.updating = FALSE
      <4> HIDE DEF y, fs, e, c
      <4> QED
        BY <1>0, <3>1 DEF IsNode
    <3> QED
      BY <3>1, <3>2
  <2>3. CASE Free(r)
    <3> DEFINE c == y.count - 1
               up == y.updating /\ ~(req[r].updating /\ r \in y.lockers)
               e == y.error \/ req[r].error # "no"
               ev == y.errorValid \/ req[r].error = "new"
               x == [y EXCEPT !.count = c, !.updating = up, !.error = e, !.errorValid = ev]
    <3>1. node' = [node EXCEPT ![n] = FreeNode] \/ node' = [node EXCEPT ![n] = x]
      BY <2>3, Zenon DEF Free
    <3>2. x.updating = up /\ x.lockers = y.lockers
      <4> HIDE DEF y, c, up, e, ev
      <4>1. x = [y EXCEPT !.count = c, !.updating = up, !.error = e, !.errorValid = ev]
        OBVIOUS
      <4> HIDE DEF x
      <4> QED
        BY <1>0, <4>1 DEF IsNode
    <3> HIDE DEF x
    <3> QED
      BY <2>1, <3>1, <3>2
  <2> QED
    BY <2>2, <2>3
<1>2. \A q \in Request \ {r} : req'[q] = req[q]
  BY <1>0 DEF Update, Free
<1>3. node'[n] = x /\ \A m \in Node \ {n} : node'[m] = node[m]
  BY <1>0, <1>1
<1>4. ASSUME NEW m \in Node, node'[m].updating
      PROVE  \E q \in Holders(m)' : req'[q].updating /\ q \in node'[m].lockers
  <2>1. node[m].updating /\ node'[m].lockers = node[m].lockers
    BY <1>1, <1>3, <1>4
  <2>2. PICK q \in Holders(m) : req[q].updating /\ q \in node[m].lockers
    BY <2>1 DEF UpdatingHasUpdater
  <2>3. q \in Request /\ req[q].node = m
    BY DEF Holders
  <2>4. q # r
    <3>1. CASE m = n
      BY <1>1, <1>3, <1>4, <2>2, <3>1
    <3>2. CASE m # n
      BY <2>3, <3>2
    <3> QED
      BY <3>1, <3>2
  <2> QED
    BY <1>2, <2>1, <2>2, <2>3, <2>4 DEF Holders
<1> QED
  BY <1>4 DEF UpdatingHasUpdater

\* The deletions, the manager, the loader and time mark nothing.
LEMMA UpdatersStay ==
  ASSUME CInv, UpdatingHasUpdater, UNCHANGED req, MarksKept
  PROVE  UpdatingHasUpdater'
<1>1. RequestsKept
  BY DEF RequestsKept
<1> QED
  BY <1>1, KeepUpdaters

LEMMA DeletesMarks ==
  ASSUME CInv, NEW p \in Request \cup {Manager}, DeleteFile(p) \/ DeleteEnd(p)
  PROVE  MarksKept /\ UNCHANGED req
<1> DEFINE n == del[p].node
           y == node[n]
<1>0. /\ Types /\ n \in Node /\ NodeOK(y) /\ UNCHANGED req
      /\ node = [m \in Node |-> node[m]]
  <2>1. n # None /\ UNCHANGED req
    BY DEF DeleteFile, DeleteEnd
  <2> QED
    BY <2>1 DEF CInv, Types, NodesOK
<1>1. CASE UNCHANGED node
  BY <1>0, <1>1, NodesAsTheyWere
<1>2. CASE node' = [node EXCEPT ![n] = FreeNode]
  BY <1>0, <1>2, FreeNodeOK, OneMark
<1>3. CASE node' = [node EXCEPT ![n].count = @ - 1, ![n].deleting = FALSE]
  <2> DEFINE c == y.count - 1
  <2>1. PICK x : node' = [node EXCEPT ![n] = x] /\ x = [y EXCEPT !.count = c, !.deleting = FALSE]
    BY <1>0, <1>3
  <2>2. c \in Int
    BY <1>0 DEF NodeOK
  <2>3. x.updating = y.updating /\ x.lockers = y.lockers
    <3> HIDE DEF c, y
    <3> QED
      BY <1>0, <2>1, <2>2, NodeChanges
  <2> QED
    BY <1>0, <2>1, <2>3, OneMark
<1> QED
  BY <1>1, <1>2, <1>3 DEF DeleteFile, DeleteEnd

LEMMA OtherMarks ==
  ASSUME CInv,
         \/ ManagerStart \/ ManagerExpire \/ ManagerForced
         \/ (\E k \in Key : LoaderVisit(k)) \/ LoaderAdd \/ LoaderDelete \/ LoaderEnd
         \/ \E n \in Node : LockAges(n) \/ ErrorEnds(n)
         \/ \E file \in File : FileExpires(file)
  PROVE  MarksKept /\ UNCHANGED req
<1>0. /\ Types /\ node = [m \in Node |-> node[m]] /\ queue \in Seq(Node)
      /\ \A n \in Node : IsNode(node[n])
  BY DEF CInv, Types, NodesOK, NodeOK
<1>1. UNCHANGED req
  BY DEF ManagerStart, ManagerExpire, ManagerForced, LoaderVisit, LoaderAdd, LoaderDelete,
         LoaderEnd, LockAges, ErrorEnds, FileExpires, Others
<1>2. CASE UNCHANGED node
  BY <1>1, <1>2, NodesAsTheyWere
<1>3. CASE ManagerExpire
  <2>1. CASE queue # <<>> /\ DeleteBegin(Manager, Last(queue), queue)
    BY <1>0, <1>1, <2>1, QueueLast, DeleteMarks
  <2> QED
    BY <1>2, <1>3, <2>1 DEF ManagerExpire
<1>4. CASE ManagerForced
  BY <1>1, <1>2, <1>4, ForcedMarks DEF ManagerForced
<1>5. CASE LoaderAdd
  <2> DEFINE k == loader.at
             n == CHOOSE m \in Unused : TRUE
             x == [FreeNode EXCEPT !.key = k, !.exists = TRUE, !.fs = 1]
  <2>1. CASE Unused # {} /\ node' = [node EXCEPT ![n] = x]
    <3>1. k \in Key /\ n \in Node
      BY <1>0, <1>5, <2>1 DEF LoaderAdd, Types, Unused, LoaderType
    <3>2. x = [FreeNode EXCEPT !.key = k, !.exists = TRUE, !.fs = 1]
      OBVIOUS
    <3> HIDE DEF x, n, k
    <3>3. x.updating = FALSE
      BY <3>1, <3>2, LoadedNodeOK
    <3> QED
      BY <1>0, <1>1, <2>1, <3>1, <3>3, OneMark
  <2> QED
    BY <1>2, <1>5, <2>1 DEF LoaderAdd
<1>6. ASSUME NEW n \in Node, LockAges(n) \/ ErrorEnds(n)
      PROVE  MarksKept
  <2> DEFINE y == node[n]
  <2>1. PICK x : /\ node' = [node EXCEPT ![n] = x]
                 /\ \/ x = [y EXCEPT !.young = FALSE]
                    \/ x = [y EXCEPT !.errorValid = FALSE]
    BY <1>0, <1>6 DEF LockAges, ErrorEnds
  <2>2. IsNode(y)
    BY <1>0
  <2>3. x.updating = y.updating /\ x.lockers = y.lockers
    <3> HIDE DEF y
    <3> QED
      BY <2>1, <2>2 DEF IsNode
  <2> QED
    BY <1>0, <2>1, <2>3, OneMark
<1> QED
  BY <1>1, <1>2, <1>3, <1>4, <1>5, <1>6 DEF ManagerStart, LoaderVisit, LoaderDelete,
     LoaderEnd, FileExpires

\* A node that ngx_http_file_cache_read() or _lock() marked as being updated has a request
\* that is to unmark it in _update() or _free(), for any number of requests: the entry is
\* not stuck unless the worker of that request is killed.
THEOREM UpdatersExist == Spec => []UpdatingHasUpdater
<1>1. Init => UpdatingHasUpdater
  BY FreeNodeOK DEF Init, UpdatingHasUpdater
<1>2. CInv /\ UpdatingHasUpdater /\ [Next]_vars => UpdatingHasUpdater'
  <2> SUFFICES ASSUME CInv, UpdatingHasUpdater, [Next]_vars
               PROVE  UpdatingHasUpdater'
    OBVIOUS
  <2>1. ASSUME NEW p \in Request \cup {Manager}, Deletes(p)
        PROVE  UpdatingHasUpdater'
    <3>1. MarksKept /\ UNCHANGED req
      BY <2>1, DeletesMarks DEF Deletes
    <3> QED
      BY <3>1, UpdatersStay
  <2>2. ASSUME NEW r \in Request, Arrive(r) \/ Step(r) \/ Kill(r)
        PROVE  UpdatingHasUpdater'
    BY <2>1, <2>2, UpdatersArrive, UpdatersMove, UpdatersMark, UpdatersLeave DEF Arrive, Step
  <2>3. CASE UNCHANGED vars
    BY <2>3, NodesAsTheyWere, UpdatersStay DEF vars
  <2>4. CASE \/ ManagerStart \/ ManagerExpire \/ ManagerForced
             \/ (\E k \in Key : LoaderVisit(k)) \/ LoaderAdd \/ LoaderDelete \/ LoaderEnd
             \/ \E n \in Node : LockAges(n) \/ ErrorEnds(n)
             \/ \E file \in File : FileExpires(file)
    <3>1. MarksKept /\ UNCHANGED req
      BY <2>4, OtherMarks
    <3> QED
      BY <3>1, UpdatersStay
  <2> QED
    BY <2>1, <2>2, <2>3, <2>4 DEF Next
<1> QED
  BY <1>1, <1>2, CInit, CStep, PTL DEF Spec
=============================================================================
