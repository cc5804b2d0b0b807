------------------------- MODULE SubrequestsProofs -------------------------
(***************************************************************************)
(* The references of a request, the end of its memory and the order of its *)
(* output, for every tree of subrequests and every script of what they     *)
(* send.                                                                   *)
(***************************************************************************)
EXTENDS Subrequests, FiniteSetTheorems, SequenceTheorems, WellFoundedInduction, TLAPS

Element == Part \cup Sub

\* The types of what is used below.
Types ==
    /\ handler \in [Request -> {"none", "start", "wait", "produce", "writer", "finalizer",
                                "terminate", "gone"}]
    /\ at \in [Request -> Nat \ {0}]
    /\ postponed \in [Request -> Seq(Element)]
    /\ active \in Request
    /\ posted \in Seq(Request)
    /\ count \in Int /\ blocked \in Int

\* The requests that are started and not finalized, and those that are blocked.
Live == {r \in Request : handler[r] \notin {"none", "gone"}}
Blocked == {r \in Request : handler[r] = "wait"}

\* The subrequests that a script has still to come to are not started.
NotStarted ==
    \A r \in Request : \A i \in DOMAIN Script[r] :
        i >= at[r] /\ Script[r][i] \in Sub => handler[Script[r][i]] = "none"

\* When the main request is to be terminated, that is what runs next, and nothing is
\* under way.
Terminating ==
    /\ \A r \in Request : handler[r] = "terminate" => r = Main
    /\ freed = "no" /\ handler[Main] = "terminate" =>
          /\ posted = <<Main>>
          /\ \A r \in Request : handler[r] \notin {"produce", "wait"}

RefInv ==
    /\ Types
    /\ NotStarted
    /\ Terminating
    /\ blocked = Cardinality(Blocked)
    /\ ReferencesAreCounted
    /\ NothingOutlives

-----------------------------------------------------------------------------
\* A set of natural numbers that is not empty has a least element: what a CHOOSE
\* of the least index relies on.
LEMMA LeastExists ==
  ASSUME NEW S \in SUBSET Nat, S # {}
  PROVE  \E j \in S : \A k \in S : j <= k
<1>1. \E j \in S : \A k \in S : ~(<<k, j>> \in OpToRel(<, Nat))
  BY WFMin, NatLessThanWellFounded, Zenon
<1>2. ASSUME NEW j \in Nat, NEW k \in Nat, ~(<<k, j>> \in OpToRel(<, Nat))
      PROVE  j <= k
  <2>1. ~(k < j)
    BY <1>2, Zenon DEF OpToRel
  <2> QED
    BY <2>1
<1> QED
  BY <1>1, <1>2

-----------------------------------------------------------------------------
LEMMA RequestsFinite == IsFiniteSet(Request)
BY ScriptAssumption, FS_AddElement DEF Request

\* Everybody but the main request is started by some request.
LEMMA ParentType == ASSUME NEW s \in Sub PROVE Parent(s) \in Request
<1>1. PICK r \in Request : \E i \in DOMAIN Script[r] : Script[r][i] = s
  BY ScriptAssumption
<1>2. s \in Range(Script[r])
  BY <1>1 DEF Range
<1> QED
  BY <1>2 DEF Parent

\* The postpone filter keeps the types, and leaves the rest alone.
LEMMA PostponeFilterTypes ==
  ASSUME Types, NEW r \in Request, NEW in \in Seq(Element), NEW posts \in Seq(Request),
         PostponeFilter(r, in, posts)
  PROVE  /\ postponed' \in [Request -> Seq(Element)]
         /\ active' \in Request
         /\ posted' \in Seq(Request)
<1> DEFINE list == postponed[r] \o in
           subs == {k \in DOMAIN list : list[k] \in Sub}
           i == CHOOSE j \in subs : \A k \in subs : j <= k
<1> USE DEF Types
<1>1. list \in Seq(Element)
  BY ConcatProperties
<1>2. DOMAIN list = 1 .. Len(list) /\ Len(list) \in Nat
  BY <1>1, LenProperties
<1>3. CASE r # active
  BY <1>1, <1>3 DEF PostponeFilter
<1>4. CASE r = active /\ subs = {}
  <2>1. /\ postponed' = [postponed EXCEPT ![r] = <<>>]
        /\ active' = active
        /\ posted' = posts
    BY <1>4, Zenon DEF PostponeFilter
  <2> QED
    BY <2>1
<1>5. CASE r = active /\ subs # {}
  <2>1. subs \in SUBSET Nat
    BY <1>2
  <2>2. i \in subs
    BY <1>5, <2>1, LeastExists
  <2>3. i \in 1 .. Len(list) /\ list[i] \in Sub
    BY <1>2, <2>2
  <2>4. SubSeq(list, i + 1, Len(list)) \in Seq(Element)
    <3> HIDE DEF list, subs, i
    <3>1. \A k \in (i + 1) .. Len(list) : list[k] \in Element
      BY <1>1, <1>2, <2>3, ElementOfSeq
    <3>2. i + 1 \in Int /\ Len(list) \in Int
      BY <1>2, <2>3
    <3> QED
      BY <3>1, <3>2, SubSeqProperties
  <2>5. Append(posts, list[i]) \in Seq(Request)
    BY <2>3, AppendProperties DEF Request
  <2>6. /\ postponed' = [postponed EXCEPT ![r] = SubSeq(list, i + 1, Len(list))]
        /\ active' = list[i]
        /\ posted' = Append(posts, list[i])
    BY <1>5, Zenon DEF PostponeFilter, PostRequest
  <2> QED
    BY <2>3, <2>4, <2>5, <2>6 DEF Request
<1> QED
  BY <1>3, <1>4, <1>5

-----------------------------------------------------------------------------
(* What an action may do to the handlers, the references and the end of the *)
(* memory, and that each kind of change keeps the rest of the invariant.    *)
Rest == NotStarted /\ Terminating /\ blocked = Cardinality(Blocked) /\ ReferencesAreCounted
            /\ NothingOutlives

\* Only the request itself frees and terminates; otherwise the action is not enabled.
InUse == freed = "no" /\ handler[Main] # "terminate"

LEMMA LiveFinite ==
  /\ IsFiniteSet(Live) /\ IsFiniteSet(Blocked)
  /\ Cardinality(Live) \in Nat /\ Cardinality(Blocked) \in Nat
<1>1. Live \in SUBSET Request /\ Blocked \in SUBSET Request
  BY DEF Live, Blocked
<1> QED
  BY <1>1, RequestsFinite, FS_Subset, FS_CardinalityType

LEMMA NotStartedKept ==
  ASSUME NotStarted, at' = at, \A s \in Sub : handler[s] = "none" => handler'[s] = "none"
  PROVE  NotStarted'
BY DEF NotStarted

\* Nothing changes.
LEMMA SameRest ==
  ASSUME Rest, InUse,
         UNCHANGED <<handler, at, count, blocked, freed>>
  PROVE  Rest'
BY DEF Rest, InUse, NotStarted, Terminating, Live, Blocked, ReferencesAreCounted,
       NothingOutlives

\* A request that runs goes on to another handler, not waiting before or after.
LEMMA HandlerRest ==
  ASSUME Types, Rest, InUse, NEW r \in Live, handler[r] # "wait",
         NEW h \in {"produce", "writer", "finalizer"},
         handler' = [handler EXCEPT ![r] = h],
         UNCHANGED <<at, count, blocked, freed>>
  PROVE  Rest'
<1> USE DEF Types
<1>0. r \in Request /\ handler[r] \notin {"none", "gone"}
  BY DEF Live
<1>1. Live' = Live /\ Blocked' = Blocked
  BY <1>0 DEF Live, Blocked
<1>2. NotStarted'
  <2>1. \A s \in Sub : handler[s] = "none" => handler'[s] = "none"
    BY <1>0 DEF Request
  <2> QED
    BY <2>1, NotStartedKept DEF Rest
<1>3. Terminating'
  BY <1>0 DEF Terminating, Rest, InUse, Request
<1>4. NothingOutlives'
  BY DEF InUse, NothingOutlives
<1>5. ReferencesAreCounted'
  BY <1>1 DEF ReferencesAreCounted, Rest, InUse, Live
<1> QED
  BY <1>1, <1>2, <1>3, <1>4, <1>5 DEF Rest

\* A request is finalized and gives back its reference; the last one frees.
LEMMA GoneRest ==
  ASSUME Types, Rest, InUse, NEW r \in Live, handler[r] # "wait",
         handler' = [handler EXCEPT ![r] = "gone"],
         count' = count - 1,
         (freed' = freed) \/ (count = 1),
         UNCHANGED <<at, blocked>>
  PROVE  Rest'
<1> USE DEF Types
<1>0. r \in Request /\ handler[r] \notin {"none", "gone"}
  BY DEF Live
<1>1. Live' = Live \ {r} /\ Blocked' = Blocked
  BY <1>0 DEF Live, Blocked
<1>2. count = Cardinality(Live)
  BY DEF Rest, ReferencesAreCounted, InUse, Live
<1>3. Cardinality(Live') = count' /\ IsFiniteSet(Live')
  BY <1>1, <1>2, LiveFinite, FS_RemoveElement
<1>4. NotStarted'
  <2>1. \A s \in Sub : handler[s] = "none" => handler'[s] = "none"
    BY <1>0 DEF Request
  <2> QED
    BY <2>1, NotStartedKept DEF Rest
<1>5. Terminating'
  BY <1>0 DEF Terminating, Rest, InUse, Request
<1>6. NothingOutlives'
  <2>1. CASE count = 1
    <3>1. Live' = {}
      BY <1>3, <2>1, FS_EmptySet
    <3> QED
      BY <3>1 DEF NothingOutlives, Live
  <2>2. CASE freed' = freed
    BY <2>2 DEF InUse, NothingOutlives
  <2> QED
    BY <2>1, <2>2
<1>7. ReferencesAreCounted'
  BY <1>3 DEF ReferencesAreCounted, Live
<1> QED
  BY <1>1, <1>4, <1>5, <1>6, <1>7 DEF Rest

\* A request waits in the cache, or no longer.
LEMMA WaitRest ==
  ASSUME Types, Rest, InUse, NEW r \in Live,
         \/ /\ handler[r] = "start"
            /\ handler' = [handler EXCEPT ![r] = "wait"] /\ blocked' = blocked + 1
         \/ /\ handler[r] = "wait"
            /\ handler' = [handler EXCEPT ![r] = "produce"] /\ blocked' = blocked - 1,
         UNCHANGED <<at, count, freed>>
  PROVE  Rest'
<1> USE DEF Types
<1>0. r \in Request /\ handler[r] \notin {"none", "gone"}
  BY DEF Live
<1>1. Live' = Live
  BY <1>0 DEF Live
<1>2. blocked' = Cardinality(Blocked')
  <2>1. CASE handler[r] = "start"
    <3>1. Blocked' = Blocked \cup {r} /\ r \notin Blocked
      BY <1>0, <2>1 DEF Blocked
    <3> QED
      BY <2>1, <3>1, LiveFinite, FS_AddElement DEF Rest
  <2>2. CASE handler[r] = "wait"
    <3>1. Blocked' = Blocked \ {r} /\ r \in Blocked
      BY <1>0, <2>2 DEF Blocked
    <3> QED
      BY <2>2, <3>1, LiveFinite, FS_RemoveElement DEF Rest
  <2> QED
    BY <2>1, <2>2
<1>3. NotStarted'
  <2>1. \A s \in Sub : handler[s] = "none" => handler'[s] = "none"
    BY <1>0 DEF Request
  <2> QED
    BY <2>1, NotStartedKept DEF Rest
<1>4. Terminating'
  BY <1>0 DEF Terminating, Rest, InUse, Request
<1>5. NothingOutlives'
  BY DEF InUse, NothingOutlives
<1>6. ReferencesAreCounted'
  BY <1>1 DEF ReferencesAreCounted, Rest, InUse, Live
<1> QED
  BY <1>2, <1>3, <1>4, <1>5, <1>6 DEF Rest

\* A subrequest is started: the script comes to each one once.
LEMMA StartRest ==
  ASSUME Types, Rest, InUse, NEW r \in Request, at[r] \in DOMAIN Script[r],
         Script[r][at[r]] \in Sub,
         handler' = [handler EXCEPT ![Script[r][at[r]]] = "start"],
         at' = [at EXCEPT ![r] = @ + 1],
         count' = count + 1,
         UNCHANGED <<blocked, freed>>
  PROVE  Rest'
<1> USE DEF Types
<1> DEFINE s == Script[r][at[r]]
<1>0. s \in Sub /\ s \in Request /\ s # Main
  BY ScriptAssumption DEF Request
<1>1. handler[s] = "none"
  <2>1. at[r] >= at[r]
    OBVIOUS
  <2> QED
    BY <2>1, <1>0 DEF Rest, NotStarted
<1>2. Live' = Live \cup {s} /\ s \notin Live /\ Blocked' = Blocked
  BY <1>0, <1>1 DEF Live, Blocked
<1>3. count' = Cardinality(Live')
  <2>1. count = Cardinality(Live)
    BY DEF Rest, ReferencesAreCounted, InUse, Live
  <2> QED
    BY <1>2, <2>1, LiveFinite, FS_AddElement
<1>4. NotStarted'
  <2> SUFFICES ASSUME NEW q \in Request, NEW i \in DOMAIN Script[q], i >= at'[q],
                      Script[q][i] \in Sub
               PROVE  handler'[Script[q][i]] = "none"
    BY DEF NotStarted
  <2>1. i \in Nat
    <3>1. Script[q] \in Seq(Element)
      BY ScriptAssumption DEF Element
    <3>2. DOMAIN Script[q] = 1 .. Len(Script[q]) /\ Len(Script[q]) \in Nat
      BY <3>1, LenProperties
    <3> QED
      BY <3>2
  <2>2. i >= at[q] /\ ~(q = r /\ i = at[r])
    BY <2>1
  <2>3. Script[q][i] # s
    <3>1. PICK p \in Request : \E k \in DOMAIN Script[p] :
            \A u \in Request : \A j \in DOMAIN Script[u] : Script[u][j] = s <=> u = p /\ j = k
      BY <1>0, ScriptAssumption
    <3>2. PICK k \in DOMAIN Script[p] :
            \A u \in Request : \A j \in DOMAIN Script[u] : Script[u][j] = s <=> u = p /\ j = k
      BY <3>1
    <3>3. r = p /\ at[r] = k
      BY <3>2
    <3> HIDE DEF s
    <3> QED
      BY <2>2, <3>2, <3>3
  <2>4. handler[Script[q][i]] = "none"
    BY <2>2 DEF Rest, NotStarted
  <2> QED
    BY <2>3, <2>4, <1>0 DEF Request
<1>5. Terminating'
  BY <1>0 DEF Terminating, Rest, InUse
<1>6. NothingOutlives'
  BY DEF InUse, NothingOutlives
<1>7. ReferencesAreCounted'
  BY <1>3 DEF ReferencesAreCounted, Live
<1> QED
  BY <1>2, <1>4, <1>5, <1>6, <1>7 DEF Rest

\* The request is given up: the references of all that is under way are given back,
\* and those that wait for the cache let it go on.
LEMMA TerminateRest ==
  ASSUME Types, Rest, InUse, NEW r \in Live, handler[r] \notin {"start", "wait"},
         NEW posts, Terminate(r, posts)
  PROVE  Rest' /\ handler' \in [Request -> {"none", "start", "wait", "produce", "writer",
                                            "finalizer", "terminate", "gone"}]
               /\ count' \in Int
<1> USE DEF Types
<1> DEFINE C == {q \in Request \ {r} : handler[q] = "produce"}
           left == [q \in Request |-> IF q \in C THEN "gone"
                                      ELSE IF q = r THEN "finalizer" ELSE handler[q]]
<1>0. r \in Request /\ handler[r] \notin {"none", "gone"}
  BY DEF Live
<1>1. /\ count' = count - Cardinality(C)
      /\ blocked > 0 => handler' = left
      /\ ~(blocked > 0) => handler' = [left EXCEPT ![Main] = "terminate"] /\ posted' = <<Main>>
      /\ UNCHANGED <<at, blocked, freed>>
  BY DEF Terminate
<1>2. left \in [Request -> {"none", "start", "wait", "produce", "writer", "finalizer", "gone",
                            "terminate"}]
  BY <1>0
<1>3. C \in SUBSET Live /\ IsFiniteSet(C) /\ Cardinality(C) \in Nat
  <2>1. C \in SUBSET Live
    BY DEF Live
  <2> QED
    BY <2>1, LiveFinite, FS_Subset, FS_CardinalityType
<1>4. \A s \in Sub : handler[s] = "none" => handler'[s] = "none"
  <2> SUFFICES ASSUME NEW s \in Sub, handler[s] = "none" PROVE handler'[s] = "none"
    OBVIOUS
  <2>1. s \in Request /\ s # Main /\ s # r /\ s \notin C
    BY <1>0, ScriptAssumption DEF Request
  <2>2. left[s] = "none"
    BY <2>1
  <2>3. handler'[s] = left[s]
    BY <1>1, <1>2, <2>1
  <2> QED
    BY <2>2, <2>3
<1>5. NotStarted'
  BY <1>1, <1>4, NotStartedKept DEF Rest
<1>6. NothingOutlives'
  BY <1>1 DEF InUse, NothingOutlives
<1>7. CASE blocked > 0
  <2>1. handler' = left
    BY <1>1, <1>7
  <2>2. Live' = Live \ C /\ Blocked' = Blocked
    BY <2>1, <1>0 DEF Live, Blocked
  <2>3. Cardinality(Live') = count'
    <3>1. count = Cardinality(Live)
      BY DEF Rest, ReferencesAreCounted, InUse, Live
    <3>2. Live \cap C = C
      BY <1>3
    <3>3. Cardinality(Live \ C) = Cardinality(Live) - Cardinality(Live \cap C)
      BY LiveFinite, FS_Difference, Zenon
    <3> QED
      BY <1>1, <2>2, <3>1, <3>2, <3>3
  <2>4. Terminating'
    BY <1>0, <1>1, <2>1 DEF Terminating, Rest, InUse, Request
  <2>5. ReferencesAreCounted'
    BY <2>3 DEF ReferencesAreCounted, Live
  <2> QED
    BY <1>1, <1>2, <1>3, <1>5, <1>6, <2>1, <2>2, <2>4, <2>5 DEF Rest
<1>8. CASE ~(blocked > 0)
  <2>1. handler' = [left EXCEPT ![Main] = "terminate"]
    BY <1>1, <1>8
  <2>2. Blocked = {}
    BY <1>8, LiveFinite, FS_EmptySet DEF Rest
  <2>3. Blocked' = {}
    BY <2>1, <2>2, <1>0 DEF Blocked, Request
  <2>4. Terminating'
    BY <1>0, <1>1, <1>8, <2>1, <2>2 DEF Terminating, Rest, InUse, Request, Blocked
  <2>5. ReferencesAreCounted'
    BY <2>1 DEF ReferencesAreCounted, Request
  <2>6. Rest'
    BY <1>1, <1>5, <1>6, <2>2, <2>3, <2>4, <2>5 DEF Rest
  <2>7. count' \in Int
    BY <1>1, <1>3
  <2> HIDE DEF C, left
  <2> QED
    BY <1>2, <2>1, <2>6, <2>7
<1> QED
  BY <1>7, <1>8

-----------------------------------------------------------------------------
\* A good end of r.
LEMMA FinalizeGoodStep ==
  ASSUME Types, Rest, InUse, NEW r \in Live, handler[r] \in {"produce", "finalizer"},
         NEW posts \in Seq(Request),
         FinalizeGood(r, posts), UNCHANGED <<at, blocked>>
  PROVE  Types' /\ Rest'
<1>0. r \in Request /\ handler[r] # "wait"
  BY DEF Live
<1>1. CASE r \in Background
  <2>1. /\ handler' = [handler EXCEPT ![r] = "gone"]
        /\ count' = count - 1 /\ ((freed' = freed) \/ (count = 1))
        /\ posted' = posts /\ UNCHANGED <<postponed, active>>
    BY <1>1 DEF FinalizeGood, CloseRequest
  <2>2. Rest'
    BY <1>0, <2>1, GoneRest
  <2> QED
    BY <1>0, <2>1, <2>2 DEF Types
<1>2. CASE r \notin Background /\ (postponed[r] # <<>> \/ (r = Main /\ buffered))
  <2>1. /\ handler' = [handler EXCEPT ![r] = "writer"]
        /\ posted' = posts /\ UNCHANGED <<postponed, active, count, freed>>
    BY <1>2 DEF FinalizeGood
  <2> QED
    BY <1>0, <2>1, HandlerRest DEF Types
<1>3. CASE r \notin Background /\ ~(postponed[r] # <<>> \/ (r = Main /\ buffered)) /\ r = Main
  <2>1. posted' = posts /\ UNCHANGED <<postponed, active>>
    BY <1>3 DEF FinalizeGood
  <2>2. CASE active = Main
    <3>1. /\ handler' = [handler EXCEPT ![r] = "gone"]
          /\ count' = count - 1 /\ ((freed' = freed) \/ (count = 1))
      BY <1>3, <2>2 DEF FinalizeGood, CloseRequest
    <3>2. Rest'
      BY <1>0, <3>1, GoneRest
    <3> QED
      BY <1>0, <2>1, <3>1, <3>2 DEF Types
  <2>3. CASE active # Main
    <3>1. UNCHANGED <<handler, count, freed>>
      BY <1>3, <2>3 DEF FinalizeGood
    <3> QED
      BY <1>0, <2>1, <3>1, SameRest DEF Types
  <2> QED
    BY <2>2, <2>3
<1>4. CASE r \notin Background /\ ~(postponed[r] # <<>> \/ (r = Main /\ buffered)) /\ r # Main
  <2> DEFINE p == Parent(r)
  <2>1. p \in Request
    BY <1>0, <1>4, ParentType DEF Request
  <2>2. posted' = Append(posts, p) /\ freed' = freed
    BY <1>4 DEF FinalizeGood, PostRequest
  <2>3. posted' \in Seq(Request)
    BY <2>1, <2>2, AppendProperties
  <2>4. CASE active = r
    <3>1. /\ handler' = [handler EXCEPT ![r] = "gone"] /\ count' = count - 1
          /\ postponed' = [postponed EXCEPT ![p] =
                             IF @ # <<>> /\ Head(@) = r THEN Tail(@) ELSE @]
          /\ active' = p
      BY <1>4, <2>4 DEF FinalizeGood
    <3>2. postponed' \in [Request -> Seq(Element)]
      <4>1. postponed \in [Request -> Seq(Element)]
        BY DEF Types
      <4>2. postponed[p] # <<>> => Tail(postponed[p]) \in Seq(Element)
        BY <2>1, <4>1, HeadTailProperties
      <4> HIDE DEF p
      <4> QED
        BY <2>1, <3>1, <4>1, <4>2
    <3>3. Rest'
      BY <1>0, <2>2, <3>1, GoneRest
    <3> QED
      BY <1>0, <2>1, <2>3, <3>1, <3>2, <3>3 DEF Types
  <2>5. CASE active # r
    <3>1. /\ handler' = [handler EXCEPT ![r] = "finalizer"]
          /\ UNCHANGED <<count, postponed, active>>
      BY <1>4, <2>5 DEF FinalizeGood
    <3> QED
      BY <1>0, <2>2, <2>3, <3>1, HandlerRest DEF Types
  <2> QED
    BY <2>4, <2>5
<1> QED
  BY <1>1, <1>2, <1>3, <1>4

LEMMA TerminateStep ==
  ASSUME Types, Rest, InUse, NEW r \in Live, handler[r] \notin {"start", "wait"},
         NEW posts \in Seq(Request), Terminate(r, posts)
  PROVE  Types' /\ Rest'
<1>1. posted' \in {posts, <<Main>>} /\ UNCHANGED <<at, postponed, active, blocked>>
  BY DEF Terminate
<1>2. posted' \in Seq(Request)
  <2>1. Main \in Request
    BY DEF Request
  <2>2. <<Main>> \in Seq(Request)
    BY <2>1
  <2> QED
    BY <1>1, <2>2
<1>3. /\ Rest' /\ count' \in Int
      /\ handler' \in [Request -> {"none", "start", "wait", "produce", "writer", "finalizer",
                                   "terminate", "gone"}]
  BY TerminateRest
<1> QED
  BY <1>1, <1>2, <1>3 DEF Types

LEMMA FinalizeStep ==
  ASSUME Types, Rest, InUse, NEW r \in Live, handler[r] \in {"produce", "finalizer"},
         NEW posts \in Seq(Request), Finalize(r, posts)
  PROVE  Types' /\ Rest'
<1>1. CASE error
  <2>1. Terminate(r, posts)
    BY <1>1 DEF Finalize
  <2> QED
    BY <2>1, TerminateStep
<1>2. CASE ~error
  <2>1. FinalizeGood(r, posts) /\ UNCHANGED <<at, blocked>>
    BY <1>2 DEF Finalize
  <2> QED
    BY <2>1, FinalizeGoodStep
<1> QED
  BY <1>1, <1>2

\* The next part of r, or its next subrequest.
LEMMA ProduceStep ==
  ASSUME Types, Rest, InUse, NEW r \in Live, Produce(r)
  PROVE  Types' /\ Rest'
<1> DEFINE x == Script[r][at[r]]
<1>0. r \in Request /\ handler[r] = "produce" /\ at[r] <= Len(Script[r]) /\ at[r] \in Nat \ {0}
  BY DEF Live, Produce, Types
<1>1. x \in Element /\ at[r] \in DOMAIN Script[r]
  <2>1. Script[r] \in Seq(Element)
    BY <1>0, ScriptAssumption DEF Element
  <2>2. DOMAIN Script[r] = 1 .. Len(Script[r]) /\ Len(Script[r]) \in Nat
    BY <2>1, LenProperties
  <2>3. at[r] \in 1 .. Len(Script[r])
    BY <1>0, <2>2
  <2> QED
    BY <2>1, <2>2, <2>3, ElementOfSeq
<1>2. at' = [at EXCEPT ![r] = @ + 1] /\ UNCHANGED <<blocked, freed>>
  BY DEF Produce
<1>3. at' \in [Request -> Nat \ {0}]
  BY <1>0, <1>2 DEF Types
<1>4. CASE x \in Sub
  <2>1. Subrequest(r, x)
    BY <1>4 DEF Produce
  <2>2. x \in Request
    BY <1>4 DEF Request
  <2>3. handler' = [handler EXCEPT ![x] = "start"] /\ count' = count + 1
    BY <2>1 DEF Subrequest
  <2>4. Rest'
    BY <1>0, <1>1, <1>2, <1>4, <2>3, StartRest
  <2>5. posted' \in Seq(Request)
    <3>1. posted' = Append(posted, x) /\ posted \in Seq(Request)
      BY <2>1 DEF Subrequest, PostRequest, Types
    <3> QED
      BY <2>2, <3>1, AppendProperties
  <2>6. active' \in Request
    BY <2>1, <2>2 DEF Subrequest, Types
  <2>7. postponed' \in [Request -> Seq(Element)]
    <3>1. postponed' \in {postponed, [postponed EXCEPT ![r] = Append(postponed[r], x)]}
      BY <2>1 DEF Subrequest
    <3>2. Append(postponed[r], x) \in Seq(Element)
      BY <1>0, <1>1, AppendProperties DEF Types
    <3> HIDE DEF x
    <3> QED
      BY <1>0, <3>1, <3>2 DEF Types
  <2>8. handler' \in [Request -> {"none", "start", "wait", "produce", "writer", "finalizer",
                                  "terminate", "gone"}]
    BY <2>3 DEF Types
  <2> QED
    <3>1. count' \in Int /\ blocked' \in Int
      BY <1>2, <2>3 DEF Types
    <3> HIDE DEF x
    <3> QED
      BY <1>3, <2>4, <2>5, <2>6, <2>7, <2>8, <3>1 DEF Types
<1>5. CASE x \notin Sub
  <2>1. PostponeFilter(r, <<x>>, posted) /\ UNCHANGED <<handler, count>>
    BY <1>5 DEF Produce
  <2>2. <<x>> \in Seq(Element) /\ posted \in Seq(Request)
    BY <1>1 DEF Types
  <2>3. /\ postponed' \in [Request -> Seq(Element)]
        /\ active' \in Request
        /\ posted' \in Seq(Request)
    BY <1>0, <2>1, <2>2, PostponeFilterTypes
  <2>4. Rest'
    <3>1. NotStarted'
      <4> SUFFICES ASSUME NEW q \in Request, NEW i \in DOMAIN Script[q], i >= at'[q],
                          Script[q][i] \in Sub
                   PROVE  handler[Script[q][i]] = "none"
        BY <2>1 DEF NotStarted
      <4>1. i \in Nat
        <5>1. Script[q] \in Seq(Element)
          BY ScriptAssumption DEF Element
        <5>2. DOMAIN Script[q] = 1 .. Len(Script[q]) /\ Len(Script[q]) \in Nat
          BY <5>1, LenProperties
        <5> QED
          BY <5>2
      <4>2. i >= at[q]
        BY <1>2, <4>1 DEF Types
      <4> QED
        BY <4>2 DEF Rest, NotStarted
    <3> QED
      BY <1>2, <2>1, <3>1 DEF Rest, InUse, Terminating, Live, Blocked, ReferencesAreCounted,
                              NothingOutlives
  <2> QED
    BY <1>2, <1>3, <2>1, <2>3, <2>4 DEF Types
<1> QED
  BY <1>4, <1>5

-----------------------------------------------------------------------------
LEMMA RefInit == Init => RefInv
<1> SUFFICES ASSUME Init PROVE RefInv
  OBVIOUS
<1> USE DEF Init
<1>0. Main \in Request /\ Main \notin Sub
  BY ScriptAssumption DEF Request
<1>1. Types
  <2>1. <<Main>> \in Seq(Request)
    BY <1>0
  <2> QED
    BY <1>0, <2>1 DEF Types
<1>2. Live = {Main} /\ Blocked = {}
  BY <1>0 DEF Live, Blocked
<1>3. Cardinality(Live) = 1 /\ Cardinality(Blocked) = 0
  BY <1>2, FS_Singleton, FS_EmptySet
<1>4. NotStarted
  BY <1>0 DEF NotStarted, Request
<1>5. Terminating /\ NothingOutlives
  BY <1>0 DEF Terminating, NothingOutlives
<1>6. ReferencesAreCounted
  BY <1>3 DEF ReferencesAreCounted, Live
<1> QED
  BY <1>1, <1>3, <1>4, <1>5, <1>6 DEF RefInv

\* The posted requests.
LEMMA RunPostedStep ==
  ASSUME Types, Rest, RunPosted
  PROVE  Types' /\ Rest'
<1> DEFINE r == Head(posted)
<1>0. posted # <<>> /\ freed = "no"
  BY DEF RunPosted, RunStart, RunProduce, RunWriter, RunFinalizer, RunTerminate, RunNothing
<1>1. r \in Request /\ Tail(posted) \in Seq(Request) /\ posted \in Seq(Request)
  BY <1>0, HeadTailProperties DEF Types
<1>2. ASSUME handler[r] # "terminate" PROVE InUse
  <2>1. handler[Main] = "terminate" => r = Main
    BY <1>0 DEF Rest, Terminating
  <2> QED
    BY <1>0, <1>2, <2>1 DEF InUse
<1>3. ASSUME handler[r] \notin {"none", "gone"} PROVE r \in Live
  BY <1>1, <1>3 DEF Live
<1> HIDE DEF r
<1>4. CASE RunStart
  <2>1. handler[r] = "start" /\ posted' = Tail(posted)
        /\ UNCHANGED <<at, postponed, active, count, freed>>
    BY <1>4 DEF RunStart, r
  <2>2. InUse /\ r \in Live
    BY <1>2, <1>3, <2>1
  <2>3. CASE handler' = [handler EXCEPT ![r] = "produce"] /\ UNCHANGED blocked
    <3>1. Rest'
      BY <2>1, <2>2, <2>3, HandlerRest
    <3> QED
      BY <1>1, <2>1, <2>3, <3>1 DEF Types
  <2>4. CASE handler' = [handler EXCEPT ![r] = "wait"] /\ blocked' = blocked + 1
    <3>1. Rest'
      BY <2>1, <2>2, <2>4, WaitRest
    <3> QED
      BY <1>1, <2>1, <2>4, <3>1 DEF Types
  <2> QED
    BY <1>4, <2>3, <2>4 DEF RunStart, r
<1>5. CASE RunProduce
  <2>1. handler[r] = "produce" /\ PostponeFilter(r, <<>>, Tail(posted))
        /\ UNCHANGED <<handler, at, count, blocked, freed>>
    BY <1>5 DEF RunProduce, r
  <2>2. Rest'
    BY <1>2, <2>1, SameRest
  <2>3. <<>> \in Seq(Element)
    OBVIOUS
  <2>4. /\ postponed' \in [Request -> Seq(Element)]
        /\ active' \in Request
        /\ posted' \in Seq(Request)
    BY <1>1, <2>1, <2>3, PostponeFilterTypes
  <2> QED
    BY <2>1, <2>2, <2>4 DEF Types
<1>6. CASE RunWriter
  <2>1. handler[r] = "writer" /\ PostponeFilter(r, <<>>, posted)
        /\ handler' = [handler EXCEPT ![r] = "finalizer"]
        /\ UNCHANGED <<at, count, blocked, freed>>
    BY <1>6 DEF RunWriter, r
  <2>2. Rest'
    BY <1>2, <1>3, <2>1, HandlerRest
  <2>3. <<>> \in Seq(Element)
    OBVIOUS
  <2>4. /\ postponed' \in [Request -> Seq(Element)]
        /\ active' \in Request
        /\ posted' \in Seq(Request)
    BY <1>1, <2>1, <2>3, PostponeFilterTypes
  <2> QED
    BY <1>1, <2>1, <2>2, <2>4 DEF Types
<1>7. CASE RunFinalizer
  <2>1. handler[r] = "finalizer" /\ Finalize(r, Tail(posted))
    BY <1>7 DEF RunFinalizer, r
  <2> QED
    BY <1>1, <1>2, <1>3, <2>1, FinalizeStep
<1>8. CASE RunTerminate
  <2>1. /\ handler[r] = "terminate" /\ count' = 0 /\ freed' = "cut" /\ posted' = <<>>
        /\ UNCHANGED <<handler, at, postponed, active, blocked>>
    BY <1>8 DEF RunTerminate, r
  <2>2. r = Main
    BY <1>1, <2>1 DEF Rest, Terminating
  <2>3. \A q \in Request : handler[q] \notin {"produce", "wait"}
    BY <1>0, <2>1, <2>2 DEF Rest, Terminating
  <2>4. Rest'
    BY <2>1, <2>3 DEF Rest, NotStarted, Terminating, Blocked, ReferencesAreCounted,
                      NothingOutlives
  <2> QED
    BY <2>1, <2>4 DEF Types
<1>9. CASE RunNothing
  <2>1. handler[r] \in {"wait", "gone"} /\ posted' = Tail(posted)
        /\ UNCHANGED <<handler, at, postponed, active, count, blocked, freed>>
    BY <1>9 DEF RunNothing, r
  <2>2. Rest'
    BY <1>2, <2>1, SameRest
  <2> QED
    BY <1>1, <2>1, <2>2 DEF Types
<1> QED
  BY <1>4, <1>5, <1>6, <1>7, <1>8, <1>9 DEF RunPosted

LEMMA RefStep == RefInv /\ [Next]_vars => RefInv'
<1>0. RefInv <=> Types /\ Rest
  BY DEF RefInv, Rest
<1>1. RefInv' <=> Types' /\ Rest'
  BY DEF RefInv, Rest
<1> SUFFICES ASSUME Types, Rest, [Next]_vars PROVE Types' /\ Rest'
  BY <1>0, <1>1
<1>2. CASE RunPosted
  BY <1>2, RunPostedStep
<1>3. ASSUME Waiting PROVE InUse /\ posted = <<>> /\ posted \in Seq(Request)
  BY <1>3 DEF Waiting, InUse, Rest, Terminating, Types
<1>4. CASE ClientReads
  <2>1. InUse /\ posted' = <<active>>
        /\ UNCHANGED <<handler, at, postponed, active, count, blocked, freed>>
    BY <1>3, <1>4 DEF ClientReads
  <2>2. Rest'
    BY <2>1, SameRest
  <2>3. posted' \in Seq(Request)
    BY <2>1 DEF Types
  <2> QED
    BY <2>1, <2>2, <2>3 DEF Types
<1>5. CASE ClientLeaves
  <2>1. InUse /\ handler[active] = "writer" /\ Terminate(active, posted) /\ posted \in Seq(Request)
    BY <1>3, <1>5 DEF ClientLeaves
  <2>2. active \in Live
    BY <2>1 DEF Live, Types
  <2> QED
    BY <2>1, <2>2, TerminateStep
<1>6. ASSUME NEW r \in Request, Produce(r) PROVE Types' /\ Rest'
  <2>1. InUse /\ r \in Live
    BY <1>3, <1>6 DEF Produce, Live
  <2> QED
    BY <1>6, <2>1, ProduceStep
<1>7. ASSUME NEW r \in Request, End(r) PROVE Types' /\ Rest'
  <2>1. InUse /\ r \in Live /\ handler[r] = "produce" /\ Finalize(r, posted)
        /\ posted \in Seq(Request)
    BY <1>3, <1>7 DEF End, Live
  <2> QED
    BY <2>1, FinalizeStep
<1>8. ASSUME NEW r \in Request, Fail(r) PROVE Types' /\ Rest'
  <2>1. InUse /\ r \in Live /\ handler[r] = "produce" /\ Terminate(r, posted)
        /\ posted \in Seq(Request)
    BY <1>3, <1>8 DEF Fail, Live
  <2> QED
    BY <2>1, TerminateStep
<1>9. ASSUME NEW r \in Request, Unblock(r) PROVE Types' /\ Rest'
  <2>1. InUse /\ r \in Live /\ handler[r] = "wait" /\ blocked' = blocked - 1
        /\ handler' = [handler EXCEPT ![r] = "produce"]
        /\ UNCHANGED <<at, postponed, active, posted, count, freed>>
    BY <1>3, <1>9 DEF Unblock, Live
  <2>2. Rest'
    BY <2>1, WaitRest
  <2> QED
    BY <2>1, <2>2 DEF Types
<1>10. CASE UNCHANGED vars
  BY <1>10 DEF vars, Types, Rest, NotStarted, Terminating, Blocked, ReferencesAreCounted,
               NothingOutlives
<1> QED
  BY <1>2, <1>4, <1>5, <1>6, <1>7, <1>8, <1>9, <1>10 DEF Next

-----------------------------------------------------------------------------
\* For every tree of subrequests: the references of the main request are the
\* requests that are started and not finalized (ngx_http_finalize_request() and
\* ngx_http_terminate_request() give none back twice and leave none over).
THEOREM Counted == Spec => []ReferencesAreCounted
<1>1. RefInv => ReferencesAreCounted
  BY DEF RefInv
<1> QED
  BY <1>1, RefInit, RefStep, PTL DEF Spec

\* For every tree of subrequests: when the memory of the main request is freed, by
\* its last reference or by ngx_http_terminate_handler(), no request in it is under
\* way or waits in the cache.
THEOREM FreedLast == Spec => []NothingOutlives
<1>1. RefInv => NothingOutlives
  BY DEF RefInv
<1> QED
  BY <1>1, RefInit, RefStep, PTL DEF Spec

-----------------------------------------------------------------------------
\* What FlattenSeq of the community modules computes, without its recursion: a sequence
\* of sequences is joined step by step, and the steps of a concatenation go on where the
\* first part ended.

\* The laws of concatenation, named so that they can be instantiated one at a time.
Assoc(a, b, c) == (a \o b) \o c = a \o (b \o c)
EmptyLeft(a) == <<>> \o a = a
EmptyRight(a) == a \o <<>> = a

\* The laws of concatenation, as facts to instantiate.
LEMMA ConcatAssoc == \A S : \A a, b, c \in Seq(S) : Assoc(a, b, c)
BY ConcatAssociative DEF Assoc

LEMMA ConcatEmpty == \A S : \A a \in Seq(S) : EmptyLeft(a) /\ EmptyRight(a)
BY ConcatEmptySeq DEF EmptyLeft, EmptyRight

LEMMA ConcatType == \A S : \A a, b \in Seq(S) : a \o b \in Seq(S)
BY ConcatProperties

\* f[i] is the first i of the sequences, put together.
Runs(f, seqs) == f[0] = <<>> /\ \A i \in 1 .. Len(seqs) : f[i] = f[i - 1] \o seqs[i]

\* Every sequence of sequences can be joined step by step,
LEMMA RunsExist ==
  ASSUME NEW S, NEW seqs \in Seq(Seq(S))
  PROVE  \E f \in [0 .. Len(seqs) -> Seq(S)] : Runs(f, seqs)
<1> DEFINE L == Len(seqs)
           Upto(f, n) == f[0] = <<>> /\ \A i \in 1 .. n : f[i] = f[i - 1] \o seqs[i]
           N == {n \in 0 .. L : ~\E f \in [0 .. L -> Seq(S)] : Upto(f, n)}
<1>0. L \in Nat /\ \A i \in 1 .. L : seqs[i] \in Seq(S)
  BY LenProperties, ElementOfSeq
<1> HIDE DEF L, Upto
<1>1. N = {}
  <2> SUFFICES ASSUME N # {} PROVE FALSE
    OBVIOUS
  <2>1. PICK n \in N : \A k \in N : n <= k
    <3>1. N \in SUBSET Nat
      BY <1>0
    <3> HIDE DEF N
    <3> QED
      BY <3>1, LeastExists
  <2>2. n \in 0 .. L /\ n \in Nat /\ ~\E f \in [0 .. L -> Seq(S)] : Upto(f, n)
    BY <1>0
  <2>3. CASE n = 0
    <3> DEFINE f == [i \in 0 .. L |-> <<>>]
    <3>1. f \in [0 .. L -> Seq(S)]
      BY EmptySeq
    <3>2. Upto(f, n)
      BY <1>0, <2>3 DEF Upto
    <3> QED
      BY <2>2, <3>1, <3>2
  <2>4. CASE n # 0
    <3>1. n - 1 \in 0 .. L /\ n - 1 \notin N
      <4> HIDE DEF N
      <4> QED
        BY <1>0, <2>1, <2>2, <2>4
    <3>2. PICK g \in [0 .. L -> Seq(S)] : Upto(g, n - 1)
      BY <3>1
    <3> DEFINE f == [g EXCEPT ![n] = g[n - 1] \o seqs[n]]
    <3>3. g[n - 1] \o seqs[n] \in Seq(S)
      <4>1. n \in 1 .. L
        BY <1>0, <2>2, <2>4
      <4>2. g[n - 1] \in Seq(S) /\ seqs[n] \in Seq(S)
        BY <1>0, <3>1, <4>1
      <4> QED
        BY <4>2, ConcatType, Zenon
    <3>4. f \in [0 .. L -> Seq(S)]
      BY <3>3
    <3>5. Upto(f, n)
      <4>1. f[0] = <<>>
        BY <1>0, <2>2, <2>4, <3>2 DEF Upto
      <4>2. ASSUME NEW i \in 1 .. n PROVE f[i] = f[i - 1] \o seqs[i]
        <5>1. CASE i = n
          <6>1. f[i] = g[n - 1] \o seqs[n]
            BY <2>2, <5>1
          <6>2. f[i - 1] = g[n - 1]
            BY <2>2, <3>1, <5>1
          <6> QED
            BY <5>1, <6>1, <6>2
        <5>2. CASE i # n
          <6>1. i \in 1 .. (n - 1) /\ i \in 0 .. L /\ i - 1 \in 0 .. L /\ i - 1 # n
            BY <1>0, <2>2, <5>2
          <6>2. g[i] = g[i - 1] \o seqs[i]
            BY <3>2, <6>1 DEF Upto
          <6>3. f[i] = g[i] /\ f[i - 1] = g[i - 1]
            BY <5>2, <6>1
          <6> QED
            BY <6>2, <6>3
        <5> QED
          BY <5>1, <5>2
      <4> HIDE DEF f
      <4> QED
        BY <4>1, <4>2 DEF Upto
    <3> QED
      BY <2>2, <3>4, <3>5
  <2> QED
    BY <2>3, <2>4
<1>2. L \in 0 .. L
  BY <1>0
<1>3. \E f \in [0 .. L -> Seq(S)] : Upto(f, L)
  BY <1>1, <1>2
<1> QED
  BY <1>3 DEF Runs, L, Upto

\* Two functions that run through the same sequences agree.
Follows(f, g, m) ==
    f[0] = g[0] /\ \A i \in 1 .. m : f[i - 1] = g[i - 1] => f[i] = g[i]

\* in one way only,
LEMMA RunsAgree ==
  ASSUME NEW m \in Nat, NEW f, NEW g, Follows(f, g, m)
  PROVE  \A i \in 0 .. m : f[i] = g[i]
<1> USE DEF Follows
<1> DEFINE N == {i \in 0 .. m : f[i] # g[i]}
<1> SUFFICES ASSUME N # {} PROVE FALSE
  OBVIOUS
<1>1. PICK n \in N : \A k \in N : n <= k
  <2>1. N \in SUBSET Nat
    OBVIOUS
  <2> HIDE DEF N
  <2> QED
    BY <2>1, LeastExists
<1>2. n \in 0 .. m /\ f[n] # g[n]
  OBVIOUS
<1>3. n \in 1 .. m /\ n - 1 \in 0 .. m /\ n \in Nat
  BY <1>2
<1>4. f[n - 1] = g[n - 1]
  <2>1. n - 1 \notin N
    <3> HIDE DEF N
    <3> QED
      BY <1>1, <1>3
  <2> QED
    BY <1>3, <2>1
<1> QED
  BY <1>2, <1>3, <1>4

\* and FlattenSeq gives what the last step has.
LEMMA FlattenRuns ==
  ASSUME NEW S, NEW seqs \in Seq(Seq(S)), NEW f \in [0 .. Len(seqs) -> Seq(S)], Runs(f, seqs)
  PROVE  FlattenSeq(seqs) = f[Len(seqs)]
<1> DEFINE L == Len(seqs)
           body(h) == [i \in 1 .. L |-> IF i = 1 THEN seqs[i] ELSE h[i - 1] \o seqs[i]]
           flatten == CHOOSE h : h = body(h)
           g == [i \in 1 .. L |-> f[i]]
<1>0. L \in Nat /\ \A i \in 1 .. L : seqs[i] \in Seq(S)
  BY LenProperties, ElementOfSeq
<1>1. CASE L = 0
  <2>1. seqs = <<>>
    BY <1>1, EmptySeq
  <2> QED
    BY <1>1, <2>1 DEF FlattenSeq, Runs
<1>2. CASE L # 0
  <2>1. FlattenSeq(seqs) = flatten[L]
    BY <1>2, Zenon DEF FlattenSeq
  <2>2. \A i \in 1 .. L : f[i] = f[i - 1] \o seqs[i]
    BY DEF Runs
  <2>3. 1 \in 1 .. L => f[1] = seqs[1]
    <3> SUFFICES ASSUME 1 \in 1 .. L PROVE f[1] = seqs[1]
      OBVIOUS
    <3>1. f[1] = f[1 - 1] \o seqs[1]
      BY <2>2, Zenon
    <3>0. 1 - 1 = 0
      OBVIOUS
    <3>2. f[1] = <<>> \o seqs[1]
      BY <3>0, <3>1 DEF Runs
    <3>3. seqs[1] \in Seq(S)
      BY <1>0
    <3> HIDE DEF L
    <3> QED
      BY <3>2, <3>3, ConcatEmptySeq
  <2> HIDE DEF L
  <2>4. ASSUME NEW i \in 1 .. L
        PROVE  g[i] = IF i = 1 THEN seqs[i] ELSE g[i - 1] \o seqs[i]
    <3>1. CASE i = 1
      BY <2>3, <3>1
    <3>2. CASE i # 1
      <4>1. i - 1 \in 1 .. L
        BY <1>0, <3>2
      <4>2. g[i - 1] = f[i - 1] /\ g[i] = f[i]
        BY <4>1
      <4> QED
        BY <2>2, <3>2, <4>2
    <3> QED
      BY <3>1, <3>2
  <2>5. g = body(g)
    BY <2>4
  <2>6. flatten = body(flatten)
    <3> HIDE DEF g
    <3> QED
      BY <2>5, Zenon
  <2> HIDE DEF flatten, g
  <2>7. \A i \in 1 .. L : flatten[i] = IF i = 1 THEN seqs[i] ELSE flatten[i - 1] \o seqs[i]
    BY <2>6
  <2> DEFINE e == [i \in 0 .. L |-> IF i = 0 THEN <<>> ELSE flatten[i]]
  <2>8. \A i \in 0 .. L : e[i] = f[i]
    <3>1. e[0] = f[0]
      BY <1>0 DEF Runs
    <3>2. ASSUME NEW i \in 1 .. L, e[i - 1] = f[i - 1] PROVE e[i] = f[i]
      <4>1. CASE i = 1
        BY <1>0, <2>3, <2>7, <4>1
      <4>2. CASE i # 1
        <5>1. i - 1 \in 1 .. L /\ i \in Nat
          BY <1>0, <4>2
        <5>2. e[i] = flatten[i] /\ e[i - 1] = flatten[i - 1]
          BY <1>0, <5>1
        <5>3. flatten[i] = flatten[i - 1] \o seqs[i]
          BY <2>7, <4>2
        <5> QED
          BY <2>2, <3>2, <5>2, <5>3
      <4> QED
        BY <4>1, <4>2
    <3> HIDE DEF e
    <3>3. \A i \in 1 .. L : e[i - 1] = f[i - 1] => e[i] = f[i]
      BY <3>2
    <3>4. Follows(e, f, L)
      BY <3>1, <3>3 DEF Follows
    <3> QED
      BY <1>0, <3>4, RunsAgree
  <2>9. L \in 0 .. L /\ e[L] = flatten[L]
    BY <1>0, <1>2
  <2> QED
    BY <2>1, <2>8, <2>9 DEF L
<1> QED
  BY <1>1, <1>2

\* Hence its type, and its values for no sequence, for one and for a concatenation.
LEMMA FlattenType ==
  ASSUME NEW S, NEW seqs \in Seq(Seq(S))
  PROVE  FlattenSeq(seqs) \in Seq(S)
<1>1. PICK f \in [0 .. Len(seqs) -> Seq(S)] : Runs(f, seqs)
  BY RunsExist
<1>2. Len(seqs) \in 0 .. Len(seqs)
  BY LenProperties
<1> QED
  BY <1>1, <1>2, FlattenRuns

LEMMA FlattenEmpty == FlattenSeq(<<>>) = <<>>
BY DEF FlattenSeq

LEMMA FlattenOne ==
  ASSUME NEW S, NEW x \in Seq(S)
  PROVE  FlattenSeq(<<x>>) = x
<1> DEFINE f == [i \in 0 .. 1 |-> IF i = 0 THEN <<>> ELSE x]
<1>1. <<x>> \in Seq(Seq(S)) /\ Len(<<x>>) = 1
  OBVIOUS
<1>2. f \in [0 .. 1 -> Seq(S)]
  BY EmptySeq
<1>3. Runs(f, <<x>>)
  <2>1. f[0] = <<>> /\ f[1] = x
    OBVIOUS
  <2>2. <<>> \o x = x
    BY ConcatEmptySeq
  <2> HIDE DEF f
  <2>3. ASSUME NEW i \in 1 .. Len(<<x>>) PROVE f[i] = f[i - 1] \o <<x>>[i]
    <3>1. i = 1 /\ i - 1 = 0 /\ <<x>>[i] = x
      BY <1>1
    <3> QED
      BY <2>1, <2>2, <3>1
  <2> QED
    BY <2>1, <2>3 DEF Runs
<1>4. f[1] = x
  OBVIOUS
<1> HIDE DEF f
<1> QED
  BY <1>1, <1>2, <1>3, <1>4, FlattenRuns

\* The runs through two lists, one after the other.
RunsTo(f, seqs, m, S) ==
    /\ f \in [0 .. m -> Seq(S)] /\ f[0] = <<>>
    /\ \A i \in 1 .. m : seqs[i] \in Seq(S) /\ f[i] = f[i - 1] \o seqs[i]

Joined(st, s, t, m, n) ==
    Len(st) = m + n /\ \A i \in 1 .. (m + n) : st[i] = IF i <= m THEN s[i] ELSE t[i - m]

RunsInto(seqs, m, S, all) ==
    \E h \in [0 .. m -> Seq(S)] : Runs(h, seqs) /\ h[m] = all

\* The steps for st are those for s, then those for t on top of them.
LEMMA RunsConcat ==
  ASSUME NEW S, NEW s, NEW t, NEW st, NEW m \in Nat, NEW n \in Nat, NEW f, NEW g,
         RunsTo(f, s, m, S), RunsTo(g, t, n, S), Joined(st, s, t, m, n)
  PROVE  RunsInto(st, m + n, S, f[m] \o g[n])
<1> DEFINE h == [i \in 0 .. (m + n) |-> IF i <= m THEN f[i] ELSE f[m] \o g[i - m]]
<1>3. m \in Nat /\ n \in Nat
  OBVIOUS
<1>4. Len(st) = m + n /\ \A i \in 1 .. (m + n) : st[i] = IF i <= m THEN s[i] ELSE t[i - m]
  BY DEF Joined
<1>5. /\ \A i \in 1 .. m : f[i] = f[i - 1] \o s[i]
      /\ \A i \in 1 .. n : g[i] = g[i - 1] \o t[i]
      /\ f[0] = <<>> /\ g[0] = <<>>
  BY DEF RunsTo
<1>6. /\ \A i \in 1 .. n : t[i] \in Seq(S)
      /\ f \in [0 .. m -> Seq(S)] /\ g \in [0 .. n -> Seq(S)]
  BY DEF RunsTo
<1>7. h \in [0 .. (m + n) -> Seq(S)]
  <2>1. ASSUME NEW i \in 0 .. (m + n) PROVE (IF i <= m THEN f[i] ELSE f[m] \o g[i - m]) \in Seq(S)
    <3>1. CASE i <= m
      BY <1>3, <1>6, <3>1
    <3>2. CASE ~(i <= m)
      <4>1. i - m \in 0 .. n /\ m \in 0 .. m
        BY <1>3, <3>2
      <4> QED
        BY <1>6, <3>2, <4>1, ConcatProperties
    <3> QED
      BY <3>1, <3>2
  <2> QED
    BY <2>1
<1>8. Runs(h, st)
  <2>1. h[0] = <<>>
    BY <1>3, <1>5
  <2>2. ASSUME NEW i \in 1 .. (m + n) PROVE h[i] = h[i - 1] \o st[i]
    <3>0. i \in Nat /\ i \in 0 .. (m + n) /\ i - 1 \in 0 .. (m + n)
      BY <1>3
    <3>1. CASE i <= m
      <4>1. h[i] = f[i] /\ h[i - 1] = f[i - 1] /\ i \in 1 .. m
        BY <1>3, <3>0, <3>1
      <4> HIDE DEF h
      <4> QED
        BY <1>4, <1>5, <3>1, <4>1
    <3>2. CASE i = m + 1
      <4>1. h[i] = f[m] \o g[1] /\ h[i - 1] = f[m] /\ st[i] = t[1] /\ 1 \in 1 .. n
        <5>1. i - m = 1 /\ i - 1 = m /\ ~(i <= m) /\ i - 1 <= m /\ 1 \in 1 .. n
          BY <1>3, <3>2
        <5>2. h[i] = f[m] \o g[i - m] /\ h[i - 1] = f[i - 1]
          BY <3>0, <5>1
        <5>3. st[i] = t[i - m]
          BY <1>4, <5>1
        <5> HIDE DEF h
        <5> QED
          BY <5>1, <5>2, <5>3
      <4>2. g[1] = g[1 - 1] \o t[1] /\ t[1] \in Seq(S)
        BY <1>5, <1>6, <4>1
      <4>3. 1 - 1 = 0
        OBVIOUS
      <4>a. EmptyLeft(t[1])
        BY <4>2, ConcatEmpty, Zenon
      <4>4. g[1] = t[1]
        BY <1>5, <4>2, <4>3, <4>a DEF EmptyLeft
      <4> HIDE DEF h
      <4> QED
        BY <4>1, <4>4
    <3>3. CASE i > m + 1
      <4> DEFINE j == i - m
      <4>1. j \in 1 .. n /\ j - 1 \in 0 .. n /\ j \in 0 .. n /\ ~(i <= m) /\ ~(i - 1 <= m)
            /\ (i - 1) - m = j - 1 /\ m \in 0 .. m
        BY <1>3, <3>0, <3>3
      <4>2. h[i] = f[m] \o g[j] /\ h[i - 1] = f[m] \o g[j - 1]
        BY <3>0, <4>1
      <4>3. st[i] = t[j]
        BY <1>4, <4>1
      <4> HIDE DEF h, j
      <4>4. g[j] = g[j - 1] \o t[j]
        BY <1>5, <4>1
      <4>a. g[j - 1] \in Seq(S) /\ t[j] \in Seq(S) /\ f[m] \in Seq(S)
        BY <1>6, <4>1
      <4>5. Assoc(f[m], g[j - 1], t[j])
        BY <4>a, ConcatAssoc, Zenon
      <4>6. f[m] \o g[j] = (f[m] \o g[j - 1]) \o t[j]
        BY <4>4, <4>5, Zenon DEF Assoc
      <4> QED
        BY <4>2, <4>3, <4>6, Zenon
    <3>4. i <= m \/ i = m + 1 \/ i > m + 1
      BY <1>3, <3>0
    <3> QED
      BY <3>1, <3>2, <3>3, <3>4, Zenon
  <2> HIDE DEF h
  <2> QED
    BY <1>4, <2>1, <2>2 DEF Runs
<1>9. h[m + n] = f[m] \o g[n]
  <2>1. CASE n = 0
    <3>1. h[m + n] = f[m] /\ f[m] \in Seq(S)
      BY <1>3, <1>6, <2>1
    <3> HIDE DEF h
    <3> QED
      BY <1>5, <2>1, <3>1, ConcatEmptySeq
  <2>2. CASE n # 0
    <3>1. m + n \in 0 .. (m + n) /\ ~(m + n <= m) /\ (m + n) - m = n
      BY <1>3, <2>2
    <3> QED
      BY <3>1
  <2> QED
    BY <2>1, <2>2
<1> HIDE DEF h
<1> QED
  BY <1>7, <1>8, <1>9, Zenon DEF RunsInto

\* FlattenSeq turns a concatenation into one of what the two parts come to.
LEMMA FlattenConcat ==
  ASSUME NEW S, NEW s \in Seq(Seq(S)), NEW t \in Seq(Seq(S))
  PROVE  FlattenSeq(s \o t) = FlattenSeq(s) \o FlattenSeq(t)
<1>1. PICK f \in [0 .. Len(s) -> Seq(S)] : Runs(f, s)
  BY RunsExist
<1>2. PICK g \in [0 .. Len(t) -> Seq(S)] : Runs(g, t)
  BY RunsExist
<1> DEFINE m == Len(s)
           n == Len(t)
<1>3. m \in Nat /\ n \in Nat
  BY LenProperties
<1>4. s \o t \in Seq(Seq(S)) /\ Len(s \o t) = m + n /\ Joined(s \o t, s, t, m, n)
  BY ConcatProperties DEF Joined
<1>5. RunsTo(f, s, m, S) /\ RunsTo(g, t, n, S)
  <2>1. /\ \A i \in 1 .. m : s[i] \in Seq(S)
        /\ \A i \in 1 .. n : t[i] \in Seq(S)
    BY ElementOfSeq
  <2> QED
    BY <1>1, <1>2, <2>1, Zenon DEF Runs, RunsTo
<1>6. FlattenSeq(s) = f[m] /\ FlattenSeq(t) = g[n]
  BY <1>1, <1>2, FlattenRuns
<1> HIDE DEF m, n
<1>7. RunsInto(s \o t, m + n, S, f[m] \o g[n])
  BY <1>3, <1>4, <1>5, RunsConcat
<1>h. PICK h \in [0 .. (m + n) -> Seq(S)] : Runs(h, s \o t) /\ h[m + n] = f[m] \o g[n]
  BY <1>7, Zenon DEF RunsInto
<1>8. FlattenSeq(s \o t) = h[m + n]
  BY <1>4, <1>h, FlattenRuns
<1> QED
  BY <1>6, <1>h, <1>8

-----------------------------------------------------------------------------
\* Flat: the scripts are finitely deep, so the recursion defines a function.

Piece(flat, x) == IF x \in Sub THEN flat[x] ELSE <<x>>

\* What an element stands for, and a list, is made of parts.
LEMMA PieceType ==
  ASSUME NEW flat \in [Request -> Seq(Part)], NEW x \in Element
  PROVE  Piece(flat, x) \in Seq(Part)
<1>1. CASE x \in Sub
  BY <1>1 DEF Piece, Request
<1>2. CASE x \notin Sub
  <2>1. x \in Part
    BY <1>2 DEF Element
  <2> QED
    BY <1>2, <2>1 DEF Piece
<1> QED
  BY <1>1, <1>2

LEMMA PiecesType ==
  ASSUME NEW flat \in [Request -> Seq(Part)], NEW list \in Seq(Element)
  PROVE  /\ Pieces(flat, list) \in Seq(Seq(Part))
         /\ Len(Pieces(flat, list)) = Len(list)
         /\ \A i \in 1 .. Len(list) : Pieces(flat, list)[i] = Piece(flat, list[i])
<1>1. DOMAIN list = 1 .. Len(list) /\ Len(list) \in Nat
  BY LenProperties
<1> DEFINE n == Len(list)
           p == [i \in 1 .. n |-> Piece(flat, list[i])]
<1>2. Pieces(flat, list) = p
  BY <1>1 DEF Pieces, Piece
<1>3. \A i \in 1 .. n : Piece(flat, list[i]) \in Seq(Part)
  BY ElementOfSeq, PieceType
<1>4. n \in Nat
  BY <1>1
<1> HIDE DEF n
<1>5. p \in [1 .. n -> Seq(Part)]
  BY <1>3
<1>6. p \in Seq(Seq(Part)) /\ DOMAIN p = 1 .. n
  BY <1>4, <1>5, SeqDef
<1>7. Len(p) = n
  <2> HIDE DEF p
  <2> QED
    BY <1>4, <1>6, LenProperties
<1>8. \A i \in 1 .. n : p[i] = Piece(flat, list[i])
  OBVIOUS
<1> QED
  BY <1>2, <1>6, <1>7, <1>8 DEF n

\* Pieces of a concatenation.
LEMMA PiecesConcat ==
  ASSUME NEW flat \in [Request -> Seq(Part)], NEW l \in Seq(Element), NEW k \in Seq(Element)
  PROVE  Pieces(flat, l \o k) = Pieces(flat, l) \o Pieces(flat, k)
<1> DEFINE S == Seq(Part)
           m == Len(l)
           n == Len(k)
           a == Pieces(flat, l)
           b == Pieces(flat, k)
           c == Pieces(flat, l \o k)
<1>1. m \in Nat /\ n \in Nat
  BY LenProperties
<1>2. l \o k \in Seq(Element) /\ Len(l \o k) = m + n
      /\ \A i \in 1 .. (m + n) : (l \o k)[i] = IF i <= m THEN l[i] ELSE k[i - m]
  BY ConcatProperties
<1>3. /\ a \in Seq(S) /\ Len(a) = m /\ \A i \in 1 .. m : a[i] = Piece(flat, l[i])
      /\ b \in Seq(S) /\ Len(b) = n /\ \A i \in 1 .. n : b[i] = Piece(flat, k[i])
  BY PiecesType
<1>4. c \in Seq(S) /\ Len(c) = m + n /\ \A i \in 1 .. (m + n) : c[i] = Piece(flat, (l \o k)[i])
  BY <1>2, PiecesType
<1> HIDE DEF S, m, n, a, b, c
<1>5. a \o b \in Seq(S) /\ Len(a \o b) = m + n
      /\ \A i \in 1 .. (m + n) : (a \o b)[i] = IF i <= m THEN a[i] ELSE b[i - m]
  BY <1>3, ConcatProperties
<1>6. ASSUME NEW i \in 1 .. (m + n) PROVE c[i] = (a \o b)[i]
  <2>1. CASE i <= m
    <3>1. i \in 1 .. m
      BY <1>1, <2>1
    <3>2. (l \o k)[i] = l[i] /\ (a \o b)[i] = a[i]
      BY <1>2, <1>5, <2>1
    <3> QED
      BY <1>3, <1>4, <3>1, <3>2
  <2>2. CASE ~(i <= m)
    <3>1. i - m \in 1 .. n
      BY <1>1, <2>2
    <3>2. (l \o k)[i] = k[i - m] /\ (a \o b)[i] = b[i - m]
      BY <1>2, <1>5, <2>2
    <3>3. b[i - m] = Piece(flat, k[i - m]) /\ c[i] = Piece(flat, (l \o k)[i])
      BY <1>3, <1>4, <3>1
    <3> QED
      BY <3>2, <3>3, Zenon
  <2> QED
    BY <2>1, <2>2
<1>7. c = a \o b
  BY <1>4, <1>5, <1>6, SeqEqual
<1> QED
  BY <1>7 DEF a, b, c

-----------------------------------------------------------------------------
\* The order of the scripts exists: a subrequest is deeper than the one that starts it.
FlatOn(F, R) ==
    F \in [Request -> Seq(Part)] /\ \A r \in R : F[r] = FlattenSeq(Pieces(F, Script[r]))

\* The scripts, their lengths and their elements.
LEMMA ScriptType ==
  ASSUME NEW r \in Request
  PROVE  /\ Script[r] \in Seq(Element) /\ Len(Script[r]) \in Nat
         /\ DOMAIN Script[r] = 1 .. Len(Script[r])
         /\ \A i \in 1 .. Len(Script[r]) : Script[r][i] \in Element
<1>1. Script[r] \in Seq(Element)
  BY ScriptAssumption DEF Element
<1> QED
  BY <1>1, LenProperties, ElementOfSeq

\* Only what the subrequests of a list are mapped to matters for it.
LEMMA PiecesSame ==
  ASSUME NEW F, NEW G, NEW list, \A s \in Sub : s \in Range(list) => F[s] = G[s]
  PROVE  Pieces(F, list) = Pieces(G, list)
<1>1. ASSUME NEW i \in DOMAIN list, list[i] \in Sub PROVE F[list[i]] = G[list[i]]
  <2>1. list[i] \in Range(list)
    BY DEF Range
  <2> QED
    BY <1>1, <2>1
<1> QED
  BY <1>1 DEF Pieces

\* By the depth of the subrequests: a function with the equation of Flat exists,
LEMMA FlatExists == \E F : FlatOn(F, Request)
<1>1. PICK depth \in [Request -> 0 .. Cardinality(Sub)] :
          \A r \in Request, s \in Sub : s \in Range(Script[r]) => depth[s] > depth[r]
  BY ScriptAssumption
<1> DEFINE d == Cardinality(Sub)
           Deep(n) == {r \in Request : depth[r] + n > d}
           N == {n \in Nat : ~\E F : FlatOn(F, Deep(n))}
<1>2. d \in Nat
  BY ScriptAssumption, FS_CardinalityType
<1>3. /\ \A r \in Request : depth[r] \in Nat /\ depth[r] <= d
      /\ \A r \in Request, s \in Sub : s \in Range(Script[r]) => depth[s] > depth[r]
  BY <1>1, <1>2
<1> HIDE DEF d
<1>4. N = {}
  <2> SUFFICES ASSUME N # {} PROVE FALSE
    OBVIOUS
  <2>1. PICK n \in N : \A k \in N : n <= k
    <3>1. N \in SUBSET Nat
      <4> HIDE DEF Deep
      <4> QED
        OBVIOUS
    <3> HIDE DEF N
    <3> QED
      BY <3>1, LeastExists
  <2>2. n \in Nat /\ ~\E F : FlatOn(F, Deep(n))
    <3> HIDE DEF Deep
    <3> QED
      OBVIOUS
  <2>3. CASE n = 0
    <3> DEFINE F == [r \in Request |-> <<>>]
    <3>1. Deep(n) = {}
      BY <1>2, <1>3, <2>3
    <3>2. F \in [Request -> Seq(Part)]
      BY EmptySeq
    <3>3. FlatOn(F, Deep(n))
      BY <3>1, <3>2 DEF FlatOn
    <3> QED
      BY <2>2, <3>3
  <2>4. CASE n # 0
    <3>1. n - 1 \in Nat /\ n - 1 \notin N
      <4> HIDE DEF N
      <4> QED
        BY <2>1, <2>2, <2>4
    <3>2. PICK F : FlatOn(F, Deep(n - 1))
      <4> HIDE DEF Deep
      <4> QED
        BY <3>1
    <3> DEFINE G == [r \in Request |-> IF r \in Deep(n) THEN FlattenSeq(Pieces(F, Script[r]))
                                       ELSE <<>>]
    <3>3. F \in [Request -> Seq(Part)]
      BY <3>2 DEF FlatOn
    <3>4. \A r \in Request : FlattenSeq(Pieces(F, Script[r])) \in Seq(Part)
      BY <3>3, ScriptType, PiecesType, FlattenType
    <3>5. Deep(n - 1) \in SUBSET Deep(n)
      BY <1>2, <1>3, <2>2, <2>4
    <3>6. \A r \in Deep(n), s \in Sub : s \in Range(Script[r]) => s \in Deep(n - 1)
      <4> SUFFICES ASSUME NEW r \in Deep(n), NEW s \in Sub, s \in Range(Script[r])
                   PROVE  s \in Deep(n - 1)
        OBVIOUS
      <4>1. r \in Request /\ s \in Request /\ depth[r] + n > d
        BY DEF Request
      <4>2. depth[s] > depth[r] /\ depth[s] \in Nat /\ depth[r] \in Nat
        BY <1>3, <4>1
      <4> QED
        BY <1>2, <2>2, <4>1, <4>2
    <3>d. Deep(n) \in SUBSET Request /\ Deep(n - 1) \in SUBSET Request
      OBVIOUS
    <3> HIDE DEF Deep
    <3>7. G \in [Request -> Seq(Part)]
      BY <3>4, EmptySeq
    <3>8. ASSUME NEW s \in Deep(n - 1) PROVE G[s] = F[s]
      <4>1. G[s] = FlattenSeq(Pieces(F, Script[s]))
        BY <3>5, <3>d
      <4> QED
        BY <3>2, <4>1 DEF FlatOn
    <3>9. ASSUME NEW r \in Deep(n) PROVE G[r] = FlattenSeq(Pieces(G, Script[r]))
      <4>1. G[r] = FlattenSeq(Pieces(F, Script[r])) /\ r \in Request
        BY <3>d
      <4> HIDE DEF G
      <4>2. \A s \in Sub : s \in Range(Script[r]) => F[s] = G[s]
        BY <3>6, <3>8
      <4>3. Pieces(F, Script[r]) = Pieces(G, Script[r])
        BY <4>2, PiecesSame
      <4> QED
        BY <4>1, <4>3
    <3> HIDE DEF G
    <3>10. FlatOn(G, Deep(n))
      BY <3>7, <3>9 DEF FlatOn
    <3> QED
      BY <2>2, <3>10
  <2> QED
    BY <2>3, <2>4
<1>5. d + 1 \in Nat /\ Deep(d + 1) = Request
  BY <1>2, <1>3
<1> HIDE DEF Deep
<1> QED
  BY <1>4, <1>5

\* so Flat, which is chosen among them, has it.
LEMMA FlatDef == FlatOn(Flat, Request)
<1> DEFINE body(F) == [r \in Request |-> FlattenSeq(Pieces(F, Script[r]))]
<1>1. PICK F : FlatOn(F, Request)
  BY FlatExists
<1>2. F = body(F)
  BY <1>1 DEF FlatOn
<1>3. Flat = CHOOSE G : G = body(G)
  BY Zenon DEF Flat
<1>4. Flat = body(Flat)
  <2> HIDE DEF body
  <2> QED
    BY <1>2, <1>3, Zenon
<1>5. Flat \in [Request -> Seq(Part)]
  <2>1. PICK depth \in [Request -> 0 .. Cardinality(Sub)] :
            \A r \in Request, s \in Sub : s \in Range(Script[r]) => depth[s] > depth[r]
    BY ScriptAssumption
  <2> DEFINE d == Cardinality(Sub)
             B == {r \in Request : Flat[r] # F[r]}
             N == {d - depth[r] : r \in B}
  <2>2. d \in Nat
    BY ScriptAssumption, FS_CardinalityType
  <2>3. /\ \A r \in Request : depth[r] \in Nat /\ depth[r] <= d
        /\ \A r \in Request, s \in Sub : s \in Range(Script[r]) => depth[s] > depth[r]
    BY <2>1, <2>2
  <2> HIDE DEF d, body
  <2>4. B = {}
    <3> SUFFICES ASSUME B # {} PROVE FALSE
      OBVIOUS
    <3>1. N \in SUBSET Nat /\ N # {}
      BY <2>2, <2>3
    <3>2. PICK n \in N : \A k \in N : n <= k
      <4> HIDE DEF N
      <4> QED
        BY <3>1, LeastExists
    <3>3. PICK r \in B : n = d - depth[r]
      OBVIOUS
    <3>4. r \in Request /\ Flat[r] # F[r]
      BY <3>3
    <3>5. ASSUME NEW s \in Sub, s \in Range(Script[r]) PROVE Flat[s] = F[s]
      <4> SUFFICES ASSUME s \in B PROVE FALSE
        BY DEF Request
      <4>1. d - depth[s] \in N
        OBVIOUS
      <4>2. n <= d - depth[s]
        <5> HIDE DEF N
        <5> QED
          BY <3>2, <4>1
      <4>3. depth[s] > depth[r] /\ depth[s] \in Nat /\ depth[r] \in Nat
        BY <2>3, <3>4, <3>5 DEF Request
      <4> QED
        BY <2>2, <3>3, <4>2, <4>3
    <3>6. Pieces(Flat, Script[r]) = Pieces(F, Script[r])
      BY <3>5, PiecesSame
    <3>7. Flat[r] = FlattenSeq(Pieces(Flat, Script[r]))
      BY <1>4, <3>4, Zenon DEF body
    <3>8. F[r] = FlattenSeq(Pieces(F, Script[r]))
      BY <1>1, <3>4 DEF FlatOn
    <3> QED
      BY <3>4, <3>6, <3>7, <3>8
  <2>5. \A r \in Request : Flat[r] = F[r]
    BY <2>4
  <2>6. DOMAIN Flat = Request /\ Flat = [r \in Request |-> Flat[r]]
    BY <1>4 DEF body
  <2>7. F \in [Request -> Seq(Part)]
    BY <1>1 DEF FlatOn
  <2>8. \A r \in Request : Flat[r] \in Seq(Part)
    BY <2>5, <2>7
  <2> QED
    BY <2>6, <2>8
<1> QED
  BY <1>4, <1>5 DEF FlatOn

-----------------------------------------------------------------------------
\* What a list of parts and subrequests stands for, and what the beginning of a script
\* comes to.

\* A list of parts and subrequests as the client should get it, and what the first k
\* elements of a script come to.
Cat(list) == FlattenSeq(Pieces(Flat, list))
Begin(r, k) == Cat(SubSeq(Script[r], 1, k))

\* Cat: its type, and its values for a script, for no element, for one and for a
\* concatenation.
LEMMA CatType == \A list \in Seq(Element) : Cat(list) \in Seq(Part)
<1>1. Flat \in [Request -> Seq(Part)]
  BY FlatDef DEF FlatOn
<1> QED
  BY <1>1, PiecesType, FlattenType DEF Cat

LEMMA FlatIsCat == \A r \in Request : Flat[r] = Cat(Script[r]) /\ Flat[r] \in Seq(Part)
BY FlatDef DEF FlatOn, Cat

LEMMA CatEmpty == Cat(<<>>) = <<>>
<1>1. Flat \in [Request -> Seq(Part)] /\ <<>> \in Seq(Element)
  BY FlatDef DEF FlatOn
<1>2. Pieces(Flat, <<>>) \in Seq(Seq(Part)) /\ Len(Pieces(Flat, <<>>)) = 0
  BY <1>1, PiecesType
<1>3. Pieces(Flat, <<>>) = <<>>
  BY <1>2, EmptySeq
<1> QED
  BY <1>3, FlattenEmpty DEF Cat

LEMMA CatOne == \A x \in Element : Cat(<<x>>) = Piece(Flat, x) /\ Piece(Flat, x) \in Seq(Part)
<1> SUFFICES ASSUME NEW x \in Element
             PROVE  Cat(<<x>>) = Piece(Flat, x) /\ Piece(Flat, x) \in Seq(Part)
  OBVIOUS
<1>1. Flat \in [Request -> Seq(Part)]
  BY FlatDef DEF FlatOn
<1>2. Piece(Flat, x) \in Seq(Part)
  BY <1>1, PieceType
<1>3. Pieces(Flat, <<x>>) = <<Piece(Flat, x)>>
  BY DEF Pieces, Piece
<1> QED
  BY <1>2, <1>3, FlattenOne DEF Cat

LEMMA CatConcat == \A l, k \in Seq(Element) : Cat(l \o k) = Cat(l) \o Cat(k)
<1> SUFFICES ASSUME NEW l \in Seq(Element), NEW k \in Seq(Element)
             PROVE  Cat(l \o k) = Cat(l) \o Cat(k)
  OBVIOUS
<1>1. Flat \in [Request -> Seq(Part)]
  BY FlatDef DEF FlatOn
<1>2. Pieces(Flat, l \o k) = Pieces(Flat, l) \o Pieces(Flat, k)
  BY <1>1, PiecesConcat
<1>3. Pieces(Flat, l) \in Seq(Seq(Part)) /\ Pieces(Flat, k) \in Seq(Seq(Part))
  BY <1>1, PiecesType
<1> QED
  BY <1>2, <1>3, FlattenConcat DEF Cat

\* Parts stand for themselves.
LEMMA CatParts ==
  ASSUME NEW list \in Seq(Element), \A i \in 1 .. Len(list) : list[i] \notin Sub
  PROVE  Cat(list) = list /\ list \in Seq(Part)
<1> DEFINE n == Len(list)
           f == [i \in 0 .. n |-> SubSeq(list, 1, i)]
           p == Pieces(Flat, list)
<1>1. Flat \in [Request -> Seq(Part)]
  BY FlatDef DEF FlatOn
<1>2. n \in Nat /\ \A i \in 1 .. n : list[i] \in Part
  BY LenProperties, ElementOfSeq DEF Element
<1>3. p \in Seq(Seq(Part)) /\ Len(p) = n /\ \A i \in 1 .. n : p[i] = <<list[i]>>
  BY <1>1, PiecesType DEF Piece
<1>4. SubSeq(list, 1, n) = list
  BY SubSeqFull
<1>5. \A i \in 0 .. n : SubSeq(list, 1, i) \in Seq(Part)
  <2> SUFFICES ASSUME NEW i \in 0 .. n PROVE SubSeq(list, 1, i) \in Seq(Part)
    OBVIOUS
  <2>1. i \in Int /\ \A j \in 1 .. i : list[j] \in Part
    BY <1>2
  <2> QED
    BY <2>1, SubSeqProperties
<1>6. ASSUME NEW i \in 1 .. n
      PROVE  SubSeq(list, 1, i) = SubSeq(list, 1, i - 1) \o <<list[i]>>
  <2>1. 1 \in 1 .. Len(list) /\ i \in 1 .. Len(list)
    BY <1>2
  <2> QED
    BY <2>1, SubSeqRecursiveSecond
<1>7. SubSeq(list, 1, 0) = <<>>
  BY SubSeqEmpty
<1> HIDE DEF n, p
<1>8. f \in [0 .. n -> Seq(Part)]
  BY <1>5
<1>9. Runs(f, p)
  <2>1. f[0] = <<>>
    BY <1>2, <1>7
  <2>2. ASSUME NEW i \in 1 .. n PROVE f[i] = f[i - 1] \o p[i]
    <3>1. i \in 0 .. n /\ i - 1 \in 0 .. n
      BY <1>2
    <3>2. f[i] = SubSeq(list, 1, i) /\ f[i - 1] = SubSeq(list, 1, i - 1)
      BY <3>1
    <3>3. p[i] = <<list[i]>>
      BY <1>3
    <3> HIDE DEF f
    <3> QED
      BY <1>6, <3>2, <3>3, Zenon
  <2> HIDE DEF f
  <2> QED
    BY <1>3, <2>1, <2>2 DEF Runs
<1>10. f[n] = list
  BY <1>2, <1>4
<1>11. list \in Seq(Part)
  <2>1. n \in 0 .. n
    BY <1>2
  <2> QED
    BY <1>4, <1>5, <2>1
<1> HIDE DEF f
<1> QED
  BY <1>3, <1>8, <1>9, <1>10, <1>11, FlattenRuns DEF Cat, p

\* Begin: its type, and its values at the start, one element further and at the end.
LEMMA BeginType ==
  ASSUME NEW r \in Request, NEW k \in 0 .. Len(Script[r])
  PROVE  SubSeq(Script[r], 1, k) \in Seq(Element) /\ Begin(r, k) \in Seq(Part)
<1>1. k \in Int /\ \A i \in 1 .. k : Script[r][i] \in Element
  BY ScriptType
<1>2. SubSeq(Script[r], 1, k) \in Seq(Element)
  BY <1>1, SubSeqProperties
<1> QED
  BY <1>2, CatType DEF Begin

LEMMA BeginNone == ASSUME NEW r \in Request PROVE Begin(r, 0) = <<>>
<1>1. SubSeq(Script[r], 1, 0) = <<>>
  BY SubSeqEmpty
<1> QED
  BY <1>1, CatEmpty DEF Begin

LEMMA BeginNext ==
  ASSUME NEW r \in Request, NEW k \in 1 .. Len(Script[r])
  PROVE  Begin(r, k) = Begin(r, k - 1) \o Piece(Flat, Script[r][k])
<1> DEFINE s == Script[r]
<1>1. s \in Seq(Element) /\ Len(s) \in Nat /\ s[k] \in Element
  BY ScriptType
<1>2. k - 1 \in 0 .. Len(s) /\ 1 \in 1 .. Len(s)
  BY <1>1
<1>3. SubSeq(s, 1, k - 1) \in Seq(Element)
  BY <1>2, BeginType
<1> HIDE DEF s
<1>4. SubSeq(s, 1, k) = SubSeq(s, 1, k - 1) \o <<s[k]>>
  <2>1. k \in 1 .. Len(s)
    BY DEF s
  <2> QED
    BY <1>1, <1>2, <2>1, SubSeqRecursiveSecond
<1>5. <<s[k]>> \in Seq(Element)
  BY <1>1
<1>6. Cat(SubSeq(s, 1, k)) = Cat(SubSeq(s, 1, k - 1)) \o Cat(<<s[k]>>)
  BY <1>3, <1>4, <1>5, CatConcat
<1> QED
  BY <1>1, <1>6, CatOne DEF Begin, s

LEMMA BeginAll == ASSUME NEW r \in Request PROVE Begin(r, Len(Script[r])) = Flat[r]
<1>1. SubSeq(Script[r], 1, Len(Script[r])) = Script[r]
  BY ScriptType, SubSeqFull
<1> QED
  BY <1>1, FlatIsCat DEF Begin

\* What the beginning of a script comes to is the beginning of what all of it comes to.
LEMMA BeginRest ==
  ASSUME NEW r \in Request, NEW k \in 0 .. Len(Script[r])
  PROVE  \E rest \in Seq(Part) : Flat[r] = Begin(r, k) \o rest
<1> DEFINE s == Script[r]
           t == SubSeq(s, k + 1, Len(s))
<1>1. s \in Seq(Element) /\ Len(s) \in Nat /\ \A i \in 1 .. Len(s) : s[i] \in Element
  BY ScriptType
<1>2. k \in 0 .. Len(s) /\ SubSeq(s, 1, k) \in Seq(Element)
  BY BeginType
<1>3. Flat[r] = Cat(s) /\ Begin(r, k) = Cat(SubSeq(s, 1, k))
  BY FlatIsCat DEF Begin
<1> HIDE DEF s
<1>4. t \in Seq(Element)
  <2>1. k + 1 \in Int /\ Len(s) \in Int /\ \A i \in (k + 1) .. Len(s) : s[i] \in Element
    BY <1>1, <1>2
  <2> QED
    BY <2>1, SubSeqProperties
<1>5. SubSeq(s, 1, k) \o t = s
  <2>1. 1 \in 1 .. (Len(s) + 1) /\ k \in (1 - 1) .. Len(s) /\ Len(s) \in k .. Len(s)
    BY <1>1, <1>2
  <2>2. SubSeq(s, 1, k) \o SubSeq(s, k + 1, Len(s)) = SubSeq(s, 1, Len(s))
    BY <1>1, <2>1, ConcatAdjacentSubSeq
  <2> QED
    BY <1>1, <2>2, SubSeqFull
<1> HIDE DEF t
<1>6. Cat(s) = Cat(SubSeq(s, 1, k)) \o Cat(t)
  BY <1>2, <1>4, <1>5, CatConcat
<1> QED
  BY <1>3, <1>4, <1>6, CatType

\* Nothing is sent in the background.
LEMMA BackgroundSilent == \A s \in Background : Flat[s] = <<>>
BY FlatIsCat, CatEmpty, ScriptAssumption DEF Request

\* What comes once in the scripts.
LEMMA ParentOf ==
  ASSUME NEW r \in Request, NEW i \in DOMAIN Script[r], Script[r][i] \in Sub
  PROVE  Parent(Script[r][i]) = r
<1> DEFINE s == Script[r][i]
<1>1. PICK p \in Request : \E k \in DOMAIN Script[p] :
        \A u \in Request : \A j \in DOMAIN Script[u] : Script[u][j] = s <=> u = p /\ j = k
  BY ScriptAssumption
<1>2. PICK k \in DOMAIN Script[p] :
        \A u \in Request : \A j \in DOMAIN Script[u] : Script[u][j] = s <=> u = p /\ j = k
  BY <1>1
<1>3. r = p
  BY <1>2
<1>4. \A q \in Request : s \in Range(Script[q]) => q = r
  BY <1>2, <1>3 DEF Range
<1>5. s \in Range(Script[r])
  BY DEF Range
<1> HIDE DEF s
<1>6. Parent(s) = r
  BY <1>4, <1>5 DEF Parent
<1> QED
  BY <1>6 DEF s

-----------------------------------------------------------------------------
\* Concatenations that are equal, extended and split.

-----------------------------------------------------------------------------
(* Equations between what is sent, what is kept and what is still to come. *)

\* Both sides get the same at their end.
Same(x, c, b, e) == x \o c = b \o e

\* Equal concatenations stay equal when both grow by the same.
LEMMA BothGrow ==
  \A x, c, i, b, e \in Seq(Part) : Same(x, c, b, e) => Same(x, c \o i, b, e \o i)
<1> SUFFICES ASSUME NEW x \in Seq(Part), NEW c \in Seq(Part), NEW i \in Seq(Part),
                    NEW b \in Seq(Part), NEW e \in Seq(Part), x \o c = b \o e
             PROVE  x \o (c \o i) = b \o (e \o i)
  BY DEF Same
<1>1. Assoc(x, c, i) /\ Assoc(b, e, i)
  BY ConcatAssoc, Zenon
<1> QED
  BY <1>1, Zenon DEF Assoc

\* What comes before the subrequest is sent, and the subrequest is next.
Split(w, p, f, q) == w \o (p \o (f \o q)) = ((w \o p) \o f) \o q

LEMMA ConcatSplit == \A w, p, f, q \in Seq(Part) : Split(w, p, f, q)
<1> SUFFICES ASSUME NEW w \in Seq(Part), NEW p \in Seq(Part), NEW f \in Seq(Part),
                    NEW q \in Seq(Part)
             PROVE  Split(w, p, f, q)
  BY Zenon
<1>1. f \o q \in Seq(Part) /\ w \o p \in Seq(Part)
  BY ConcatType, Zenon
<1>2. Assoc(w, p, f \o q) /\ Assoc(w \o p, f, q)
  BY <1>1, ConcatAssoc, Zenon
<1> QED
  BY <1>2, Zenon DEF Assoc, Split

\* All that is to be sent begins with this; and so what is a beginning of a beginning.
Opens(x) == \E rest \in Seq(Part) : x \o rest = Flat[Main]

\* What comes before the end of a stretch of the output is a beginning of the output.
LEMMA OpensLess ==
  \A n, q, b, e, t \in Seq(Part) : Same(n, q, b, e) /\ Opens(b \o (e \o t)) => Opens(n)
<1> SUFFICES ASSUME NEW n \in Seq(Part), NEW q \in Seq(Part), NEW b \in Seq(Part),
                    NEW e \in Seq(Part), NEW t \in Seq(Part), n \o q = b \o e,
                    Opens(b \o (e \o t))
             PROVE  Opens(n)
  BY Zenon DEF Same
<1>0. PICK u \in Seq(Part) : (b \o (e \o t)) \o u = Flat[Main]
  BY Zenon DEF Opens
<1>1. t \o u \in Seq(Part) /\ b \o e \in Seq(Part)
  BY ConcatType, Zenon
<1>2. q \o (t \o u) \in Seq(Part)
  BY <1>1, ConcatType, Zenon
<1>3. Assoc(n, q, t \o u) /\ Assoc(b \o e, t, u) /\ Assoc(b, e, t)
  BY <1>1, ConcatAssoc, Zenon
<1>4. n \o (q \o (t \o u)) = (b \o e) \o (t \o u)
  BY <1>3, Zenon DEF Assoc
<1>5. (b \o e) \o (t \o u) = (b \o (e \o t)) \o u
  BY <1>3, Zenon DEF Assoc
<1>6. n \o (q \o (t \o u)) = Flat[Main]
  BY <1>0, <1>4, <1>5, Zenon
<1> QED
  BY <1>2, <1>6, Zenon DEF Opens

\* The elements of a concatenation.
LEMMA ConcatRange ==
  ASSUME NEW S, NEW l \in Seq(S), NEW k \in Seq(S)
  PROVE  Range(l \o k) = Range(l) \cup Range(k)
<1>1. /\ Len(l) \in Nat /\ Len(k) \in Nat /\ DOMAIN l = 1 .. Len(l) /\ DOMAIN k = 1 .. Len(k)
      /\ l \o k \in Seq(S) /\ Len(l \o k) = Len(l) + Len(k)
      /\ \A i \in 1 .. (Len(l) + Len(k)) :
            (l \o k)[i] = IF i <= Len(l) THEN l[i] ELSE k[i - Len(l)]
  BY LenProperties, ConcatProperties
<1>2. DOMAIN (l \o k) = 1 .. (Len(l) + Len(k))
  BY <1>1, LenProperties
<1> DEFINE m == Len(l)
           n == Len(k)
           c == l \o k
<1>3. /\ m \in Nat /\ n \in Nat /\ DOMAIN l = 1 .. m /\ DOMAIN k = 1 .. n /\ DOMAIN c = 1 .. (m + n)
      /\ \A i \in 1 .. (m + n) : c[i] = IF i <= m THEN l[i] ELSE k[i - m]
  BY <1>1, <1>2
<1> HIDE DEF m, n, c
<1>4. ASSUME NEW i \in 1 .. m PROVE i \in 1 .. (m + n) /\ c[i] = l[i]
  BY <1>3
<1>5. ASSUME NEW j \in 1 .. n PROVE m + j \in 1 .. (m + n) /\ c[m + j] = k[j]
  <2>1. m + j \in 1 .. (m + n) /\ ~(m + j <= m) /\ (m + j) - m = j
    BY <1>3
  <2> QED
    BY <1>3, <2>1
<1>6. ASSUME NEW i \in 1 .. (m + n)
      PROVE  (i \in 1 .. m /\ c[i] = l[i]) \/ (i - m \in 1 .. n /\ c[i] = k[i - m])
  BY <1>3
<1>7. Range(c) = Range(l) \cup Range(k)
  <2>1. ASSUME NEW x \in Range(c) PROVE x \in Range(l) \cup Range(k)
    <3>1. PICK i \in 1 .. (m + n) : x = c[i]
      BY <1>3 DEF Range
    <3>2. CASE i \in 1 .. m /\ c[i] = l[i]
      BY <1>3, <3>1, <3>2 DEF Range
    <3>3. CASE i - m \in 1 .. n /\ c[i] = k[i - m]
      BY <1>3, <3>1, <3>3 DEF Range
    <3> QED
      BY <1>6, <3>2, <3>3
  <2>2. ASSUME NEW x \in Range(l) PROVE x \in Range(c)
    BY <1>3, <1>4 DEF Range
  <2>3. ASSUME NEW x \in Range(k) PROVE x \in Range(c)
    <3>1. PICK j \in 1 .. n : x = k[j]
      BY <1>3 DEF Range
    <3>2. m + j \in DOMAIN c /\ c[m + j] = x
      BY <1>3, <1>5, <3>1
    <3> QED
      BY <3>2 DEF Range
  <2> QED
    BY <2>1, <2>2, <2>3
<1> QED
  BY <1>7 DEF c

-----------------------------------------------------------------------------
\* A list once the subrequest at its head, if it is d, is done.
After(list, d) == IF list # <<>> /\ Head(list) = d THEN Tail(list) ELSE list

\* What is left of a list is in the list,
LEMMA AfterType ==
  ASSUME NEW list \in Seq(Element), NEW d
  PROVE  After(list, d) \in Seq(Element) /\ Range(After(list, d)) \subseteq Range(list)
<1>1. CASE list # <<>> /\ Head(list) = d
  <2>1. /\ Tail(list) \in Seq(Element) /\ Len(Tail(list)) = Len(list) - 1
        /\ \A i \in 1 .. Len(Tail(list)) : Tail(list)[i] = list[i + 1]
    BY <1>1, HeadTailProperties
  <2>2. /\ DOMAIN Tail(list) = 1 .. Len(Tail(list)) /\ DOMAIN list = 1 .. Len(list)
        /\ Len(list) \in Nat
    BY <2>1, LenProperties
  <2>3. \A i \in DOMAIN Tail(list) : i + 1 \in DOMAIN list /\ Tail(list)[i] = list[i + 1]
    BY <2>1, <2>2
  <2>4. Range(Tail(list)) \subseteq Range(list)
    BY <2>3 DEF Range
  <2> QED
    BY <1>1, <2>1, <2>4 DEF After
<1>2. CASE ~(list # <<>> /\ Head(list) = d)
  BY <1>2 DEF After
<1> QED
  BY <1>1, <1>2

\* and what is put at the end of a list comes after what is left of it.
LEMMA AfterConcat ==
  ASSUME NEW list \in Seq(Element), NEW in \in Seq(Element), NEW d, d \notin Range(in)
  PROVE  After(list \o in, d) = After(list, d) \o in
<1>1. CASE list = <<>>
  <2>1. list \o in = in
    BY <1>1, ConcatEmptySeq
  <2>2. in # <<>> => Head(in) # d
    <3> SUFFICES ASSUME in # <<>> PROVE Head(in) # d
      OBVIOUS
    <3>1. Len(in) \in Nat \ {0} /\ DOMAIN in = 1 .. Len(in)
      BY EmptySeq, LenProperties
    <3>2. 1 \in DOMAIN in /\ Head(in) = in[1]
      BY <3>1
    <3> QED
      BY <3>2 DEF Range
  <2>3. After(in, d) = in
    BY <2>2 DEF After
  <2>4. After(list, d) = <<>>
    BY <1>1 DEF After
  <2> QED
    BY <1>1, <2>1, <2>3, <2>4
<1>2. CASE list # <<>>
  <2>1. Len(list) \in Nat \ {0} /\ Len(in) \in Nat
    BY <1>2, EmptySeq, LenProperties
  <2>2. /\ list \o in \in Seq(Element) /\ Len(list \o in) = Len(list) + Len(in)
        /\ (list \o in)[1] = list[1]
    BY <2>1, ConcatProperties
  <2>3. list \o in # <<>>
    BY <2>1, <2>2
  <2>4. Head(list \o in) = Head(list)
    BY <1>2, <2>2, <2>3
  <2>5. Tail(list \o in) = Tail(list) \o in
    <3> DEFINE a == Tail(list \o in)
               t == Tail(list)
               m == Len(list)
               n == Len(in)
    <3>1. /\ a \in Seq(Element) /\ Len(a) = m + n - 1
          /\ \A i \in 1 .. Len(a) : a[i] = (list \o in)[i + 1]
      BY <2>2, <2>3, HeadTailProperties
    <3>2. /\ t \in Seq(Element) /\ Len(t) = m - 1 /\ \A i \in 1 .. Len(t) : t[i] = list[i + 1]
      BY <1>2, HeadTailProperties
    <3>3. \A i \in 1 .. (m + n) : (list \o in)[i] = IF i <= m THEN list[i] ELSE in[i - m]
      BY ConcatProperties
    <3>4. /\ t \o in \in Seq(Element) /\ Len(t \o in) = Len(t) + n
          /\ \A i \in 1 .. (Len(t) + n) : (t \o in)[i] = IF i <= Len(t) THEN t[i] ELSE in[i - Len(t)]
      BY <3>2, ConcatProperties
    <3>5. m \in Nat \ {0} /\ n \in Nat
      BY <2>1
    <3> HIDE DEF a, t, m, n
    <3>6. ASSUME NEW i \in 1 .. (m + n - 1) PROVE a[i] = (t \o in)[i]
      <4>0. i + 1 \in 1 .. (m + n) /\ i \in 1 .. (Len(t) + n) /\ i \in 1 .. Len(a)
        BY <3>1, <3>2, <3>5
      <4>1. a[i] = (list \o in)[i + 1] /\ i + 1 \in 1 .. (m + n) /\ i \in 1 .. (Len(t) + n)
        BY <3>1, <4>0
      <4>2. CASE i <= m - 1
        <5>1. i + 1 <= m /\ i <= Len(t) /\ i \in 1 .. Len(t)
          BY <3>2, <3>5, <4>2
        <5> QED
          BY <3>2, <3>3, <3>4, <4>1, <5>1
      <4>3. CASE ~(i <= m - 1)
        <5>1. ~(i + 1 <= m) /\ ~(i <= Len(t)) /\ (i + 1) - m = i - Len(t)
          BY <3>2, <3>5, <4>3
        <5> QED
          BY <3>3, <3>4, <4>1, <5>1
      <4> QED
        BY <4>2, <4>3
    <3>7. Len(t \o in) = m + n - 1
      BY <3>2, <3>4, <3>5
    <3>8. a = t \o in
      BY <3>1, <3>4, <3>6, <3>7, SeqEqual
    <3> QED
      BY <3>8 DEF a, t
  <2> QED
    BY <1>2, <2>3, <2>4, <2>5 DEF After
<1> QED
  BY <1>1, <1>2

-----------------------------------------------------------------------------
\* Lists in which no subrequest is twice.

\* No subrequest is twice in a list.
Once(list) ==
    \A i, j \in DOMAIN list : list[i] \in Sub /\ list[i] = list[j] => i = j

\* A concatenation has each subrequest once if both parts have, and share none.
LEMMA OnceConcat ==
  ASSUME NEW l \in Seq(Element), NEW k \in Seq(Element)
  PROVE  Once(l \o k) <=> Once(l) /\ Once(k) /\ (Range(l) \cap Range(k)) \cap Sub = {}
<1> DEFINE m == Len(l)
           n == Len(k)
           c == l \o k
<1>1. /\ m \in Nat /\ n \in Nat /\ DOMAIN l = 1 .. m /\ DOMAIN k = 1 .. n
      /\ c \in Seq(Element) /\ Len(c) = m + n
      /\ \A i \in 1 .. (m + n) : c[i] = IF i <= m THEN l[i] ELSE k[i - m]
  BY LenProperties, ConcatProperties
<1>2. DOMAIN c = 1 .. (m + n)
  BY <1>1, LenProperties
<1> HIDE DEF m, n, c
<1>3. ASSUME NEW i \in 1 .. m PROVE i \in 1 .. (m + n) /\ c[i] = l[i]
  BY <1>1
<1>4. ASSUME NEW j \in 1 .. n PROVE m + j \in 1 .. (m + n) /\ c[m + j] = k[j] /\ m + j \notin 1 .. m
  <2>1. m + j \in 1 .. (m + n) /\ ~(m + j <= m) /\ (m + j) - m = j
    BY <1>1
  <2> QED
    BY <1>1, <2>1
<1>5. ASSUME NEW i \in 1 .. (m + n)
      PROVE  (i \in 1 .. m /\ c[i] = l[i]) \/ (i - m \in 1 .. n /\ c[i] = k[i - m])
  BY <1>1
<1>6. ASSUME Once(c) PROVE Once(l) /\ Once(k) /\ (Range(l) \cap Range(k)) \cap Sub = {}
  <2>1. Once(l)
    BY <1>1, <1>2, <1>3, <1>6 DEF Once
  <2>2. Once(k)
    <3> SUFFICES ASSUME NEW i \in 1 .. n, NEW j \in 1 .. n, k[i] \in Sub, k[i] = k[j]
                 PROVE  i = j
      BY <1>1 DEF Once
    <3>1. m + i \in DOMAIN c /\ m + j \in DOMAIN c /\ c[m + i] = k[i] /\ c[m + j] = k[j]
      BY <1>2, <1>4
    <3>2. m + i = m + j
      BY <1>6, <3>1 DEF Once
    <3> QED
      BY <1>1, <3>2
  <2>3. ASSUME NEW x \in Sub, x \in Range(l), x \in Range(k) PROVE FALSE
    <3>1. PICK i \in 1 .. m : x = l[i]
      BY <1>1, <2>3 DEF Range
    <3>2. PICK j \in 1 .. n : x = k[j]
      BY <1>1, <2>3 DEF Range
    <3>3. /\ i \in DOMAIN c /\ c[i] = x
          /\ m + j \in DOMAIN c /\ c[m + j] = x /\ m + j \notin 1 .. m
      BY <1>2, <1>3, <1>4, <3>1, <3>2
    <3>4. i = m + j
      BY <1>6, <3>3 DEF Once
    <3> QED
      BY <3>3, <3>4
  <2> QED
    BY <2>1, <2>2, <2>3
<1>7. ASSUME Once(l), Once(k), (Range(l) \cap Range(k)) \cap Sub = {} PROVE Once(c)
  <2> SUFFICES ASSUME NEW i \in 1 .. (m + n), NEW j \in 1 .. (m + n), c[i] \in Sub, c[i] = c[j]
               PROVE  i = j
    BY <1>2 DEF Once
  <2>0. ASSUME NEW x \in 1 .. m, NEW y \in 1 .. n, l[x] = k[y], l[x] \in Sub PROVE FALSE
    <3>1. l[x] \in Range(l) /\ k[y] \in Range(k)
      BY <1>1 DEF Range
    <3> QED
      BY <1>7, <2>0, <3>1
  <2>1. CASE i \in 1 .. m /\ c[i] = l[i]
    <3>1. CASE j \in 1 .. m /\ c[j] = l[j]
      BY <1>1, <1>7, <2>1, <3>1 DEF Once
    <3>2. CASE j - m \in 1 .. n /\ c[j] = k[j - m]
      BY <2>0, <2>1, <3>2
    <3> QED
      BY <1>5, <3>1, <3>2
  <2>2. CASE i - m \in 1 .. n /\ c[i] = k[i - m]
    <3>1. CASE j \in 1 .. m /\ c[j] = l[j]
      BY <2>0, <2>2, <3>1
    <3>2. CASE j - m \in 1 .. n /\ c[j] = k[j - m]
      <4>1. i - m = j - m
        BY <1>1, <1>7, <2>2, <3>2 DEF Once
      <4> QED
        BY <1>1, <4>1
    <3> QED
      BY <1>5, <3>1, <3>2
  <2> QED
    BY <1>5, <2>1, <2>2
<1> QED
  BY <1>6, <1>7 DEF c

LEMMA OneElement == \A x : Once(<<x>>) /\ Range(<<x>>) = {x}
BY DEF Once, Range

LEMMA NoElement == Once(<<>>) /\ Range(<<>>) = {}
BY DEF Once, Range

\* A list is its first element and the rest.
LEMMA HeadAndTail ==
  ASSUME NEW list \in Seq(Element), list # <<>>
  PROVE  list = <<Head(list)>> \o Tail(list) /\ Tail(list) \in Seq(Element)
         /\ <<Head(list)>> \in Seq(Element)
<1>1. Len(list) \in Nat \ {0}
  BY EmptySeq
<1>2. 1 \in 1 .. Len(list) /\ Len(list) \in 1 .. Len(list)
  BY <1>1
<1>3. SubSeq(list, 1, Len(list)) = <<list[1]>> \o SubSeq(list, 1 + 1, Len(list))
  BY <1>2, SubSeqRecursiveFirst
<1>4. SubSeq(list, 1, Len(list)) = list
  BY SubSeqFull
<1>5. Tail(list) = SubSeq(list, 2, Len(list)) /\ Head(list) = list[1]
  BY TailIsSubSeq
<1>6. 1 + 1 = 2
  OBVIOUS
<1>7. Tail(list) \in Seq(Element) /\ Head(list) \in Element
  BY HeadTailProperties
<1> QED
  BY <1>3, <1>4, <1>5, <1>6, <1>7

\* What is left of a list without its first element.
LEMMA AfterOnce ==
  ASSUME NEW list \in Seq(Element), NEW d, Once(list)
  PROVE  Once(After(list, d))
<1>1. CASE list # <<>> /\ Head(list) = d
  <2>1. list = <<Head(list)>> \o Tail(list) /\ Tail(list) \in Seq(Element)
         /\ <<Head(list)>> \in Seq(Element)
    BY <1>1, HeadAndTail
  <2>2. Once(<<Head(list)>> \o Tail(list))
    BY <2>1
  <2>3. Once(Tail(list))
    BY <2>1, <2>2, OnceConcat
  <2> QED
    BY <1>1, <2>3 DEF After
<1>2. CASE ~(list # <<>> /\ Head(list) = d)
  BY <1>2 DEF After
<1> QED
  BY <1>1, <1>2

LEMMA AfterAbsent ==
  ASSUME NEW list \in Seq(Element), NEW d, d \notin Range(list)
  PROVE  After(list, d) = list
<1>1. list # <<>> => Head(list) \in Range(list)
  <2> SUFFICES ASSUME list # <<>> PROVE Head(list) \in Range(list)
    OBVIOUS
  <2>1. Len(list) \in Nat \ {0} /\ DOMAIN list = 1 .. Len(list)
    BY EmptySeq, LenProperties
  <2>2. 1 \in DOMAIN list /\ Head(list) = list[1]
    BY <2>1
  <2> QED
    BY <2>2 DEF Range
<1> QED
  BY <1>1 DEF After

-----------------------------------------------------------------------------
(* The order, in terms of the lists that are kept, the active request, what *)
(* is sent, how far the scripts are, and who is started.  The requests from *)
(* the main one down to the active one are the line, and each has its first *)
(* place in the output.                                                     *)
Shape(post, act, w, a, started) ==
    /\ post \in [Request -> Seq(Element)] /\ act \in Request /\ w \in Seq(Part)
    /\ a \in [Request -> Nat \ {0}] /\ \A r \in Request : a[r] <= Len(Script[r]) + 1
    /\ started \in SUBSET Request
    /\ \A r \in Request \ started : a[r] = 1 /\ post[r] = <<>>

\* What is kept in a list, the subrequests of the one whose list it is, each once.
Lists(post, started) ==
    \A r \in Request :
        /\ Once(post[r])
        /\ \A s \in Range(post[r]) \cap Sub : Parent(s) = r /\ s \in started

\* From the main request down to the active one, one below the other.
Line(C, act, started) ==
    /\ C \in SUBSET started /\ Main \in C /\ act \in C
    /\ \A c \in C \ {Main} : Parent(c) \in C /\ Parent(c) # act
    /\ \A c, d \in C \ {Main} : Parent(c) = Parent(d) => c = d

\* What a request of the line sends is a stretch of what is to be sent.
Places(C, B) ==
    /\ B \in [Request -> Seq(Part)] /\ B[Main] = <<>>
    /\ \A c \in C : Opens(B[c] \o Flat[c])

\* What the active request has sent and kept is what its script has come to.
Sent(B, post, act, w, a) == w \o Cat(post[act]) = B[act] \o Begin(act, a[act] - 1)

\* Above it: what follows the subrequest that is under way is kept.
Above(C, B, post, a) ==
    \A d \in C \ {Main} :
        /\ d \notin Range(After(post[Parent(d)], d))
        /\ (B[d] \o Flat[d]) \o Cat(After(post[Parent(d)], d))
                = B[Parent(d)] \o Begin(Parent(d), a[Parent(d)] - 1)

\* Those whose turn has not come keep all they have.
Aside(C, post, a) ==
    \A c \in Sub \ C : c \in Range(post[Parent(c)]) => Cat(post[c]) = Begin(c, a[c] - 1)

\* All of it, for a line C and the places B in the output where its requests begin.
Ordered(C, B, post, act, w, a, started) ==
    /\ Shape(post, act, w, a, started)
    /\ Lists(post, started)
    /\ Line(C, act, started)
    /\ Places(C, B)
    /\ Sent(B, post, act, w, a)
    /\ Above(C, B, post, a)
    /\ Aside(C, post, a)

-----------------------------------------------------------------------------
\* The operations on lists and places, each for the parameters of Ordered: a list grows,

LEMMA SubIsRequest == Sub \subseteq Request /\ Main \in Request /\ Main \notin Sub
BY ScriptAssumption DEF Request

\* What the parts of the invariant say of one request.
Facts(C, B, post, a) ==
    /\ \A r \in Request : /\ a[r] - 1 \in 0 .. Len(Script[r]) /\ a[r] \in Nat \ {0}
                          /\ Begin(r, a[r] - 1) \in Seq(Part)
                          /\ post[r] \in Seq(Element) /\ Cat(post[r]) \in Seq(Part)
                          /\ B[r] \in Seq(Part) /\ Flat[r] \in Seq(Part)
                          /\ B[r] \o Flat[r] \in Seq(Part)
    /\ C \in SUBSET Request
    /\ \A d \in C \ {Main} : d \in Sub /\ Parent(d) \in Request /\ Parent(d) # d
                             /\ Parent(d) \in C

\* The types that follow from the order.
LEMMA OrderedFacts ==
  ASSUME NEW C, NEW B, NEW post, NEW act, NEW w, NEW a, NEW started,
         Ordered(C, B, post, act, w, a, started)
  PROVE  Facts(C, B, post, a)
<1> USE DEF Ordered
<1>1. \A r \in Request : a[r] - 1 \in 0 .. Len(Script[r]) /\ a[r] \in Nat \ {0}
  BY ScriptType DEF Shape
<1>2. \A r \in Request : Begin(r, a[r] - 1) \in Seq(Part)
  BY <1>1, BeginType
<1>3. \A r \in Request : post[r] \in Seq(Element) /\ Cat(post[r]) \in Seq(Part)
  BY CatType DEF Shape
<1>4. \A r \in Request : B[r] \in Seq(Part) /\ Flat[r] \in Seq(Part)
  BY FlatIsCat DEF Places
<1>5. \A r \in Request : B[r] \o Flat[r] \in Seq(Part)
  BY <1>4, ConcatType
<1>6. C \in SUBSET Request
  BY DEF Line, Shape
<1>7. ASSUME NEW d \in C \ {Main}
      PROVE  d \in Sub /\ Parent(d) \in Request /\ Parent(d) # d /\ Parent(d) \in C
  <2>1. d \in Sub
    BY <1>6 DEF Request
  <2>2. Parent(d) \in Request /\ Parent(d) \in C
    BY <2>1, ParentType DEF Line
  <2>3. Parent(d) # d
    <3> SUFFICES ASSUME Parent(d) = d PROVE FALSE
      OBVIOUS
    <3>1. PICK depth \in [Request -> 0 .. Cardinality(Sub)] :
              \A r \in Request, s \in Sub : s \in Range(Script[r]) => depth[s] > depth[r]
      BY ScriptAssumption
    <3>2. d \in Range(Script[Parent(d)])
      <4>1. PICK r \in Request : \E i \in DOMAIN Script[r] : Script[r][i] = d
        BY <2>1, ScriptAssumption
      <4>2. d \in Range(Script[r])
        BY <4>1 DEF Range
      <4> QED
        BY <4>2 DEF Parent
    <3>3. depth[d] > depth[d] /\ depth[d] \in 0 .. Cardinality(Sub)
      BY <2>1, <2>2, <3>1, <3>2
    <3>4. Cardinality(Sub) \in Nat
      BY ScriptAssumption, FS_CardinalityType
    <3> QED
      BY <3>3, <3>4
  <2> QED
    BY <2>1, <2>2, <2>3
<1> QED
  BY <1>1, <1>2, <1>3, <1>4, <1>5, <1>6, <1>7 DEF Facts

\* A request that is started comes further in its script: what it comes to is added to
\* what it keeps, a subrequest when it is started.
LEMMA OrderGrows ==
  ASSUME NEW C, NEW B, NEW post, NEW act, NEW w, NEW a, NEW started,
         Ordered(C, B, post, act, w, a, started),
         NEW r \in started, NEW in \in Seq(Element), NEW k \in 1 .. (Len(Script[r]) + 1),
         NEW more \in SUBSET Request, started \subseteq more, Once(in),
         \A s \in Range(in) \cap Sub : Parent(s) = r /\ s \in more /\ s \notin started,
         Begin(r, k - 1) = Begin(r, a[r] - 1) \o Cat(in)
  PROVE  Ordered(C, B, [post EXCEPT ![r] = post[r] \o in], act, w, [a EXCEPT ![r] = k], more)
<1> DEFINE post2 == [post EXCEPT ![r] = post[r] \o in]
           a2 == [a EXCEPT ![r] = k]
<1>0. r \in Request /\ k \in Nat \ {0} /\ k <= Len(Script[r]) + 1 /\ Cat(in) \in Seq(Part)
  BY ScriptType, CatType DEF Ordered, Shape
<1>1. post[r] \in Seq(Element) /\ post[r] \o in \in Seq(Element)
  BY <1>0, ConcatProperties DEF Ordered, Shape
<1>2. /\ post \in [Request -> Seq(Element)] /\ a \in [Request -> Nat \ {0}]
      /\ post2 \in [Request -> Seq(Element)] /\ a2 \in [Request -> Nat \ {0}]
      /\ post2[r] = post[r] \o in /\ a2[r] = k
      /\ \A q \in Request : q # r => post2[q] = post[q] /\ a2[q] = a[q]
  BY <1>0, <1>1 DEF Ordered, Shape
<1> HIDE DEF post2, a2
<1>3. Range(post2[r]) = Range(post[r]) \cup Range(in)
  BY <1>1, <1>2, ConcatRange
<1>4. Cat(post2[r]) = Cat(post[r]) \o Cat(in) /\ Cat(post[r]) \in Seq(Part)
  BY <1>1, <1>2, CatConcat, CatType
<1>5. \A c \in C : c \notin Range(in) \/ c \notin Sub
  BY DEF Ordered, Line
<1>6. Shape(post2, act, w, a2, more)
  <2>1. \A q \in Request : a2[q] <= Len(Script[q]) + 1
    BY <1>0, <1>2 DEF Ordered, Shape
  <2>2. \A q \in Request \ more : a2[q] = 1 /\ post2[q] = <<>>
    BY <1>2 DEF Ordered, Shape
  <2> QED
    BY <1>2, <2>1, <2>2 DEF Ordered, Shape
<1>7. Lists(post2, more)
  <2> SUFFICES ASSUME NEW q \in Request
               PROVE  /\ Once(post2[q])
                      /\ \A s \in Range(post2[q]) \cap Sub : Parent(s) = q /\ s \in more
    BY DEF Lists
  <2>1. CASE q # r
    BY <1>2, <2>1 DEF Ordered, Lists
  <2>2. CASE q = r
    <3>1. /\ Once(post[r])
          /\ \A s \in Range(post[r]) \cap Sub : Parent(s) = r /\ s \in started
      BY <1>0 DEF Ordered, Lists
    <3>2. (Range(post[r]) \cap Range(in)) \cap Sub = {}
      BY <3>1
    <3>3. Once(post[r] \o in)
      BY <1>1, <3>1, <3>2, OnceConcat
    <3> QED
      BY <1>2, <1>3, <2>2, <3>1, <3>3
  <2> QED
    BY <2>1, <2>2
<1>8. Line(C, act, more)
  BY DEF Ordered, Line
<1>9. /\ Places(C, B) /\ C \in SUBSET Request /\ act \in Request /\ w \in Seq(Part)
      /\ \A q \in Request : B[q] \in Seq(Part) /\ B[q] \o Flat[q] \in Seq(Part)
                            /\ Begin(q, a[q] - 1) \in Seq(Part)
      /\ \A d \in C \ {Main} : d \in Sub /\ Parent(d) \in Request
  <2>1. Facts(C, B, post, a)
    BY OrderedFacts
  <2> QED
    BY <2>1 DEF Ordered, Shape, Facts
<1>10. Sent(B, post2, act, w, a2)
  <2>1. w \o Cat(post[act]) = B[act] \o Begin(act, a[act] - 1)
    BY DEF Ordered, Sent
  <2>2. CASE act # r
    BY <1>2, <1>9, <2>1, <2>2 DEF Sent
  <2>3. CASE act = r
    <3>0. Same(w, Cat(post[r]), B[r], Begin(r, a[r] - 1))
      BY <2>1, <2>3, Zenon DEF Same
    <3>a. Same(w, Cat(post[r]) \o Cat(in), B[r], Begin(r, a[r] - 1) \o Cat(in))
      BY <1>0, <1>4, <1>9, <3>0, BothGrow, Zenon
    <3>1. w \o (Cat(post[r]) \o Cat(in)) = B[r] \o (Begin(r, a[r] - 1) \o Cat(in))
      BY <3>a, Zenon DEF Same
    <3> QED
      BY <1>2, <1>4, <2>3, <3>1 DEF Sent
  <2> QED
    BY <2>2, <2>3
<1>11. Above(C, B, post2, a2)
  <2> SUFFICES ASSUME NEW d \in C \ {Main}
               PROVE  /\ d \notin Range(After(post2[Parent(d)], d))
                      /\ (B[d] \o Flat[d]) \o Cat(After(post2[Parent(d)], d))
                            = B[Parent(d)] \o Begin(Parent(d), a2[Parent(d)] - 1)
    BY DEF Above
  <2>1. /\ d \notin Range(After(post[Parent(d)], d))
        /\ (B[d] \o Flat[d]) \o Cat(After(post[Parent(d)], d))
                = B[Parent(d)] \o Begin(Parent(d), a[Parent(d)] - 1)
    BY DEF Ordered, Above
  <2>2. CASE Parent(d) # r
    BY <1>2, <1>9, <2>1, <2>2
  <2>3. CASE Parent(d) = r
    <3>1. d \notin Range(in)
      BY <1>5, <1>9
    <3>2. After(post2[r], d) = After(post[r], d) \o in /\ After(post[r], d) \in Seq(Element)
      <4>1. After(post[r] \o in, d) = After(post[r], d) \o in
        BY <1>1, <3>1, AfterConcat, Zenon
      <4>2. After(post[r], d) \in Seq(Element)
        BY <1>1, AfterType, Zenon
      <4> QED
        BY <1>2, <4>1, <4>2, Zenon
    <3>3. Range(After(post2[r], d)) = Range(After(post[r], d)) \cup Range(in)
      BY <3>2, ConcatRange
    <3>4. Cat(After(post2[r], d)) = Cat(After(post[r], d)) \o Cat(in)
          /\ Cat(After(post[r], d)) \in Seq(Part)
      BY <3>2, CatConcat, CatType
    <3> DEFINE x == B[d] \o Flat[d]
               y == Cat(After(post[r], d))
    <3>5. x \in Seq(Part) /\ y \in Seq(Part) /\ x \o y = B[r] \o Begin(r, a[r] - 1)
      BY <1>9, <2>1, <2>3, <3>4
    <3> HIDE DEF x, y
    <3>a. Same(x, y, B[r], Begin(r, a[r] - 1))
      BY <3>5, Zenon DEF Same
    <3>b. Same(x, y \o Cat(in), B[r], Begin(r, a[r] - 1) \o Cat(in))
      BY <1>0, <1>9, <3>5, <3>a, BothGrow, Zenon
    <3>6. x \o (y \o Cat(in)) = B[r] \o (Begin(r, a[r] - 1) \o Cat(in))
      BY <3>b, Zenon DEF Same
    <3> QED
      BY <1>2, <2>1, <2>3, <3>1, <3>3, <3>4, <3>6 DEF x, y
  <2> QED
    BY <2>2, <2>3
<1>12. Aside(C, post2, a2)
  <2> SUFFICES ASSUME NEW c \in Sub \ C, c \in Range(post2[Parent(c)])
               PROVE  Cat(post2[c]) = Begin(c, a2[c] - 1)
    BY DEF Aside
  <2>1. c \in Request /\ Parent(c) \in Request
    BY SubIsRequest, ParentType
  <2>2. CASE c \in Range(post[Parent(c)])
    <3>1. Cat(post[c]) = Begin(c, a[c] - 1)
      BY <2>2 DEF Ordered, Aside
    <3>2. CASE c # r
      BY <1>2, <2>1, <3>1, <3>2
    <3>3. CASE c = r
      BY <1>2, <1>4, <3>1, <3>3
    <3> QED
      BY <3>2, <3>3
  <2>3. CASE c \notin Range(post[Parent(c)])
    <3>1. Parent(c) = r /\ c \in Range(in)
      BY <1>2, <1>3, <2>1, <2>3
    <3>2. c \notin started /\ c # r
      BY <3>1
    <3>3. post[c] = <<>> /\ a[c] = 1
      BY <2>1, <3>2 DEF Ordered, Shape
    <3>4. post2[c] = <<>> /\ a2[c] - 1 = 0
      BY <1>2, <2>1, <3>2, <3>3
    <3> QED
      BY <2>1, <3>4, CatEmpty, BeginNone
  <2> QED
    BY <2>2, <2>3
<1> QED
  BY <1>6, <1>7, <1>8, <1>9, <1>10, <1>11, <1>12 DEF Ordered, post2, a2

-----------------------------------------------------------------------------
\* the active request sends what is not held back, a subrequest becomes the active one,

\* The active request has no subrequest to wait for: it sends all it kept.
LEMMA OrderSends ==
  ASSUME NEW C, NEW B, NEW post, NEW act, NEW w, NEW a, NEW started,
         Ordered(C, B, post, act, w, a, started), Range(post[act]) \cap Sub = {}
  PROVE  Ordered(C, B, [post EXCEPT ![act] = <<>>], act, w \o post[act], a, started)
<1> DEFINE post2 == [post EXCEPT ![act] = <<>>]
           w2 == w \o post[act]
<1>0. act \in Request /\ w \in Seq(Part) /\ post \in [Request -> Seq(Element)] /\ act \in C
  BY DEF Ordered, Shape, Line
<1>1. post[act] \in Seq(Part) /\ Cat(post[act]) = post[act]
  <2>1. post[act] \in Seq(Element) /\ DOMAIN post[act] = 1 .. Len(post[act])
    BY <1>0, LenProperties
  <2>2. \A i \in 1 .. Len(post[act]) : post[act][i] \notin Sub
    BY <2>1 DEF Range
  <2> QED
    BY <2>1, <2>2, CatParts
<1>2. /\ post2 \in [Request -> Seq(Element)] /\ post2[act] = <<>>
      /\ \A q \in Request : q # act => post2[q] = post[q]
  BY <1>0, EmptySeq
<1>3. w2 \in Seq(Part)
  BY <1>0, <1>1, ConcatType
<1>4. w2 = w \o Cat(post[act])
  BY <1>1
<1> HIDE DEF post2, w2
<1>5. Shape(post2, act, w2, a, started)
  BY <1>2, <1>3 DEF Ordered, Shape
<1>6. Lists(post2, started)
  <2> SUFFICES ASSUME NEW q \in Request
               PROVE  /\ Once(post2[q])
                      /\ \A s \in Range(post2[q]) \cap Sub : Parent(s) = q /\ s \in started
    BY DEF Lists
  <2>1. CASE q # act
    BY <1>2, <2>1 DEF Ordered, Lists
  <2>2. CASE q = act
    BY <1>2, <2>2, NoElement
  <2> QED
    BY <2>1, <2>2
<1>f. Facts(C, B, post, a)
  BY OrderedFacts
<1>7. Sent(B, post2, act, w2, a)
  <2>1. w2 \o <<>> = w2
    BY <1>3, ConcatEmptySeq
  <2>2. w \o Cat(post[act]) = B[act] \o Begin(act, a[act] - 1)
    BY DEF Ordered, Sent
  <2> QED
    BY <1>2, <1>4, <2>1, <2>2, CatEmpty DEF Sent
<1>8. Above(C, B, post2, a)
  <2>1. \A d \in C \ {Main} : post2[Parent(d)] = post[Parent(d)]
    BY <1>2, <1>f DEF Ordered, Line, Facts
  <2> QED
    BY <2>1 DEF Ordered, Above
<1>9. Aside(C, post2, a)
  <2> SUFFICES ASSUME NEW c \in Sub \ C, c \in Range(post2[Parent(c)])
               PROVE  Cat(post2[c]) = Begin(c, a[c] - 1)
    BY DEF Aside
  <2>1. c \in Request /\ Parent(c) \in Request /\ c # act
    BY <1>0, SubIsRequest, ParentType
  <2>2. c \in Range(post[Parent(c)])
    BY <1>2, <2>1, NoElement
  <2> QED
    BY <1>2, <2>1, <2>2 DEF Ordered, Aside
<1> QED
  BY <1>5, <1>6, <1>7, <1>8, <1>9 DEF Ordered, post2, w2

\* A list with a subrequest in it.
Around(list, before, s, after) ==
    /\ list \in Seq(Element)
    /\ Range(list) = Range(before) \cup ({s} \cup Range(after))
    /\ Once(list) => s \notin Range(after) /\ Once(after)
    /\ Cat(list) = Cat(before) \o (Flat[s] \o Cat(after))

\* A list around a subrequest, taken apart.
LEMMA AroundOne ==
  ASSUME NEW before \in Seq(Element), NEW s \in Sub, NEW after \in Seq(Element)
  PROVE  Around(before \o (<<s>> \o after), before, s, after)
<1> DEFINE one == <<s>>
           most == one \o after
<1>1. s \in Element /\ s \in Request
  BY SubIsRequest DEF Element
<1>2. /\ one \in Seq(Element) /\ Once(one) /\ Range(one) = {s}
      /\ Cat(one) = Flat[s]
  BY <1>1, CatOne, OneElement DEF Piece
<1> HIDE DEF one
<1>3. /\ most \in Seq(Element) /\ Range(most) = Range(one) \cup Range(after)
      /\ Cat(most) = Cat(one) \o Cat(after)
      /\ Once(most) => Once(after) /\ (Range(one) \cap Range(after)) \cap Sub = {}
  <2>1. most \in Seq(Element)
    BY <1>2, ConcatType
  <2>2. Range(most) = Range(one) \cup Range(after)
    BY <1>2, ConcatRange
  <2>3. Cat(most) = Cat(one) \o Cat(after)
    BY <1>2, CatConcat
  <2>4. Once(most) => Once(after) /\ (Range(one) \cap Range(after)) \cap Sub = {}
    BY <1>2, OnceConcat
  <2> QED
    BY <2>1, <2>2, <2>3, <2>4
<1> HIDE DEF most
<1>4. /\ before \o most \in Seq(Element) /\ Range(before \o most) = Range(before) \cup Range(most)
      /\ Cat(before \o most) = Cat(before) \o Cat(most)
      /\ Once(before \o most) => Once(most)
  <2>1. before \o most \in Seq(Element)
    BY <1>3, ConcatType
  <2>2. Range(before \o most) = Range(before) \cup Range(most)
    BY <1>3, ConcatRange
  <2>3. Cat(before \o most) = Cat(before) \o Cat(most)
    BY <1>3, CatConcat
  <2>4. Once(before \o most) => Once(most)
    BY <1>3, OnceConcat
  <2> QED
    BY <2>1, <2>2, <2>3, <2>4
<1>5. Around(before \o most, before, s, after)
  <2>1. Once(before \o most) => s \notin Range(after) /\ Once(after)
    BY <1>2, <1>3, <1>4
  <2>2. Cat(before \o most) = Cat(before) \o (Flat[s] \o Cat(after))
    BY <1>2, <1>3, <1>4
  <2> QED
    BY <1>2, <1>3, <1>4, <2>1, <2>2 DEF Around
<1> QED
  BY <1>5 DEF most, one

\* The active request comes to a subrequest, which is active from then on.
LEMMA OrderEnters ==
  ASSUME NEW C, NEW B, NEW post, NEW act, NEW w, NEW a, NEW started,
         Ordered(C, B, post, act, w, a, started),
         NEW before \in Seq(Element), NEW s \in Sub, NEW after \in Seq(Element),
         NEW list \in Seq(Element),
         Around(post[act], before, s, after), Range(before) \cap Sub = {},
         After(list, s) = after, Once(list), Range(list) \subseteq Range(post[act])
  PROVE  Ordered(C \cup {s}, [B EXCEPT ![s] = w \o before], [post EXCEPT ![act] = list], s,
                 w \o before, a, started)
<1> DEFINE post2 == [post EXCEPT ![act] = list]
           w2 == w \o before
           B2 == [B EXCEPT ![s] = w2]
           C2 == C \cup {s}
<1>f. Facts(C, B, post, a)
  BY OrderedFacts
<1>0. /\ act \in Request /\ w \in Seq(Part) /\ post \in [Request -> Seq(Element)] /\ act \in C
      /\ B \in [Request -> Seq(Part)] /\ s \in Request /\ s # Main /\ C \in SUBSET Request
      /\ a \in [Request -> Nat \ {0}]
  BY <1>f, SubIsRequest DEF Ordered, Shape, Line, Places, Facts
<1>1. before \in Seq(Part) /\ Cat(before) = before
  <2>1. DOMAIN before = 1 .. Len(before)
    BY LenProperties
  <2>2. \A i \in 1 .. Len(before) : before[i] \notin Sub
    BY <2>1 DEF Range
  <2> QED
    BY <2>2, CatParts
<1>3. s \in Range(post[act])
  BY DEF Around
<1>4. s \notin Range(after)
  BY <1>0 DEF Around, Ordered, Lists
<1>5. Parent(s) = act /\ s \in started
  BY <1>0, <1>3 DEF Ordered, Lists
<1>6. s \notin C /\ s # act
  BY <1>0, <1>5 DEF Ordered, Line
<1>7. w2 \in Seq(Part)
  BY <1>0, <1>1, ConcatType
<1>8. /\ post2 \in [Request -> Seq(Element)] /\ post2[act] = list
      /\ \A q \in Request : q # act => post2[q] = post[q]
  BY <1>0
<1> HIDE DEF w2
<1>9. /\ B2 \in [Request -> Seq(Part)] /\ B2[s] = w2
      /\ \A q \in Request : q # s => B2[q] = B[q]
  BY <1>0, <1>7
<1> HIDE DEF post2, B2
<1>10. Shape(post2, s, w2, a, started)
  <2>1. \A r \in Request \ started : a[r] = 1 /\ post2[r] = <<>>
    BY <1>0, <1>8 DEF Ordered, Shape, Line
  <2> QED
    BY <1>0, <1>7, <1>8, <2>1 DEF Ordered, Shape
<1>11. Lists(post2, started)
  <2> SUFFICES ASSUME NEW q \in Request
               PROVE  /\ Once(post2[q])
                      /\ \A x \in Range(post2[q]) \cap Sub : Parent(x) = q /\ x \in started
    BY DEF Lists
  <2>1. CASE q # act
    BY <1>8, <2>1 DEF Ordered, Lists
  <2>2. CASE q = act
    BY <1>8, <2>2 DEF Ordered, Lists
  <2> QED
    BY <2>1, <2>2
<1>12. Line(C2, s, started)
  BY <1>0, <1>5, <1>6 DEF Ordered, Line
<1>13. (w2 \o Flat[s]) \o Cat(after) = B[act] \o Begin(act, a[act] - 1)
       /\ w2 \o Flat[s] \in Seq(Part) /\ Cat(after) \in Seq(Part)
  <2>1. Flat[s] \in Seq(Part) /\ Cat(after) \in Seq(Part)
    BY <1>0, CatType, FlatIsCat
  <2>3. Cat(post[act]) = before \o (Flat[s] \o Cat(after))
    BY <1>1 DEF Around
  <2>4. w \o Cat(post[act]) = B[act] \o Begin(act, a[act] - 1)
    BY DEF Ordered, Sent
  <2>5. Split(w, before, Flat[s], Cat(after))
    BY <1>0, <1>1, <2>1, ConcatSplit, Zenon
  <2>6. w \o (before \o (Flat[s] \o Cat(after))) = (w2 \o Flat[s]) \o Cat(after)
    BY <2>5, Zenon DEF Split, w2
  <2>7. w2 \o Flat[s] \in Seq(Part)
    BY <1>7, <2>1, ConcatType
  <2> QED
    BY <2>1, <2>3, <2>4, <2>6, <2>7, Zenon
<1>14. Places(C2, B2)
  <2>1. Opens(w2 \o Flat[s])
    <3>1. PICK t \in Seq(Part) : Flat[act] = Begin(act, a[act] - 1) \o t
      BY <1>0, <1>f, BeginRest DEF Facts
    <3>2. Opens(B[act] \o Flat[act])
      BY <1>0 DEF Ordered, Places
    <3>3. Opens(B[act] \o (Begin(act, a[act] - 1) \o t))
      BY <3>1, <3>2, Zenon
    <3>4. Same(w2 \o Flat[s], Cat(after), B[act], Begin(act, a[act] - 1))
      BY <1>13, Zenon DEF Same
    <3>5. B[act] \in Seq(Part) /\ Begin(act, a[act] - 1) \in Seq(Part)
      BY <1>0, <1>f DEF Facts
    <3> QED
      BY <1>13, <3>3, <3>4, <3>5, OpensLess, Zenon
  <2>2. \A c \in C2 : Opens(B2[c] \o Flat[c])
    <3> SUFFICES ASSUME NEW c \in C2 PROVE Opens(B2[c] \o Flat[c])
      OBVIOUS
    <3>1. CASE c = s
      BY <1>9, <2>1, <3>1
    <3>2. CASE c # s
      <4>1. c \in C /\ B2[c] = B[c]
        BY <1>0, <1>9, <3>2
      <4> QED
        BY <4>1 DEF Ordered, Places
    <3> QED
      BY <3>1, <3>2
  <2>3. B2[Main] = <<>>
    BY <1>0, <1>9, SubIsRequest DEF Ordered, Places
  <2> QED
    BY <1>9, <2>2, <2>3 DEF Places
<1>15. Sent(B2, post2, s, w2, a)
  <2>1. Cat(post[s]) = Begin(s, a[s] - 1)
    BY <1>3, <1>5, <1>6 DEF Ordered, Aside
  <2> QED
    BY <1>0, <1>6, <1>8, <1>9, <2>1 DEF Sent
<1>16. Above(C2, B2, post2, a)
  <2> SUFFICES ASSUME NEW d \in C2 \ {Main}
               PROVE  /\ d \notin Range(After(post2[Parent(d)], d))
                      /\ (B2[d] \o Flat[d]) \o Cat(After(post2[Parent(d)], d))
                            = B2[Parent(d)] \o Begin(Parent(d), a[Parent(d)] - 1)
    BY DEF Above
  <2>1. CASE d = s
    <3>1. post2[Parent(d)] = list /\ B2[d] = w2 /\ B2[Parent(d)] = B[act] /\ Parent(d) = act
      BY <1>0, <1>5, <1>6, <1>8, <1>9, <2>1
    <3> QED
      BY <1>4, <1>13, <2>1, <3>1
  <2>2. CASE d # s
    <3>1. d \in C \ {Main} /\ d \in Request
      BY <1>0, <2>2
    <3>2. Parent(d) \in Request /\ Parent(d) # act /\ Parent(d) # s
      BY <1>6, <1>f, <3>1 DEF Facts, Ordered, Line
    <3>3. post2[Parent(d)] = post[Parent(d)] /\ B2[d] = B[d] /\ B2[Parent(d)] = B[Parent(d)]
      BY <1>8, <1>9, <2>2, <3>1, <3>2
    <3>4. /\ d \notin Range(After(post[Parent(d)], d))
          /\ (B[d] \o Flat[d]) \o Cat(After(post[Parent(d)], d))
                = B[Parent(d)] \o Begin(Parent(d), a[Parent(d)] - 1)
      BY <3>1 DEF Ordered, Above
    <3> QED
      BY <3>3, <3>4
  <2> QED
    BY <2>1, <2>2
<1>17. Aside(C2, post2, a)
  <2> SUFFICES ASSUME NEW c \in Sub \ C2, c \in Range(post2[Parent(c)])
               PROVE  Cat(post2[c]) = Begin(c, a[c] - 1)
    BY DEF Aside
  <2>1. c \in Request /\ Parent(c) \in Request /\ c # act /\ c \notin C
    BY <1>0, SubIsRequest, ParentType
  <2>2. c \in Range(post[Parent(c)])
    BY <1>8, <2>1
  <2> QED
    BY <1>8, <2>1, <2>2 DEF Ordered, Aside
<1> QED
  BY <1>10, <1>11, <1>12, <1>14, <1>15, <1>16, <1>17 DEF Ordered, post2, B2, w2

-----------------------------------------------------------------------------
\* and the one that started it becomes the active one again.

\* The active subrequest has sent all of its script: the one that started it goes on.
LEMMA OrderReturns ==
  ASSUME NEW C, NEW B, NEW post, NEW act, NEW w, NEW a, NEW started,
         Ordered(C, B, post, act, w, a, started), act # Main, post[act] = <<>>,
         a[act] > Len(Script[act])
  PROVE  Ordered(C \ {act}, B, [post EXCEPT ![Parent(act)] = After(post[Parent(act)], act)],
                 Parent(act), w, a, started)
<1> DEFINE p == Parent(act)
           rest == After(post[p], act)
           post2 == [post EXCEPT ![p] = rest]
           C2 == C \ {act}
<1>f. Facts(C, B, post, a)
  BY OrderedFacts
<1>0. /\ act \in Request /\ w \in Seq(Part) /\ post \in [Request -> Seq(Element)] /\ act \in C
      /\ act \in C \ {Main} /\ C \in SUBSET Request
  BY <1>f DEF Ordered, Shape, Line, Facts
<1>1. p \in Request /\ p # act /\ act \in Sub /\ p \in C
  BY <1>0, <1>f DEF Facts
<1>2. rest \in Seq(Element) /\ Range(rest) \subseteq Range(post[p]) /\ Once(rest)
  <2>1. post[p] \in Seq(Element) /\ Once(post[p])
    BY <1>0, <1>1 DEF Ordered, Lists
  <2> QED
    BY <2>1, AfterType, AfterOnce
<1>3. /\ act \notin Range(rest)
      /\ (B[act] \o Flat[act]) \o Cat(rest) = B[p] \o Begin(p, a[p] - 1)
  BY <1>0 DEF Ordered, Above
<1>4. w = B[act] \o Flat[act]
  <2>1. w \o Cat(post[act]) = B[act] \o Begin(act, a[act] - 1)
    BY DEF Ordered, Sent
  <2>2. w \o Cat(post[act]) = w
    BY <1>0, CatEmpty, ConcatEmptySeq
  <2>3. a[act] - 1 = Len(Script[act])
    BY <1>0, <1>f, ScriptType DEF Ordered, Shape, Facts
  <2> QED
    BY <1>0, <2>1, <2>2, <2>3, BeginAll
<1>5. \A d \in C2 \ {Main} : Parent(d) # p /\ Parent(d) \in C2 /\ Parent(d) \in Request
  BY <1>0, <1>f DEF Ordered, Line, Facts
<1> HIDE DEF p, rest
<1>6. /\ post2 \in [Request -> Seq(Element)] /\ post2[p] = rest
      /\ \A q \in Request : q # p => post2[q] = post[q]
  BY <1>0, <1>1, <1>2
<1> HIDE DEF post2
<1>7. Shape(post2, p, w, a, started)
  <2>1. \A r \in Request \ started : a[r] = 1 /\ post2[r] = <<>>
    BY <1>1, <1>6 DEF Ordered, Shape, Line
  <2> QED
    BY <1>1, <1>6, <2>1 DEF Ordered, Shape
<1>8. Lists(post2, started)
  <2> SUFFICES ASSUME NEW q \in Request
               PROVE  /\ Once(post2[q])
                      /\ \A x \in Range(post2[q]) \cap Sub : Parent(x) = q /\ x \in started
    BY DEF Lists
  <2>1. CASE q # p
    BY <1>6, <2>1 DEF Ordered, Lists
  <2>2. CASE q = p
    BY <1>2, <1>6, <2>2 DEF Ordered, Lists
  <2> QED
    BY <2>1, <2>2
<1>9. Line(C2, p, started)
  <2>1. C2 \in SUBSET started /\ Main \in C2 /\ p \in C2
    BY <1>1 DEF Ordered, Line
  <2>2. \A c, d \in C2 \ {Main} : Parent(c) = Parent(d) => c = d
    BY DEF Ordered, Line
  <2> QED
    BY <1>5, <2>1, <2>2 DEF Line
<1>10. Places(C2, B)
  BY DEF Ordered, Places
<1>11. Sent(B, post2, p, w, a)
  BY <1>3, <1>4, <1>6 DEF Sent
<1>12. Above(C2, B, post2, a)
  <2>1. \A d \in C2 \ {Main} : post2[Parent(d)] = post[Parent(d)]
    BY <1>5, <1>6
  <2> QED
    BY <2>1 DEF Ordered, Above
<1>13. Aside(C2, post2, a)
  <2> SUFFICES ASSUME NEW c \in Sub \ C2, c \in Range(post2[Parent(c)])
               PROVE  Cat(post2[c]) = Begin(c, a[c] - 1)
    BY DEF Aside
  <2>1. c \in Request /\ Parent(c) \in Request
    BY SubIsRequest, ParentType
  <2>2. c # act
    BY <1>3, <1>6 DEF p
  <2>3. c \notin C /\ c # p
    BY <1>1, <2>2
  <2>4. c \in Range(post[Parent(c)])
    BY <1>2, <1>6, <2>1
  <2> QED
    BY <1>6, <2>1, <2>3, <2>4 DEF Ordered, Aside
<1> QED
  BY <1>7, <1>8, <1>9, <1>10, <1>11, <1>12, <1>13 DEF Ordered, post2, p, rest

-----------------------------------------------------------------------------
\* The invariant for the state: some line and some places fit it.
InSomeOrder(post, act, w, a, started) == \E C, B : Ordered(C, B, post, act, w, a, started)

Started == {r \in Request : handler[r] # "none"}

OrderedNow == InSomeOrder(postponed, active, wire, at, Started)

\* A list up to its first subrequest, that subrequest, and the rest.
LEMMA FirstSub ==
  ASSUME NEW list \in Seq(Element), NEW i \in 1 .. Len(list), list[i] \in Sub,
         \A j \in 1 .. Len(list) : list[j] \in Sub => i <= j
  PROVE  /\ SubSeq(list, 1, i - 1) \in Seq(Element)
         /\ SubSeq(list, i + 1, Len(list)) \in Seq(Element)
         /\ Range(SubSeq(list, 1, i - 1)) \cap Sub = {}
         /\ list = SubSeq(list, 1, i - 1) \o (<<list[i]>> \o SubSeq(list, i + 1, Len(list)))
<1>1. Len(list) \in Nat /\ i \in Nat /\ \A j \in 1 .. Len(list) : list[j] \in Element
  BY LenProperties, ElementOfSeq
<1>2. /\ SubSeq(list, 1, i - 1) \in Seq(Element) /\ Len(SubSeq(list, 1, i - 1)) = i - 1
      /\ \A j \in 1 .. (i - 1) : SubSeq(list, 1, i - 1)[j] = list[j]
  <2>1. i - 1 \in Int /\ \A j \in 1 .. (i - 1) : list[j] \in Element
    BY <1>1
  <2>2. /\ SubSeq(list, 1, i - 1) \in Seq(Element)
        /\ Len(SubSeq(list, 1, i - 1)) = IF 1 <= i - 1 THEN (i - 1) - 1 + 1 ELSE 0
        /\ \A j \in 1 .. ((i - 1) - 1 + 1) : SubSeq(list, 1, i - 1)[j] = list[1 + j - 1]
    BY <2>1, SubSeqProperties
  <2>3. (i - 1) - 1 + 1 = i - 1
    BY <1>1
  <2>4. \A j \in 1 .. (i - 1) : 1 + j - 1 = j
    BY <1>1
  <2>5. \A j \in 1 .. (i - 1) : SubSeq(list, 1, i - 1)[j] = list[j]
    BY <2>2, <2>3, <2>4
  <2> QED
    BY <1>1, <2>2, <2>5
<1>3. SubSeq(list, i + 1, Len(list)) \in Seq(Element)
  <2>1. i + 1 \in Int /\ Len(list) \in Int /\ \A j \in (i + 1) .. Len(list) : list[j] \in Element
    BY <1>1
  <2> QED
    BY <2>1, SubSeqProperties
<1>4. Range(SubSeq(list, 1, i - 1)) \cap Sub = {}
  <2> DEFINE b == SubSeq(list, 1, i - 1)
  <2>1. DOMAIN b = 1 .. (i - 1)
    BY <1>2, LenProperties
  <2>2. \A j \in 1 .. (i - 1) : b[j] \notin Sub
    BY <1>1, <1>2
  <2> HIDE DEF b
  <2> QED
    BY <2>1, <2>2 DEF Range, b
<1>5. SubSeq(list, i, Len(list)) = <<list[i]>> \o SubSeq(list, i + 1, Len(list))
  <2>1. Len(list) \in i .. Len(list)
    BY <1>1
  <2> QED
    BY <2>1, SubSeqRecursiveFirst
<1>6. SubSeq(list, 1, i - 1) \o SubSeq(list, i, Len(list)) = list
  <2> DEFINE k == i - 1
  <2>1. k \in (1 - 1) .. Len(list) /\ Len(list) \in k .. Len(list) /\ 1 \in 1 .. (Len(list) + 1)
        /\ k + 1 = i
    BY <1>1
  <2> HIDE DEF k
  <2>2. SubSeq(list, 1, k) \o SubSeq(list, k + 1, Len(list)) = SubSeq(list, 1, Len(list))
    BY <2>1, ConcatAdjacentSubSeq
  <2> QED
    BY <2>1, <2>2, SubSeqFull DEF k
<1> QED
  BY <1>2, <1>3, <1>4, <1>5, <1>6

\* What the postpone filter does keeps the order.
LEMMA FilterOrder ==
  ASSUME Types, OrderedNow, NEW r \in Started, NEW in \in Seq(Element), Range(in) \cap Sub = {},
         NEW posts, PostponeFilter(r, in, posts), NEW k \in 1 .. (Len(Script[r]) + 1),
         at' = [at EXCEPT ![r] = k], Started' = Started,
         Begin(r, k - 1) = Begin(r, at[r] - 1) \o Cat(in)
  PROVE  OrderedNow'
<1> DEFINE list == postponed[r] \o in
           grown == [postponed EXCEPT ![r] = list]
           subs == {j \in DOMAIN list : list[j] \in Sub}
           i == CHOOSE j \in subs : \A l \in subs : j <= l
<1>0. r \in Request /\ postponed \in [Request -> Seq(Element)] /\ list \in Seq(Element)
  BY ConcatProperties DEF Started, Types
<1>1. PICK C, B : Ordered(C, B, postponed, active, wire, at, Started)
  BY Zenon DEF OrderedNow, InSomeOrder
<1>2. Once(in)
  BY DEF Once, Range
<1>3. Started \in SUBSET Request /\ Started \subseteq Started
  BY DEF Started
<1>4. Ordered(C, B, grown, active, wire, at', Started)
  BY <1>1, <1>2, <1>3, OrderGrows
<1>5. grown[r] = list /\ \A q \in Request : q # r => grown[q] = postponed[q]
  BY <1>0
<1>6. DOMAIN list = 1 .. Len(list) /\ Len(list) \in Nat
  BY <1>0, LenProperties
<1>7. CASE r # active
  <2>1. postponed' = grown /\ active' = active /\ wire' = wire
    BY <1>7, Zenon DEF PostponeFilter
  <2> QED
    BY <1>4, <2>1, Zenon DEF OrderedNow, InSomeOrder
<1>8. CASE r = active /\ subs = {}
  <2>1. postponed' = [postponed EXCEPT ![r] = <<>>] /\ active' = active /\ wire' = wire \o list
    BY <1>8, Zenon DEF PostponeFilter
  <2>2. Range(list) \cap Sub = {}
    BY <1>8 DEF Range
  <2> HIDE DEF list, grown
  <2>3. Ordered(C, B, [grown EXCEPT ![active] = <<>>], active, wire \o grown[active], at', Started)
    BY <1>4, <1>5, <1>8, <2>2, OrderSends
  <2>4. [grown EXCEPT ![active] = <<>>] = postponed'
    BY <1>0, <1>8, <2>1 DEF grown
  <2> QED
    BY <1>5, <1>8, <2>1, <2>3, <2>4 DEF OrderedNow, InSomeOrder
<1>9. CASE r = active /\ subs # {}
  <2>1. i \in subs /\ \A l \in subs : i <= l
    <3>1. subs \in SUBSET Nat
      BY <1>6
    <3> HIDE DEF subs
    <3> QED
      BY <1>9, <3>1, LeastExists
  <2>2. /\ postponed' = [postponed EXCEPT ![r] = SubSeq(list, i + 1, Len(list))]
        /\ active' = list[i] /\ wire' = wire \o SubSeq(list, 1, i - 1)
    BY <1>9, Zenon DEF PostponeFilter
  <2>3. i \in 1 .. Len(list) /\ list[i] \in Sub /\ \A j \in 1 .. Len(list) : list[j] \in Sub => i <= j
    BY <1>6, <2>1
  <2> HIDE DEF i, subs
  <2> DEFINE before == SubSeq(list, 1, i - 1)
             s == list[i]
             after == SubSeq(list, i + 1, Len(list))
  <2>4. /\ before \in Seq(Element) /\ after \in Seq(Element) /\ Range(before) \cap Sub = {}
        /\ list = before \o (<<s>> \o after) /\ s \in Sub
    <3> HIDE DEF list
    <3> QED
      BY <1>0, <2>3, FirstSub
  <2>5. /\ postponed' = [postponed EXCEPT ![r] = after]
        /\ active' = s /\ wire' = wire \o before
    BY <2>2
  <2> HIDE DEF before, s, after, list, grown
  <2>6. Around(list, before, s, after)
    BY <2>4, AroundOne
  <2>7. Once(list)
    BY <1>0, <1>4, <1>5 DEF Ordered, Lists
  <2>8. Once(after) /\ After(after, s) = after /\ Range(after) \subseteq Range(list)
    <3>1. Once(after) /\ s \notin Range(after) /\ Range(after) \subseteq Range(list)
      BY <2>6, <2>7 DEF Around
    <3> QED
      BY <2>4, <3>1, AfterAbsent
  <2>9. Around(grown[active], before, s, after) /\ Range(after) \subseteq Range(grown[active])
    BY <1>5, <1>9, <2>6, <2>8
  <2>10. Ordered(C \cup {s}, [B EXCEPT ![s] = wire \o before], [grown EXCEPT ![active] = after], s,
                 wire \o before, at', Started)
    BY <1>4, <2>4, <2>8, <2>9, OrderEnters
  <2>11. [grown EXCEPT ![active] = after] = postponed'
    BY <1>0, <1>9, <2>5 DEF grown
  <2> QED
    BY <2>5, <2>10, <2>11, Zenon DEF OrderedNow, InSomeOrder
<1> QED
  BY <1>7, <1>8, <1>9

-----------------------------------------------------------------------------
\* The invariant: the order, and what holds when a request has ended.

\* A request whose handler ends it has come to the end of its script, unless all is given up.
Ends ==
    InUse /\ ~error =>
        \A r \in Request : handler[r] \in {"writer", "finalizer"} => at[r] > Len(Script[r])

\* The main request is done when all is sent.
Finished ==
    /\ done \in [Request -> BOOLEAN]
    /\ done[Main] => /\ active = Main /\ handler[Main] \in {"gone", "terminate"}
                     /\ wire = Flat[Main]

OrderRest == OrderedNow /\ Ends /\ Finished

\* An action that leaves the lists, the output and the scripts alone.
LEMMA SameOrder ==
  ASSUME OrderedNow, UNCHANGED <<postponed, active, wire, at>>, Started' = Started
  PROVE  OrderedNow'
BY DEF OrderedNow

\* A script comes to a subrequest.
LEMMA SubrequestOrder ==
  ASSUME Types, Rest, OrderedNow, NEW r \in Request, at[r] <= Len(Script[r]),
         handler[r] = "produce",
         Script[r][at[r]] \in Sub, Subrequest(r, Script[r][at[r]]), at' = [at EXCEPT ![r] = @ + 1]
  PROVE  OrderedNow'
<1> DEFINE s == Script[r][at[r]]
           k == at[r] + 1
<1>0. /\ r \in Started /\ at[r] \in 1 .. Len(Script[r]) /\ at[r] \in DOMAIN Script[r]
      /\ k \in 1 .. (Len(Script[r]) + 1) /\ k - 1 = at[r]
      /\ postponed \in [Request -> Seq(Element)] /\ postponed[r] \in Seq(Element)
      /\ at' = [at EXCEPT ![r] = k]
  BY ScriptType DEF Started, Types
<1>1. /\ s \in Sub /\ s \in Request /\ s \in Element /\ <<s>> \in Seq(Element)
      /\ <<>> \in Seq(Element)
  BY SubIsRequest DEF Element
<1>2. handler[s] = "none" /\ Parent(s) = r
  <2>1. at[r] >= at[r]
    BY <1>0
  <2> QED
    BY <1>0, <1>1, <2>1, ParentOf DEF Rest, NotStarted
<1>3. Begin(r, k - 1) = Begin(r, at[r] - 1) \o Flat[s] /\ Begin(r, at[r] - 1) \in Seq(Part)
  <2>1. Begin(r, at[r]) = Begin(r, at[r] - 1) \o Piece(Flat, s)
    BY <1>0, BeginNext
  <2>2. at[r] - 1 \in 0 .. Len(Script[r])
    BY <1>0, ScriptType
  <2> QED
    BY <1>0, <1>1, <2>1, <2>2, BeginType DEF Piece
<1> DEFINE more == Started \cup {s}
<1>4. /\ handler' = [handler EXCEPT ![s] = "start"] /\ wire' = wire
      /\ s \in Background => active' = active /\ postponed' = postponed
      /\ s \notin Background =>
            /\ active' = IF active = r /\ postponed[r] = <<>> THEN s ELSE active
            /\ postponed' = [postponed EXCEPT ![r] = Append(postponed[r], s)]
  BY <1>0 DEF Subrequest
<1>5. Started' = more /\ s \notin Started /\ more \in SUBSET Request /\ Started \subseteq more
  <2> HIDE DEF s
  <2> QED
    BY <1>1, <1>2, <1>4 DEF Started, Types
<1>6. PICK C, B : Ordered(C, B, postponed, active, wire, at, Started)
  BY Zenon DEF OrderedNow, InSomeOrder
<1> HIDE DEF s, k, more
<1>7. CASE s \in Background
  <2>1. Flat[s] = <<>>
    BY <1>7, BackgroundSilent
  <2>2. Begin(r, k - 1) = Begin(r, at[r] - 1) \o Cat(<<>>)
    BY <1>3, <2>1, CatEmpty
  <2>3. [postponed EXCEPT ![r] = postponed[r] \o <<>>] = postponed'
    <3>1. postponed[r] \o <<>> = postponed[r]
      BY <1>0, ConcatEmptySeq
    <3> QED
      BY <1>0, <1>4, <1>7, <3>1
  <2>4. Once(<<>>) /\ \A x \in Range(<<>>) \cap Sub : Parent(x) = r /\ x \in more /\ x \notin Started
    BY NoElement
  <2>5. Ordered(C, B, [postponed EXCEPT ![r] = postponed[r] \o <<>>], active, wire,
                [at EXCEPT ![r] = k], more)
    BY <1>0, <1>1, <1>5, <1>6, <2>2, <2>4, OrderGrows
  <2>6. Ordered(C, B, postponed', active', wire', at', Started')
    BY <1>0, <1>4, <1>5, <1>7, <2>3, <2>5
  <2> QED
    BY <2>6, Zenon DEF OrderedNow, InSomeOrder
<1>8. CASE s \notin Background
  <2> DEFINE one == <<s>>
             grown == [postponed EXCEPT ![r] = postponed[r] \o one]
  <2>1. postponed' = grown
    <3>1. Append(postponed[r], s) = postponed[r] \o one
      BY <1>0, <1>1
    <3> QED
      BY <1>4, <1>8, <3>1
  <2>2. /\ one \in Seq(Element) /\ Once(one) /\ Cat(one) = Flat[s]
        /\ \A x \in Range(one) \cap Sub : Parent(x) = r /\ x \in more /\ x \notin Started
    BY <1>1, <1>2, <1>5, CatOne, OneElement DEF Piece, more
  <2> HIDE DEF one
  <2>3. Begin(r, k - 1) = Begin(r, at[r] - 1) \o Cat(one)
    BY <1>3, <2>2
  <2>4. Ordered(C, B, grown, active, wire, [at EXCEPT ![r] = k], more)
    BY <1>0, <1>5, <1>6, <2>2, <2>3, OrderGrows
  <2>5. Ordered(C, B, postponed', active, wire, at', Started')
    BY <1>0, <1>5, <2>1, <2>4
  <2>6. CASE ~(active = r /\ postponed[r] = <<>>)
    <3>1. active' = active
      BY <1>4, <1>8, <2>6
    <3> QED
      BY <1>4, <2>5, <3>1, Zenon DEF OrderedNow, InSomeOrder
  <2>7. CASE active = r /\ postponed[r] = <<>>
    <3>1. active' = s
      BY <1>4, <1>8, <2>7
    <3>2. postponed'[active] = one /\ [postponed' EXCEPT ![active] = one] = postponed'
      <4>1. postponed[r] \o one = one
        BY <2>2, <2>7, ConcatEmptySeq
      <4>2. postponed' = [postponed EXCEPT ![r] = one]
        BY <2>1, <4>1
      <4> HIDE DEF grown
      <4> QED
        BY <1>0, <2>2, <2>7, <4>2
    <3>3. Around(one, <<>>, s, <<>>)
      <4>1. Around(<<>> \o (one \o <<>>), <<>>, s, <<>>)
        BY <1>1, AroundOne DEF one
      <4>2. one \o <<>> = one /\ <<>> \o one = one
        BY <2>2, ConcatEmptySeq
      <4> QED
        BY <4>1, <4>2
    <3>4. After(one, s) = <<>>
      BY DEF After, one
    <3>5. wire \o <<>> = wire
      <4>1. wire \in Seq(Part)
        BY <2>5 DEF Ordered, Shape
      <4> QED
        BY <4>1, ConcatEmptySeq
    <3>6. Ordered(C \cup {s}, [B EXCEPT ![s] = wire \o <<>>], [postponed' EXCEPT ![active] = one], s,
                  wire \o <<>>, at', Started')
      <4>1. Around(postponed'[active], <<>>, s, <<>>) /\ Range(one) \subseteq Range(postponed'[active])
        BY <3>2, <3>3
      <4>2. Range(<<>>) \cap Sub = {}
        BY NoElement
      <4> QED
        BY <1>1, <2>2, <2>5, <3>4, <4>1, <4>2, OrderEnters
    <3>7. Ordered(C \cup {s}, [B EXCEPT ![s] = wire \o <<>>], postponed', active', wire', at', Started')
      BY <1>4, <3>1, <3>2, <3>5, <3>6
    <3> QED
      BY <3>7, Zenon DEF OrderedNow, InSomeOrder
  <2> QED
    BY <2>6, <2>7
<1> QED
  BY <1>7, <1>8

-----------------------------------------------------------------------------
\* The steps of the requests that end,

\* The main request is started from the first on.
LEMMA MainStarted == ASSUME OrderedNow PROVE handler[Main] # "none"
<1>1. PICK C, B : Ordered(C, B, postponed, active, wire, at, Started)
  BY Zenon DEF OrderedNow, InSomeOrder
<1>2. Main \in Started
  BY <1>1 DEF Ordered, Line
<1> QED
  BY <1>2 DEF Started

\* An action that neither sends nor comes further in a script.
LEMMA QuietStep ==
  ASSUME Types, OrderRest, UNCHANGED <<postponed, active, wire, at, done>>, Started' = Started,
         error' \/ (error' = error),
         done[Main] => handler'[Main] \in {"gone", "terminate"},
         InUse' /\ ~error' => InUse /\ \A r \in Request :
              handler'[r] \in {"writer", "finalizer"} =>
                  handler[r] \in {"writer", "finalizer"} \/ at[r] > Len(Script[r])
  PROVE  OrderRest'
<1>1. OrderedNow'
  BY SameOrder DEF OrderRest
<1>2. Ends'
  BY DEF Ends, OrderRest
<1>3. Finished'
  BY DEF Finished, OrderRest
<1> QED
  BY <1>1, <1>2, <1>3 DEF OrderRest

\* All is given up: nothing is sent.
LEMMA TerminateOrder ==
  ASSUME Types, Rest, OrderRest, NEW r \in Live, handler[r] \notin {"start", "wait", "terminate"},
         NEW posts, Terminate(r, posts)
  PROVE  OrderRest'
<1> DEFINE K == {q \in Request \ {r} : handler[q] = "produce"}
           left == [q \in Request |-> IF q \in K THEN "gone"
                                      ELSE IF q = r THEN "finalizer" ELSE handler[q]]
<1>0. r \in Request /\ handler[r] \notin {"none", "gone"} /\ Main \in Request
  BY SubIsRequest DEF Live
<1>1. /\ UNCHANGED <<at, done, postponed, active, wire, freed>>
      /\ blocked > 0 => error' = TRUE /\ handler' = left
      /\ ~(blocked > 0) => error' = error /\ handler' = [left EXCEPT ![Main] = "terminate"]
  BY DEF Terminate
<1>2. handler[Main] # "none"
  BY MainStarted DEF OrderRest
<1>3. \A q \in Request : left[q] = "none" <=> handler[q] = "none"
  BY <1>0
<1>4. Started' = Started
  <2>1. CASE blocked > 0
    BY <1>1, <1>3, <2>1 DEF Started
  <2>2. CASE ~(blocked > 0)
    <3>1. \A q \in Request : handler'[q] = IF q = Main THEN "terminate" ELSE left[q]
      BY <1>1, <2>2
    <3> HIDE DEF left
    <3> QED
      BY <1>2, <1>3, <3>1 DEF Started
  <2> QED
    BY <2>1, <2>2
<1>5. ~InUse' \/ error'
  BY <1>0, <1>1 DEF InUse
<1>6. ASSUME done[Main] PROVE handler'[Main] \in {"gone", "terminate"}
  <2>1. handler[Main] \in {"gone", "terminate"} /\ r # Main
    BY <1>0, <1>6 DEF OrderRest, Finished
  <2>2. left[Main] = handler[Main]
    BY <1>0, <2>1
  <2> QED
    BY <1>0, <1>1, <2>1, <2>2
<1>7. error' \/ error' = error
  BY <1>1
<1> HIDE DEF K, left
<1> QED
  BY <1>1, <1>4, <1>5, <1>6, <1>7, QuietStep

\* A request is finalized at the end of its script.
LEMMA FinalizeGoodOrder ==
  ASSUME Types, Rest, OrderRest, InUse, NEW r \in Live, handler[r] \in {"produce", "finalizer"},
         at[r] > Len(Script[r]), NEW posts, FinalizeGood(r, posts),
         UNCHANGED <<at, blocked, wire, buffered, error>>
  PROVE  OrderRest'
<1>0. r \in Request /\ Main \in Request /\ handler \in [Request -> {"none", "start", "wait",
         "produce", "writer", "finalizer", "terminate", "gone"}] /\ done \in [Request -> BOOLEAN]
  BY SubIsRequest DEF Live, Types, OrderRest, Finished
<1>1. r = Main => ~done[Main]
  BY DEF OrderRest, Finished
<1>2. CASE r \in Background
  <2>1. /\ done' = [done EXCEPT ![r] = TRUE] /\ handler' = [handler EXCEPT ![r] = "gone"]
        /\ UNCHANGED <<postponed, active>>
    BY <1>2, Zenon DEF FinalizeGood
  <2>2. r # Main
    BY <1>2, ScriptAssumption
  <2>3. OrderedNow'
    <3>1. Started' = Started
      BY <1>0, <2>1 DEF Started
    <3> QED
      BY <2>1, <3>1, SameOrder DEF OrderRest
  <2>4. Ends'
    BY <1>0, <2>1, <2>2 DEF OrderRest, Ends, InUse
  <2>5. Finished'
    BY <1>0, <2>1, <2>2 DEF OrderRest, Finished
  <2> QED
    BY <2>3, <2>4, <2>5 DEF OrderRest
<1>3. CASE r \notin Background /\ (postponed[r] # <<>> \/ (r = Main /\ buffered))
  <2>1. /\ handler' = [handler EXCEPT ![r] = "writer"]
        /\ UNCHANGED <<done, postponed, active, freed>>
    BY <1>3, Zenon DEF FinalizeGood
  <2>2. Started' = Started
    BY <1>0, <2>1 DEF Started
  <2>3. done[Main] => handler'[Main] \in {"gone", "terminate"}
    BY <1>0, <1>1, <2>1 DEF OrderRest, Finished
  <2>4. \A q \in Request : handler'[q] \in {"writer", "finalizer"} =>
                  handler[q] \in {"writer", "finalizer"} \/ at[q] > Len(Script[q])
    BY <1>0, <2>1
  <2> QED
    BY <2>1, <2>2, <2>3, <2>4, QuietStep
<1>4. CASE r \notin Background /\ ~(postponed[r] # <<>> \/ (r = Main /\ buffered)) /\ r = Main
  <2>1. UNCHANGED <<postponed, active>>
    BY <1>4, Zenon DEF FinalizeGood
  <2>2. CASE active = Main
    <3>1. done' = [done EXCEPT ![r] = TRUE] /\ handler' = [handler EXCEPT ![r] = "gone"]
      BY <1>4, <2>2, Zenon DEF FinalizeGood
    <3>2. Started' = Started
      BY <1>0, <3>1 DEF Started
    <3>3. OrderedNow'
      BY <2>1, <3>2, SameOrder DEF OrderRest
    <3>4. Ends'
      BY <1>0, <3>1 DEF OrderRest, Ends, InUse
    <3>5. wire = Flat[Main]
      <4>1. PICK C, B : Ordered(C, B, postponed, active, wire, at, Started)
        BY Zenon DEF OrderedNow, InSomeOrder, OrderRest
      <4>2. wire \o Cat(<<>>) = <<>> \o Begin(Main, at[Main] - 1) /\ wire \in Seq(Part)
        <5>1. wire \o Cat(postponed[active]) = B[active] \o Begin(active, at[active] - 1)
          BY <4>1 DEF Ordered, Sent
        <5>2. B[Main] = <<>> /\ wire \in Seq(Part)
          BY <4>1 DEF Ordered, Places, Shape
        <5>3. postponed[active] = <<>>
          BY <1>4, <2>2
        <5>4. wire \o Cat(<<>>) = B[Main] \o Begin(Main, at[Main] - 1)
          BY <2>2, <5>1, <5>3
        <5> QED
          BY <5>2, <5>4
      <4>3. at[Main] - 1 = Len(Script[Main])
        <5>1. at[Main] \in Nat /\ at[Main] <= Len(Script[Main]) + 1
          BY <1>0, <4>1 DEF Ordered, Shape
        <5>2. at[Main] > Len(Script[Main]) /\ Len(Script[Main]) \in Nat
          BY <1>0, <1>4, ScriptType
        <5> QED
          BY <5>1, <5>2
      <4>4. wire \o <<>> = <<>> \o Flat[Main] /\ Flat[Main] \in Seq(Part)
        BY <1>0, <4>2, <4>3, BeginAll, CatEmpty, FlatIsCat
      <4>5. EmptyRight(wire) /\ EmptyLeft(Flat[Main])
        BY <4>2, <4>4, ConcatEmpty, Zenon
      <4> QED
        BY <4>4, <4>5, Zenon DEF EmptyLeft, EmptyRight
    <3>6. Finished'
      BY <1>0, <1>4, <2>1, <2>2, <3>1, <3>5 DEF Finished
    <3> QED
      BY <3>3, <3>4, <3>6 DEF OrderRest
  <2>3. CASE active # Main
    <3>1. UNCHANGED <<done, handler, freed>>
      BY <1>4, <2>3, Zenon DEF FinalizeGood
    <3>2. Started' = Started /\ InUse' = InUse
      BY <3>1 DEF Started, InUse
    <3>3. done[Main] => handler'[Main] \in {"gone", "terminate"}
      BY <3>1 DEF OrderRest, Finished
    <3> QED
      BY <2>1, <3>1, <3>2, <3>3, QuietStep
  <2> QED
    BY <2>2, <2>3
<1>5. CASE r \notin Background /\ ~(postponed[r] # <<>> \/ (r = Main /\ buffered)) /\ r # Main
  <2>0. freed' = freed
    BY <1>5, Zenon DEF FinalizeGood
  <2>1. CASE active = r
    <3>1. /\ handler' = [handler EXCEPT ![r] = "gone"] /\ done' = [done EXCEPT ![r] = TRUE]
          /\ postponed' = [postponed EXCEPT ![Parent(r)] =
                             IF @ # <<>> /\ Head(@) = r THEN Tail(@) ELSE @]
          /\ active' = Parent(r)
      BY <1>5, <2>1, Zenon DEF FinalizeGood
    <3>2. postponed' = [postponed EXCEPT ![Parent(r)] = After(postponed[Parent(r)], r)]
      BY <3>1 DEF After
    <3>3. Started' = Started
      BY <1>0, <3>1 DEF Started
    <3>4. OrderedNow'
      <4>1. PICK C, B : Ordered(C, B, postponed, active, wire, at, Started)
        BY Zenon DEF OrderedNow, InSomeOrder, OrderRest
      <4>2. active # Main /\ postponed[active] = <<>> /\ at[active] > Len(Script[active])
        BY <1>5, <2>1
      <4>3. Ordered(C \ {active}, B,
                    [postponed EXCEPT ![Parent(active)] = After(postponed[Parent(active)], active)],
                    Parent(active), wire, at, Started)
        BY <4>1, <4>2, OrderReturns
      <4>4. Ordered(C \ {active}, B, postponed', active', wire', at', Started')
        BY <2>1, <3>1, <3>2, <3>3, <4>3
      <4> QED
        BY <4>4, Zenon DEF OrderedNow, InSomeOrder
    <3>5. Ends'
      BY <1>0, <2>0, <3>1 DEF OrderRest, Ends, InUse
    <3>6. Finished'
      BY <1>0, <1>5, <2>1, <3>1 DEF OrderRest, Finished
    <3> QED
      BY <3>4, <3>5, <3>6 DEF OrderRest
  <2>2. CASE active # r
    <3>1. /\ handler' = [handler EXCEPT ![r] = "finalizer"]
          /\ done' = [done EXCEPT ![r] = @ \/ r \in Waited]
          /\ UNCHANGED <<postponed, active>>
      BY <1>5, <2>2, Zenon DEF FinalizeGood
    <3>2. Started' = Started
      BY <1>0, <3>1 DEF Started
    <3>3. OrderedNow'
      BY <3>1, <3>2, SameOrder DEF OrderRest
    <3>4. Ends'
      BY <1>0, <2>0, <3>1 DEF OrderRest, Ends, InUse
    <3>5. Finished'
      BY <1>0, <1>5, <3>1 DEF OrderRest, Finished
    <3> QED
      BY <3>3, <3>4, <3>5 DEF OrderRest
  <2> QED
    BY <2>1, <2>2
<1> QED
  BY <1>2, <1>3, <1>4, <1>5

\* Either way of ending a request.
LEMMA FinalizeOrder ==
  ASSUME Types, Rest, OrderRest, InUse, NEW r \in Live, handler[r] \in {"produce", "finalizer"},
         ~error => at[r] > Len(Script[r]), NEW posts, Finalize(r, posts)
  PROVE  OrderRest'
<1>1. CASE error
  BY <1>1, TerminateOrder DEF Finalize
<1>2. CASE ~error
  BY <1>2, FinalizeGoodOrder DEF Finalize
<1> QED
  BY <1>1, <1>2

-----------------------------------------------------------------------------
\* of those that send,

\* The postpone filter, called by a request that is under way.
LEMMA FilterStep ==
  ASSUME Types, OrderRest, InUse, NEW r \in Request, handler[r] \in {"produce", "writer"},
         NEW in \in Seq(Element), Range(in) \cap Sub = {},
         NEW posts, PostponeFilter(r, in, posts), NEW k \in 1 .. (Len(Script[r]) + 1),
         at' = [at EXCEPT ![r] = k], k >= at[r],
         Begin(r, k - 1) = Begin(r, at[r] - 1) \o Cat(in),
         NEW h \in {"produce", "finalizer"}, handler' = [handler EXCEPT ![r] = h],
         h = "finalizer" => handler[r] = "writer",
         UNCHANGED <<done, error, freed>>
  PROVE  OrderRest'
<1>1. Started' = Started /\ r \in Started
  BY DEF Started, Types
<1>2. OrderedNow'
  BY <1>1, FilterOrder DEF OrderRest
<1>3. Ends'
  <2> SUFFICES ASSUME InUse', ~error', NEW q \in Request,
                      handler'[q] \in {"writer", "finalizer"}
               PROVE  at'[q] > Len(Script[q])
    BY DEF Ends
  <2>1. handler[q] \in {"writer", "finalizer"}
    BY DEF Types
  <2>2. at[q] > Len(Script[q])
    BY <2>1 DEF OrderRest, Ends
  <2>3. at'[q] >= at[q] /\ at[q] \in Nat /\ at'[q] \in Nat
    BY DEF Types
  <2>4. Len(Script[q]) \in Nat
    BY ScriptType
  <2> QED
    BY <2>2, <2>3, <2>4
<1>4. Finished'
  <2>1. CASE done[Main]
    <3>1. active = Main /\ handler[Main] \in {"gone", "terminate"} /\ r # active
      BY <2>1 DEF OrderRest, Finished
    <3>2. active' = active /\ wire' = wire
      BY <3>1, Zenon DEF PostponeFilter
    <3>3. handler'[Main] = handler[Main]
      BY <3>1, SubIsRequest DEF Types
    <3> QED
      BY <2>1, <3>1, <3>2, <3>3 DEF OrderRest, Finished
  <2>2. CASE ~done[Main]
    BY <2>2 DEF OrderRest, Finished
  <2> QED
    BY <2>1, <2>2
<1> QED
  BY <1>2, <1>3, <1>4 DEF OrderRest

\* The same when nothing is added.
LEMMA FilterNothing ==
  ASSUME Types, OrderRest, InUse, NEW r \in Request, handler[r] \in {"produce", "writer"},
         NEW posts, PostponeFilter(r, <<>>, posts), UNCHANGED at,
         NEW h \in {"produce", "finalizer"}, handler' = [handler EXCEPT ![r] = h],
         h = "finalizer" => handler[r] = "writer",
         UNCHANGED <<done, error, freed>>
  PROVE  OrderRest'
<1>1. <<>> \in Seq(Element) /\ Range(<<>>) \cap Sub = {}
  BY NoElement
<1>2. PICK C, B : Ordered(C, B, postponed, active, wire, at, Started)
  BY Zenon DEF OrderedNow, InSomeOrder, OrderRest
<1>3. /\ at[r] \in 1 .. (Len(Script[r]) + 1) /\ at[r] >= at[r] /\ at' = [at EXCEPT ![r] = at[r]]
      /\ at[r] - 1 \in 0 .. Len(Script[r])
  <2>1. at[r] \in Nat \ {0} /\ at[r] <= Len(Script[r]) + 1 /\ at \in [Request -> Nat \ {0}]
    BY <1>2 DEF Ordered, Shape
  <2>2. Len(Script[r]) \in Nat
    BY ScriptType
  <2> QED
    BY <2>1, <2>2
<1>4. Begin(r, at[r] - 1) = Begin(r, at[r] - 1) \o Cat(<<>>)
  <2>1. Begin(r, at[r] - 1) \in Seq(Part)
    BY <1>3, BeginType
  <2>2. EmptyRight(Begin(r, at[r] - 1))
    BY <2>1, ConcatEmpty, Zenon
  <2> QED
    BY <2>2, CatEmpty DEF EmptyRight
<1> QED
  BY <1>1, <1>3, <1>4, FilterStep

\* The next element of a script, a part or a subrequest.
LEMMA ProduceOrder ==
  ASSUME Types, Rest, OrderRest, InUse, NEW r \in Request, Produce(r)
  PROVE  OrderRest'
<1> DEFINE x == Script[r][at[r]]
           k == at[r] + 1
<1>0. /\ handler[r] = "produce" /\ at[r] <= Len(Script[r]) /\ at' = [at EXCEPT ![r] = @ + 1]
      /\ UNCHANGED <<done, error, freed>>
  BY DEF Produce
<1>1. /\ at[r] \in 1 .. Len(Script[r]) /\ x \in Element /\ at' = [at EXCEPT ![r] = k]
      /\ k \in 1 .. (Len(Script[r]) + 1) /\ k >= at[r] /\ k - 1 = at[r]
  <2>1. at[r] \in Nat \ {0} /\ Len(Script[r]) \in Nat /\ at[r] \in 1 .. Len(Script[r])
    BY <1>0, ScriptType DEF Types
  <2> QED
    BY <1>0, <2>1, ScriptType
<1>2. CASE x \in Sub
  <2>1. Subrequest(r, x)
    BY <1>2 DEF Produce
  <2>2. OrderedNow'
    BY <1>0, <1>2, <2>1, SubrequestOrder DEF OrderRest
  <2>3. x \in Request /\ x # Main /\ handler' = [handler EXCEPT ![x] = "start"] /\ wire' = wire
    BY <1>2, <2>1, SubIsRequest DEF Subrequest
  <2> HIDE DEF x
  <2>4. Ends'
    <3> SUFFICES ASSUME InUse', ~error', NEW q \in Request,
                        handler'[q] \in {"writer", "finalizer"}
                 PROVE  at'[q] > Len(Script[q])
      BY DEF Ends
    <3>1. handler[q] \in {"writer", "finalizer"} /\ q # r
      BY <1>0, <2>3 DEF Types
    <3>2. at[q] > Len(Script[q])
      BY <1>0, <3>1 DEF OrderRest, Ends
    <3> QED
      BY <1>0, <3>1, <3>2 DEF Types
  <2>5. Finished'
    <3>1. CASE done[Main]
      <4>1. active = Main /\ handler[Main] \in {"gone", "terminate"} /\ r # active
            /\ wire = Flat[Main]
        BY <1>0, <3>1 DEF OrderRest, Finished
      <4>2. active' = active
        BY <2>1, <4>1 DEF Subrequest
      <4>3. handler'[Main] = handler[Main]
        BY <2>3, SubIsRequest DEF Types
      <4> QED
        BY <1>0, <2>3, <4>1, <4>2, <4>3 DEF OrderRest, Finished
    <3>2. CASE ~done[Main]
      BY <1>0, <3>2 DEF OrderRest, Finished
    <3> QED
      BY <3>1, <3>2
  <2> QED
    BY <2>2, <2>4, <2>5 DEF OrderRest
<1>3. CASE x \notin Sub
  <2>1. PostponeFilter(r, <<x>>, posted) /\ UNCHANGED handler
    BY <1>3 DEF Produce
  <2>2. Begin(r, at[r]) = Begin(r, at[r] - 1) \o Piece(Flat, x) /\ Cat(<<x>>) = Piece(Flat, x)
    BY <1>1, BeginNext, CatOne
  <2>3. Begin(r, k - 1) = Begin(r, at[r] - 1) \o Cat(<<x>>)
    BY <1>1, <2>2
  <2> HIDE DEF x, k
  <2>4. <<x>> \in Seq(Element) /\ Range(<<x>>) \cap Sub = {}
    BY <1>1, <1>3, OneElement
  <2>5. handler' = [handler EXCEPT ![r] = "produce"]
    BY <1>0, <2>1 DEF Types
  <2> QED
    BY <1>0, <1>1, <2>1, <2>3, <2>4, <2>5, FilterStep
<1> QED
  BY <1>2, <1>3

-----------------------------------------------------------------------------
\* and all of them.

\* At first the line is the main request alone.
LEMMA OrderInit == Init => OrderRest
<1> SUFFICES ASSUME Init PROVE OrderRest
  OBVIOUS
<1> USE DEF Init
<1> DEFINE B == [r \in Request |-> <<>>]
           C == {Main}
<1>0. Main \in Request /\ <<>> \in Seq(Part) /\ <<>> \in Seq(Element) /\ Sub \subseteq Request
  BY DEF Request
<1>1. Started = {Main}
  BY <1>0 DEF Started
<1>2. Shape(postponed, active, wire, at, Started)
  <2>1. \A r \in Request : Len(Script[r]) \in Nat
    BY ScriptType
  <2> QED
    BY <1>0, <1>1, <2>1 DEF Shape
<1>3. Lists(postponed, Started)
  BY NoElement DEF Lists
<1>4. Line(C, active, Started)
  BY <1>1 DEF Line
<1>5. Places(C, B)
  <2>1. B \in [Request -> Seq(Part)] /\ B[Main] = <<>>
    BY <1>0
  <2>2. Flat[Main] \in Seq(Part)
    BY <1>0, FlatIsCat
  <2>3. EmptyLeft(Flat[Main]) /\ EmptyRight(Flat[Main])
    BY <2>2, ConcatEmpty, Zenon
  <2>4. (<<>> \o Flat[Main]) \o <<>> = Flat[Main]
    BY <2>3, Zenon DEF EmptyLeft, EmptyRight
  <2>5. Opens(<<>> \o Flat[Main])
    BY <1>0, <2>4, Zenon DEF Opens
  <2> QED
    BY <2>1, <2>5 DEF Places
<1>6. Sent(B, postponed, active, wire, at)
  <2>1. at[Main] - 1 = 0 /\ postponed[Main] = <<>> /\ B[Main] = <<>> /\ active = Main /\ wire = <<>>
    BY <1>0
  <2>2. Begin(Main, 0) = <<>>
    BY <1>0, BeginNone
  <2> HIDE DEF B
  <2> QED
    BY <2>1, <2>2, CatEmpty DEF Sent
<1>7. Above(C, B, postponed, at)
  BY DEF Above
<1>8. Aside(C, postponed, at)
  <2> SUFFICES ASSUME NEW c \in Sub \ C PROVE c \notin Range(postponed[Parent(c)])
    BY DEF Aside
  <2>1. postponed[Parent(c)] = <<>>
    BY ParentType
  <2> QED
    BY <2>1, NoElement
<1>9. OrderedNow
  <2>1. Ordered(C, B, postponed, active, wire, at, Started)
    BY <1>2, <1>3, <1>4, <1>5, <1>6, <1>7, <1>8 DEF Ordered
  <2> QED
    BY <2>1, Zenon DEF OrderedNow, InSomeOrder
<1>10. Ends
  BY DEF Ends
<1>11. Finished
  BY <1>0 DEF Finished
<1> QED
  BY <1>9, <1>10, <1>11 DEF OrderRest

\* The requests that run because they are posted.
LEMMA RunPostedOrder ==
  ASSUME Types, Rest, OrderRest, RunPosted
  PROVE  OrderRest'
<1> DEFINE r == Head(posted)
<1>0. posted # <<>> /\ freed = "no"
  BY DEF RunPosted, RunStart, RunProduce, RunWriter, RunFinalizer, RunTerminate, RunNothing
<1>1. r \in Request /\ Tail(posted) \in Seq(Request) /\ posted \in Seq(Request)
  BY <1>0, HeadTailProperties DEF Types
<1>2. ASSUME handler[r] # "terminate" PROVE InUse
  <2>1. handler[Main] = "terminate" => r = Main
    BY <1>0 DEF Rest, Terminating
  <2> QED
    BY <1>0, <1>2, <2>1 DEF InUse
<1>3. ASSUME handler[r] \notin {"none", "gone"} PROVE r \in Live
  BY <1>1, <1>3 DEF Live
<1>d. done[Main] => handler[Main] \in {"gone", "terminate"}
  BY DEF OrderRest, Finished
<1> HIDE DEF r
<1>4. CASE RunStart
  <2>1. /\ handler[r] = "start" /\ UNCHANGED <<at, done, postponed, active, wire, error, freed>>
        /\ \E h \in {"produce", "wait"} : handler' = [handler EXCEPT ![r] = h]
    BY <1>4 DEF RunStart, r
  <2>2. PICK h \in {"produce", "wait"} : handler' = [handler EXCEPT ![r] = h]
    BY <2>1
  <2>3. \A q \in Request : handler'[q] = IF q = r THEN h ELSE handler[q]
    BY <2>2 DEF Types
  <2>4. Started' = Started
    BY <1>1, <2>1, <2>3 DEF Started
  <2>5. done[Main] => handler'[Main] \in {"gone", "terminate"}
    BY <1>d, <2>1, <2>3, SubIsRequest
  <2> QED
    BY <1>2, <2>1, <2>3, <2>4, <2>5, QuietStep
<1>5. CASE RunProduce
  <2>1. handler[r] = "produce" /\ PostponeFilter(r, <<>>, Tail(posted))
        /\ UNCHANGED <<handler, at, done, error, freed>>
    BY <1>5 DEF RunProduce, r
  <2>2. handler' = [handler EXCEPT ![r] = "produce"]
    BY <1>1, <2>1 DEF Types
  <2> QED
    BY <1>1, <1>2, <2>1, <2>2, FilterNothing
<1>6. CASE RunWriter
  <2>1. handler[r] = "writer" /\ PostponeFilter(r, <<>>, posted)
        /\ handler' = [handler EXCEPT ![r] = "finalizer"]
        /\ UNCHANGED <<at, done, error, freed>>
    BY <1>6 DEF RunWriter, r
  <2> QED
    BY <1>1, <1>2, <2>1, FilterNothing
<1>7. CASE RunFinalizer
  <2>1. handler[r] = "finalizer" /\ Finalize(r, Tail(posted))
    BY <1>7 DEF RunFinalizer, r
  <2>2. InUse /\ r \in Live
    BY <1>2, <1>3, <2>1
  <2>3. ~error => at[r] > Len(Script[r])
    BY <1>1, <2>1, <2>2 DEF OrderRest, Ends
  <2> QED
    BY <2>1, <2>2, <2>3, FinalizeOrder
<1>8. CASE RunTerminate
  <2>1. /\ freed' = "cut" /\ UNCHANGED <<handler, at, done, postponed, active, wire, error>>
    BY <1>8 DEF RunTerminate
  <2>2. Started' = Started /\ ~InUse'
    BY <2>1 DEF Started, InUse
  <2> QED
    BY <1>d, <2>1, <2>2, QuietStep
<1>9. CASE RunNothing
  <2>1. UNCHANGED <<handler, at, done, postponed, active, wire, error, freed>>
    BY <1>9 DEF RunNothing
  <2>2. Started' = Started /\ InUse' = InUse
    BY <2>1 DEF Started, InUse
  <2> QED
    BY <1>d, <2>1, <2>2, QuietStep
<1> QED
  BY <1>4, <1>5, <1>6, <1>7, <1>8, <1>9 DEF RunPosted

\* Every step keeps the order.
LEMMA OrderStep == RefInv /\ OrderRest /\ [Next]_vars => OrderRest'
<1>0. RefInv <=> Types /\ Rest
  BY DEF RefInv, Rest
<1> SUFFICES ASSUME Types, Rest, OrderRest, [Next]_vars PROVE OrderRest'
  BY <1>0
<1>d. done[Main] => handler[Main] \in {"gone", "terminate"}
  BY DEF OrderRest, Finished
<1>2. CASE RunPosted
  BY <1>2, RunPostedOrder
<1>3. ASSUME Waiting PROVE InUse
  BY <1>3 DEF Waiting, InUse, Rest, Terminating, Types
<1>4. CASE ClientReads
  <2>1. UNCHANGED <<handler, at, done, postponed, active, wire, error, freed>>
    BY <1>4 DEF ClientReads
  <2>2. Started' = Started /\ InUse' = InUse
    BY <2>1 DEF Started, InUse
  <2> QED
    BY <1>d, <2>1, <2>2, QuietStep
<1>5. CASE ClientLeaves
  <2>1. handler[active] = "writer" /\ Terminate(active, posted)
    BY <1>5 DEF ClientLeaves
  <2>2. active \in Live
    BY <2>1 DEF Live, Types
  <2> QED
    BY <2>1, <2>2, TerminateOrder
<1>6. ASSUME NEW r \in Request, Produce(r) PROVE OrderRest'
  <2>1. InUse
    BY <1>3, <1>6 DEF Produce
  <2> QED
    BY <1>6, <2>1, ProduceOrder
<1>7. ASSUME NEW r \in Request, End(r) PROVE OrderRest'
  <2>1. InUse /\ r \in Live /\ handler[r] = "produce" /\ Finalize(r, posted)
        /\ at[r] > Len(Script[r])
    BY <1>3, <1>7 DEF End, Live
  <2> QED
    BY <2>1, FinalizeOrder
<1>8. ASSUME NEW r \in Request, Fail(r) PROVE OrderRest'
  <2>1. r \in Live /\ handler[r] = "produce" /\ Terminate(r, posted)
    BY <1>8 DEF Fail, Live
  <2> QED
    BY <2>1, TerminateOrder
<1>9. ASSUME NEW r \in Request, Unblock(r) PROVE OrderRest'
  <2>1. /\ InUse /\ handler[r] = "wait" /\ handler' = [handler EXCEPT ![r] = "produce"]
        /\ UNCHANGED <<at, done, postponed, active, wire, error, freed>>
    BY <1>3, <1>9 DEF Unblock
  <2>2. \A q \in Request : handler'[q] = IF q = r THEN "produce" ELSE handler[q]
    BY <2>1 DEF Types
  <2>3. Started' = Started
    BY <2>1, <2>2 DEF Started
  <2>4. done[Main] => handler'[Main] \in {"gone", "terminate"}
    BY <1>d, <2>1, <2>2, SubIsRequest
  <2> QED
    BY <2>1, <2>2, <2>3, <2>4, QuietStep
<1>10. CASE UNCHANGED vars
  <2>1. UNCHANGED <<handler, at, done, postponed, active, wire, error, freed>>
    BY <1>10 DEF vars
  <2>2. Started' = Started /\ InUse' = InUse
    BY <2>1 DEF Started, InUse
  <2> QED
    BY <1>d, <2>1, <2>2, QuietStep
<1> QED
  BY <1>2, <1>4, <1>5, <1>6, <1>7, <1>8, <1>9, <1>10 DEF Next

\* A beginning of the output is a prefix of it in the sense of SequencesExt.
LEMMA OpensPrefix ==
  ASSUME NEW w \in Seq(Part), Opens(w), Flat[Main] \in Seq(Part)
  PROVE  IsPrefix(w, Flat[Main])
<1> DEFINE t == Flat[Main]
           m == Len(w)
<1>1. PICK rest \in Seq(Part) : w \o rest = t
  BY Zenon DEF Opens
<1>2. /\ m \in Nat /\ Len(rest) \in Nat /\ Len(t) = m + Len(rest)
      /\ \A i \in 1 .. (m + Len(rest)) : t[i] = IF i <= m THEN w[i] ELSE rest[i - m]
  <2>1. /\ Len(w \o rest) = Len(w) + Len(rest)
        /\ \A i \in 1 .. (Len(w) + Len(rest)) :
              (w \o rest)[i] = IF i <= Len(w) THEN w[i] ELSE rest[i - Len(w)]
    BY ConcatProperties
  <2>2. m \in Nat /\ Len(rest) \in Nat
    BY LenProperties
  <2> QED
    BY <1>1, <2>1, <2>2
<1> HIDE DEF t, m
<1>3. m <= Len(t) /\ m \in Int /\ \A i \in 1 .. m : t[i] = w[i] /\ t[i] \in Part
  <2>1. \A i \in 1 .. m : i \in 1 .. (m + Len(rest)) /\ i <= m
    BY <1>2
  <2>2. \A i \in 1 .. m : w[i] \in Part
    BY ElementOfSeq DEF m
  <2> QED
    BY <1>2, <2>1, <2>2
<1> DEFINE u == SubSeq(t, 1, m)
<1>4. u \in Seq(Part) /\ Len(u) = m /\ \A i \in 1 .. m : u[i] = t[i]
  <2>1. /\ u \in Seq(Part) /\ Len(u) = IF 1 <= m THEN m - 1 + 1 ELSE 0
        /\ \A i \in 1 .. (m - 1 + 1) : u[i] = t[1 + i - 1]
    BY <1>3, SubSeqProperties
  <2>2. m - 1 + 1 = m /\ \A i \in 1 .. m : 1 + i - 1 = i
    BY <1>2
  <2> HIDE DEF u
  <2>3. \A i \in 1 .. m : u[i] = t[i]
    BY <2>1, <2>2
  <2> QED
    BY <1>2, <2>1, <2>2, <2>3
<1> HIDE DEF u
<1>5. u = w
  <2>1. \A i \in 1 .. Len(u) : u[i] = w[i]
    BY <1>3, <1>4
  <2> QED
    BY <1>4, <2>1, SeqEqual DEF m
<1>6. SubSeq(w, 1, m) = w
  BY SubSeqFull DEF m
<1>7. Len(w) <= Len(t) /\ SubSeq(w, 1, Len(w)) = SubSeq(t, 1, Len(w))
  BY <1>3, <1>5, <1>6 DEF m, u
<1> QED
  BY <1>7 DEF IsPrefix, t

\* What is sent is the stretch of the output before what the active request keeps.
LEMMA OrderFollows == OrderRest => OutputInOrder
<1> SUFFICES ASSUME OrderRest PROVE OutputInOrder
  OBVIOUS
<1>1. PICK C, B : Ordered(C, B, postponed, active, wire, at, Started)
  BY Zenon DEF OrderedNow, InSomeOrder, OrderRest
<1>2. Facts(C, B, postponed, at)
  BY <1>1, OrderedFacts
<1>3. active \in Request /\ wire \in Seq(Part) /\ active \in C
  BY <1>1 DEF Ordered, Shape, Line
<1> DEFINE q == Cat(postponed[active])
           b == B[active]
           e == Begin(active, at[active] - 1)
<1>4. q \in Seq(Part) /\ b \in Seq(Part) /\ e \in Seq(Part) /\ at[active] - 1 \in 0 .. Len(Script[active])
  BY <1>2, <1>3 DEF Facts
<1>5. PICK t \in Seq(Part) : Flat[active] = e \o t
  BY <1>3, <1>4, BeginRest
<1>6. Same(wire, q, b, e)
  BY <1>1, Zenon DEF Ordered, Sent, Same
<1>7. Opens(b \o Flat[active])
  BY <1>1, <1>3 DEF Ordered, Places
<1> HIDE DEF q, b, e
<1>8. Opens(b \o (e \o t))
  BY <1>5, <1>7
<1>9. Opens(wire)
  BY <1>3, <1>4, <1>5, <1>6, <1>8, OpensLess, Zenon
<1>10. Flat[Main] \in Seq(Part)
  BY FlatIsCat, SubIsRequest
<1>11. IsPrefix(wire, Flat[Main])
  BY <1>3, <1>9, <1>10, OpensPrefix
<1> QED
  BY <1>11 DEF OutputInOrder, OrderRest, Finished

\* For every tree of subrequests and every script: the postpone filter, the start of
\* subrequests and the hand-over to the parent in ngx_http_finalize_request() let the
\* parts go to the client in the order of the scripts, whatever the order in which
\* requests get ready, are woken and end, and all of them before the main request is
\* done.
THEOREM OrderKept == Spec => []OutputInOrder
<1>1. RefInv /\ OrderRest /\ [Next]_vars => (RefInv /\ OrderRest)'
  BY RefStep, OrderStep
<1> QED
  BY <1>1, RefInit, OrderInit, OrderFollows, PTL DEF Spec
=============================================================================
