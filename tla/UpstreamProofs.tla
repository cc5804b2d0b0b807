--------------------------- MODULE UpstreamProofs ---------------------------
(***************************************************************************)
(* What is sent to servers, whose answers come back, how the connections   *)
(* of servers are counted and how their weights move, for any number of    *)
(* workers, requests, servers and kept connections.                        *)
(***************************************************************************)
EXTENDS Upstream, SequenceTheorems, FiniteSetTheorems, WellFoundedInduction, TLAPS

\* u has the fields of a request; c those of a connection, which is clean if no
\* answer is outstanding on it and no body incomplete.
IsUpstream(u) ==
    u = [pc |-> u.pc, worker |-> u.worker, block |-> u.block, backup |-> u.backup,
         tried |-> u.tried, tries |-> u.tries, cur |-> u.cur, conn |-> u.conn,
         cached |-> u.cached, sent |-> u.sent, bodySent |-> u.bodySent,
         keepalive |-> u.keepalive, gone |-> u.gone]

IsConn(c) == c = [to |-> c.to, queue |-> c.queue, half |-> c.half]

Clean(c) == IsConn(c) /\ c.queue = <<>> /\ c.half = None

\* What is outstanding on the connection of r, by where r stands.
UpstreamOK(r, u) ==
    /\ IsUpstream(u)
    /\ u.pc \in {"idle", "connect", "got", "push", "connecting", "sending", "header", "body",
                 "notfound", "complete", "done"}
    /\ u.pc \notin {"idle", "done"} => u.worker \in Worker /\ u.block \in Block
    /\ u.pc \in {"idle", "connect", "got", "done"} => u.conn = NoConn
    /\ u.pc \in {"push", "connecting"} => Clean(u.conn) /\ u.keepalive = FALSE
    /\ u.pc \in {"sending", "header", "body"} =>
          /\ IsConn(u.conn) /\ u.conn.queue = <<r>> /\ u.keepalive = FALSE
          /\ u.bodySent = TRUE => u.conn.half = None
    /\ u.pc \in {"sending", "header"} => u.sent = TRUE
    /\ u.pc = "sending" => u.conn.half = r
    /\ u.pc \in {"complete", "notfound"} =>
          /\ IsConn(u.conn) /\ u.conn.queue = <<>>
          /\ u.bodySent = TRUE => u.conn.half = None

\* A sequence of connections that are clean.
CleanSeq(s) == s \in Seq(Range(s)) /\ \A c \in Range(s) : Clean(c)

CacheOK ==
    /\ cache = [w \in Worker |-> [b \in Block |-> cache[w][b]]]
    /\ \A w \in Worker, b \in Block : CleanSeq(cache[w][b])

\* A POST that has been sent is with that server, or at its end.
SentOK ==
    "non_idempotent" \notin NextUpstream =>
        \A r \in NonIdempotent :
            \/ pushed[r] = 0
            \/ pushed[r] = 1 /\ req[r].pc \in {"sending", "header", "body", "complete", "done"}

UInv ==
    /\ req = [r \in Request |-> req[r]]
    /\ \A r \in Request : UpstreamOK(r, req[r])
    /\ CacheOK
    /\ pushed \in [NonIdempotent -> 0..2]
    /\ SentOK
    /\ got \in [Request -> Request \cup {None}]
    /\ AnswersAreOwn

-----------------------------------------------------------------------------
\* A set of natural numbers that is not empty has a least element: what a CHOOSE
\* of the least index relies on.
LEMMA LeastExists ==
  ASSUME NEW S \in SUBSET Nat, S # {}
  PROVE  \E j \in S : \A k \in S : j <= k
<1>1. \E j \in S : \A k \in S : ~(<<k, j>> \in OpToRel(<, Nat))
  BY WFMin, NatLessThanWellFounded, Zenon
<1>2. ASSUME NEW j \in Nat, NEW k \in Nat, ~(<<k, j>> \in OpToRel(<, Nat))
      PROVE  j <= k
  <2>1. ~(k < j)
    BY <1>2, Zenon DEF OpToRel
  <2> QED
    BY <2>1
<1> QED
  BY <1>1, <1>2

-----------------------------------------------------------------------------
LEMMA NoConnClean == Clean(NoConn) /\ NoConn.half = None /\ NoConn.queue = <<>>
BY DEF Clean, IsConn, NoConn

LEMMA CleanSeqIntro ==
  ASSUME NEW S, NEW s \in Seq(S), \A c \in S : Clean(c)
  PROVE  CleanSeq(s)
<1>1. s \in [1 .. Len(s) -> S] /\ Len(s) \in Nat /\ DOMAIN s = 1 .. Len(s)
  BY LenProperties
<1>2. s \in [1 .. Len(s) -> Range(s)]
  BY <1>1 DEF Range
<1>3. s \in Seq(Range(s))
  BY <1>1, <1>2, SeqDef
<1>4. Range(s) \subseteq S
  BY <1>1 DEF Range
<1> QED
  BY <1>3, <1>4 DEF CleanSeq

LEMMA CleanSeqElement ==
  ASSUME NEW s, CleanSeq(s), NEW i \in 1 .. Len(s)
  PROVE  Clean(s[i])
<1>1. s[i] \in Range(s)
  BY ElementOfSeq DEF CleanSeq
<1> QED
  BY <1>1 DEF CleanSeq

LEMMA CleanSeqCons ==
  ASSUME NEW s, CleanSeq(s), NEW c, Clean(c)
  PROVE  CleanSeq(Cons(c, s))
<1> DEFINE S == Range(s) \cup {c}
<1>1. s \in Seq(S)
  BY SeqMonotonic DEF CleanSeq
<1>2. <<c>> \in Seq(S)
  OBVIOUS
<1>3. Cons(c, s) \in Seq(S)
  BY <1>1, <1>2, ConcatProperties DEF Cons
<1>4. \A d \in S : Clean(d)
  BY DEF CleanSeq
<1> HIDE DEF S
<1> QED
  BY <1>3, <1>4, CleanSeqIntro

LEMMA CleanSubSeq ==
  ASSUME NEW s, CleanSeq(s), NEW m \in 1 .. Len(s) + 1, NEW n \in 0 .. Len(s)
  PROVE  SubSeq(s, m, n) \in Seq(Range(s)) /\ CleanSeq(SubSeq(s, m, n))
<1>0. s \in Seq(Range(s)) /\ \A c \in Range(s) : Clean(c)
  BY DEF CleanSeq
<1>1. Len(s) \in Nat
  BY <1>0, LenProperties
<1>2. \A i \in m .. n : s[i] \in Range(s)
  BY <1>0, <1>1, ElementOfSeq
<1>3. SubSeq(s, m, n) \in Seq(Range(s))
  BY <1>1, <1>2, SubSeqProperties
<1> QED
  BY <1>0, <1>3, CleanSeqIntro

LEMMA CleanSeqRemoveAt ==
  ASSUME NEW s, CleanSeq(s), NEW i \in 1 .. Len(s)
  PROVE  CleanSeq(RemoveAt(s, i))
<1>0. s \in Seq(Range(s)) /\ \A c \in Range(s) : Clean(c)
  BY DEF CleanSeq
<1>1. Len(s) \in Nat
  BY <1>0, LenProperties
<1>2. SubSeq(s, 1, i - 1) \in Seq(Range(s)) /\ SubSeq(s, i + 1, Len(s)) \in Seq(Range(s))
  BY <1>1, CleanSubSeq
<1>3. RemoveAt(s, i) \in Seq(Range(s))
  BY <1>2, ConcatProperties DEF RemoveAt
<1> QED
  BY <1>0, <1>3, CleanSeqIntro

LEMMA CleanSeqFront ==
  ASSUME NEW s, CleanSeq(s), Len(s) > 0
  PROVE  CleanSeq(Front(s))
<1>1. Len(s) \in Nat
  BY LenProperties DEF CleanSeq
<1> QED
  BY <1>1, CleanSubSeq DEF Front

-----------------------------------------------------------------------------
\* The index that Kept gives is one of a kept connection.
LEMMA KeptIndex ==
  ASSUME UInv, NEW r \in Request, req[r].worker \in Worker, req[r].block \in Block, Kept(r) > 0
  PROVE  Kept(r) \in 1 .. Len(cache[req[r].worker][req[r].block])
<1> DEFINE s == cache[req[r].worker][req[r].block]
           I == {i \in 1 .. Len(s) : s[i].to = req[r].cur}
<1>1. Len(s) \in Nat
  BY LenProperties DEF UInv, CacheOK, CleanSeq
<1>2. Kept(r) = IF I # {} THEN Min(I) ELSE 0
  BY DEF Kept, SelectInSeq
<1>3. I # {}
  <2> HIDE DEF I
  <2> QED
    BY <1>2
<1>4. I \in SUBSET Nat
  BY <1>1
<1>5. \E j \in I : \A k \in I : j <= k
  BY <1>3, <1>4, LeastExists
<1>6. Min(I) \in I
  BY <1>5 DEF Min
<1> QED
  BY <1>2, <1>3, <1>6

\* A cache stays clean when one of its lists does.
LEMMA CacheUpdate ==
  ASSUME CacheOK, NEW w \in Worker, NEW b \in Block, NEW s, CleanSeq(s),
         cache' = [cache EXCEPT ![w][b] = s]
  PROVE  CacheOK'
<1>1. cache' = [v \in Worker |-> [c \in Block |-> cache'[v][c]]]
  BY DEF CacheOK
<1>2. ASSUME NEW v \in Worker, NEW c \in Block
      PROVE  cache'[v][c] = IF v = w /\ c = b THEN s ELSE cache[v][c]
  BY DEF CacheOK
<1>3. ASSUME NEW v \in Worker, NEW c \in Block PROVE CleanSeq(cache'[v][c])
  BY <1>2 DEF CacheOK
<1> QED
  BY <1>1, <1>3 DEF CacheOK

\* One request changes, and not in a way that lets go of a POST that was sent.
LEMMA OneRequest ==
  ASSUME UInv, NEW r \in Request,
         req' = [q \in Request |-> req'[q]],
         \A q \in Request : q # r => req'[q] = req[q],
         UpstreamOK(r, req'[r]),
         CacheOK', pushed' = pushed,
         got' = got,
         SentOK /\ "non_idempotent" \notin NextUpstream /\ r \in NonIdempotent /\ pushed[r] = 1 =>
             req'[r].pc \in {"sending", "header", "body", "complete", "done"}
  PROVE  UInv'
<1>1. \A q \in Request : UpstreamOK(q, req'[q])
  BY DEF UInv
<1>2. SentOK'
  BY UpstreamAssumption DEF UInv, SentOK
<1>3. AnswersAreOwn'
  BY DEF UInv, AnswersAreOwn
<1> QED
  BY <1>1, <1>2, <1>3 DEF UInv

\* A server is given back; only a clean connection is kept.
LEMMA ReleaseKeepsClean ==
  ASSUME UInv, NEW r \in Request, req[r].pc \notin {"idle", "done"},
         NEW failed \in BOOLEAN, Release(r, failed)
  PROVE  CacheOK'
<1> DEFINE w == req[r].worker
           b == req[r].block
           kept == cache[w][b]
           room == IF Len(kept) = MaxCached THEN Front(kept) ELSE kept
<1>0. w \in Worker /\ b \in Block /\ UpstreamOK(r, req[r]) /\ CacheOK
  BY DEF UInv, UpstreamOK
<1>1. CASE UNCHANGED cache
  BY <1>0, <1>1 DEF CacheOK
<1>2. CASE MayKeep(r, failed) /\ cache' = [cache EXCEPT ![w][b] = Cons(req[r].conn, room)]
  <2>1. req[r].conn # NoConn /\ req[r].keepalive /\ req[r].bodySent
    BY <1>2 DEF MayKeep
  <2>2. req[r].pc \in {"complete", "notfound"}
    BY <1>0, <2>1 DEF UpstreamOK
  <2>3. Clean(req[r].conn)
    BY <1>0, <2>1, <2>2 DEF UpstreamOK, Clean
  <2>4. CleanSeq(kept)
    BY <1>0 DEF CacheOK
  <2>5. CleanSeq(room)
    <3>1. CASE Len(kept) = MaxCached
      BY <2>4, <3>1, CleanSeqFront, UpstreamAssumption
    <3> QED
      BY <2>4, <3>1
  <2>6. CleanSeq(Cons(req[r].conn, room))
    BY <2>3, <2>5, CleanSeqCons
  <2> HIDE DEF room, kept
  <2> QED
    BY <1>0, <1>2, <2>6, CacheUpdate
<1> QED
  BY <1>1, <1>2 DEF Release

LEMMA FinalizeStep ==
  ASSUME UInv, NEW r \in Request, req[r].pc \notin {"idle", "done"}, Finalize(r)
  PROVE  UInv'
<1>1. CacheOK'
  BY ReleaseKeepsClean DEF Finalize
<1>2. req' = [req EXCEPT ![r] = [Fresh EXCEPT !.pc = "done"]] /\ UNCHANGED <<pushed, got>>
  BY DEF Finalize
<1>3. /\ req' = [q \in Request |-> req'[q]]
      /\ \A q \in Request : q # r => req'[q] = req[q]
      /\ req'[r] = [Fresh EXCEPT !.pc = "done"]
  BY <1>2 DEF UInv
<1>4. UpstreamOK(r, req'[r]) /\ req'[r].pc = "done"
  BY <1>3 DEF UpstreamOK, IsUpstream, Fresh
<1> QED
  BY <1>1, <1>2, <1>3, <1>4, OneRequest

\* The next attempt: not for a POST that was sent.
LEMMA GoNextStep ==
  ASSUME UInv, NEW r \in Request,
         req[r].pc \in {"connect", "got", "push", "connecting", "sending", "header", "notfound"},
         NEW why, GoNext(r, why)
  PROVE  UInv'
<1>1. CacheOK'
  <2>1. Release(r, why # "http_404") /\ (why # "http_404") \in BOOLEAN
    BY DEF GoNext
  <2> QED
    BY <2>1, ReleaseKeepsClean
<1>2. UNCHANGED <<pushed, got>>
  BY DEF GoNext
<1>0. UpstreamOK(r, req[r]) /\ req = [q \in Request |-> req[q]]
  BY DEF UInv
<1>3. CASE req' = [req EXCEPT ![r] = [Fresh EXCEPT !.pc = "done"]]
  <2>1. /\ req' = [q \in Request |-> req'[q]]
        /\ \A q \in Request : q # r => req'[q] = req[q]
        /\ req'[r] = [Fresh EXCEPT !.pc = "done"]
    BY <1>0, <1>3
  <2>2. UpstreamOK(r, req'[r]) /\ req'[r].pc = "done"
    BY <2>1 DEF UpstreamOK, IsUpstream, Fresh
  <2> QED
    BY <1>1, <1>2, <2>1, <2>2, OneRequest
<1>4. ASSUME NEW left, MayTryAgain(r, why),
             req' = [req EXCEPT ![r] = [@ EXCEPT !.pc = "connect", !.tries = left,
                                                 !.cur = None, !.conn = NoConn]]
      PROVE  UInv'
  <2>1. /\ req' = [q \in Request |-> req'[q]]
        /\ \A q \in Request : q # r => req'[q] = req[q]
        /\ req'[r] = [req[r] EXCEPT !.pc = "connect", !.tries = left, !.cur = None,
                                    !.conn = NoConn]
    BY <1>0, <1>4
  <2>2. UpstreamOK(r, req'[r])
    BY <1>0, <2>1 DEF UpstreamOK, IsUpstream
  <2>3. ASSUME "non_idempotent" \notin NextUpstream, r \in NonIdempotent, pushed[r] = 1
        PROVE  FALSE
    <3>1. req[r].pc \in {"sending", "header"}
      BY <2>3 DEF UInv, SentOK
    <3>2. req[r].sent = TRUE
      BY <1>0, <3>1 DEF UpstreamOK
    <3> QED
      BY <1>4, <2>3, <3>2 DEF MayTryAgain
  <2> QED
    BY <1>1, <1>2, <2>1, <2>2, <2>3, OneRequest
<1> DEFINE left == TriesLeft(r) + IF req[r].cached /\ why = "error" THEN 1 ELSE 0
<1>5. \/ req' = [req EXCEPT ![r] = [Fresh EXCEPT !.pc = "done"]]
      \/ /\ MayTryAgain(r, why)
         /\ req' = [req EXCEPT ![r] = [@ EXCEPT !.pc = "connect", !.tries = left,
                                                !.cur = None, !.conn = NoConn]]
  <2>1. CASE req[r].gone \/ left = 0 \/ ~MayTryAgain(r, why)
    BY <2>1, Zenon DEF GoNext
  <2>2. CASE ~(req[r].gone \/ left = 0 \/ ~MayTryAgain(r, why))
    BY <2>2, Zenon DEF GoNext
  <2> QED
    BY <2>1, <2>2
<1> HIDE DEF left
<1> QED
  BY <1>3, <1>4, <1>5

-----------------------------------------------------------------------------
LEMMA UInit == Init => UInv
<1> SUFFICES ASSUME Init PROVE UInv
  OBVIOUS
<1> USE DEF Init
<1>1. \A r \in Request : UpstreamOK(r, req[r])
  BY DEF UpstreamOK, IsUpstream, Fresh
<1>2. CleanSeq(<<>>)
  <2> DEFINE S == {NoConn}
  <2>1. <<>> \in Seq(S)
    OBVIOUS
  <2>2. \A c \in S : Clean(c)
    BY NoConnClean
  <2> HIDE DEF S
  <2> QED
    BY <2>1, <2>2, CleanSeqIntro
<1>3. CacheOK
  BY <1>2 DEF CacheOK
<1> QED
  BY <1>1, <1>3 DEF UInv, SentOK, AnswersAreOwn

\* The steps of a handler.
LEMMA HandleStep == ASSUME UInv, NEW r \in Request, Handle(r) PROVE UInv'
<1> DEFINE w == req[r].worker
           b == req[r].block
<1>0. UpstreamOK(r, req[r]) /\ req = [q \in Request |-> req[q]] /\ CacheOK
  BY DEF UInv
<1>1. CASE GetPeer(r)
  <2> DEFINE Taken(p, tried, backup) ==
               req' = [req EXCEPT ![r].pc = "got", ![r].cur = p, ![r].cached = FALSE,
                                  ![r].tried = tried, ![r].backup = backup]
             again == IF req[r].backup THEN req[r].tried ELSE {}
  <2>0. \/ Taken(Primary[b][1], {}, FALSE)
        \/ Taken(Best(Primary[b], req[r].tried),
                 req[r].tried \cup {Best(Primary[b], req[r].tried)}, FALSE)
        \/ Taken(Best(Backup[b], again), again \cup {Best(Backup[b], again)}, TRUE)
    BY <1>1 DEF GetPeer
  <2>1. PICK p, tried, backup : Taken(p, tried, backup)
    BY <2>0, Zenon
  <2>2. req[r].pc = "connect" /\ UNCHANGED <<cache, pushed, got>>
    BY <1>1 DEF GetPeer
  <2>3. /\ req' = [q \in Request |-> req'[q]]
        /\ \A q \in Request : q # r => req'[q] = req[q]
    BY <1>0, <2>1
  <2>4. UpstreamOK(r, req'[r])
    BY <1>0, <2>1, <2>2 DEF UpstreamOK, IsUpstream
  <2>5. CacheOK'
    BY <1>0, <2>2 DEF CacheOK
  <2>6. ~(SentOK /\ "non_idempotent" \notin NextUpstream /\ r \in NonIdempotent /\ pushed[r] = 1)
    BY <2>2 DEF SentOK
  <2> QED
    BY <2>2, <2>3, <2>4, <2>5, <2>6, OneRequest
<1>2. CASE NoLive(r)
  <2>1. req[r].pc = "connect" /\ GoNext(r, "nolive")
    BY <1>2 DEF NoLive
  <2> QED
    BY <2>1, GoNextStep
<1>3. CASE UseKept(r)
  <2>1. /\ req[r].pc = "got" /\ Kept(r) > 0
        /\ Begin(r, cache[w][b][Kept(r)], TRUE, "push")
        /\ cache' = [cache EXCEPT ![w][b] = RemoveAt(cache[w][b], Kept(r))]
        /\ UNCHANGED <<pushed, got>>
    BY <1>3 DEF UseKept
  <2>2. w \in Worker /\ b \in Block
    BY <1>0, <2>1 DEF UpstreamOK
  <2>3. Kept(r) \in 1 .. Len(cache[w][b]) /\ CleanSeq(cache[w][b])
    BY <1>0, <2>1, <2>2, KeptIndex DEF CacheOK
  <2>4. Clean(cache[w][b][Kept(r)]) /\ CleanSeq(RemoveAt(cache[w][b], Kept(r)))
    BY <2>3, CleanSeqElement, CleanSeqRemoveAt
  <2>5. CacheOK'
    BY <1>0, <2>1, <2>2, <2>4, CacheUpdate
  <2> DEFINE c == cache[w][b][Kept(r)]
  <2>6. req' = [req EXCEPT ![r].pc = "push", ![r].conn = c, ![r].cached = TRUE,
                           ![r].keepalive = FALSE, ![r].sent = FALSE, ![r].bodySent = FALSE]
    BY <2>1 DEF Begin
  <2>7. Clean(c)
    BY <2>4
  <2> HIDE DEF c
  <2>8. /\ req' = [q \in Request |-> req'[q]]
        /\ \A q \in Request : q # r => req'[q] = req[q]
    BY <1>0, <2>6
  <2>9. UpstreamOK(r, req'[r])
    <3> DEFINE v == req[r]
               u == [v EXCEPT !.pc = "push", !.conn = c, !.cached = TRUE,
                              !.keepalive = FALSE, !.sent = FALSE, !.bodySent = FALSE]
    <3>1. IsUpstream(v) /\ v.worker \in Worker /\ v.block \in Block
      BY <1>0, <2>2 DEF UpstreamOK
    <3>2. req'[r] = u
      BY <1>0, <2>6, <3>1 DEF IsUpstream
    <3>3. u = [v EXCEPT !.pc = "push", !.conn = c, !.cached = TRUE,
                        !.keepalive = FALSE, !.sent = FALSE, !.bodySent = FALSE]
      OBVIOUS
    <3> HIDE DEF u, v
    <3>a. IsUpstream(u)
      BY <3>1, <3>3 DEF IsUpstream
    <3>b. /\ u.pc = "push" /\ u.conn = c /\ u.keepalive = FALSE
          /\ u.worker = v.worker /\ u.block = v.block
      BY <3>1, <3>3 DEF IsUpstream
    <3>4. UpstreamOK(r, u)
      BY <2>7, <3>1, <3>a, <3>b DEF UpstreamOK
    <3> QED
      BY <3>2, <3>4
  <2>10. ~(SentOK /\ "non_idempotent" \notin NextUpstream /\ r \in NonIdempotent /\ pushed[r] = 1)
    BY <2>1 DEF SentOK
  <2> QED
    BY <2>1, <2>5, <2>8, <2>9, <2>10, OneRequest
<1>4. CASE Connect(r)
  <2> DEFINE c == [NoConn EXCEPT !.to = req[r].cur]
  <2>1. PICK pc \in {"push", "connecting"} : Begin(r, c, FALSE, pc)
    BY <1>4 DEF Connect
  <2>2. req[r].pc = "got" /\ UNCHANGED <<cache, pushed, got>>
    BY <1>4 DEF Connect
  <2>3. req' = [req EXCEPT ![r].pc = pc, ![r].conn = c, ![r].cached = FALSE,
                           ![r].keepalive = FALSE, ![r].sent = FALSE, ![r].bodySent = FALSE]
    BY <2>1 DEF Begin
  <2>4. Clean(c)
    BY DEF Clean, IsConn, NoConn
  <2> HIDE DEF c
  <2>5. /\ req' = [q \in Request |-> req'[q]]
        /\ \A q \in Request : q # r => req'[q] = req[q]
    BY <1>0, <2>3
  <2>6. UpstreamOK(r, req'[r])
    <3> DEFINE u == req[r]
    <3>1. /\ UpstreamOK(r, u) /\ u.pc = "got" /\ pc \in {"push", "connecting"}
          /\ req'[r] = [u EXCEPT !.pc = pc, !.conn = c, !.cached = FALSE,
                                 !.keepalive = FALSE, !.sent = FALSE, !.bodySent = FALSE]
      BY <1>0, <2>2, <2>3
    <3> HIDE DEF u
    <3> QED
      BY <2>4, <3>1 DEF UpstreamOK, IsUpstream
  <2>7. CacheOK'
    BY <1>0, <2>2 DEF CacheOK
  <2>8. ~(SentOK /\ "non_idempotent" \notin NextUpstream /\ r \in NonIdempotent /\ pushed[r] = 1)
    BY <2>2 DEF SentOK
  <2> QED
    BY <2>2, <2>5, <2>6, <2>7, <2>8, OneRequest
<1>5. CASE Declined(r)
  <2>1. req[r].pc = "got" /\ GoNext(r, "error")
    BY <1>5 DEF Declined
  <2> QED
    BY <2>1, GoNextStep
<1>6. CASE LocalError(r)
  <2>1. req[r].pc = "got" /\ Finalize(r)
    BY <1>6 DEF LocalError
  <2> QED
    BY <2>1, FinalizeStep
<1>7. CASE Push(r)
  <2> DEFINE c == Received(r, req[r].conn)
             d == [c EXCEPT !.half = None]
  <2>1. PICK all \in BOOLEAN :
             req' = [req EXCEPT ![r].pc = IF all THEN "header" ELSE "sending",
                                ![r].sent = TRUE,
                                ![r].bodySent = all,
                                ![r].conn = IF all /\ c.half = r THEN d ELSE c]
    BY <1>7, Zenon DEF Push
  <2>2. /\ req[r].pc = "push" /\ UNCHANGED <<cache, got>>
        /\ pushed' = [q \in NonIdempotent |->
                        IF q = r /\ pushed[q] < 2 THEN pushed[q] + 1 ELSE pushed[q]]
    BY <1>7 DEF Push
  <2>3. Clean(req[r].conn) /\ req[r].keepalive = FALSE /\ w \in Worker /\ b \in Block
    BY <1>0, <2>2 DEF UpstreamOK
  <2>4. IsConn(c) /\ c.queue = <<r>> /\ c.half = r
    <3> DEFINE conn == req[r].conn
    <3>1. IsConn(conn) /\ conn.queue = <<>> /\ conn.half = None
      BY <2>3 DEF Clean
    <3>2. c = [conn EXCEPT !.queue = Append(conn.queue, r), !.half = r]
      BY <3>1, Zenon DEF Received
    <3> HIDE DEF conn, c
    <3>3. Append(conn.queue, r) = <<r>>
      BY <3>1
    <3> QED
      BY <3>1, <3>2, <3>3 DEF IsConn
  <2> HIDE DEF c
  <2>5. IsConn(d) /\ d.queue = <<r>> /\ d.half = None
    BY <2>4 DEF IsConn
  <2> HIDE DEF d
  <2>6. /\ req' = [q \in Request |-> req'[q]]
        /\ \A q \in Request : q # r => req'[q] = req[q]
    BY <1>0, <2>1
  <2>7. UpstreamOK(r, req'[r]) /\ req'[r].pc \in {"sending", "header"}
    <3>1. CASE all = TRUE
      <4>1. req' = [req EXCEPT ![r].pc = "header", ![r].sent = TRUE, ![r].bodySent = TRUE,
                               ![r].conn = d]
        BY <2>1, <2>4, <3>1
      <4> DEFINE u == req[r]
      <4>2. /\ IsUpstream(u) /\ u.worker \in Worker /\ u.block \in Block /\ u.keepalive = FALSE
            /\ req'[r] = [u EXCEPT !.pc = "header", !.sent = TRUE, !.bodySent = TRUE, !.conn = d]
        <5>1. UpstreamOK(r, u) /\ r \in Request
          BY <1>0
        <5>2. IsUpstream(u)
          BY <5>1 DEF UpstreamOK
        <5> QED
          BY <1>0, <2>3, <4>1, <5>2
      <4> HIDE DEF u
      <4>3. /\ req'[r].pc = "header" /\ req'[r].sent = TRUE /\ req'[r].bodySent = TRUE
            /\ req'[r].conn = d /\ req'[r].keepalive = FALSE
            /\ req'[r].worker \in Worker /\ req'[r].block \in Block
        BY <4>2 DEF IsUpstream
      <4>4. IsUpstream(req'[r])
        BY <4>2 DEF IsUpstream
      <4> QED
        BY <2>5, <4>3, <4>4 DEF UpstreamOK
    <3>2. CASE all = FALSE
      <4>1. req' = [req EXCEPT ![r].pc = "sending", ![r].sent = TRUE, ![r].bodySent = FALSE,
                               ![r].conn = c]
        BY <2>1, <3>2
      <4> DEFINE u == req[r]
      <4>2. /\ IsUpstream(u) /\ u.worker \in Worker /\ u.block \in Block /\ u.keepalive = FALSE
            /\ req'[r] = [u EXCEPT !.pc = "sending", !.sent = TRUE, !.bodySent = FALSE, !.conn = c]
        <5>1. UpstreamOK(r, u) /\ r \in Request
          BY <1>0
        <5>2. IsUpstream(u)
          BY <5>1 DEF UpstreamOK
        <5> QED
          BY <1>0, <2>3, <4>1, <5>2
      <4> HIDE DEF u
      <4>3. /\ req'[r].pc = "sending" /\ req'[r].sent = TRUE /\ req'[r].bodySent = FALSE
            /\ req'[r].conn = c /\ req'[r].keepalive = FALSE
            /\ req'[r].worker \in Worker /\ req'[r].block \in Block
        BY <4>2 DEF IsUpstream
      <4>4. IsUpstream(req'[r])
        BY <4>2 DEF IsUpstream
      <4> QED
        BY <2>4, <4>3, <4>4 DEF UpstreamOK
    <3> QED
      BY <3>1, <3>2
  <2>8. CacheOK'
    BY <1>0, <2>2 DEF CacheOK
  <2>9. pushed' \in [NonIdempotent -> 0..2]
    BY <2>2 DEF UInv
  <2>10. SentOK'
    <3> SUFFICES ASSUME "non_idempotent" \notin NextUpstream, NEW q \in NonIdempotent
                 PROVE  \/ pushed'[q] = 0
                        \/ /\ pushed'[q] = 1
                           /\ req'[q].pc \in {"sending", "header", "body", "complete", "done"}
      BY DEF SentOK
    <3>0. q \in Request /\ (pushed[q] = 0 \/ (pushed[q] = 1 /\ req[q].pc \in
                                  {"sending", "header", "body", "complete", "done"}))
      BY UpstreamAssumption DEF UInv, SentOK
    <3>1. CASE q = r
      BY <2>2, <2>7, <3>0, <3>1
    <3>2. CASE q # r
      BY <2>2, <2>6, <3>0, <3>2
    <3> QED
      BY <3>1, <3>2
  <2>11. \A q \in Request : UpstreamOK(q, req'[q])
    BY <2>6, <2>7 DEF UInv
  <2> QED
    BY <2>2, <2>6, <2>8, <2>9, <2>10, <2>11 DEF UInv, AnswersAreOwn
<1>8. CASE PushRefused(r)
  <2>1. req[r].pc = "push" /\ GoNext(r, "error")
    BY <1>8 DEF PushRefused
  <2> QED
    BY <2>1, GoNextStep
<1>9. CASE NotFound(r)
  <2>1. req[r].pc = "notfound" /\ GoNext(r, "http_404")
    BY <1>9 DEF NotFound
  <2> QED
    BY <2>1, GoNextStep
<1>10. CASE Complete(r)
  <2>1. req[r].pc = "complete" /\ Finalize(r)
    BY <1>10 DEF Complete
  <2> QED
    BY <2>1, FinalizeStep
<1> QED
  BY <1>1, <1>2, <1>3, <1>4, <1>5, <1>6, <1>7, <1>8, <1>9, <1>10 DEF Handle

\* What a waiting request is woken by.
LEMMA WaitStep == ASSUME UInv, NEW r \in Request, Wait(r) PROVE UInv'
<1>0. /\ UpstreamOK(r, req[r]) /\ req = [q \in Request |-> req[q]] /\ CacheOK
      /\ got \in [Request -> Request \cup {None}] /\ AnswersAreOwn
  BY DEF UInv
<1>s. ASSUME r \in NonIdempotent, "non_idempotent" \notin NextUpstream, SentOK, pushed[r] = 1
      PROVE  req[r].pc \in {"sending", "header", "body", "complete", "done"}
  BY <1>s DEF SentOK
<1>1. CASE Connected(r)
  <2>1. /\ req[r].pc = "connecting" /\ req' = [req EXCEPT ![r].pc = "push"]
        /\ UNCHANGED <<cache, pushed, got>>
    BY <1>1 DEF Connected
  <2>2. /\ req' = [q \in Request |-> req'[q]]
        /\ \A q \in Request : q # r => req'[q] = req[q]
    BY <1>0, <2>1
  <2>3. UpstreamOK(r, req'[r])
    BY <1>0, <2>1 DEF UpstreamOK, IsUpstream
  <2>4. CacheOK'
    BY <1>0, <2>1 DEF CacheOK
  <2> QED
    BY <1>s, <2>1, <2>2, <2>3, <2>4, OneRequest
<1>2. CASE PushRest(r)
  <2> DEFINE c == [req[r].conn EXCEPT !.half = None]
  <2>1. /\ req[r].pc = "sending" /\ UNCHANGED <<cache, pushed, got>>
        /\ req' = [req EXCEPT ![r].pc = "header", ![r].bodySent = TRUE,
                              ![r].conn.half = IF req[r].conn.half = r THEN None
                                               ELSE req[r].conn.half]
    BY <1>2 DEF PushRest
  <2>2. IsConn(req[r].conn) /\ req[r].conn.queue = <<r>> /\ req[r].conn.half = r
        /\ req[r].keepalive = FALSE /\ req[r].sent = TRUE
        /\ req[r].worker \in Worker /\ req[r].block \in Block
    BY <1>0, <2>1 DEF UpstreamOK
  <2>3. req' = [req EXCEPT ![r].pc = "header", ![r].bodySent = TRUE, ![r].conn = c]
    BY <1>0, <2>1, <2>2 DEF UpstreamOK, IsUpstream
  <2>4. IsConn(c) /\ c.queue = <<r>> /\ c.half = None
    BY <2>2 DEF IsConn
  <2> HIDE DEF c
  <2>5. /\ req' = [q \in Request |-> req'[q]]
        /\ \A q \in Request : q # r => req'[q] = req[q]
    BY <1>0, <2>3
  <2>6. UpstreamOK(r, req'[r]) /\ req'[r].pc = "header"
    <3>1. IsUpstream(req[r])
      BY <1>0 DEF UpstreamOK
    <3> QED
      BY <1>0, <2>2, <2>3, <2>4, <3>1 DEF UpstreamOK, IsUpstream
  <2>7. CacheOK'
    BY <1>0, <2>1 DEF CacheOK
  <2> QED
    BY <2>1, <2>5, <2>6, <2>7, OneRequest
<1>3. CASE Header(r)
  <2>1. /\ req[r].pc \in {"sending", "header"} /\ UNCHANGED <<cache, pushed>>
        /\ req' = [req EXCEPT ![r].pc = "body"]
        /\ got' = [got EXCEPT ![r] = Head(req[r].conn.queue)]
    BY <1>3 DEF Header
  <2>2. /\ req' = [q \in Request |-> req'[q]]
        /\ \A q \in Request : q # r => req'[q] = req[q]
    BY <1>0, <2>1
  <2>3. UpstreamOK(r, req'[r]) /\ req'[r].pc = "body"
    BY <1>0, <2>1 DEF UpstreamOK, IsUpstream
  <2>4. CacheOK'
    BY <1>0, <2>1 DEF CacheOK
  <2>5. got' = [got EXCEPT ![r] = r]
    <3>1. req[r].conn.queue = <<r>>
      BY <1>0, <2>1 DEF UpstreamOK
    <3> QED
      BY <2>1, <3>1
  <2>6. got' \in [Request -> Request \cup {None}] /\ AnswersAreOwn'
    BY <1>0, <2>5 DEF AnswersAreOwn
  <2>7. SentOK' /\ \A q \in Request : UpstreamOK(q, req'[q])
    BY <2>1, <2>2, <2>3, UpstreamAssumption DEF UInv, SentOK
  <2> QED
    BY <2>1, <2>2, <2>4, <2>6, <2>7 DEF UInv
<1>a. ASSUME req[r].pc \in {"sending", "header", "body"}, NEW pc \in {"complete", "notfound"},
             AnswerEnds(r, pc)
      PROVE  /\ req' = [q \in Request |-> req'[q]]
             /\ \A q \in Request : q # r => req'[q] = req[q]
             /\ UpstreamOK(r, req'[r]) /\ req'[r].pc = pc
  <2> DEFINE c == [req[r].conn EXCEPT !.queue = Tail(<<r>>)]
  <2>1. IsConn(req[r].conn) /\ req[r].conn.queue = <<r>>
    BY <1>0, <1>a DEF UpstreamOK
  <2>2. req' = [req EXCEPT ![r].pc = pc, ![r].conn = c, ![r].keepalive = TRUE]
    BY <1>0, <1>a, <2>1 DEF AnswerEnds, UpstreamOK, IsUpstream
  <2>3. IsConn(c) /\ c.queue = <<>> /\ c.half = req[r].conn.half
    BY <2>1 DEF IsConn
  <2> HIDE DEF c
  <2>4. /\ req' = [q \in Request |-> req'[q]]
        /\ \A q \in Request : q # r => req'[q] = req[q]
    BY <1>0, <2>2
  <2>5. UpstreamOK(r, req'[r]) /\ req'[r].pc = pc
    BY <1>0, <1>a, <2>2, <2>3 DEF UpstreamOK, IsUpstream
  <2> QED
    BY <2>4, <2>5
<1>4. CASE HeaderOnly(r)
  <2>1. req[r].pc \in {"sending", "header"} /\ UNCHANGED <<cache, pushed>>
    BY <1>4 DEF HeaderOnly
  <2>2. CacheOK'
    BY <1>0, <2>1 DEF CacheOK
  <2>3. CASE AnswerEnds(r, "complete") /\ got' = [got EXCEPT ![r] = Head(req[r].conn.queue)]
    <3>1. /\ req' = [q \in Request |-> req'[q]]
          /\ \A q \in Request : q # r => req'[q] = req[q]
          /\ UpstreamOK(r, req'[r]) /\ req'[r].pc = "complete"
      BY <1>a, <2>1, <2>3
    <3>2. got' = [got EXCEPT ![r] = r]
      <4>1. req[r].conn.queue = <<r>>
        BY <1>0, <2>1 DEF UpstreamOK
      <4> QED
        BY <2>3, <4>1
    <3>3. got' \in [Request -> Request \cup {None}] /\ AnswersAreOwn'
      BY <1>0, <3>2 DEF AnswersAreOwn
    <3>4. SentOK' /\ \A q \in Request : UpstreamOK(q, req'[q])
      BY <2>1, <3>1, UpstreamAssumption DEF UInv, SentOK
    <3> QED
      BY <2>1, <2>2, <3>1, <3>3, <3>4 DEF UInv
  <2>4. CASE MayTryAgain(r, "http_404") /\ AnswerEnds(r, "notfound") /\ UNCHANGED got
    <3>1. /\ req' = [q \in Request |-> req'[q]]
          /\ \A q \in Request : q # r => req'[q] = req[q]
          /\ UpstreamOK(r, req'[r])
      BY <1>a, <2>1, <2>4
    <3>2. req[r].sent = TRUE
      BY <1>0, <2>1 DEF UpstreamOK
    <3>3. r \in NonIdempotent => "non_idempotent" \in NextUpstream
      BY <2>4, <3>2 DEF MayTryAgain
    <3> QED
      BY <2>1, <2>2, <2>4, <3>1, <3>3, OneRequest
  <2> QED
    BY <1>4, <2>3, <2>4 DEF HeaderOnly
<1>5. CASE BodyEnds(r)
  <2>1. req[r].pc = "body" /\ AnswerEnds(r, "complete") /\ UNCHANGED <<cache, pushed, got>>
    BY <1>5 DEF BodyEnds
  <2>2. CacheOK'
    BY <1>0, <2>1 DEF CacheOK
  <2>3. /\ req' = [q \in Request |-> req'[q]]
        /\ \A q \in Request : q # r => req'[q] = req[q]
        /\ UpstreamOK(r, req'[r]) /\ req'[r].pc = "complete"
    BY <1>a, <2>1
  <2> QED
    BY <2>1, <2>2, <2>3, OneRequest
<1>6. ASSUME NEW why, BadHeader(r, why) PROVE UInv'
  <2>1. req[r].pc \in {"sending", "header"} /\ GoNext(r, why)
    BY <1>6 DEF BadHeader
  <2> QED
    BY <2>1, GoNextStep
<1>7. CASE Broken(r) \/ TimedOut(r)
  <2>1. req[r].pc \in {"connecting", "sending", "header"} /\ \E why : GoNext(r, why)
    BY <1>7 DEF Broken, TimedOut
  <2> QED
    BY <2>1, GoNextStep
<1>8. CASE BodyFails(r)
  <2>1. req[r].pc = "body" /\ Finalize(r)
    BY <1>8 DEF BodyFails
  <2> QED
    BY <2>1, FinalizeStep
<1> QED
  BY <1>1, <1>2, <1>3, <1>4, <1>5, <1>6, <1>7, <1>8 DEF Wait

LEMMA UStep == UInv /\ [Next]_vars => UInv'
<1> SUFFICES ASSUME UInv, [Next]_vars PROVE UInv'
  OBVIOUS
<1>1. ASSUME NEW r \in Request, NEW w \in Worker, NEW b \in Block, Arrive(r, w, b)
      PROVE  UInv'
  <2>0. UpstreamOK(r, req[r]) /\ req = [q \in Request |-> req[q]] /\ CacheOK
    BY DEF UInv
  <2>1. PICK n : req' = [req EXCEPT ![r].pc = "connect", ![r].worker = w, ![r].block = b,
                                    ![r].tries = n]
    BY <1>1, Zenon DEF Arrive
  <2>2. req[r].pc = "idle" /\ UNCHANGED <<cache, pushed, got>>
    BY <1>1 DEF Arrive
  <2>3. /\ req' = [q \in Request |-> req'[q]]
        /\ \A q \in Request : q # r => req'[q] = req[q]
    BY <2>0, <2>1
  <2>4. UpstreamOK(r, req'[r])
    BY <2>0, <2>1, <2>2 DEF UpstreamOK, IsUpstream
  <2>5. CacheOK'
    BY <2>0, <2>2 DEF CacheOK
  <2>6. ~(SentOK /\ "non_idempotent" \notin NextUpstream /\ r \in NonIdempotent /\ pushed[r] = 1)
    BY <2>2 DEF SentOK
  <2> QED
    BY <2>2, <2>3, <2>4, <2>5, <2>6, OneRequest
<1>2. ASSUME NEW r \in Request, ClientLeaves(r) PROVE UInv'
  <2>0. UpstreamOK(r, req[r]) /\ req = [q \in Request |-> req[q]] /\ CacheOK
    BY DEF UInv
  <2>1. req[r].pc \in {"connecting", "sending", "header", "body"}
    BY <1>2 DEF ClientLeaves
  <2>2. CASE Finalize(r)
    BY <2>1, <2>2, FinalizeStep
  <2>3. CASE req' = [req EXCEPT ![r].gone = TRUE] /\ UNCHANGED <<cache, pushed, got>>
    <3>1. /\ req' = [q \in Request |-> req'[q]]
          /\ \A q \in Request : q # r => req'[q] = req[q]
          /\ req'[r].pc = req[r].pc
      BY <2>0, <2>3 DEF UpstreamOK, IsUpstream
    <3>2. UpstreamOK(r, req'[r])
      BY <2>0, <2>1, <2>3 DEF UpstreamOK, IsUpstream
    <3>3. CacheOK'
      BY <2>0, <2>3 DEF CacheOK
    <3>4. SentOK /\ "non_idempotent" \notin NextUpstream /\ r \in NonIdempotent /\ pushed[r] = 1
            => req'[r].pc \in {"sending", "header", "body", "complete", "done"}
      BY <3>1 DEF SentOK
    <3> QED
      BY <2>3, <3>1, <3>2, <3>3, <3>4, OneRequest
  <2> QED
    BY <1>2, <2>2, <2>3 DEF ClientLeaves
<1>3. ASSUME NEW w \in Worker, NEW b \in Block, NEW i, KeepaliveClose(w, b, i) PROVE UInv'
  <2>1. /\ i \in 1 .. Len(cache[w][b]) /\ UNCHANGED <<req, pushed, got>>
        /\ cache' = [cache EXCEPT ![w][b] = RemoveAt(cache[w][b], i)]
    BY <1>3 DEF KeepaliveClose
  <2>2. CleanSeq(cache[w][b]) /\ CacheOK
    BY DEF UInv, CacheOK
  <2>3. CleanSeq(RemoveAt(cache[w][b], i))
    BY <2>1, <2>2, CleanSeqRemoveAt
  <2>4. CacheOK'
    BY <2>1, <2>2, <2>3, CacheUpdate
  <2> QED
    BY <2>1, <2>4 DEF UInv, SentOK, AnswersAreOwn
<1>4. CASE UNCHANGED <<req, cache, pushed, got>>
  BY <1>4 DEF UInv, CacheOK, SentOK, AnswersAreOwn
<1>5. ASSUME NEW r \in Request, Handle(r) \/ Wait(r) PROVE UInv'
  BY <1>5, HandleStep, WaitStep
<1>6. CASE UNCHANGED vars
  BY <1>4, <1>6 DEF vars
<1> QED
  BY <1>1, <1>2, <1>3, <1>4, <1>5, <1>6 DEF Next

-----------------------------------------------------------------------------
\* However many servers, workers and requests there are and whatever fails: a POST
\* that ngx_http_upstream_send_request() began to send is not sent on another
\* connection, unless proxy_next_upstream says non_idempotent.
THEOREM PostIsSentOnce == Spec => []SentOnce
<1>1. UInv => SentOnce
  BY DEF UInv, SentOK, SentOnce
<1> QED
  BY <1>1, UInit, UStep, PTL DEF Spec

\* Whichever connections are kept alive and used again, a request is given its own
\* answer: what ngx_http_upstream_free_keepalive_peer() keeps has nothing outstanding.
THEOREM OwnAnswers == Spec => []AnswersAreOwn
<1>1. UInv => AnswersAreOwn
  BY DEF UInv
<1> QED
  BY <1>1, UInit, UStep, PTL DEF Spec

-----------------------------------------------------------------------------
\* Induction over finite sets: a set of finite sets has one that none of the others is
\* one element less than.
LEMMA MinimalSet ==
  ASSUME NEW S, IsFiniteSet(S), NEW B \in SUBSET SUBSET S, B # {}
  PROVE  \E T \in B : \A x \in T : T \ {x} \notin B
<1> DEFINE N == {n \in Nat : \E T \in B : Cardinality(T) = n}
<1>0. \A T \in B : IsFiniteSet(T) /\ Cardinality(T) \in Nat
  BY FS_Subset, FS_CardinalityType
<1>1. N \in SUBSET Nat /\ N # {}
  BY <1>0
<1>2. PICK n \in N : \A k \in N : n <= k
  <2> HIDE DEF N
  <2> QED
    BY <1>1, LeastExists
<1>3. PICK T \in B : Cardinality(T) = n
  OBVIOUS
<1>4. ASSUME NEW x \in T, T \ {x} \in B
      PROVE  FALSE
  <2>1. Cardinality(T \ {x}) = n - 1
    BY <1>0, <1>3, FS_RemoveElement
  <2>2. Cardinality(T \ {x}) \in N
    BY <1>0, <1>4
  <2>3. n <= n - 1
    BY <1>2, <2>1, <2>2
  <2> QED
    BY <2>3
<1> QED
  BY <1>4

-----------------------------------------------------------------------------
\* The fold that SumFunction is defined by.
Some(s) == CHOOSE x \in s : TRUE

IsSum(g, f, D) ==
    g = [s \in D |-> IF s = {} THEN 0 ELSE f[Some(s)] + g[s \ {Some(s)}]]

SumOf(f, S) == (CHOOSE g : IsSum(g, f, SUBSET S))

LEMMA SumUnfold ==
  ASSUME NEW f, NEW S
  PROVE  SumFunctionOnSet(f, S) = SumOf(f, S)[S]
BY Zenon DEF SumFunctionOnSet, FoldFunctionOnSet, MapThenFoldSet, IsSum, SumOf, Some

LEMMA SomeIn ==
  ASSUME NEW s, s # {}
  PROVE  Some(s) \in s
BY DEF Some

\* There is such a function.
LEMMA SumExists ==
  ASSUME NEW f, NEW S, IsFiniteSet(S)
  PROVE  IsSum(SumOf(f, S), f, SUBSET S)
<1> DEFINE D(n) == {t \in SUBSET S : Cardinality(t) <= n}
           N == {n \in Nat : ~\E g : IsSum(g, f, D(n))}
<1>0. \A t \in SUBSET S : IsFiniteSet(t) /\ Cardinality(t) \in Nat /\ Cardinality(S) \in Nat
  BY FS_Subset, FS_CardinalityType
<1>1. N = {}
  <2> SUFFICES ASSUME N # {} PROVE FALSE
    OBVIOUS
  <2>1. PICK n \in N : \A k \in N : n <= k
    <3>1. N \in SUBSET Nat
      OBVIOUS
    <3> HIDE DEF N
    <3> QED
      BY <3>1, LeastExists
  <2>2. n \in Nat /\ ~\E g : IsSum(g, f, D(n))
    OBVIOUS
  <2>3. CASE n = 0
    <3> DEFINE g == [s \in D(n) |-> 0]
    <3>1. \A s \in D(n) : s = {}
      BY <1>0, <2>3, FS_EmptySet
    <3>2. IsSum(g, f, D(n))
      BY <3>1 DEF IsSum
    <3> QED
      BY <2>2, <3>2
  <2>4. CASE n # 0
    <3>1. n - 1 \in Nat
      BY <2>2, <2>4
    <3>2. PICK h : IsSum(h, f, D(n - 1))
      <4>1. n - 1 \notin N
        <5> HIDE DEF N
        <5> QED
          BY <2>1, <2>2
      <4> HIDE DEF D
      <4> QED
        BY <3>1, <4>1
    <3> DEFINE g == [s \in D(n) |-> IF s = {} THEN 0 ELSE f[Some(s)] + h[s \ {Some(s)}]]
    <3>3. ASSUME NEW s \in D(n), s # {}
          PROVE  s \ {Some(s)} \in D(n - 1)
      <4>1. Some(s) \in s
        BY <3>3, SomeIn
      <4>2. Cardinality(s \ {Some(s)}) = Cardinality(s) - 1
        BY <1>0, <4>1, FS_RemoveElement
      <4> QED
        BY <1>0, <2>2, <4>2
    <3>4. ASSUME NEW t \in D(n - 1)
          PROVE  t \in D(n) /\ g[t] = h[t]
      <4>1. t \in D(n)
        BY <1>0, <2>2
      <4>2. h[t] = IF t = {} THEN 0 ELSE f[Some(t)] + h[t \ {Some(t)}]
        <5> HIDE DEF D
        <5> QED
          BY <3>2 DEF IsSum
      <4> HIDE DEF D
      <4> QED
        BY <4>1, <4>2
    <3>5. ASSUME NEW s \in D(n)
          PROVE  g[s] = IF s = {} THEN 0 ELSE f[Some(s)] + g[s \ {Some(s)}]
      <4>1. g[s] = IF s = {} THEN 0 ELSE f[Some(s)] + h[s \ {Some(s)}]
        <5> HIDE DEF D
        <5> QED
          OBVIOUS
      <4> HIDE DEF g, D
      <4> QED
        BY <3>3, <3>4, <4>1
    <3>6. IsSum(g, f, D(n))
      <4>1. g = [s \in D(n) |-> g[s]]
        <5> HIDE DEF D
        <5> QED
          OBVIOUS
      <4> HIDE DEF g, D
      <4> QED
        BY <3>5, <4>1 DEF IsSum
    <3> QED
      BY <2>2, <3>6
  <2> QED
    BY <2>3, <2>4
<1>2. D(Cardinality(S)) = SUBSET S
  <2>1. ASSUME NEW t \in SUBSET S PROVE Cardinality(t) <= Cardinality(S)
    BY FS_Subset
  <2> QED
    BY <2>1
<1>3. \E g : IsSum(g, f, D(Cardinality(S)))
  <2>1. Cardinality(S) \in Nat
    BY FS_CardinalityType
  <2>2. Cardinality(S) \notin N
    BY <1>1
  <2> HIDE DEF D
  <2> QED
    BY <2>1, <2>2
<1>4. \E g : IsSum(g, f, SUBSET S)
  <2> HIDE DEF D
  <2> QED
    BY <1>2, <1>3
<1> QED
  BY <1>4, Zenon DEF SumOf

\* What it gives for a set is the sum over that set.
LEMMA SumStep ==
  ASSUME NEW f, NEW S, IsFiniteSet(S), NEW T \in SUBSET S
  PROVE  SumOf(f, S)[T] = IF T = {} THEN 0 ELSE f[Some(T)] + SumOf(f, S)[T \ {Some(T)}]
<1> DEFINE g == SumOf(f, S)
<1>1. IsSum(g, f, SUBSET S)
  BY SumExists
<1> HIDE DEF g
<1>2. g[T] = IF T = {} THEN 0 ELSE f[Some(T)] + g[T \ {Some(T)}]
  BY <1>1 DEF IsSum
<1> QED
  BY <1>2 DEF g

LEMMA SumLocal ==
  ASSUME NEW f, NEW S, IsFiniteSet(S), NEW T \in SUBSET S
  PROVE  SumOf(f, S)[T] = SumFunctionOnSet(f, T)
<1> DEFINE g == SumOf(f, S)
           h == SumOf(f, T)
           B == {t \in SUBSET T : g[t] # h[t]}
<1>0. IsFiniteSet(T)
  BY FS_Subset
<1>1. ASSUME NEW t \in SUBSET T
      PROVE  /\ g[t] = IF t = {} THEN 0 ELSE f[Some(t)] + g[t \ {Some(t)}]
             /\ h[t] = IF t = {} THEN 0 ELSE f[Some(t)] + h[t \ {Some(t)}]
  BY <1>0, SumStep
<1> HIDE DEF g, h
<1>2. B = {}
  <2> SUFFICES ASSUME B # {} PROVE FALSE
    OBVIOUS
  <2>1. PICK t \in B : \A x \in t : t \ {x} \notin B
    <3>1. B \in SUBSET SUBSET T
      OBVIOUS
    <3> HIDE DEF B
    <3> QED
      BY <1>0, <3>1, MinimalSet
  <2>2. CASE t = {}
    BY <1>1, <2>2
  <2>3. CASE t # {}
    <3>1. Some(t) \in t
      BY <2>3, SomeIn
    <3>2. g[t \ {Some(t)}] = h[t \ {Some(t)}]
      BY <2>1, <3>1
    <3> QED
      BY <1>1, <2>3, <3>2
  <2> QED
    BY <2>2, <2>3
<1>3. g[T] = h[T]
  BY <1>2
<1> QED
  BY <1>3, SumUnfold DEF g, h

LEMMA SumEmpty == ASSUME NEW f PROVE SumFunctionOnSet(f, {}) = 0
<1>1. IsFiniteSet({})
  BY FS_EmptySet
<1> QED
  BY <1>1, SumStep, SumUnfold

LEMMA SumSome ==
  ASSUME NEW f, NEW S, IsFiniteSet(S), S # {}
  PROVE  SumFunctionOnSet(f, S) = f[Some(S)] + SumFunctionOnSet(f, S \ {Some(S)})
<1>1. SumOf(f, S)[S] = f[Some(S)] + SumOf(f, S)[S \ {Some(S)}]
  BY SumStep
<1>2. SumOf(f, S)[S] = SumFunctionOnSet(f, S)
  BY SumUnfold
<1>3. SumOf(f, S)[S \ {Some(S)}] = SumFunctionOnSet(f, S \ {Some(S)})
  BY SumLocal
<1> QED
  BY <1>1, <1>2, <1>3

LEMMA SumInt ==
  ASSUME NEW f, NEW S, IsFiniteSet(S), \A x \in S : f[x] \in Int
  PROVE  SumFunctionOnSet(f, S) \in Int
<1> DEFINE B == {T \in SUBSET S : SumFunctionOnSet(f, T) \notin Int}
<1>1. B = {}
  <2> SUFFICES ASSUME B # {} PROVE FALSE
    OBVIOUS
  <2>1. PICK T \in B : \A x \in T : T \ {x} \notin B
    <3>1. B \in SUBSET SUBSET S
      OBVIOUS
    <3> HIDE DEF B
    <3> QED
      BY <3>1, MinimalSet
  <2>2. T # {} /\ IsFiniteSet(T)
    BY <2>1, SumEmpty, FS_Subset
  <2>3. Some(T) \in T
    BY <2>2, SomeIn
  <2>4. SumFunctionOnSet(f, T \ {Some(T)}) \in Int
    BY <2>1, <2>3
  <2>5. SumFunctionOnSet(f, T) = f[Some(T)] + SumFunctionOnSet(f, T \ {Some(T)})
    BY <2>2, SumSome
  <2> QED
    BY <2>3, <2>4, <2>5
<1> QED
  BY <1>1

\* The order does not matter.
LEMMA SumRemove ==
  ASSUME NEW f, NEW S, IsFiniteSet(S), \A x \in S : f[x] \in Int, NEW x \in S
  PROVE  SumFunctionOnSet(f, S) = f[x] + SumFunctionOnSet(f, S \ {x})
<1> DEFINE P(T, z) == SumFunctionOnSet(f, T) = f[z] + SumFunctionOnSet(f, T \ {z})
           B == {T \in SUBSET S : \E z \in T : ~P(T, z)}
<1>1. B = {}
  <2> SUFFICES ASSUME B # {} PROVE FALSE
    OBVIOUS
  <2>1. PICK T \in B : \A y \in T : T \ {y} \notin B
    <3>1. B \in SUBSET SUBSET S
      OBVIOUS
    <3> HIDE DEF B
    <3> QED
      BY <3>1, MinimalSet
  <2>2. PICK z \in T : ~P(T, z)
    OBVIOUS
  <2> DEFINE y == Some(T)
  <2>3. T \in SUBSET S /\ IsFiniteSet(T) /\ y \in T
    BY <2>2, SomeIn, FS_Subset
  <2>4. SumFunctionOnSet(f, T) = f[y] + SumFunctionOnSet(f, T \ {y})
    BY <2>2, <2>3, SumSome
  <2> HIDE DEF y
  <2>5. y # z
    BY <2>2, <2>4
  <2>6. P(T \ {y}, z)
    BY <2>1, <2>2, <2>3, <2>5
  <2>7. P(T \ {z}, y)
    BY <2>1, <2>2, <2>3, <2>5
  <2>8. (T \ {y}) \ {z} = (T \ {z}) \ {y}
    OBVIOUS
  <2>9. /\ SumFunctionOnSet(f, (T \ {y}) \ {z}) \in Int /\ f[y] \in Int /\ f[z] \in Int
    <3>1. IsFiniteSet((T \ {y}) \ {z}) /\ \A q \in (T \ {y}) \ {z} : f[q] \in Int
      BY <2>3, FS_Subset
    <3> QED
      BY <2>2, <2>3, <3>1, SumInt
  <2>10. P(T, z)
    <3> DEFINE c == SumFunctionOnSet(f, (T \ {y}) \ {z})
    <3>1. SumFunctionOnSet(f, T \ {y}) = f[z] + c
      BY <2>6
    <3>2. SumFunctionOnSet(f, T \ {z}) = f[y] + c
      BY <2>7, <2>8
    <3>3. c \in Int
      BY <2>9
    <3> HIDE DEF c
    <3> QED
      BY <2>4, <2>9, <3>1, <3>2, <3>3
  <2> QED
    BY <2>2, <2>10
<1> QED
  BY <1>1

LEMMA SumAdd ==
  ASSUME NEW S, IsFiniteSet(S), NEW a, NEW b, NEW c,
         \A x \in S : a[x] \in Int /\ b[x] \in Int /\ c[x] = a[x] + b[x]
  PROVE  SumFunctionOnSet(c, S) = SumFunctionOnSet(a, S) + SumFunctionOnSet(b, S)
<1> DEFINE B == {T \in SUBSET S : SumFunctionOnSet(c, T) #
                                   SumFunctionOnSet(a, T) + SumFunctionOnSet(b, T)}
<1>1. B = {}
  <2> SUFFICES ASSUME B # {} PROVE FALSE
    OBVIOUS
  <2>1. PICK T \in B : \A x \in T : T \ {x} \notin B
    <3>1. B \in SUBSET SUBSET S
      OBVIOUS
    <3> HIDE DEF B
    <3> QED
      BY <3>1, MinimalSet
  <2>2. T # {} /\ IsFiniteSet(T)
    <3>1. /\ SumFunctionOnSet(a, {}) = 0 /\ SumFunctionOnSet(b, {}) = 0
          /\ SumFunctionOnSet(c, {}) = 0
      BY SumEmpty
    <3>2. T # {}
      BY <2>1, <3>1
    <3>3. IsFiniteSet(T)
      BY <2>1, FS_Subset
    <3> QED
      BY <3>2, <3>3
  <2> DEFINE y == Some(T)
             U == T \ {y}
  <2>3. y \in T /\ y \in S
    BY <2>2, SomeIn
  <2>4. SumFunctionOnSet(c, U) = SumFunctionOnSet(a, U) + SumFunctionOnSet(b, U)
    BY <2>1, <2>3
  <2>5. /\ SumFunctionOnSet(a, T) = a[y] + SumFunctionOnSet(a, U)
        /\ SumFunctionOnSet(b, T) = b[y] + SumFunctionOnSet(b, U)
        /\ SumFunctionOnSet(c, T) = c[y] + SumFunctionOnSet(c, U)
    BY <2>2, SumSome
  <2>6. SumFunctionOnSet(a, U) \in Int /\ SumFunctionOnSet(b, U) \in Int
    <3>1. IsFiniteSet(U) /\ \A x \in U : a[x] \in Int /\ b[x] \in Int
      BY <2>2, FS_Subset
    <3> HIDE DEF U
    <3> QED
      BY <3>1, SumInt
  <2> HIDE DEF y, U
  <2>7. SumFunctionOnSet(c, T) = SumFunctionOnSet(a, T) + SumFunctionOnSet(b, T)
    BY <2>3, <2>4, <2>5, <2>6
  <2> QED
    BY <2>7
<1> QED
  BY <1>1

\* Zeros do not count.
LEMMA SumSupport ==
  ASSUME NEW S, IsFiniteSet(S), NEW E \in SUBSET S, NEW z, \A x \in S : z[x] \in Int,
         \A x \in S \ E : z[x] = 0
  PROVE  SumFunctionOnSet(z, S) = SumFunctionOnSet(z, E)
<1> DEFINE B == {T \in SUBSET S : E \subseteq T /\ SumFunctionOnSet(z, T) # SumFunctionOnSet(z, E)}
<1>1. B = {}
  <2> SUFFICES ASSUME B # {} PROVE FALSE
    OBVIOUS
  <2>1. PICK T \in B : \A x \in T : T \ {x} \notin B
    <3>1. B \in SUBSET SUBSET S
      OBVIOUS
    <3> HIDE DEF B
    <3> QED
      BY <3>1, MinimalSet
  <2>2. T # E /\ IsFiniteSet(T) /\ E \subseteq T
    BY <2>1, FS_Subset
  <2>3. PICK x \in T : x \notin E
    BY <2>2
  <2>4. SumFunctionOnSet(z, T \ {x}) = SumFunctionOnSet(z, E)
    BY <2>1, <2>2, <2>3
  <2>5. SumFunctionOnSet(z, T) = z[x] + SumFunctionOnSet(z, T \ {x})
    BY <2>2, <2>3, SumRemove
  <2>6. SumFunctionOnSet(z, E) \in Int
    <3>1. IsFiniteSet(E)
      BY FS_Subset
    <3> QED
      BY <3>1, SumInt
  <2> QED
    BY <2>3, <2>4, <2>5, <2>6
<1> QED
  BY <1>1

LEMMA SumSame ==
  ASSUME NEW S, IsFiniteSet(S), NEW a, NEW b, \A x \in S : a[x] \in Int /\ a[x] = b[x]
  PROVE  SumFunctionOnSet(a, S) = SumFunctionOnSet(b, S)
<1> DEFINE z == [x \in S |-> 0]
<1>1. SumFunctionOnSet(b, S) = SumFunctionOnSet(a, S) + SumFunctionOnSet(z, S)
  <2>1. \A x \in S : a[x] \in Int /\ z[x] \in Int /\ b[x] = a[x] + z[x]
    OBVIOUS
  <2> HIDE DEF z
  <2> QED
    BY <2>1, SumAdd
<1>2. SumFunctionOnSet(z, S) = 0
  <2>1. \A x \in S : z[x] = 0
    OBVIOUS
  <2> HIDE DEF z
  <2>2. SumFunctionOnSet(z, S) = SumFunctionOnSet(z, {})
    BY <2>1, SumSupport
  <2> QED
    BY <2>2, SumEmpty
<1>3. SumFunctionOnSet(a, S) \in Int
  BY SumInt
<1> QED
  BY <1>1, <1>2, <1>3

LEMMA SumOne ==
  ASSUME NEW f, NEW x, f[x] \in Int
  PROVE  SumFunctionOnSet(f, {x}) = f[x]
<1>1. IsFiniteSet({x})
  BY FS_Singleton
<1>2. SumFunctionOnSet(f, {x}) = f[x] + SumFunctionOnSet(f, {x} \ {x})
  <2>1. \A y \in {x} : f[y] \in Int
    OBVIOUS
  <2>2. x \in {x}
    OBVIOUS
  <2> QED
    BY <1>1, <2>1, <2>2, SumRemove
<1>3. {x} \ {x} = {}
  OBVIOUS
<1> QED
  BY <1>2, <1>3, SumEmpty

\* What Pick does to the weights: the servers of E gain e, one of them pays for all.
LEMMA SumPays ==
  ASSUME NEW S, IsFiniteSet(S), NEW E \in SUBSET S, NEW best \in E, NEW w, NEW e,
         \A x \in S : w[x] \in Int, \A x \in E : e[x] \in Int, NEW v,
         \A x \in S \ E : v[x] = w[x],
         \A x \in E : v[x] = w[x] + e[x] - (IF x = best THEN SumFunctionOnSet(e, E) ELSE 0)
  PROVE  SumFunctionOnSet(v, S) = SumFunctionOnSet(w, S)
<1> DEFINE total == SumFunctionOnSet(e, E)
           gain == [x \in S |-> IF x \in E THEN e[x] ELSE 0]
           pay == [x \in S |-> IF x = best THEN - total ELSE 0]
           both == [x \in S |-> gain[x] + pay[x]]
<1>0. IsFiniteSet(E)
  BY FS_Subset
<1>1. total \in Int
  BY <1>0, SumInt
<1>2. SumFunctionOnSet(gain, S) = total
  <2>1. /\ \A x \in S : gain[x] \in Int
        /\ \A x \in S \ E : gain[x] = 0
        /\ \A x \in E : gain[x] = e[x] /\ gain[x] \in Int
    OBVIOUS
  <2> HIDE DEF gain
  <2>2. SumFunctionOnSet(gain, S) = SumFunctionOnSet(gain, E)
    BY <2>1, SumSupport
  <2>3. SumFunctionOnSet(gain, E) = total
    BY <1>0, <2>1, SumSame
  <2> QED
    BY <2>2, <2>3
<1>3. SumFunctionOnSet(pay, S) = - total
  <2> HIDE DEF total
  <2>1. /\ \A x \in S : pay[x] \in Int
        /\ \A x \in S \ {best} : pay[x] = 0
        /\ pay[best] = - total
    BY <1>1
  <2> HIDE DEF pay
  <2>2. SumFunctionOnSet(pay, S) = SumFunctionOnSet(pay, {best})
    BY <2>1, SumSupport
  <2>3. SumFunctionOnSet(pay, {best}) = pay[best]
    BY <2>1, SumOne
  <2> QED
    BY <2>1, <2>2, <2>3
<1> HIDE DEF total
<1>4. \A x \in S : /\ gain[x] \in Int /\ pay[x] \in Int
                   /\ both[x] = gain[x] + pay[x] /\ both[x] \in Int
  BY <1>1
<1>5. \A x \in S : v[x] = w[x] + both[x]
  BY <1>1 DEF total
<1> HIDE DEF gain, pay, both
<1>6. SumFunctionOnSet(both, S) = SumFunctionOnSet(gain, S) + SumFunctionOnSet(pay, S)
  BY <1>4, SumAdd
<1>7. SumFunctionOnSet(v, S) = SumFunctionOnSet(w, S) + SumFunctionOnSet(both, S)
  BY <1>4, <1>5, SumAdd
<1>8. SumFunctionOnSet(w, S) \in Int
  BY SumInt
<1> QED
  BY <1>1, <1>2, <1>3, <1>6, <1>7, <1>8

-----------------------------------------------------------------------------
\* The servers.

IsPeer(x) ==
    x = [conns |-> x.conns, fails |-> x.fails, accessed |-> x.accessed, checked |-> x.checked,
         eff |-> x.eff, cw |-> x.cw]

PeersOK ==
    /\ peer = [p \in Peer |-> peer[p]]
    /\ \A p \in Peer : IsPeer(peer[p]) /\ peer[p].eff \in Int /\ peer[p].cw \in Int

\* A request holds a server while it makes an attempt.
CurOK ==
    \A r \in Request :
        /\ req[r].cur \in Peer \cup {None}
        /\ req[r].pc \in {"idle", "connect", "done"} => req[r].cur = None

LEMMA ServersOf ==
  ASSUME NEW b \in Block, NEW s \in {Primary[b], Backup[b]}
  PROVE  s \in Seq(Range(s)) /\ Range(s) \subseteq Peer /\ IsFiniteSet(Range(s))
<1>1. s \in Seq(Range(s))
  BY ServersAssumption
<1>2. Range(s) \subseteq Peer
  BY DEF Peer, Servers
<1>3. Len(s) \in Nat /\ DOMAIN s = 1 .. Len(s)
  BY <1>1, LenProperties
<1>4. IsFiniteSet(1 .. Len(s))
  BY <1>3, FS_Interval
<1>5. s \in Surjection(1 .. Len(s), Range(s))
  BY <1>1, <1>3, LenProperties DEF Surjection, Range
<1>6. IsFiniteSet(Range(s))
  BY <1>4, <1>5, FS_Surjection
<1> QED
  BY <1>1, <1>2, <1>6

\* Of a list, some entry has the largest weight and the least place among these.
LEMMA LexMax ==
  ASSUME NEW E, E # {}, NEW n \in Nat, NEW I, NEW w,
         \A p \in E : I[p] \in 1 .. n /\ w[p] \in Int,
         \A p, q \in E : I[p] = I[q] => p = q
  PROVE  \E p \in E : \A q \in E : w[p] > w[q] \/ (w[p] = w[q] /\ I[p] <= I[q])
<1> DEFINE D(k) == {p \in E : I[p] <= k}
           Top(p, k) == \A q \in D(k) : w[p] > w[q] \/ (w[p] = w[q] /\ I[p] <= I[q])
           N == {k \in Nat : D(k) # {} /\ ~\E p \in D(k) : Top(p, k)}
<1>1. N = {}
  <2> SUFFICES ASSUME N # {} PROVE FALSE
    OBVIOUS
  <2>1. PICK k \in N : \A j \in N : k <= j
    <3>1. N \in SUBSET Nat
      OBVIOUS
    <3> HIDE DEF N
    <3> QED
      BY <3>1, LeastExists
  <2>2. k \in Nat /\ D(k) # {} /\ ~\E p \in D(k) : Top(p, k)
    OBVIOUS
  <2>3. k # 0
    BY <2>2
  <2>4. k - 1 \in Nat /\ k - 1 \notin N
    <3> HIDE DEF N
    <3> QED
      BY <2>1, <2>2, <2>3
  <2>5. D(k - 1) = {} \/ \E p \in D(k - 1) : Top(p, k - 1)
    <3> HIDE DEF D, Top
    <3> QED
      BY <2>4
  <2>6. CASE ~\E z \in E : I[z] = k
    <3>1. D(k) = D(k - 1)
      <4>1. k \in Nat /\ \A p \in E : I[p] \in Int /\ I[p] # k
        <5> HIDE DEF D, Top
        <5> QED
          BY <2>2, <2>6
      <4>2. \A p \in E : I[p] <= k <=> I[p] <= k - 1
        <5> HIDE DEF N
        <5> QED
          BY <4>1
      <4> QED
        BY <4>2
    <3>2. \E p \in D(k - 1) : Top(p, k - 1)
      <4> HIDE DEF D, Top
      <4> QED
        BY <2>2, <2>5, <3>1
    <3>3. PICK p \in D(k - 1) : Top(p, k - 1)
      <4> HIDE DEF D, Top
      <4> QED
        BY <3>2
    <3>4. Top(p, k) /\ p \in D(k)
      <4> HIDE DEF D
      <4> QED
        BY <3>1, <3>3
    <3> HIDE DEF Top, D
    <3> QED
      BY <2>2, <3>4
  <2>7. ASSUME NEW z \in E, I[z] = k PROVE FALSE
    <3>1. z \in D(k) /\ \A q \in D(k) : q = z \/ q \in D(k - 1)
      <4>1. k \in Nat /\ \A q \in E : I[q] \in Int /\ (I[q] = k => q = z)
        <5> HIDE DEF D, Top
        <5> QED
          BY <2>2, <2>7
      <4>2. \A q \in E : I[q] <= k => q = z \/ I[q] <= k - 1
        <5> HIDE DEF N
        <5> QED
          BY <4>1
      <4> QED
        BY <2>7, <4>1, <4>2
    <3>2. CASE D(k - 1) = {}
      <4>1. Top(z, k)
        <5> HIDE DEF D
        <5> QED
          BY <2>7, <3>1, <3>2
      <4> HIDE DEF Top, D
      <4> QED
        BY <2>2, <3>1, <4>1
    <3>3. ASSUME NEW p \in D(k - 1), Top(p, k - 1) PROVE FALSE
      <4>1. p \in E /\ I[p] <= k /\ p \in D(k)
        BY <2>2, <3>3
      <4>2. \A q \in D(k) : q \in E
        OBVIOUS
      <4>3. Top(z, k) \/ Top(p, k)
        <5> HIDE DEF D
        <5>1. CASE w[z] > w[p]
          BY <2>7, <3>1, <3>3, <4>1, <4>2, <5>1
        <5>2. CASE ~(w[z] > w[p])
          BY <2>7, <3>1, <3>3, <4>1, <4>2, <5>2
        <5> QED
          BY <5>1, <5>2
      <4> HIDE DEF Top, D
      <4> QED
        BY <2>2, <3>1, <4>1, <4>3
    <3> HIDE DEF D, Top
    <3> QED
      BY <2>5, <3>2, <3>3
  <2> QED
    BY <2>6, <2>7
<1>2. D(n) = E
  OBVIOUS
<1>3. \E p \in D(n) : Top(p, n)
  <2>1. n \notin N
    BY <1>1
  <2> HIDE DEF D, Top
  <2> QED
    BY <1>2, <2>1
<1> QED
  BY <1>2, <1>3

\* The best server is one of those that are eligible.
LEMMA BestIsEligible ==
  ASSUME NEW s, s \in Seq(Range(s)), NEW tried, Eligible(s, tried) # {},
         \A p \in Range(s) : peer[p].cw \in Int /\ peer[p].eff \in Int
  PROVE  Best(s, tried) \in Eligible(s, tried)
<1> DEFINE E == Eligible(s, tried)
           I == [p \in E |-> Index(s, p)]
           w == [p \in E |-> peer[p].cw + peer[p].eff]
<1>1. E \subseteq Range(s)
  BY DEF Eligible
<1>2. Len(s) \in Nat /\ DOMAIN s = 1 .. Len(s)
  BY LenProperties
<1>3. ASSUME NEW p \in E
      PROVE  Index(s, p) \in 1 .. Len(s) /\ s[Index(s, p)] = p
  <2>1. \E i \in 1 .. Len(s) : s[i] = p
    BY <1>1, <1>2 DEF Range
  <2> QED
    BY <2>1 DEF Index
<1> HIDE DEF E
<1>4. \A p \in E : I[p] \in 1 .. Len(s) /\ w[p] \in Int
  BY <1>1, <1>3
<1>5. \A p, q \in E : I[p] = I[q] => p = q
  BY <1>3
<1>6. \A p \in E : I[p] = Index(s, p) /\ w[p] = peer[p].cw + peer[p].eff
  OBVIOUS
<1>7. E # {}
  BY DEF E
<1> HIDE DEF I, w
<1>8. PICK p \in E : \A q \in E : w[p] > w[q] \/ (w[p] = w[q] /\ I[p] <= I[q])
  <2> DEFINE n == Len(s)
  <2>1. n \in Nat /\ \A p \in E : I[p] \in 1 .. n /\ w[p] \in Int
    BY <1>2, <1>4
  <2> HIDE DEF n
  <2> QED
    BY <1>5, <1>7, <2>1, LexMax
<1>9. \A q \in E : \/ peer[p].cw + peer[p].eff > peer[q].cw + peer[q].eff
                   \/ /\ peer[p].cw + peer[p].eff = peer[q].cw + peer[q].eff
                      /\ Index(s, p) <= Index(s, q)
  BY <1>6, <1>8
<1> QED
  BY <1>9, Zenon DEF Best, E

-----------------------------------------------------------------------------
\* The connections of the servers, and their weights.

NInv == PeersOK /\ CurOK /\ ConnsAreCounted /\ WeightsCancel

HeldBy(p) == {r \in Request : req[r].cur = p}

LEMMA HeldByFinite ==
  ASSUME NEW p
  PROVE  IsFiniteSet(HeldBy(p)) /\ Cardinality(HeldBy(p)) \in Nat
<1>1. HeldBy(p) \subseteq Request /\ IsFiniteSet(Request)
  BY UpstreamAssumption DEF HeldBy
<1>2. IsFiniteSet(HeldBy(p))
  BY <1>1, FS_Subset
<1> QED
  BY <1>2, FS_CardinalityType

LEMMA KeepServers ==
  ASSUME ConnsAreCounted, \A q \in Request : req'[q].cur = req[q].cur,
         \A p \in Peer : peer'[p].conns = peer[p].conns
  PROVE  ConnsAreCounted'
<1>1. \A p : {r \in Request : req'[r].cur = p} = {r \in Request : req[r].cur = p}
  OBVIOUS
<1> QED
  BY <1>1 DEF ConnsAreCounted

\* A request takes a server that is not full.
LEMMA TakeServer ==
  ASSUME ConnsAreCounted, NEW r \in Request, NEW p \in Peer, req[r].cur = None,
         req'[r].cur = p, \A q \in Request \ {r} : req'[q].cur = req[q].cur,
         peer'[p].conns = peer[p].conns + 1, ~Full(p),
         \A m \in Peer \ {p} : peer'[m].conns = peer[m].conns
  PROVE  ConnsAreCounted'
<1>0. None \notin Peer /\ MaxConns[p] \in Nat
  BY UpstreamAssumption, ServersAssumption
<1> SUFFICES ASSUME NEW m \in Peer
             PROVE  /\ peer'[m].conns = Cardinality(HeldBy(m)')
                    /\ MaxConns[m] > 0 => peer'[m].conns <= MaxConns[m]
  BY DEF ConnsAreCounted, HeldBy
<1>1. /\ peer[m].conns = Cardinality(HeldBy(m))
      /\ MaxConns[m] > 0 => peer[m].conns <= MaxConns[m]
  BY DEF ConnsAreCounted, HeldBy
<1>2. CASE m # p
  <2>1. HeldBy(m)' = HeldBy(m)
    BY <1>0, <1>2 DEF HeldBy
  <2> QED
    BY <1>1, <1>2, <2>1
<1>3. CASE m = p
  <2>1. HeldBy(p)' = HeldBy(p) \cup {r} /\ r \notin HeldBy(p)
    BY <1>0 DEF HeldBy
  <2>2. IsFiniteSet(HeldBy(p)) /\ Cardinality(HeldBy(p)) \in Nat
    BY HeldByFinite
  <2>3. Cardinality(HeldBy(p) \cup {r}) = Cardinality(HeldBy(p)) + 1
    BY <2>1, <2>2, FS_AddElement
  <2>4. peer'[p].conns = Cardinality(HeldBy(p)')
    BY <1>1, <1>3, <2>1, <2>3
  <2>5. MaxConns[p] > 0 => peer'[p].conns <= MaxConns[p]
    BY <1>0, <1>1, <1>3, <2>2 DEF Full
  <2> QED
    BY <1>3, <2>4, <2>5
<1> QED
  BY <1>2, <1>3

\* A request gives its server back.
LEMMA GiveServer ==
  ASSUME ConnsAreCounted, NEW r \in Request, NEW p \in Peer, req[r].cur = p,
         req'[r].cur = None, \A q \in Request \ {r} : req'[q].cur = req[q].cur,
         peer'[p].conns = peer[p].conns - 1,
         \A m \in Peer \ {p} : peer'[m].conns = peer[m].conns
  PROVE  ConnsAreCounted'
<1>0. None \notin Peer /\ MaxConns[p] \in Nat
  BY UpstreamAssumption, ServersAssumption
<1> SUFFICES ASSUME NEW m \in Peer
             PROVE  /\ peer'[m].conns = Cardinality(HeldBy(m)')
                    /\ MaxConns[m] > 0 => peer'[m].conns <= MaxConns[m]
  BY DEF ConnsAreCounted, HeldBy
<1>1. /\ peer[m].conns = Cardinality(HeldBy(m))
      /\ MaxConns[m] > 0 => peer[m].conns <= MaxConns[m]
  BY DEF ConnsAreCounted, HeldBy
<1>2. CASE m # p
  <2>1. HeldBy(m)' = HeldBy(m)
    BY <1>0, <1>2 DEF HeldBy
  <2> QED
    BY <1>1, <1>2, <2>1
<1>3. CASE m = p
  <2>1. HeldBy(p)' = HeldBy(p) \ {r} /\ r \in HeldBy(p)
    BY <1>0 DEF HeldBy
  <2>2. IsFiniteSet(HeldBy(p)) /\ Cardinality(HeldBy(p)) \in Nat
    BY HeldByFinite
  <2>3. Cardinality(HeldBy(p) \ {r}) = Cardinality(HeldBy(p)) - 1
    BY <2>1, <2>2, FS_RemoveElement
  <2>4. peer'[p].conns = Cardinality(HeldBy(p)')
    BY <1>1, <1>3, <2>1, <2>3
  <2>5. MaxConns[p] > 0 => peer'[p].conns <= MaxConns[p]
    BY <1>0, <1>1, <1>3, <2>2
  <2> QED
    BY <1>3, <2>4, <2>5
<1> QED
  BY <1>2, <1>3

\* Two lists are the same or have no server in common.
LEMMA ListsDisjoint ==
  ASSUME NEW b \in Block, NEW c \in Block,
         NEW s \in {Primary[b], Backup[b]}, NEW t \in {Primary[c], Backup[c]}
  PROVE  Range(s) = Range(t) \/ Range(s) \cap Range(t) = {}
<1>1. CASE b # c
  <2>1. Servers(b) \cap Servers(c) = {}
    BY <1>1, ServersAssumption
  <2> QED
    BY <2>1 DEF Servers
<1>2. ASSUME NEW p \in Range(Primary[b]), p \in Range(Backup[b])
      PROVE  FALSE
  <2> DEFINE P == Primary[b]
             B == Backup[b]
  <2>0. P \in Seq(Range(P)) /\ B \in Seq(Range(B)) /\ IsInjective(P \o B)
    BY ServersAssumption
  <2>1. /\ Len(P) \in Nat /\ DOMAIN P = 1 .. Len(P)
        /\ Len(B) \in Nat /\ DOMAIN B = 1 .. Len(B)
    BY <2>0, LenProperties
  <2>2. PICK i \in 1 .. Len(P) : P[i] = p
    BY <1>2, <2>1 DEF Range
  <2>3. PICK j \in 1 .. Len(B) : B[j] = p
    BY <1>2, <2>1 DEF Range
  <2> DEFINE S == Range(P) \cup Range(B)
  <2>4. P \in Seq(S) /\ B \in Seq(S)
    BY <2>0, SeqMonotonic
  <2> HIDE DEF P, B, S
  <2>5. /\ P \o B \in Seq(S) /\ Len(P \o B) = Len(P) + Len(B)
        /\ (P \o B)[i] = p /\ (P \o B)[Len(P) + j] = p
    <3>1. /\ P \o B \in Seq(S) /\ Len(P \o B) = Len(P) + Len(B)
          /\ \A k \in 1 .. Len(P) + Len(B) :
                (P \o B)[k] = IF k <= Len(P) THEN P[k] ELSE B[k - Len(P)]
      BY <2>4, ConcatProperties
    <3>2. i \in 1 .. Len(P) + Len(B) /\ i <= Len(P)
      BY <2>1, <2>2
    <3>3. /\ Len(P) + j \in 1 .. Len(P) + Len(B) /\ ~(Len(P) + j <= Len(P))
          /\ Len(P) + j - Len(P) = j
      BY <2>1, <2>3
    <3> QED
      BY <2>2, <2>3, <3>1, <3>2, <3>3
  <2>6. DOMAIN (P \o B) = 1 .. Len(P) + Len(B)
    BY <2>5, LenProperties
  <2>7. i = Len(P) + j
    <3>1. i \in DOMAIN (P \o B) /\ Len(P) + j \in DOMAIN (P \o B)
      BY <2>1, <2>6
    <3> QED
      BY <2>0, <2>5, <3>1 DEF IsInjective
  <2> QED
    BY <2>1, <2>2, <2>3, <2>7
<1> QED
  BY <1>1, <1>2

\* WeightsCancel, with the sum over the servers.
LEMMA WeightsSum ==
  /\ WeightsCancel <=>
       \A b \in Block : \A s \in {Primary[b], Backup[b]} :
           SumFunctionOnSet([p \in Range(s) |-> peer[p].cw], Range(s)) = 0
  /\ WeightsCancel' <=>
       \A b \in Block : \A s \in {Primary[b], Backup[b]} :
           SumFunctionOnSet([p \in Range(s) |-> peer'[p].cw], Range(s)) = 0
<1>1. ASSUME NEW S, NEW x
      PROVE  SumFunction([p \in S |-> x[p].cw]) = SumFunctionOnSet([p \in S |-> x[p].cw], S)
  <2>1. DOMAIN [p \in S |-> x[p].cw] = S
    OBVIOUS
  <2> QED
    BY <2>1, Zenon DEF SumFunction
<1> QED
  BY <1>1, Zenon DEF WeightsCancel

LEMMA KeepWeights ==
  ASSUME PeersOK, WeightsCancel, \A p \in Peer : peer'[p].cw = peer[p].cw
  PROVE  WeightsCancel'
<1>1. ASSUME NEW S, S \subseteq Peer
      PROVE  [p \in S |-> peer'[p].cw] = [p \in S |-> peer[p].cw]
  BY <1>1
<1>2. \A b \in Block : Range(Primary[b]) \subseteq Peer /\ Range(Backup[b]) \subseteq Peer
  BY DEF Peer, Servers
<1> QED
  BY <1>1, <1>2, Zenon DEF WeightsCancel

\* What the best of E has to pay for.
Total(E) == SumFunctionOnSet([p \in E |-> peer[p].eff], E)

\* What Pick does to the server that is picked and to the others.
Picked(best, E) ==
    /\ peer'[best].conns = peer[best].conns + 1
    /\ \A p \in Peer \ {best} : peer'[p].conns = peer[p].conns
    /\ \A p \in Peer \ E : peer'[p].cw = peer[p].cw
    /\ \A p \in E : peer'[p].cw = peer[p].cw + peer[p].eff - (IF p = best THEN Total(E) ELSE 0)

LEMMA PickIs ==
  ASSUME PeersOK, NEW b \in Block, NEW s \in {Primary[b], Backup[b]}, NEW tried,
         Eligible(s, tried) # {}, peer' = Pick(s, tried)
  PROVE  /\ Eligible(s, tried) \subseteq Range(s)
         /\ Best(s, tried) \in Eligible(s, tried) /\ Best(s, tried) \in Peer
         /\ ~Full(Best(s, tried))
         /\ PeersOK'
         /\ Picked(Best(s, tried), Eligible(s, tried))
<1> DEFINE best == Best(s, tried)
           E == Eligible(s, tried)
           e == [p \in E |-> peer[p].eff]
<1>0. E # {} /\ E = Eligible(s, tried) /\ best = Best(s, tried)
  OBVIOUS
<1> HIDE DEF E, best
<1>1. s \in Seq(Range(s)) /\ Range(s) \subseteq Peer /\ IsFiniteSet(Range(s))
  BY ServersOf
<1>2. \A p \in Peer : IsPeer(peer[p]) /\ peer[p].cw \in Int /\ peer[p].eff \in Int
  BY DEF PeersOK
<1>3. best \in E
  <2>1. \A p \in Range(s) : peer[p].cw \in Int /\ peer[p].eff \in Int
    BY <1>1, <1>2
  <2> QED
    BY <1>1, <2>1, BestIsEligible DEF E, best
<1>4. E \subseteq Range(s) /\ ~Full(best)
  BY <1>3 DEF Eligible, E
<1>5. IsFiniteSet(E) /\ E \subseteq Peer
  BY <1>1, <1>4, FS_Subset
<1> DEFINE total == SumFunctionOnSet(e, E)
<1>6. total \in Int
  <2>1. \A p \in E : e[p] \in Int
    BY <1>2, <1>5
  <2> QED
    BY <1>5, <2>1, SumInt
<1>7. SumFunction([p \in E |-> peer[p].eff]) = total
  <2>1. DOMAIN [p \in E |-> peer[p].eff] = E
    OBVIOUS
  <2> QED
    BY <2>1, Zenon DEF SumFunction
<1>8. peer' = [p \in Peer |->
                 IF p \notin E THEN peer[p]
                 ELSE [peer[p] EXCEPT
                         !.eff = IF @ < Weight[p] THEN @ + 1 ELSE @,
                         !.cw = @ + peer[p].eff - (IF p = best THEN total ELSE 0),
                         !.checked = IF p = best /\ now - @ > FailTimeout THEN now ELSE @,
                         !.conns = IF p = best THEN @ + 1 ELSE @]]
  BY <1>7, Zenon DEF Pick, E, best
<1> HIDE DEF total
<1>9. ASSUME NEW p \in Peer \ E PROVE peer'[p] = peer[p]
  BY <1>8
<1>10. ASSUME NEW p \in E
       PROVE  /\ IsPeer(peer'[p]) /\ peer'[p].eff \in Int
              /\ peer'[p].cw = peer[p].cw + peer[p].eff - (IF p = best THEN total ELSE 0)
              /\ peer'[p].conns = IF p = best THEN peer[p].conns + 1 ELSE peer[p].conns
  <2> DEFINE y == peer[p]
             ef == IF y.eff < Weight[p] THEN y.eff + 1 ELSE y.eff
             cw == y.cw + y.eff - (IF p = best THEN total ELSE 0)
             ch == IF p = best /\ now - y.checked > FailTimeout THEN now ELSE y.checked
             co == IF p = best THEN y.conns + 1 ELSE y.conns
  <2>1. IsPeer(y) /\ y.eff \in Int
    BY <1>2, <1>5
  <2>2. peer'[p] = [y EXCEPT !.eff = ef, !.cw = cw, !.checked = ch, !.conns = co]
    BY <1>5, <1>8, <1>10, <2>1 DEF IsPeer
  <2>3. ef \in Int
    BY <2>1
  <2>4. /\ cw = peer[p].cw + peer[p].eff - (IF p = best THEN total ELSE 0)
        /\ co = IF p = best THEN peer[p].conns + 1 ELSE peer[p].conns
    OBVIOUS
  <2> HIDE DEF y, ef, cw, ch, co
  <2>5. /\ IsPeer(peer'[p]) /\ peer'[p].eff = ef /\ peer'[p].cw = cw /\ peer'[p].conns = co
    BY <2>1, <2>2 DEF IsPeer
  <2> QED
    BY <2>3, <2>4, <2>5
<1>11. peer' = [p \in Peer |-> peer'[p]]
  BY <1>8
<1>12. \A p \in E : peer'[p].cw \in Int
  BY <1>2, <1>5, <1>6, <1>10
<1>13. PeersOK'
  <2>1. \A p \in Peer : IsPeer(peer'[p]) /\ peer'[p].eff \in Int /\ peer'[p].cw \in Int
    BY <1>2, <1>9, <1>10, <1>12
  <2> QED
    BY <1>11, <2>1 DEF PeersOK
<1>14. /\ peer'[best].conns = peer[best].conns + 1
       /\ \A p \in Peer \ {best} : peer'[p].conns = peer[p].conns
  BY <1>3, <1>9, <1>10
<1>15. \A p \in E : peer'[p].cw = peer[p].cw + peer[p].eff
                                  - (IF p = best THEN Total(E) ELSE 0)
  BY <1>10 DEF total, Total
<1>16. Picked(best, E)
  BY <1>9, <1>14, <1>15 DEF Picked
<1> QED
  BY <1>1, <1>3, <1>4, <1>13, <1>16 DEF E, best

\* The weights cancel out after a server has been picked.
LEMMA PickCancels ==
  ASSUME PeersOK, WeightsCancel, NEW b \in Block, NEW s \in {Primary[b], Backup[b]}, NEW tried,
         Eligible(s, tried) # {}, peer' = Pick(s, tried)
  PROVE  WeightsCancel'
<1> DEFINE best == Best(s, tried)
           E == Eligible(s, tried)
           e == [p \in E |-> peer[p].eff]
<1>1. /\ E \subseteq Range(s) /\ best \in E
      /\ \A p \in Peer \ E : peer'[p].cw = peer[p].cw
      /\ \A p \in E : peer'[p].cw = peer[p].cw + e[p]
                                    - (IF p = best THEN SumFunctionOnSet(e, E) ELSE 0)
  <2>1. /\ E \subseteq Range(s) /\ best \in E
        /\ Picked(best, E)
    BY PickIs
  <2>2. \A p \in E : e[p] = peer[p].eff
    OBVIOUS
  <2>3. Total(E) = SumFunctionOnSet(e, E)
    BY DEF Total
  <2> HIDE DEF E, best, e
  <2> QED
    BY <2>1, <2>2, <2>3 DEF Picked
<1>2. \A p \in Peer : peer[p].cw \in Int /\ peer[p].eff \in Int
  BY DEF PeersOK
<1>3. Range(s) \subseteq Peer
  BY ServersOf
<1>4. \A p \in E : e[p] \in Int
  BY <1>1, <1>2, <1>3
<1> HIDE DEF best, E, e
<1>5. ASSUME NEW c \in Block, NEW t \in {Primary[c], Backup[c]}
      PROVE  SumFunctionOnSet([p \in Range(t) |-> peer'[p].cw], Range(t)) = 0
  <2> DEFINE S == Range(t)
             w == [p \in S |-> peer[p].cw]
             v == [p \in S |-> peer'[p].cw]
  <2>1. S \subseteq Peer /\ IsFiniteSet(S)
    BY ServersOf
  <2>2. SumFunctionOnSet(w, S) = 0
    BY <1>5, WeightsSum
  <2>3. Range(s) = S \/ Range(s) \cap S = {}
    BY <1>5, ListsDisjoint
  <2>4. \A p \in S : w[p] \in Int /\ w[p] = peer[p].cw /\ v[p] = peer'[p].cw
    BY <1>2, <2>1
  <2> SUFFICES SumFunctionOnSet(v, S) = 0
    OBVIOUS
  <2> HIDE DEF S, w, v
  <2>5. CASE Range(s) = S
    <3>1. E \in SUBSET S
      BY <1>1, <2>5
    <3>2. \A p \in S \ E : v[p] = w[p]
      BY <1>1, <2>1, <2>4
    <3>3. \A p \in E : v[p] = w[p] + e[p]
                               - (IF p = best THEN SumFunctionOnSet(e, E) ELSE 0)
      BY <1>1, <2>4, <3>1
    <3>4. \A p \in S : w[p] \in Int
      BY <2>4
    <3>5. best \in E
      BY <1>1
    <3>6. SumFunctionOnSet(v, S) = SumFunctionOnSet(w, S)
      BY <1>4, <2>1, <3>1, <3>2, <3>3, <3>4, <3>5, SumPays
    <3> QED
      BY <2>2, <3>6
  <2>6. CASE Range(s) \cap S = {}
    <3>1. \A p \in S : w[p] \in Int /\ w[p] = v[p]
      BY <1>1, <2>1, <2>4, <2>6
    <3>2. SumFunctionOnSet(w, S) = SumFunctionOnSet(v, S)
      BY <2>1, <3>1, SumSame
    <3> QED
      BY <2>2, <3>2
  <2> QED
    BY <2>3, <2>5, <2>6
<1> QED
  BY <1>5, WeightsSum, Zenon

\* A server is taken back: it has a connection less, the weights are as they were.
LEMMA FreeIs ==
  ASSUME PeersOK, NEW b \in Block, NEW p \in Peer, NEW failed \in BOOLEAN,
         peer' = Free(b, p, failed)
  PROVE  /\ PeersOK'
         /\ peer'[p].conns = peer[p].conns - 1
         /\ \A q \in Peer \ {p} : peer'[q].conns = peer[q].conns
         /\ \A q \in Peer : peer'[q].cw = peer[q].cw
<1> DEFINE y == peer[p]
           less == IF MaxFails[p] > 0 THEN y.eff - (Weight[p] \div MaxFails[p]) ELSE y.eff
           low == IF less < 0 THEN 0 ELSE less
           f == IF y.accessed < y.checked THEN 0 ELSE y.fails
<1>1. IsPeer(y) /\ y.eff \in Int /\ y.cw \in Int /\ peer = [q \in Peer |-> peer[q]]
  BY DEF PeersOK
<1>2. low \in Int
  <2>1. Weight[p] \in Nat /\ MaxFails[p] \in Nat
    BY ServersAssumption
  <2>2. MaxFails[p] > 0 => Weight[p] \div MaxFails[p] \in Int
    BY <2>1
  <2> QED
    BY <1>1, <2>2
<1>3. \/ peer' = [peer EXCEPT ![p] = [y EXCEPT !.conns = y.conns - 1]]
      \/ peer' = [peer EXCEPT ![p] = [y EXCEPT !.fails = y.fails + 1, !.accessed = now,
                                               !.checked = now, !.eff = low,
                                               !.conns = y.conns - 1]]
      \/ peer' = [peer EXCEPT ![p] = [y EXCEPT !.fails = f, !.conns = y.conns - 1]]
  <2>1. CASE Single(b)
    <3>1. peer' = [peer EXCEPT ![p].conns = @ - 1]
      BY <2>1 DEF Free
    <3> QED
      BY <1>1, <3>1 DEF IsPeer
  <2>2. CASE ~Single(b) /\ failed
    <3>1. peer' = [peer EXCEPT ![p].fails = @ + 1, ![p].accessed = now, ![p].checked = now,
                               ![p].eff = low, ![p].conns = @ - 1]
      BY <2>2, Zenon DEF Free
    <3> HIDE DEF less, low, f
    <3> QED
      BY <1>1, <3>1 DEF IsPeer
  <2>3. CASE ~Single(b) /\ ~failed
    <3>1. peer' = [peer EXCEPT ![p].fails = IF y.accessed < y.checked THEN 0 ELSE @,
                               ![p].conns = @ - 1]
      BY <2>3, Zenon DEF Free
    <3> QED
      BY <1>1, <3>1 DEF IsPeer
  <2> QED
    BY <2>1, <2>2, <2>3
<1>4. y = peer[p]
  OBVIOUS
<1> HIDE DEF y, low, less, f
<1>5. PICK u : /\ peer' = [peer EXCEPT ![p] = u]
               /\ \/ u = [y EXCEPT !.conns = y.conns - 1]
                  \/ u = [y EXCEPT !.fails = y.fails + 1, !.accessed = now,
                                   !.checked = now, !.eff = low, !.conns = y.conns - 1]
                  \/ u = [y EXCEPT !.fails = f, !.conns = y.conns - 1]
  BY <1>3, Zenon
<1>6. IsPeer(u) /\ u.conns = y.conns - 1 /\ u.cw = y.cw /\ u.eff \in {y.eff, low}
  <2>1. CASE u = [y EXCEPT !.conns = y.conns - 1]
    BY <1>1, <2>1 DEF IsPeer
  <2>2. CASE u = [y EXCEPT !.fails = y.fails + 1, !.accessed = now,
                           !.checked = now, !.eff = low, !.conns = y.conns - 1]
    BY <1>1, <2>2 DEF IsPeer
  <2>3. CASE u = [y EXCEPT !.fails = f, !.conns = y.conns - 1]
    BY <1>1, <2>3 DEF IsPeer
  <2> QED
    BY <1>5, <2>1, <2>2, <2>3
<1>7. /\ peer' = [q \in Peer |-> peer'[q]] /\ peer'[p] = u
      /\ \A q \in Peer \ {p} : peer'[q] = peer[q]
  BY <1>1, <1>5
<1>8. u.eff \in Int /\ u.cw \in Int
  BY <1>1, <1>2, <1>6
<1>9. \A q \in Peer : IsPeer(peer'[q]) /\ peer'[q].eff \in Int /\ peer'[q].cw \in Int
  BY <1>6, <1>7, <1>8 DEF PeersOK
<1>10. PeersOK'
  BY <1>7, <1>9 DEF PeersOK
<1> QED
  BY <1>4, <1>6, <1>7, <1>10

\* The only server of a block is taken.
LEMMA PickSingleIs ==
  ASSUME PeersOK, NEW p \in Peer, peer' = PickSingle(p)
  PROVE  /\ PeersOK'
         /\ peer'[p].conns = peer[p].conns + 1
         /\ \A q \in Peer \ {p} : peer'[q].conns = peer[q].conns
         /\ \A q \in Peer : peer'[q].cw = peer[q].cw
<1> DEFINE y == peer[p]
           u == [y EXCEPT !.conns = y.conns + 1]
<1>1. IsPeer(y) /\ y.eff \in Int /\ y.cw \in Int /\ peer = [q \in Peer |-> peer[q]]
  BY DEF PeersOK
<1>2. peer' = [peer EXCEPT ![p] = u]
  BY <1>1 DEF PickSingle, IsPeer
<1>3. y = peer[p] /\ u = [y EXCEPT !.conns = y.conns + 1]
  OBVIOUS
<1> HIDE DEF y, u
<1>4. IsPeer(u) /\ u.conns = y.conns + 1 /\ u.cw = y.cw /\ u.eff = y.eff
  BY <1>1, <1>3 DEF IsPeer
<1>5. /\ peer' = [q \in Peer |-> peer'[q]] /\ peer'[p] = u
      /\ \A q \in Peer \ {p} : peer'[q] = peer[q]
  BY <1>1, <1>2
<1>6. \A q \in Peer : IsPeer(peer'[q]) /\ peer'[q].eff \in Int /\ peer'[q].cw \in Int
  BY <1>1, <1>4, <1>5 DEF PeersOK
<1>7. PeersOK'
  BY <1>5, <1>6 DEF PeersOK
<1> QED
  BY <1>3, <1>4, <1>5, <1>7

-----------------------------------------------------------------------------
\* The steps of a request that leave the servers alone.
LEMMA HoldsOn ==
  ASSUME NInv, NEW r \in Request, UNCHANGED peer, req[r].pc \notin {"idle", "connect", "done"},
         \A q \in Request : q # r => req'[q] = req[q],
         req'[r].cur = req[r].cur, req'[r].pc \notin {"idle", "connect", "done"}
  PROVE  NInv'
<1>1. \A q \in Request : req'[q].cur = req[q].cur
  OBVIOUS
<1>2. ConnsAreCounted'
  BY <1>1, KeepServers DEF NInv
<1>3. PeersOK' /\ WeightsCancel'
  BY KeepWeights DEF NInv, PeersOK
<1>4. CurOK'
  BY <1>1 DEF NInv, CurOK
<1> QED
  BY <1>2, <1>3, <1>4 DEF NInv

\* The steps of a request that give its server back, if it has one.
LEMMA GivesBack ==
  ASSUME UInv, NInv, NEW r \in Request, req[r].pc \notin {"idle", "done"},
         NEW failed \in BOOLEAN, Release(r, failed),
         \A q \in Request : q # r => req'[q] = req[q], req'[r].cur = None
  PROVE  NInv'
<1> DEFINE p == req[r].cur
           b == req[r].block
<1>1. p \in Peer \cup {None} /\ b \in Block
  BY DEF NInv, CurOK, UInv, UpstreamOK
<1>2. CurOK'
  BY DEF NInv, CurOK
<1>3. CASE p = None
  <2>1. UNCHANGED peer
    BY <1>3 DEF Release
  <2>2. \A q \in Request : req'[q].cur = req[q].cur
    BY <1>3
  <2>3. ConnsAreCounted'
    BY <2>1, <2>2, KeepServers DEF NInv
  <2>4. PeersOK' /\ WeightsCancel'
    BY <2>1, KeepWeights DEF NInv, PeersOK
  <2> QED
    BY <1>2, <2>3, <2>4 DEF NInv
<1>4. CASE p # None
  <2>1. peer' = Free(b, p, failed)
    BY <1>4 DEF Release
  <2>2. p \in Peer
    BY <1>1, <1>4
  <2>3. /\ PeersOK'
        /\ peer'[p].conns = peer[p].conns - 1
        /\ \A q \in Peer \ {p} : peer'[q].conns = peer[q].conns
        /\ \A q \in Peer : peer'[q].cw = peer[q].cw
    BY <1>1, <2>1, <2>2, FreeIs DEF NInv
  <2>4. WeightsCancel'
    BY <2>3, KeepWeights DEF NInv
  <2>5. ConnsAreCounted'
    BY <2>2, <2>3, GiveServer DEF NInv
  <2> QED
    BY <1>2, <2>3, <2>4, <2>5 DEF NInv
<1> QED
  BY <1>3, <1>4

LEMMA FinalizeGives ==
  ASSUME UInv, NInv, NEW r \in Request, req[r].pc \notin {"idle", "done"}, Finalize(r)
  PROVE  NInv'
<1>1. req' = [req EXCEPT ![r] = [Fresh EXCEPT !.pc = "done"]] /\ Release(r, FALSE)
  BY DEF Finalize
<1>2. /\ \A q \in Request : q # r => req'[q] = req[q]
      /\ req'[r] = [Fresh EXCEPT !.pc = "done"]
  BY <1>1 DEF UInv
<1>3. req'[r].cur = None
  BY <1>2 DEF Fresh
<1> QED
  BY <1>1, <1>2, <1>3, GivesBack

LEMMA GoNextGives ==
  ASSUME UInv, NInv, NEW r \in Request, req[r].pc \notin {"idle", "done"},
         NEW why, GoNext(r, why)
  PROVE  NInv'
<1> DEFINE left == TriesLeft(r) + IF req[r].cached /\ why = "error" THEN 1 ELSE 0
<1>0. IsUpstream(req[r]) /\ req = [q \in Request |-> req[q]]
  BY DEF UInv, UpstreamOK
<1>1. Release(r, why # "http_404") /\ (why # "http_404") \in BOOLEAN
  BY DEF GoNext
<1>2. PICK u : /\ req' = [req EXCEPT ![r] = u]
               /\ \/ u = [Fresh EXCEPT !.pc = "done"]
                  \/ u = [req[r] EXCEPT !.pc = "connect", !.tries = left, !.cur = None,
                                        !.conn = NoConn]
  <2>1. CASE req[r].gone \/ left = 0 \/ ~MayTryAgain(r, why)
    <3>1. req' = [req EXCEPT ![r] = [Fresh EXCEPT !.pc = "done"]]
      BY <2>1, Zenon DEF GoNext
    <3> QED
      BY <3>1, Zenon
  <2>2. CASE ~(req[r].gone \/ left = 0 \/ ~MayTryAgain(r, why))
    <3>1. req' = [req EXCEPT ![r] = [@ EXCEPT !.pc = "connect", !.tries = left,
                                              !.cur = None, !.conn = NoConn]]
      BY <2>2, Zenon DEF GoNext
    <3> HIDE DEF left
    <3> QED
      BY <1>0, <3>1
  <2> QED
    BY <2>1, <2>2
<1> HIDE DEF left
<1>3. \A q \in Request : q # r => req'[q] = req[q]
  BY <1>0, <1>2
<1>4. req'[r] = u
  BY <1>0, <1>2
<1>5. u.cur = None
  <2>1. CASE u = [Fresh EXCEPT !.pc = "done"]
    BY <2>1 DEF Fresh
  <2>2. CASE u = [req[r] EXCEPT !.pc = "connect", !.tries = left, !.cur = None,
                                !.conn = NoConn]
    BY <1>0, <2>2 DEF IsUpstream
  <2> QED
    BY <1>2, <2>1, <2>2
<1> QED
  BY <1>1, <1>3, <1>4, <1>5, GivesBack

\* A server is found, which is not full.
LEMMA GetPeerTakes ==
  ASSUME UInv, NInv, NEW r \in Request, GetPeer(r)
  PROVE  NInv'
<1> DEFINE b == req[r].block
           again == IF req[r].backup THEN req[r].tried ELSE {}
           Taken(p, tried, backup) ==
             req' = [req EXCEPT ![r].pc = "got", ![r].cur = p, ![r].cached = FALSE,
                                ![r].tried = tried, ![r].backup = backup]
<1>0. IsUpstream(req[r]) /\ req = [q \in Request |-> req[q]]
  BY DEF UInv, UpstreamOK
<1>1. req[r].pc = "connect" /\ b \in Block /\ req[r].cur = None
  <2>1. req[r].pc = "connect"
    BY DEF GetPeer
  <2> QED
    BY <2>1 DEF NInv, CurOK, UInv, UpstreamOK
<1>2. ASSUME NEW p \in Peer, NEW tried, NEW backup, Taken(p, tried, backup), ~Full(p),
             PeersOK', WeightsCancel', peer'[p].conns = peer[p].conns + 1,
             \A q \in Peer \ {p} : peer'[q].conns = peer[q].conns
      PROVE  NInv'
  <2>1. \A q \in Request : q # r => req'[q] = req[q]
    BY <1>0, <1>2
  <2>2. req'[r].cur = p /\ req'[r].pc = "got"
    BY <1>0, <1>2 DEF IsUpstream
  <2>3. ConnsAreCounted'
    BY <1>1, <1>2, <2>1, <2>2, TakeServer DEF NInv
  <2>4. CurOK'
    BY <2>1, <2>2 DEF NInv, CurOK
  <2> QED
    BY <1>2, <2>3, <2>4 DEF NInv
<1>3. ASSUME NEW s \in {Primary[b], Backup[b]}, NEW tried, NEW backup,
             Eligible(s, tried) # {}, peer' = Pick(s, tried),
             Taken(Best(s, tried), tried \cup {Best(s, tried)}, backup)
      PROVE  NInv'
  <2> DEFINE p == Best(s, tried)
             E == Eligible(s, tried)
  <2>1. p \in Peer /\ ~Full(p) /\ PeersOK' /\ Picked(p, E)
    BY <1>1, <1>3, PickIs DEF NInv
  <2>2. WeightsCancel'
    BY <1>1, <1>3, PickCancels DEF NInv
  <2>3. Taken(p, tried \cup {p}, backup)
    BY <1>3
  <2> HIDE DEF p, E, Taken, b
  <2>4. /\ peer'[p].conns = peer[p].conns + 1
        /\ \A q \in Peer \ {p} : peer'[q].conns = peer[q].conns
    BY <2>1, Zenon DEF Picked
  <2> QED
    BY <1>2, <2>1, <2>2, <2>3, <2>4
<1>4. CASE /\ Single(b) /\ ~Full(Primary[b][1]) /\ peer' = PickSingle(Primary[b][1])
           /\ Taken(Primary[b][1], {}, FALSE)
  <2> DEFINE p == Primary[b][1]
  <2>1. p \in Peer
    <3>1. Primary[b] \in Seq(Range(Primary[b])) /\ Len(Primary[b]) = 1
      BY <1>1, <1>4, ServersAssumption DEF Single
    <3>2. p \in Range(Primary[b])
      BY <3>1
    <3> QED
      BY <1>1, <3>2 DEF Peer, Servers
  <2>2. ~Full(p) /\ peer' = PickSingle(p) /\ Taken(p, {}, FALSE)
    BY <1>4
  <2> HIDE DEF p, Taken, b
  <2>3. /\ PeersOK'
        /\ peer'[p].conns = peer[p].conns + 1
        /\ \A q \in Peer \ {p} : peer'[q].conns = peer[q].conns
        /\ \A q \in Peer : peer'[q].cw = peer[q].cw
    BY <2>1, <2>2, PickSingleIs DEF NInv
  <2>4. WeightsCancel'
    BY <2>3, KeepWeights DEF NInv
  <2> QED
    BY <1>2, <2>1, <2>2, <2>3, <2>4
<1>5. \/ /\ Single(b) /\ ~Full(Primary[b][1]) /\ peer' = PickSingle(Primary[b][1])
         /\ Taken(Primary[b][1], {}, FALSE)
      \/ /\ Eligible(Primary[b], req[r].tried) # {} /\ peer' = Pick(Primary[b], req[r].tried)
         /\ Taken(Best(Primary[b], req[r].tried),
                  req[r].tried \cup {Best(Primary[b], req[r].tried)}, FALSE)
      \/ /\ Eligible(Backup[b], again) # {} /\ peer' = Pick(Backup[b], again)
         /\ Taken(Best(Backup[b], again), again \cup {Best(Backup[b], again)}, TRUE)
  BY Zenon DEF GetPeer
<1> HIDE DEF Taken, again
<1>6. Primary[b] \in {Primary[b], Backup[b]} /\ Backup[b] \in {Primary[b], Backup[b]}
  OBVIOUS
<1> HIDE DEF b
<1> QED
  BY <1>3, <1>4, <1>5, <1>6

\* The other steps of a request: it keeps the server that it holds.
Holding(r) ==
    /\ \A q \in Request : q # r => req'[q] = req[q]
    /\ req'[r].cur = req[r].cur
    /\ req'[r].pc \notin {"idle", "connect", "done"}

LEMMA OthersHold ==
  ASSUME UInv, NInv, NEW r \in Request,
         \/ UseKept(r) \/ Connect(r) \/ Push(r) \/ Connected(r) \/ PushRest(r)
         \/ Header(r) \/ HeaderOnly(r) \/ BodyEnds(r)
         \/ ClientLeaves(r) /\ r \in Cacheable
  PROVE  NInv'
<1>0. IsUpstream(req[r]) /\ req = [q \in Request |-> req[q]]
  BY DEF UInv, UpstreamOK
<1>1. UNCHANGED peer /\ req[r].pc \notin {"idle", "connect", "done"}
  BY DEF UseKept, Connect, Push, Connected, PushRest, Header, HeaderOnly, BodyEnds,
         ClientLeaves
<1> SUFFICES Holding(r)
  BY <1>1, HoldsOn DEF Holding
<1>2. ASSUME NEW c, NEW cached, NEW pc \in {"push", "connecting"}, Begin(r, c, cached, pc)
      PROVE  Holding(r)
  BY <1>0, <1>2 DEF Begin, IsUpstream, Holding
<1>3. ASSUME NEW pc \in {"complete", "notfound"}, AnswerEnds(r, pc) PROVE Holding(r)
  <2> DEFINE c == [req[r].conn EXCEPT !.queue = Tail(@)]
  <2>1. req' = [req EXCEPT ![r].pc = pc, ![r].conn = c, ![r].keepalive = TRUE]
    BY <1>0, <1>3 DEF AnswerEnds, IsUpstream
  <2> HIDE DEF c
  <2> QED
    BY <1>0, <1>3, <2>1 DEF IsUpstream, Holding
<1>4. CASE UseKept(r)
  BY <1>2, <1>4 DEF UseKept
<1>5. CASE Connect(r)
  BY <1>2, <1>5 DEF Connect
<1>6. CASE Push(r)
  <2> DEFINE From(pc, all, c) == [req EXCEPT ![r].pc = pc, ![r].sent = TRUE,
                                             ![r].bodySent = all, ![r].conn = c]
             conn == Received(r, req[r].conn)
             Left(all) == IF all /\ conn.half = r THEN [conn EXCEPT !.half = None] ELSE conn
  <2>1. PICK all \in BOOLEAN :
          req' = From(IF all THEN "header" ELSE "sending", all, Left(all))
    BY <1>6, Zenon DEF Push
  <2> DEFINE c == Left(all)
             pc == IF all THEN "header" ELSE "sending"
  <2>2. pc \in {"header", "sending"} /\ req' = From(pc, all, c)
    BY <2>1
  <2> HIDE DEF pc, c
  <2> QED
    BY <1>0, <2>2 DEF IsUpstream, Holding
<1>7. CASE Connected(r)
  BY <1>0, <1>7 DEF Connected, IsUpstream, Holding
<1>8. CASE PushRest(r)
  <2> DEFINE c == [req[r].conn EXCEPT !.half = IF @ = r THEN None ELSE @]
  <2>1. req' = [req EXCEPT ![r].pc = "header", ![r].bodySent = TRUE, ![r].conn = c]
    BY <1>0, <1>8 DEF PushRest, IsUpstream
  <2> HIDE DEF c
  <2> QED
    BY <1>0, <2>1 DEF IsUpstream, Holding
<1>9. CASE Header(r)
  BY <1>0, <1>9 DEF Header, IsUpstream, Holding
<1>10. CASE HeaderOnly(r)
  BY <1>3, <1>10 DEF HeaderOnly
<1>11. CASE BodyEnds(r)
  BY <1>3, <1>11 DEF BodyEnds
<1>12. CASE ClientLeaves(r) /\ r \in Cacheable
  <2>1. req' = [req EXCEPT ![r].gone = TRUE]
    BY <1>12 DEF ClientLeaves
  <2> QED
    BY <1>0, <1>1, <2>1 DEF IsUpstream, Holding
<1> QED
  BY <1>4, <1>5, <1>6, <1>7, <1>8, <1>9, <1>10, <1>11, <1>12

-----------------------------------------------------------------------------
LEMMA NInit == Init => NInv
<1> SUFFICES ASSUME Init PROVE NInv
  OBVIOUS
<1>1. peer = [p \in Peer |-> [conns |-> 0, fails |-> 0, accessed |-> 0, checked |-> 0,
                              eff |-> Weight[p], cw |-> 0]]
  BY DEF Init, PeersInit
<1>2. PeersOK
  BY <1>1, ServersAssumption DEF PeersOK, IsPeer
<1>3. \A r \in Request : req[r].cur = None
  BY DEF Init, Fresh
<1>4. CurOK
  BY <1>3 DEF CurOK
<1>5. ConnsAreCounted
  <2>1. ASSUME NEW p \in Peer
        PROVE  Cardinality({r \in Request : req[r].cur = p}) = 0
    <3>1. {r \in Request : req[r].cur = p} = {}
      BY <1>3, UpstreamAssumption
    <3> QED
      BY <3>1, FS_EmptySet
  <2>2. \A p \in Peer : peer[p].conns = 0 /\ MaxConns[p] \in Nat
    BY <1>1, ServersAssumption
  <2> QED
    BY <2>1, <2>2 DEF ConnsAreCounted
<1>6. WeightsCancel
  <2>1. ASSUME NEW b \in Block, NEW s \in {Primary[b], Backup[b]}
        PROVE  SumFunctionOnSet([p \in Range(s) |-> peer[p].cw], Range(s)) = 0
    <3> DEFINE z == [p \in Range(s) |-> peer[p].cw]
    <3>1. Range(s) \subseteq Peer /\ IsFiniteSet(Range(s))
      BY <2>1, ServersOf
    <3>2. \A p \in Range(s) : z[p] = 0
      BY <1>1, <3>1
    <3> HIDE DEF z
    <3>3. SumFunctionOnSet(z, Range(s)) = SumFunctionOnSet(z, {})
      BY <3>1, <3>2, SumSupport
    <3>4. SumFunctionOnSet(z, {}) = 0
      BY SumEmpty
    <3> QED
      BY <3>3, <3>4 DEF z
  <2> QED
    BY <2>1, WeightsSum, Zenon
<1> QED
  BY <1>2, <1>4, <1>5, <1>6 DEF NInv

LEMMA NStep == UInv /\ NInv /\ [Next]_vars => NInv'
<1> SUFFICES ASSUME UInv, NInv, [Next]_vars PROVE NInv'
  OBVIOUS
<1>1. ASSUME UNCHANGED peer, \A q \in Request : req'[q].cur = req[q].cur, CurOK'
      PROVE  NInv'
  <2>1. ConnsAreCounted'
    BY <1>1, KeepServers DEF NInv
  <2>2. PeersOK' /\ WeightsCancel'
    BY <1>1, KeepWeights DEF NInv, PeersOK
  <2> QED
    BY <1>1, <2>1, <2>2 DEF NInv
<1>2. ASSUME NEW r \in Request, NEW w \in Worker, NEW b \in Block, Arrive(r, w, b)
      PROVE  NInv'
  <2>0. IsUpstream(req[r]) /\ req = [q \in Request |-> req[q]]
    BY DEF UInv, UpstreamOK
  <2>1. PICK n : req' = [req EXCEPT ![r].pc = "connect", ![r].worker = w, ![r].block = b,
                                    ![r].tries = n]
    BY <1>2, Zenon DEF Arrive
  <2>2. req[r].pc = "idle" /\ UNCHANGED peer
    BY <1>2 DEF Arrive
  <2>3. /\ \A q \in Request : q # r => req'[q] = req[q]
        /\ req'[r].cur = req[r].cur
    BY <2>0, <2>1 DEF IsUpstream
  <2>4. req[r].cur = None
    BY <2>2 DEF NInv, CurOK
  <2>5. CurOK'
    BY <2>3, <2>4 DEF NInv, CurOK
  <2> QED
    BY <1>1, <2>2, <2>3, <2>5
<1>3. ASSUME NEW r \in Request,
             \/ NoLive(r) \/ Declined(r) \/ PushRefused(r) \/ NotFound(r) \/ Broken(r)
             \/ TimedOut(r) \/ \E why : BadHeader(r, why)
      PROVE  NInv'
  <2>1. PICK why : GoNext(r, why)
    BY <1>3 DEF NoLive, Declined, PushRefused, NotFound, Broken, TimedOut, BadHeader
  <2>2. req[r].pc \notin {"idle", "done"}
    BY <1>3 DEF NoLive, Declined, PushRefused, NotFound, Broken, TimedOut, BadHeader
  <2> QED
    BY <2>1, <2>2, GoNextGives
<1>4. ASSUME NEW r \in Request,
             \/ LocalError(r) \/ Complete(r) \/ BodyFails(r)
             \/ ClientLeaves(r) /\ r \notin Cacheable
      PROVE  NInv'
  <2>1. Finalize(r) /\ req[r].pc \notin {"idle", "done"}
    BY <1>4 DEF LocalError, Complete, BodyFails, ClientLeaves
  <2> QED
    BY <2>1, FinalizeGives
<1>5. ASSUME NEW r \in Request, Handle(r) \/ Wait(r) \/ ClientLeaves(r) PROVE NInv'
  <2>1. CASE Handle(r)
    BY <1>3, <1>4, <2>1, GetPeerTakes, OthersHold DEF Handle
  <2>2. CASE Wait(r)
    BY <1>3, <1>4, <2>2, OthersHold DEF Wait
  <2>3. CASE ClientLeaves(r)
    BY <1>4, <2>3, OthersHold
  <2> QED
    BY <1>5, <2>1, <2>2, <2>3
<1>6. CASE UNCHANGED <<peer, req>>
  BY <1>1, <1>6 DEF NInv, CurOK
<1>7. ASSUME NEW w \in Worker, NEW b \in Block, NEW i, KeepaliveClose(w, b, i) PROVE NInv'
  BY <1>6, <1>7 DEF KeepaliveClose
<1>8. CASE Tick /\ UNCHANGED <<req, cache, pushed, got>>
  BY <1>6, <1>8 DEF Tick
<1>9. CASE UNCHANGED vars
  BY <1>6, <1>9 DEF vars
<1> QED
  BY <1>2, <1>5, <1>7, <1>8, <1>9 DEF Next

LEMMA NAlways == Spec => []NInv
<1>1. Init => UInv /\ NInv
  BY UInit, NInit
<1>2. UInv /\ NInv /\ [Next]_vars => (UInv /\ NInv)'
  BY UStep, NStep
<1> QED
  BY <1>1, <1>2, PTL DEF Spec

\* For any number of workers, requests and servers, whatever servers do and whatever
\* proxy_next_upstream says: peer->conns, which all workers share and max_conns is
\* compared with, is the number of requests that hold the server.  Each attempt gives
\* back what ngx_http_upstream_get_round_robin_peer() counted, and does so once.
THEOREM ServersAreGivenBack == Spec => []ConnsAreCounted
<1>1. NInv => ConnsAreCounted
  BY DEF NInv
<1> QED
  BY <1>1, NAlways, PTL

\* For any lists of servers and weights: what ngx_http_upstream_get_peer() gives to the
\* servers it looks at, the one that it picks pays, so that the current weights of a
\* list cancel out whichever of them failed, were tried or were full.
THEOREM NoWeightIsLost == Spec => []WeightsCancel
<1>1. NInv => WeightsCancel
  BY DEF NInv
<1> QED
  BY <1>1, NAlways, PTL
=============================================================================
