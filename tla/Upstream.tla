------------------------------ MODULE Upstream ------------------------------
(***************************************************************************)
(* A proxied request, from ngx_http_upstream_init_request() to             *)
(* ngx_http_upstream_finalize_request(): the attempts on one server after  *)
(* another, and the connections to servers that each worker keeps alive    *)
(* (ngx_http_upstream_keepalive_module.c).  The response is not cached by   *)
(* nginx, the body of the request is read before it is passed on.          *)
(*                                                                         *)
(* The handlers of a worker run one at a time.  Where a handler goes on to *)
(* the next attempt, the request stands at connect, got, push, notfound or *)
(* complete, and nothing else happens in that worker until it waits again. *)
(*                                                                         *)
(* A connection is the server, the requests whose answers have not been    *)
(* read completely, and the request whose body was not sent completely,    *)
(* if any.  Servers answer what they are sent, in order; they may be slow, *)
(* or close the connection, at any time.                                   *)
(***************************************************************************)
EXTENDS Peers, SequencesExt

CONSTANTS
    Worker,
    Request,
    NonIdempotent,\* the requests with method POST, LOCK or PATCH
    Cacheable,    \* the requests that go on when the client has left
    NextUpstream, \* proxy_next_upstream
    NextTries,    \* proxy_next_upstream_tries, 0: no limit
    MaxCached,    \* keepalive: connections kept by a worker
    None          \* no request, no server

ASSUME UpstreamAssumption ==
    /\ IsFiniteSet(Request) /\ NonIdempotent \subseteq Request /\ Cacheable \subseteq Request
    /\ NextTries \in Nat /\ MaxCached \in Nat \ {0}
    /\ None \notin Request \cup Peer \cup Worker \cup Block

VARIABLES
    req,    \* per request: where it stands and its ngx_http_upstream_t
    cache,  \* per worker and block: the connections kept alive, the latest first
    pushed, \* per POST: on how many connections it was sent (2: several)
    got     \* per request: the request that the answer was given to

vars == <<peer, now, req, cache, pushed, got>>

NoConn == [to |-> None, queue |-> <<>>, half |-> None]

Fresh == [pc |-> "idle",     \* idle, connect, got, push, connecting, sending,
                             \* header, body, notfound, complete, done
          worker |-> None, block |-> None,
          backup |-> FALSE,  \* rrp->peers is the list of backup servers
          tried |-> {}, tries |-> 0,
          cur |-> None,      \* the server it holds (peer.sockaddr), if any
          conn |-> NoConn,   \* peer.connection
          cached |-> FALSE, sent |-> FALSE, bodySent |-> FALSE,
          keepalive |-> FALSE, gone |-> FALSE]

Init ==
    /\ PeersInit
    /\ req = [r \in Request |-> Fresh]
    /\ cache = [w \in Worker |-> [b \in Block |-> <<>>]]
    /\ pushed = [r \in NonIdempotent |-> 0]
    /\ got = [r \in Request |-> None]

InHandler(r) == req[r].pc \in {"connect", "got", "push", "notfound", "complete"}

\* The worker of r is free to handle an event of r.
Idle(r) == \A q \in Request : req[q].worker = req[r].worker => ~InHandler(q)

-----------------------------------------------------------------------------
\* Wrong on purpose: a connection is kept although the body was not sent.
MayKeep_Unsent(r, failed) ==
    ~failed /\ req[r].conn # NoConn /\ req[r].keepalive

\* ngx_http_upstream_free_keepalive_peer(): whether the connection may be kept.
\* It may still be found closed, or have served enough requests.
MayKeep(r, failed) ==
    ~failed /\ req[r].conn # NoConn /\ req[r].keepalive /\ req[r].bodySent

\* peer.free(): the connection is kept or not, the one unused longest makes
\* room for it; then the balancer takes the server back.
Release(r, failed) ==
    LET w == req[r].worker
        b == req[r].block
        kept == cache[w][b]
        room == IF Len(kept) = MaxCached THEN Front(kept) ELSE kept
    IN  IF req[r].cur = None
        THEN UNCHANGED <<peer, cache>>
        ELSE /\ peer' = Free(b, req[r].cur, failed)
             /\ \/ UNCHANGED cache
                \/ /\ MayKeep(r, failed)
                   /\ cache' = [cache EXCEPT ![w][b] = Cons(req[r].conn, room)]

\* pc->tries after ngx_http_upstream_free_round_robin_peer()
TriesLeft(r) ==
    IF req[r].cur = None THEN req[r].tries
    ELSE IF Single(req[r].block) \/ req[r].tries = 0 THEN 0 ELSE req[r].tries - 1

\* ngx_http_upstream_finalize_request(): whatever was not kept is closed.
Finalize(r) ==
    /\ Release(r, FALSE)
    /\ req' = [req EXCEPT ![r] = [Fresh EXCEPT !.pc = "done"]]
    /\ UNCHANGED <<now, pushed, got>>

\* Wrong on purpose: what was sent is not looked at.
MayTryAgain_AnyMethod(r, why) == why \in NextUpstream

\* The failure is one that proxy_next_upstream lists, also for this method.
MayTryAgain(r, why) ==
    /\ why \in NextUpstream
    /\ req[r].sent /\ r \in NonIdempotent => "non_idempotent" \in NextUpstream

\* Wrong on purpose: the server stays marked as held.
GoNext_StillHeld(r, why) ==
    LET left == TriesLeft(r) + IF req[r].cached /\ why = "error" THEN 1 ELSE 0
    IN  /\ Release(r, why # "http_404")
        /\ req' = [req EXCEPT ![r] =
                     IF req[r].gone \/ left = 0 \/ ~MayTryAgain(r, why)
                     THEN [Fresh EXCEPT !.pc = "done"]
                     ELSE [@ EXCEPT !.pc = "connect", !.tries = left, !.conn = NoConn]]
        /\ UNCHANGED <<now, pushed, got>>

\* ngx_http_upstream_next(): the server is given back, as failed or not, and the
\* request goes to the next one or ends.  A connection that had been kept alive
\* and broke costs no attempt.
GoNext(r, why) ==
    LET left == TriesLeft(r) + IF req[r].cached /\ why = "error" THEN 1 ELSE 0
    IN  /\ Release(r, why # "http_404")
        /\ req' = [req EXCEPT ![r] =
                     IF req[r].gone \/ left = 0 \/ ~MayTryAgain(r, why)
                     THEN [Fresh EXCEPT !.pc = "done"]
                     ELSE [@ EXCEPT !.pc = "connect", !.tries = left,
                                    !.cur = None, !.conn = NoConn]]
        /\ UNCHANGED <<now, pushed, got>>

-----------------------------------------------------------------------------
\* ngx_http_upstream_init_request(), with the round robin data of the request
Arrive(r, w, b) ==
    /\ req[r].pc = "idle"
    /\ \A q \in Request : req[q].worker = w => ~InHandler(q)
    /\ req' = [req EXCEPT ![r].pc = "connect", ![r].worker = w, ![r].block = b,
                          ![r].tries = IF NextTries > 0 /\ Tries(b) > NextTries
                                       THEN NextTries ELSE Tries(b)]
    /\ UNCHANGED <<peer, now, cache, pushed, got>>

\* ngx_http_upstream_get_round_robin_peer(): the only server, one of the servers,
\* or, from then on, one of the backup servers.
GetPeer(r) ==
    LET b == req[r].block
        u == req[r]
        Take(p, tried, backup, peers) ==
            /\ peer' = peers
            /\ req' = [req EXCEPT ![r].pc = "got", ![r].cur = p, ![r].cached = FALSE,
                                  ![r].tried = tried, ![r].backup = backup]
    IN  /\ u.pc = "connect"
        /\ \/ /\ Single(b)
              /\ LET p == Primary[b][1] IN
                    /\ p \notin Down /\ ~Full(p)
                    /\ Take(p, {}, FALSE, PickSingle(p))
           \/ /\ ~Single(b) /\ ~u.backup
              /\ Eligible(Primary[b], u.tried) # {}
              /\ LET p == Best(Primary[b], u.tried) IN
                    Take(p, u.tried \cup {p}, FALSE, Pick(Primary[b], u.tried))
           \/ /\ ~Single(b)
              /\ u.backup \/ Eligible(Primary[b], u.tried) = {}
              /\ LET tried == IF u.backup THEN u.tried ELSE {} IN
                    /\ Eligible(Backup[b], tried) # {}
                    /\ LET p == Best(Backup[b], tried) IN
                          Take(p, tried \cup {p}, TRUE, Pick(Backup[b], tried))
        /\ UNCHANGED <<now, cache, pushed, got>>

\* NGX_BUSY: "no live upstreams".  No server is held, so none is given back.
NoLive(r) ==
    LET b == req[r].block IN
    /\ req[r].pc = "connect"
    /\ IF Single(b)
       THEN Primary[b][1] \in Down \/ Full(Primary[b][1])
       ELSE /\ req[r].backup \/ Eligible(Primary[b], req[r].tried) = {}
            /\ Eligible(Backup[b], IF req[r].backup THEN req[r].tried ELSE {}) = {}
    /\ GoNext(r, "nolive")

\* ngx_http_upstream_get_keepalive_peer(): the first connection to that server.
Kept(r) == SelectInSeq(cache[req[r].worker][req[r].block], LAMBDA c : c.to = req[r].cur)

\* ngx_http_upstream_reinit() for what an earlier attempt left; a connection is there
Begin(r, conn, cached, pc) ==
    req' = [req EXCEPT ![r].pc = pc, ![r].conn = conn, ![r].cached = cached,
                       ![r].keepalive = FALSE, ![r].sent = FALSE, ![r].bodySent = FALSE]

UseKept(r) ==
    /\ req[r].pc = "got" /\ Kept(r) > 0
    /\ LET w == req[r].worker
           b == req[r].block
       IN  /\ Begin(r, cache[w][b][Kept(r)], TRUE, "push")
           /\ cache' = [cache EXCEPT ![w][b] = RemoveAt(@, Kept(r))]
    /\ UNCHANGED <<peer, now, pushed, got>>

\* ngx_event_connect_peer() without a kept connection: connected, or under way
Connect(r) ==
    /\ req[r].pc = "got" /\ Kept(r) = 0
    /\ \E pc \in {"push", "connecting"} :
          Begin(r, [NoConn EXCEPT !.to = req[r].cur], FALSE, pc)
    /\ UNCHANGED <<peer, now, cache, pushed, got>>

\* connect() is refused at once.
Declined(r) ==
    /\ req[r].pc = "got" /\ Kept(r) = 0
    /\ GoNext(r, "error")

\* There is no descriptor, no connection or no memory left.
LocalError(r) ==
    /\ req[r].pc = "got" /\ Kept(r) = 0
    /\ Finalize(r)

Connected(r) ==
    /\ req[r].pc = "connecting" /\ Idle(r)
    /\ req' = [req EXCEPT ![r].pc = "push"]
    /\ UNCHANGED <<peer, now, cache, pushed, got>>

-----------------------------------------------------------------------------
\* What the server makes of the bytes of r: the request, or the rest of a body
\* that it is still waiting for.
Received(r, conn) ==
    [conn EXCEPT !.queue = Append(@, IF conn.half = None THEN r ELSE conn.half),
                 !.half = IF conn.half = None THEN r ELSE @]

\* ngx_http_upstream_send_request(): the first bytes are written.  All of the
\* request goes out, or a part of it.
Push(r) ==
    /\ req[r].pc = "push"
    /\ pushed' = [q \in NonIdempotent |->
                    IF q = r /\ pushed[q] < 2 THEN pushed[q] + 1 ELSE pushed[q]]
    /\ LET conn == Received(r, req[r].conn) IN
       \E all \in BOOLEAN :
          req' = [req EXCEPT ![r].pc = IF all THEN "header" ELSE "sending",
                             ![r].sent = TRUE,
                             ![r].bodySent = all,
                             ![r].conn = IF all /\ conn.half = r
                                         THEN [conn EXCEPT !.half = None] ELSE conn]
    /\ UNCHANGED <<peer, now, cache, got>>

\* ngx_http_upstream_test_connect() finds the connection broken.
PushRefused(r) ==
    /\ req[r].pc = "push"
    /\ GoNext(r, "error")

\* ngx_http_upstream_send_request_handler(): the rest goes out.
PushRest(r) ==
    /\ req[r].pc = "sending" /\ Idle(r)
    /\ req' = [req EXCEPT ![r].pc = "header",
                          ![r].bodySent = TRUE,
                          ![r].conn.half = IF @ = r THEN None ELSE @]
    /\ UNCHANGED <<peer, now, cache, pushed, got>>

\* Wrong on purpose: no timer while the connection is made.
TimedOut_NotConnecting(r) ==
    /\ req[r].pc \in {"sending", "header"} /\ Idle(r)
    /\ GoNext(r, "timeout")

\* proxy_connect_timeout, proxy_send_timeout, proxy_read_timeout
TimedOut(r) ==
    /\ req[r].pc \in {"connecting", "sending", "header"} /\ Idle(r)
    /\ GoNext(r, "timeout")

\* The connection breaks, or the server closes it.
Broken(r) ==
    /\ req[r].pc \in {"connecting", "sending", "header"} /\ Idle(r)
    /\ GoNext(r, "error")

\* ngx_http_upstream_process_header(): a header is read that is passed on,
\* possibly before all of the request was sent.  Its body follows.
Header(r) ==
    /\ req[r].pc \in {"sending", "header"} /\ Idle(r)
    /\ req[r].conn.queue # <<>>
    /\ got' = [got EXCEPT ![r] = Head(req[r].conn.queue)]
    /\ req' = [req EXCEPT ![r].pc = "body"]
    /\ UNCHANGED <<peer, now, cache, pushed>>

\* Nothing of the answer is left to be read: u->keepalive
AnswerEnds(r, pc) ==
    req' = [req EXCEPT ![r].pc = pc, ![r].conn.queue = Tail(@), ![r].keepalive = TRUE]

\* The same for a response without a body: ngx_http_proxy_process_header() has
\* seen the end of it.  A 404 may be passed over by ngx_http_upstream_test_next().
HeaderOnly(r) ==
    /\ req[r].pc \in {"sending", "header"} /\ Idle(r)
    /\ req[r].conn.queue # <<>>
    /\ \/ /\ AnswerEnds(r, "complete")
          /\ got' = [got EXCEPT ![r] = Head(req[r].conn.queue)]
       \/ /\ req[r].tries > 1 /\ MayTryAgain(r, "http_404")
          /\ AnswerEnds(r, "notfound")
          /\ UNCHANGED got
    /\ UNCHANGED <<peer, now, cache, pushed>>

NotFound(r) ==
    /\ req[r].pc = "notfound"
    /\ GoNext(r, "http_404")

\* The header is not valid, or has a status that proxy_next_upstream lists and
\* that ngx_http_upstream_test_next() may pass over; its body is not read.
BadHeader(r, why) ==
    /\ req[r].pc \in {"sending", "header"} /\ Idle(r)
    /\ req[r].conn.queue # <<>>
    /\ why # "invalid_header" => req[r].tries > 1 /\ MayTryAgain(r, why)
    /\ GoNext(r, why)

\* ngx_http_upstream_process_request(): the body has come to its end.
BodyEnds(r) ==
    /\ req[r].pc = "body" /\ Idle(r)
    /\ AnswerEnds(r, "complete")
    /\ UNCHANGED <<peer, now, cache, pushed, got>>

Complete(r) ==
    /\ req[r].pc = "complete"
    /\ Finalize(r)

\* The body breaks off, the server or the client is too slow.
BodyFails(r) ==
    /\ req[r].pc = "body" /\ Idle(r)
    /\ Finalize(r)

\* ngx_http_upstream_check_broken_connection()
ClientLeaves(r) ==
    /\ req[r].pc \in {"connecting", "sending", "header", "body"} /\ Idle(r)
    /\ ~req[r].gone
    /\ IF r \in Cacheable
       THEN /\ req' = [req EXCEPT ![r].gone = TRUE]
            /\ UNCHANGED <<peer, now, cache, pushed, got>>
       ELSE Finalize(r)

\* ngx_http_upstream_keepalive_close_handler(): closed by the server, or too old
KeepaliveClose(w, b, i) ==
    /\ \A q \in Request : req[q].worker = w => ~InHandler(q)
    /\ i \in 1..Len(cache[w][b])
    /\ cache' = [cache EXCEPT ![w][b] = RemoveAt(@, i)]
    /\ UNCHANGED <<peer, now, req, pushed, got>>

Handle(r) ==
    \/ GetPeer(r) \/ NoLive(r) \/ UseKept(r) \/ Connect(r) \/ Declined(r) \/ LocalError(r)
    \/ Push(r) \/ PushRefused(r) \/ NotFound(r) \/ Complete(r)

Wait(r) ==
    \/ Connected(r) \/ PushRest(r) \/ Header(r) \/ HeaderOnly(r) \/ BodyEnds(r)
    \/ \E why \in {"invalid_header", "http_500", "http_404"} : BadHeader(r, why)
    \/ Broken(r) \/ BodyFails(r) \/ TimedOut(r)

Next ==
    \/ \E r \in Request, w \in Worker, b \in Block : Arrive(r, w, b)
    \/ \E r \in Request : Handle(r) \/ Wait(r) \/ ClientLeaves(r)
    \/ \E w \in Worker, b \in Block : \E i \in 1..MaxCached : KeepaliveClose(w, b, i)
    \/ Tick /\ UNCHANGED <<req, cache, pushed, got>>

Spec == Init /\ [][Next]_vars

\* A handler runs to its end; a timer fires if nothing else happens before.
FairSpec ==
    /\ Spec
    /\ \A r \in Request : WF_vars(Handle(r)) /\ WF_vars(TimedOut(r)) /\ WF_vars(BodyFails(r))

-----------------------------------------------------------------------------
\* The count of connections of every server, which max_conns is compared with, is
\* the number of requests that hold it: whatever an attempt ends with, the server
\* is given back, and once.
ConnsAreCounted ==
    \A p \in Peer :
        /\ peer[p].conns = Cardinality({r \in Request : req[r].cur = p})
        /\ MaxConns[p] > 0 => peer[p].conns <= MaxConns[p]

\* The current weights of a list of servers always cancel out, whichever of them
\* failed, were tried or were full: no server collects an advantage for ever.
WeightsCancel ==
    \A b \in Block : \A servers \in {Range(Primary[b]), Range(Backup[b])} :
        SumFunction([p \in servers |-> peer[p].cw]) = 0

\* A POST that was sent to a server is not sent to another one, nor again on
\* another connection, unless proxy_next_upstream says non_idempotent.
SentOnce ==
    "non_idempotent" \notin NextUpstream => \A r \in NonIdempotent : pushed[r] <= 1

\* The response that a request is given is the response to that request, on a
\* kept connection as well as on a new one.
AnswersAreOwn == \A r \in Request : got[r] \in {None, r}

\* Every request that has begun ends, however servers fail.
RequestsEnd == \A r \in Request : req[r].pc = "connect" ~> req[r].pc = "done"
=============================================================================
