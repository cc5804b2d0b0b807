------------------------------ MODULE Resolver ------------------------------
(***************************************************************************)
(* The resolver of a worker (ngx_resolver.c) as proxy_pass uses it for     *)
(* names: requests that wait for an address, one node per name with its    *)
(* queries, the two queues of nodes, and the answers of the servers, which *)
(* come late, twice, cut short or not at all.                              *)
(*                                                                         *)
(* An answer may arrive for every query ever made, any number of times:    *)
(* which server is asked, whether send() worked and whether a query is     *)
(* repeated decide only which of them do.  A query is identified by a      *)
(* random number, here a new one; the addresses it brought bear it too.    *)
(***************************************************************************)
EXTENDS Integers, FiniteSets, SequencesExt

CONSTANTS
    Ctx,           \* those who want an address (ngx_resolver_ctx_t)
    Name,          \* the names
    Wanted,        \* those that the configuration mentions
    Malformed,     \* those with an empty label
    Type,          \* the record types asked for: A and, with ipv6, AAAA
    MaxRecursion,  \* NGX_RESOLVER_MAX_RECURSION
    MaxQueries     \* bound of the model: so many queries are made

NoName == "none"

ASSUME ResolverAssumption ==
    /\ Wanted \cup Malformed \subseteq Name /\ Type # {} /\ MaxRecursion \in Nat /\ MaxQueries \in Nat
    /\ NoName \notin Name
    /\ IsFiniteSet(Name) /\ IsFiniteSet(Ctx)

VARIABLES
    ctx,      \* per asker: state, the node it waits for, its timer, recursion, its answer
    tree,     \* the names that have a node
    node,     \* the nodes
    resend,   \* name_resend_queue, its head first: the names being resolved
    expire,   \* name_expire_queue, its head first: the names resolved
    old,      \* the names of it whose time (rn->expire) has come
    timer,    \* r->event->timer_set
    asked     \* the names of the queries made, the number of a query its place here

vars == <<ctx, tree, node, resend, expire, old, timer, asked>>

Unanswered == -1   \* naddrs = -1
Empty == 0

\* What is left of a node that is freed.
NoNode == [waiting |-> <<>>, query |-> 0, addrs |-> [t \in Type |-> Unanswered],
           tcp |-> {}, code |-> FALSE, cname |-> NoName, valid |-> FALSE]

Init ==
    /\ ctx = [q \in Ctx |-> [state |-> "new", node |-> NoName, event |-> FALSE,
                             recursion |-> 0, answer |-> <<>>]]
    /\ tree = {} /\ node = [n \in Name |-> NoNode]
    /\ resend = <<>> /\ expire = <<>> /\ old = {}
    /\ timer = FALSE /\ asked = <<>>

\* The steps of a handler are functions on states.
Now == [ctx |-> ctx, tree |-> tree, node |-> node, resend |-> resend, expire |-> expire,
        old |-> old, timer |-> timer, asked |-> asked]

Becomes(next) ==
    \E s \in {next} :
        /\ Len(s.asked) <= MaxQueries
        /\ ctx' = s.ctx /\ tree' = s.tree /\ node' = s.node /\ resend' = s.resend
        /\ expire' = s.expire /\ old' = s.old /\ timer' = s.timer /\ asked' = s.asked

-----------------------------------------------------------------------------
\* The queue, or the list, without the members of S.
Without(queue, S) ==
    LET kept[k \in 0..Len(queue)] ==
            IF k = 0 THEN <<>>
            ELSE IF queue[k] \in S THEN kept[k - 1] ELSE Append(kept[k - 1], queue[k])
    IN  kept[Len(queue)]

\* ngx_queue_remove(), ngx_rbtree_delete(), ngx_resolver_free_node()
FreeNodes(s, S) ==
    [s EXCEPT !.tree = @ \ S, !.node = [n \in Name |-> IF n \in S THEN NoNode ELSE @[n]],
              !.resend = Without(@, S), !.expire = Without(@, S), !.old = @ \ S]

\* The node becomes the youngest of those resolved.
ToExpire(s, n) ==
    [s EXCEPT !.resend = Without(@, {n}), !.expire = <<n>> \o Without(@, {n}), !.old = @ \ {n}]

\* The same for each of the nodes passed on the way, in their order.
AllToExpire(s, path) ==
    LET moved[k \in 0..Len(path)] ==
            IF k = 0 THEN s ELSE ToExpire(moved[k - 1], path[k])
    IN  moved[Len(path)]

ToResend(s, n) ==
    [s EXCEPT !.resend = <<n>> \o Without(@, {n}), !.expire = Without(@, {n}), !.old = @ \ {n}]

\* ngx_resolver_expire(): at most two at a time, from the oldest.
Expire(s) ==
    LET last2 == {s.expire[i] : i \in {j \in DOMAIN s.expire : j > Len(s.expire) - 2}}
    IN  FreeNodes(s, last2 \cap s.old)

\* Wrong on purpose: the one who leaves stays in the list.
NameDone_StillListed(s, q) ==
    LET after == Expire(s)
    IN  [after EXCEPT !.timer = @ /\ after.resend # <<>>, !.ctx[q].node = NoName,
                      !.ctx[q].event = FALSE, !.ctx[q].recursion = 0]

\* Wrong on purpose: the timer is deleted although names are being resolved.
NameDone_TimerLost(s, q) ==
    LET rn     == s.ctx[q].node
        listed == s.ctx[q].state \in {"again", "timedout"} /\ rn # NoName
        left   == IF listed THEN [s EXCEPT !.node[rn].waiting = Without(@, {q})] ELSE s
    IN  [Expire(left) EXCEPT !.timer = FALSE, !.ctx[q].node = NoName, !.ctx[q].event = FALSE]

\* ngx_resolve_name_done()
NameDone(s, q) ==
    LET rn     == s.ctx[q].node
        listed == s.ctx[q].state \in {"again", "timedout"} /\ rn # NoName
        left   == IF listed THEN [s EXCEPT !.node[rn].waiting = Without(@, {q})] ELSE s
        after  == Expire(left)
    IN  [after EXCEPT !.timer = @ /\ after.resend # <<>>, !.ctx[q].node = NoName,
                      !.ctx[q].event = FALSE, !.ctx[q].recursion = 0]

\* ctx->handler() for everyone of the list: it takes the answer and is done.
Answer(s, list, state, addrs) ==
    LET told[k \in 0..Len(list)] ==
            IF k = 0 THEN s
            ELSE NameDone([told[k - 1] EXCEPT !.ctx[list[k]].state = state,
                                              !.ctx[list[k]].answer = addrs], list[k])
    IN  told[Len(list)]

-----------------------------------------------------------------------------
Answered(rn) == {t \in Type : rn.addrs[t] # Unanswered}
HasAddrs(rn) == \E t \in Answered(rn) : rn.addrs[t] # Empty

\* A name resolved to another name, and still valid.
IsAlias(s, n) == n \in s.tree /\ s.node[n].valid /\ ~HasAddrs(s.node[n])

\* Where the aliases lead: the names passed, as many as the recursion allows,
\* then the one that remains.
AliasPath(s, n, allowed) ==
    LET at[k \in 0..allowed] ==
            IF k = 0 THEN n
            ELSE IF IsAlias(s, at[k - 1]) THEN s.node[at[k - 1]].cname ELSE at[k - 1]
        hops == CHOOSE k \in 0..allowed :
                    /\ k = allowed \/ ~IsAlias(s, at[k])
                    /\ \A j \in 0..(k - 1) : IsAlias(s, at[j])
    IN  [k \in 1..(hops + 1) |-> at[k - 1]]

\* ngx_resolver_set_timeout(), for a resolver_timeout other than 0
SetTimeout(s, q) == [s EXCEPT !.ctx[q].event = TRUE]

\* Wrong on purpose: who comes later gets no timer of its own.
Join_NoTimer(s, list, n) ==
    [s EXCEPT !.node[n].waiting = list \o @,
              !.ctx = [q \in Ctx |-> IF q \in Range(list)
                                     THEN [@[q] EXCEPT !.state = "again", !.node = n]
                                     ELSE @[q]]]

\* The name is being resolved: its list grows by those who come.
Join(s, list, n) ==
    [SetTimeout(s, Head(list)) EXCEPT
        !.node[n].waiting = list \o @,
        !.ctx = [q \in Ctx |-> IF q \in Range(list)
                               THEN [@[q] EXCEPT !.state = "again", !.node = n] ELSE @[q]]]

\* A new query for a new node, or for one whose answer is no longer valid.
Query(s, list, n) ==
    IF n \in Malformed
    THEN Answer(FreeNodes(s, {n}), list, "failed", <<>>)
    ELSE LET rn == [NoNode EXCEPT !.query = Len(s.asked) + 1]
             q1 == ToResend([s EXCEPT !.tree = @ \cup {n}, !.node[n] = rn,
                                      !.asked = Append(@, n),
                                      !.timer = @ \/ Without(s.resend, {n}) = <<>>], n)
         IN  Join(q1, list, n)

\* ngx_resolve_name_locked() for a list of askers; mem: no allocation fails.
\* When one does, a node that was to be asked for again is gone, and nobody is told.
ResolveName(s, list, n, mem) ==
    LET first   == Head(list)
        allowed == MaxRecursion - s.ctx[first].recursion
        path    == AliasPath(s, n, IF allowed < 0 THEN 0 ELSE allowed)
        m       == Last(path)
        rn      == s.node[m]
        cached  == m \in s.tree /\ rn.valid
        passed  == IF cached THEN path ELSE Front(path)
        s1      == [AllToExpire(s, passed) EXCEPT
                        !.ctx[first].recursion = @ + Len(path) - 1]
    IN  CASE IsAlias(s, m) -> Answer(s1, list, "failed", <<>>)
          [] cached /\ ~IsAlias(s, m) -> IF mem THEN Answer(s1, list, "ok", rn.addrs) ELSE s1
          [] ~cached /\ rn.waiting # <<>> -> IF mem THEN Join(s1, list, m) ELSE s1
          [] ~cached /\ rn.waiting = <<>> ->
                IF mem THEN Query(s1, list, m) ELSE FreeNodes(s1, {m})

-----------------------------------------------------------------------------
\* ngx_resolve_name()
Ask(q, n) ==
    /\ ctx[q].state = "new"
    /\ Becomes(ResolveName(Now, <<q>>, n, TRUE))

\* NGX_ERROR: the asker is told at once.
AskFails(q, n) ==
    /\ ctx[q].state = "new"
    /\ LET s == ResolveName(Now, <<q>>, n, FALSE)
       IN  /\ s.ctx[q].state = "new"
           /\ Becomes([s EXCEPT !.ctx[q].state = "error"])

\* ngx_resolver_timeout_handler()
Timeout(q) ==
    /\ ctx[q].state = "again" /\ ctx[q].event
    /\ \E s \in {[Now EXCEPT !.ctx[q].state = "timedout"]} : Becomes(NameDone(s, q))

\* The request ends while it waits: ngx_http_upstream_finalize_request().
Cancel(q) ==
    /\ ctx[q].state = "again"
    /\ Becomes([NameDone(Now, q) EXCEPT !.ctx[q].state = "cancelled"])

\* ngx_resolver_resend_handler(): the names whose time has come, from the oldest,
\* are asked for again while somebody waits, and dropped otherwise.
ResendHandler ==
    /\ timer
    /\ \E due \in 0..Len(resend) :
          LET front == SubSeq(resend, 1, Len(resend) - due)
              tail  == SubSeq(resend, Len(resend) - due + 1, Len(resend))
              idle  == {n \in Range(tail) : node[n].waiting = <<>>}
              s     == FreeNodes(Now, idle)
              again == Without(tail, idle) \o front
          IN  Becomes([s EXCEPT !.resend = again, !.timer = again # <<>>])

-----------------------------------------------------------------------------
\* Wrong on purpose: the number of the query is not looked at.
Expected_AnyIdent(n, t, i) ==
    /\ i \in DOMAIN asked /\ asked[i] = n
    /\ n \in tree /\ node[n].query # 0
    /\ node[n].addrs[t] = Unanswered

\* The checks of ngx_resolver_process_a(): an answer to query i about n and t is
\* waited for.  All others are ignored.
Expected(n, t, i) ==
    /\ i \in DOMAIN asked /\ asked[i] = n
    /\ n \in tree /\ node[n].query = i
    /\ node[n].addrs[t] = Unanswered

Others(n, t) == Type \ {t} \subseteq Answered(node[n])

\* rn with its answer about t.
Given(n, t, value) == [Now EXCEPT !.node[n].addrs[t] = value]

\* Everyone who waits gets an error, and the node is freed.
FailAll(s, n) ==
    Answer(FreeNodes(s, {n}), s.node[n].waiting, "failed", <<>>)

\* export: everyone who waits gets the addresses, which are valid for a while.
Export(s, n) ==
    Answer(ToExpire([s EXCEPT !.node[n].valid = TRUE, !.node[n].waiting = <<>>,
                              !.node[n].query = 0, !.node[n].tcp = {}], n),
           s.node[n].waiting, "ok", s.node[n].addrs)

\* Cut short over UDP: asked again over TCP, unless nobody waits.
Truncated(n, t, i) ==
    /\ Expected(n, t, i) /\ t \notin node[n].tcp
    /\ Becomes(IF node[n].waiting = <<>> THEN FreeNodes(Now, {n})
               ELSE ToResend([Now EXCEPT !.node[n].tcp = @ \cup {t}], n))

\* An error, or no records at all.  An error is kept until the other answer has come,
\* and then counts for both; no records only if the other answer has none either.
NoRecords(n, t, i, error) ==
    /\ Expected(n, t, i)
    /\ LET s    == Given(n, t, Empty)
           code == error \/ node[n].code
       IN  Becomes(IF ~Others(n, t) THEN [s EXCEPT !.node[n].code = code]
                   ELSE IF ~code /\ HasAddrs(s.node[n]) THEN Export(s, n)
                   ELSE FailAll(s, n))

\* Addresses, when the other answer was not an error.  Without memory for them
\* the node stays as it is.
Addresses(n, t, i) ==
    /\ Expected(n, t, i)
    /\ LET s == Given(n, t, i)
       IN  \/ /\ node[n].code
              /\ Becomes(FailAll(Now, n))
           \/ /\ ~node[n].code
              /\ Becomes(IF Others(n, t) THEN Export(s, n) ELSE s)
           \/ /\ ~node[n].code /\ Others(n, t)
              /\ Becomes(s)

\* The list of those who waited for n goes on to wait for c.
Follow(s, n, list, c, mem) ==
    LET freed == [s EXCEPT !.ctx = [q \in Ctx |-> IF q \in Range(list)
                                                  THEN [@[q] EXCEPT !.node = NoName] ELSE @[q]]]
        first == [freed EXCEPT !.ctx[Head(list)].recursion = @ + 1]
    IN  IF list = <<>> THEN s
        ELSE IF s.ctx[Head(list)].recursion >= MaxRecursion
             THEN Answer(s, list, "failed", <<>>)
             ELSE ResolveName(first, list, c, mem)

\* An alias and no address, in the last answer that was missing.  mem: no allocation
\* fails; when one does later on, those who wait are left to their timers.
Alias(n, t, i, c, mem) ==
    /\ Expected(n, t, i)
    /\ LET s     == Given(n, t, Empty)
           alias == ToExpire([s EXCEPT !.node[n].cname = c, !.node[n].valid = TRUE,
                                       !.node[n].query = 0, !.node[n].tcp = {},
                                       !.node[n].waiting = <<>>], n)
       IN  Becomes(IF ~Others(n, t) THEN s
                   ELSE IF node[n].code THEN FailAll(Now, n)
                   ELSE IF HasAddrs(s.node[n]) THEN Export(s, n)
                   ELSE Follow(alias, n, node[n].waiting, c, mem))

\* Records, but neither addresses nor an alias: nothing is left to wait for, and
\* the node stays where it is.
NothingUseful(n, t, i) ==
    /\ Expected(n, t, i)
    /\ LET s == Given(n, t, Empty)
       IN  Becomes(IF node[n].code /\ Others(n, t) THEN FailAll(Now, n)
                   ELSE IF Others(n, t) /\ HasAddrs(s.node[n]) THEN Export(s, n)
                   ELSE s)

-----------------------------------------------------------------------------
\* Time passes for an answer (rn->valid), or for a node that nobody asks for.
Invalid(n) ==
    /\ n \in tree /\ node[n].valid
    /\ node' = [node EXCEPT ![n].valid = FALSE]
    /\ UNCHANGED <<ctx, tree, resend, expire, old, timer, asked>>

Ages ==
    /\ \E k \in DOMAIN expire :
          /\ expire[k] \notin old
          /\ \A j \in (k + 1)..Len(expire) : expire[j] \in old
          /\ old' = old \cup {expire[k]}
    /\ UNCHANGED <<ctx, tree, node, resend, expire, timer, asked>>

Response(n, t, i) ==
    \/ Truncated(n, t, i)
    \/ \E error \in BOOLEAN : NoRecords(n, t, i, error)
    \/ Addresses(n, t, i)
    \/ \E c \in Name, mem \in BOOLEAN : Alias(n, t, i, c, mem)
    \/ NothingUseful(n, t, i)

Next ==
    \/ \E q \in Ctx, n \in Wanted : Ask(q, n) \/ AskFails(q, n)
    \/ \E q \in Ctx : Timeout(q) \/ Cancel(q)
    \/ ResendHandler
    \/ \E n \in Name, t \in Type : \E i \in DOMAIN asked : Response(n, t, i)
    \/ \E n \in Name : Invalid(n)
    \/ Ages

Spec == Init /\ [][Next]_vars

\* The timer of an asker expires.
FairSpec == Spec /\ (\A q \in Ctx : WF_vars(Timeout(q)))

-----------------------------------------------------------------------------
\* A node is on one of the two queues and nothing else is (ngx_resolver_node_t has
\* one queue link), and those who wait for it are those who are in its list: nobody
\* is forgotten by the node, or called after it has gone.
WaitersAreListed ==
    /\ \A n \in Name :
          /\ Cardinality({k \in DOMAIN (resend \o expire) : (resend \o expire)[k] = n})
                = IF n \in tree THEN 1 ELSE 0
          /\ Range(node[n].waiting) = {q \in Ctx : ctx[q].state = "again" /\ ctx[q].node = n}
          /\ Cardinality(Range(node[n].waiting)) = Len(node[n].waiting)
          /\ node[n].waiting # <<>> => n \in Range(resend)
    /\ \A q \in Ctx : ctx[q].state = "again" => ctx[q].event

\* While a name is being resolved the timer runs that asks again (r->event, shared by
\* all names, set and deleted in four places).
ResendIsTimed == resend # <<>> => timer

\* What an asker is given comes from one query: the addresses of the two types are
\* not mixed from an earlier query, whose answer came late, and the present one.
AnswersAreOfOneQuery ==
    \A q \in Ctx : ctx[q].state = "ok" =>
        /\ \E t \in Type : ctx[q].answer[t] # Empty
        /\ \A t, u \in Type :
              ctx[q].answer[t] # Empty /\ ctx[q].answer[u] # Empty =>
                  ctx[q].answer[t] = ctx[q].answer[u]

\* Whoever asks is told in the end, whatever the servers do (ngx_resolver_timeout_handler()).
AskersEnd == \A q \in Ctx : ctx[q].state = "again" ~> ctx[q].state # "again"
=============================================================================
