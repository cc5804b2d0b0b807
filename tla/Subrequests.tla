----------------------------- MODULE Subrequests -----------------------------
(***************************************************************************)
(* A request, its subrequests and theirs: how they are started, finalized  *)
(* and freed (ngx_http_request.c, ngx_http_subrequest()), and how the      *)
(* postpone filter puts their output in order.                             *)
(*                                                                         *)
(* What a request sends is given by its script: parts of its own body, and *)
(* the subrequests that it starts in between.  The parts become ready at   *)
(* any time, as a file, a server or a cache gives them; the client takes   *)
(* the output at any time, or goes away.  All this is in one worker: an    *)
(* event is handled, then the posted requests run until there are none.    *)
(***************************************************************************)
EXTENDS Integers, FiniteSets, SequencesExt

CONSTANTS
    Main,        \* the request of the client
    Sub,         \* its subrequests, and theirs
    Script,      \* per request: a sequence of parts and subrequests
    Part,
    Background,  \* the subrequests that the client does not wait for
    Waited,      \* the subrequests that the one who started them looks at
    MayBlock     \* the requests that wait for the cache lock before they start

Request == Sub \cup {Main}

\* Every subrequest is started once, by one that was there before it; the last part of
\* the main request (last_buf) follows all of its subrequests; in the background nothing
\* is sent.
ASSUME ScriptAssumption ==
    /\ IsFiniteSet(Sub) /\ Main \notin Sub /\ Part \cap Request = {}
    /\ Script \in [Request -> Seq(Part \cup Sub)]
    /\ Background \cup Waited \subseteq Sub /\ MayBlock \subseteq Request
    /\ Script[Main] # <<>> /\ Last(Script[Main]) \in Part
    /\ \A r \in Background : Script[r] = <<>>
    /\ \A s \in Sub : \E r \in Request : \E i \in DOMAIN Script[r] :
          \A q \in Request : \A j \in DOMAIN Script[q] : Script[q][j] = s <=> q = r /\ j = i
    /\ \E depth \in [Request -> 0..Cardinality(Sub)] :
          \A r \in Request, s \in Sub : s \in Range(Script[r]) => depth[s] > depth[r]

VARIABLES
    handler,   \* per request: what its write_event_handler does, none: not started,
               \* gone: finalized, its reference given back
    at,        \* per request: the next element of its script
    done,      \* r->done
    postponed, \* per request: the parts and subrequests that wait for their turn
    active,    \* c->data: the request whose output goes to the client
    posted,    \* posted_requests of the main request
    count,     \* its references
    blocked,   \* its operations that cannot be cancelled
    wire,      \* the parts passed on to the client
    buffered,  \* c->buffered: the client has not taken all of it
    error,     \* c->error
    freed      \* no, kept: after the response, cut: before its end

vars == <<handler, at, done, postponed, active, posted, count, blocked, wire, buffered,
          error, freed>>

Init ==
    /\ handler = [r \in Request |-> IF r = Main THEN "start" ELSE "none"]
    /\ at = [r \in Request |-> 1]
    /\ done = [r \in Request |-> FALSE]
    /\ postponed = [r \in Request |-> <<>>]
    /\ active = Main
    /\ posted = <<Main>>
    /\ count = 1 /\ blocked = 0
    /\ wire = <<>> /\ buffered = FALSE
    /\ error = FALSE /\ freed = "no"

Parent(s) == CHOOSE r \in Request : s \in Range(Script[r])

\* An event can be handled: nothing is posted, the request is not freed.
Waiting == posted = <<>> /\ freed = "no"

-----------------------------------------------------------------------------
\* Wrong on purpose: the request is not woken.
PostRequest_Lost(posts, r) == posts

\* ngx_http_post_request()
PostRequest(posts, r) == Append(posts, r)

\* Wrong on purpose: what is postponed does not hold back the output.
PostponeFilter_NotHeldBack(r, in, posts) ==
    IF r # active
    THEN /\ postponed' = [postponed EXCEPT ![r] = @ \o in]
         /\ posted' = posts
         /\ UNCHANGED <<active, wire, buffered>>
    ELSE /\ wire' = wire \o in
         /\ buffered' \in BOOLEAN
         /\ posted' = posts
         /\ UNCHANGED <<active, postponed>>

\* ngx_http_postpone_filter() with the given output, on top of the given posted
\* requests: the output of a request that is not active is kept; that of the
\* active one is sent up to the next subrequest, which is active from then on.
PostponeFilter(r, in, posts) ==
    LET list == postponed[r] \o in
        subs == {i \in DOMAIN list : list[i] \in Sub}
        i == CHOOSE j \in subs : \A k \in subs : j <= k
    IN  IF r # active
        THEN /\ postponed' = [postponed EXCEPT ![r] = list]
             /\ posted' = posts
             /\ UNCHANGED <<active, wire, buffered>>
        ELSE IF subs = {}
        THEN /\ wire' = wire \o list
             /\ IF list = <<>> THEN UNCHANGED buffered ELSE buffered' \in BOOLEAN
             /\ postponed' = [postponed EXCEPT ![r] = <<>>]
             /\ posted' = posts
             /\ UNCHANGED active
        ELSE /\ wire' = wire \o SubSeq(list, 1, i - 1)
             /\ IF i = 1 THEN UNCHANGED buffered ELSE buffered' \in BOOLEAN
             /\ postponed' = [postponed EXCEPT ![r] = SubSeq(list, i + 1, Len(list))]
             /\ active' = list[i]
             /\ posted' = PostRequest(posts, list[i])

\* Wrong on purpose: nobody waits for it, so it is not counted.
Subrequest_Uncounted(r, s) ==
    /\ handler' = [handler EXCEPT ![s] = "start"]
    /\ count' = IF s \in Background THEN count ELSE count + 1
    /\ posted' = PostRequest(posted, s)
    /\ IF s \in Background THEN UNCHANGED <<active, postponed>>
       ELSE /\ active' = IF active = r /\ postponed[r] = <<>> THEN s ELSE active
            /\ postponed' = [postponed EXCEPT ![r] = Append(@, s)]
    /\ UNCHANGED <<wire, buffered>>

\* ngx_http_subrequest()
Subrequest(r, s) ==
    /\ handler' = [handler EXCEPT ![s] = "start"]
    /\ count' = count + 1
    /\ posted' = PostRequest(posted, s)
    /\ IF s \in Background THEN UNCHANGED <<active, postponed>>
       ELSE /\ active' = IF active = r /\ postponed[r] = <<>> THEN s ELSE active
            /\ postponed' = [postponed EXCEPT ![r] = Append(@, s)]
    /\ UNCHANGED <<wire, buffered>>

-----------------------------------------------------------------------------
\* ngx_http_close_request(): the last reference frees the request.
CloseRequest(how) ==
    /\ count' = count - 1
    /\ freed' = IF count = 1 /\ blocked = 0 THEN how ELSE freed

\* ngx_http_finalize_request() with a good result.  A subrequest that is active
\* hands over to the one that started it; one that is not will be asked again
\* when its turn comes; the main request ends with the response.
FinalizeGood(r, posts) ==
    IF r \in Background
    THEN /\ done' = [done EXCEPT ![r] = TRUE]
         /\ handler' = [handler EXCEPT ![r] = "gone"]
         /\ CloseRequest("kept")
         /\ posted' = posts
         /\ UNCHANGED <<postponed, active>>
    ELSE IF postponed[r] # <<>> \/ (r = Main /\ buffered)
    THEN /\ handler' = [handler EXCEPT ![r] = "writer"]
         /\ posted' = posts
         /\ UNCHANGED <<done, postponed, active, count, freed>>
    ELSE IF r = Main
    THEN \* if not active, an alert is logged and that is all
         /\ IF active = Main
            THEN /\ done' = [done EXCEPT ![r] = TRUE]
                 /\ handler' = [handler EXCEPT ![r] = "gone"]
                 /\ CloseRequest("kept")
            ELSE UNCHANGED <<done, handler, count, freed>>
         /\ posted' = posts
         /\ UNCHANGED <<postponed, active>>
    ELSE LET p == Parent(r) IN
         /\ IF active = r
            THEN /\ count' = count - 1
                 /\ done' = [done EXCEPT ![r] = TRUE]
                 /\ handler' = [handler EXCEPT ![r] = "gone"]
                 /\ postponed' = [postponed EXCEPT ![p] =
                                    IF @ # <<>> /\ Head(@) = r THEN Tail(@) ELSE @]
                 /\ active' = p
            ELSE /\ handler' = [handler EXCEPT ![r] = "finalizer"]
                 /\ done' = [done EXCEPT ![r] = @ \/ r \in Waited]
                 /\ UNCHANGED <<count, postponed, active>>
         /\ posted' = PostRequest(posts, p)
         /\ UNCHANGED freed

\* Wrong on purpose: what cannot be cancelled is not waited for.
Terminate_NotBlocked(r, posts) ==
    LET cancelled == {q \in Request \ {r} : handler[q] = "produce"} IN
    /\ count' = count - Cardinality(cancelled)
    /\ posted' = <<Main>>
    /\ handler' = [q \in Request |-> IF q = Main THEN "terminate"
                                     ELSE IF q \in cancelled THEN "gone"
                                     ELSE IF q = r THEN "finalizer" ELSE handler[q]]
    /\ UNCHANGED <<at, done, postponed, active, blocked, wire, buffered, error, freed>>

\* ngx_http_terminate_request(): the cleanup handlers give back the references of
\* the requests under way (r itself is at its end); the main request is freed as
\* soon as nothing is blocked.
Terminate(r, posts) ==
    LET cancelled == {q \in Request \ {r} : handler[q] = "produce"}
        left == [q \in Request |-> IF q \in cancelled THEN "gone"
                                   ELSE IF q = r THEN "finalizer" ELSE handler[q]]
    IN  /\ count' = count - Cardinality(cancelled)
        /\ IF blocked > 0
           THEN /\ error' = TRUE
                /\ handler' = left
                /\ posted' = posts
           ELSE /\ posted' = <<Main>>
                /\ handler' = [left EXCEPT ![Main] = "terminate"]
                /\ UNCHANGED error
        /\ UNCHANGED <<at, done, postponed, active, blocked, wire, buffered, freed>>

Finalize(r, posts) ==
    IF error THEN Terminate(r, posts)
    ELSE FinalizeGood(r, posts) /\ UNCHANGED <<at, blocked, wire, buffered, error>>

-----------------------------------------------------------------------------
\* ngx_http_run_posted_requests() calls the write_event_handler of the first one:
\* ngx_http_handler() starts the request, which may have to wait in the cache;
RunStart ==
    LET r == Head(posted) IN
    /\ posted # <<>> /\ freed = "no" /\ handler[r] = "start"
    /\ \/ handler' = [handler EXCEPT ![r] = "produce"] /\ UNCHANGED blocked
       \/ r \in MayBlock /\ handler' = [handler EXCEPT ![r] = "wait"] /\ blocked' = blocked + 1
    /\ posted' = Tail(posted)
    /\ UNCHANGED <<at, done, postponed, active, count, wire, buffered, error, freed>>

\* ngx_http_writer() passes on what is postponed, and finalizes the request;
RunWriter ==
    LET r == Head(posted) IN
    /\ posted # <<>> /\ freed = "no" /\ handler[r] = "writer"
    /\ PostponeFilter(r, <<>>, posted)
    /\ handler' = [handler EXCEPT ![r] = "finalizer"]
    /\ UNCHANGED <<at, done, count, blocked, error, freed>>

\* ngx_http_request_finalizer();
RunFinalizer ==
    LET r == Head(posted) IN
    /\ posted # <<>> /\ freed = "no" /\ handler[r] = "finalizer"
    /\ Finalize(r, Tail(posted))

\* ngx_http_terminate_handler();
RunTerminate ==
    /\ posted # <<>> /\ freed = "no" /\ handler[Head(posted)] = "terminate"
    /\ count' = 0 /\ freed' = "cut"
    /\ posted' = <<>>
    /\ UNCHANGED <<handler, at, done, postponed, active, blocked, wire, buffered, error>>

\* ngx_http_upstream_process_downstream() passes on what r has kept so far;
RunProduce ==
    LET r == Head(posted) IN
    /\ posted # <<>> /\ freed = "no" /\ handler[r] = "produce"
    /\ PostponeFilter(r, <<>>, Tail(posted))
    /\ UNCHANGED <<handler, at, done, count, blocked, error, freed>>

\* a request that has nothing to do when it is woken.
RunNothing ==
    /\ posted # <<>> /\ freed = "no" /\ handler[Head(posted)] \in {"wait", "gone"}
    /\ posted' = Tail(posted)
    /\ UNCHANGED <<handler, at, done, postponed, active, count, blocked, wire, buffered,
                   error, freed>>

RunPosted ==
    RunStart \/ RunProduce \/ RunWriter \/ RunFinalizer \/ RunTerminate \/ RunNothing

\* The next part of r is there, or it comes to its next subrequest.
Produce(r) ==
    LET x == Script[r][at[r]] IN
    /\ Waiting /\ handler[r] = "produce" /\ at[r] <= Len(Script[r])
    /\ IF x \in Sub THEN Subrequest(r, x)
       ELSE PostponeFilter(r, <<x>>, posted) /\ UNCHANGED <<handler, count>>
    /\ at' = [at EXCEPT ![r] = @ + 1]
    /\ UNCHANGED <<done, blocked, error, freed>>

\* r has sent all it has to send.
End(r) ==
    /\ Waiting /\ handler[r] = "produce" /\ at[r] > Len(Script[r])
    /\ Finalize(r, posted)

\* r cannot be completed: ngx_http_finalize_request(r, NGX_ERROR).
Fail(r) ==
    /\ Waiting /\ handler[r] = "produce"
    /\ Terminate(r, posted)

\* ngx_http_file_cache_lock_wait() ends the wait of r.
Unblock(r) ==
    /\ Waiting /\ handler[r] = "wait"
    /\ blocked' = blocked - 1
    /\ handler' = [handler EXCEPT ![r] = "produce"]
    /\ UNCHANGED <<at, done, postponed, active, posted, count, wire, buffered, error, freed>>

\* ngx_http_request_handler() for a write event: the active request may go on.
ClientReads ==
    /\ Waiting /\ buffered
    /\ buffered' = FALSE
    /\ posted' = <<active>>
    /\ UNCHANGED <<handler, at, done, postponed, active, count, blocked, wire, error, freed>>

\* ngx_http_test_reading() finds the connection closed, or ngx_http_writer() finds
\* that send_timeout is over.
ClientLeaves ==
    /\ Waiting /\ handler[active] = "writer"
    /\ Terminate(active, posted)

Next ==
    \/ RunPosted \/ ClientReads \/ ClientLeaves
    \/ \E r \in Request : Produce(r) \/ End(r) \/ Fail(r) \/ Unblock(r)

Spec == Init /\ [][Next]_vars

\* Posted requests run; parts become ready; who waits in the cache is woken; the
\* client takes the output, or is given up.
FairSpec ==
    /\ Spec
    /\ WF_vars(RunPosted) /\ WF_vars(ClientReads)
    /\ \A r \in Request : WF_vars(Produce(r)) /\ WF_vars(End(r)) /\ WF_vars(Unblock(r))

-----------------------------------------------------------------------------
\* A list of parts and subrequests, with what each of them stands for.
Pieces(flat, list) ==
    [i \in DOMAIN list |-> IF list[i] \in Sub THEN flat[list[i]] ELSE <<list[i]>>]

\* The parts of r and of its subrequests in the order in which they were meant.
Flat[r \in Request] == FlattenSeq(Pieces(Flat, Script[r]))

\* Whatever the order in which requests get ready, are woken and end, the client is
\* sent the parts in the order of the scripts, and all of them before the request is
\* done.
OutputInOrder ==
    /\ IsPrefix(wire, Flat[Main])
    /\ done[Main] => wire = Flat[Main]

\* The references of the main request are the requests that are not finalized: none
\* is given back twice, none is left over.
ReferencesAreCounted ==
    freed = "no" /\ handler[Main] # "terminate" =>
        count = Cardinality({r \in Request : handler[r] \notin {"none", "gone"}})

\* When the memory of the main request is freed, no request in it is under way: no
\* event can come for it any more.
NothingOutlives ==
    freed # "no" => \A r \in Request : handler[r] \notin {"produce", "wait"}

\* The main request is freed in the end, in whatever order its subrequests end.
RequestIsFreed == <>(freed # "no")
=============================================================================
