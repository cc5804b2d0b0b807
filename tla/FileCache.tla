------------------------------ MODULE FileCache ------------------------------
(***************************************************************************)
(* The cache of responses of ngx_http_file_cache.c, as proxied requests    *)
(* (ngx_http_upstream_cache() and the calls of the cache that follow it),  *)
(* the cache manager and the cache loader use it.  The nodes, their queue  *)
(* and the size are in a shared memory zone; the files are not under its   *)
(* lock.  A step is one section under the lock of the zone, or one         *)
(* operation on a file.                                                    *)
(*                                                                         *)
(* Every request is in a worker of its own, which may be killed.  min_uses *)
(* is 1, proxy_cache_lock is on, there is no Vary, no background update,   *)
(* and each file takes up one block of the disk.                           *)
(***************************************************************************)
EXTENDS Integers, FiniteSets, SequencesExt

CONSTANTS
    Request,
    Key,
    KeyOf,      \* per request
    Node,       \* what the zone has room for
    OnDisk,     \* the keys whose files are there at the start
    Mortal,     \* the requests whose worker may be killed
    UseStale,   \* the requests with proxy_cache_use_stale updating
    MaxSize,    \* max_size, in blocks
    Manager,    \* the cache manager process
    None

ASSUME CacheAssumption ==
    /\ IsFiniteSet(Request)
    /\ KeyOf \in [Request -> Key] /\ OnDisk \subseteq Key /\ UseStale \cup Mortal \subseteq Request
    /\ Manager \notin Request /\ None \notin Request \cup Key \cup Node
    /\ Request \cap Key = {} /\ MaxSize \in Nat

VARIABLES
    node,      \* the nodes of the rbtree, key None: free memory
    queue,     \* the nodes, the one used last first
    size,      \* sh->size
    watermark, \* sh->watermark, None: not set yet
    cold,      \* sh->cold
    disk,      \* per key: the file (inode) that its name stands for
    fresh,     \* of these, the ones whose header says that they are valid now
    req,       \* per request: where it stands and its ngx_http_cache_t
    del,       \* per process: the node it deletes, and whether the file is gone
    manager,   \* what the cache manager does: sleep, expire or forced
    loader     \* the cache loader: what it has to visit, what it looks at, and whether
               \* it could not add that

vars == <<node, queue, size, watermark, cold, disk, fresh, req, del, manager, loader>>

\* The files there were are named by their key, a new one by the request it is from.
File == Key \cup Request

FreeNode == [key |-> None, count |-> 0, exists |-> FALSE, fs |-> 0,
             error |-> FALSE, errorValid |-> FALSE,   \* error, valid_sec
             updating |-> FALSE,
             young |-> FALSE,    \* lock_time is not over
             lockers |-> {},     \* the requests whose lock_time is that of the node
             deleting |-> FALSE]

NewRequest == [pc |-> "idle",    \* idle, nomem, retry, open, read, stale, lock, wait,
                                 \* fetch, header, rename, update, free, done, killed
               node |-> None, file |-> None, expired |-> FALSE,
               updating |-> FALSE, cacheable |-> TRUE, patient |-> TRUE,
               timer |-> FALSE, renamed |-> FALSE,
               error |-> "no"]   \* seen: found in the node, new: from the server

Init ==
    /\ node = [n \in Node |-> FreeNode]
    /\ queue = <<>> /\ size = 0 /\ watermark = None /\ cold = TRUE
    /\ disk = [k \in Key |-> IF k \in OnDisk THEN k ELSE None]
    /\ fresh \in SUBSET {k \in OnDisk : \E r \in Request : KeyOf[r] = k}
    /\ req = [r \in Request |-> NewRequest]
    /\ del = [p \in Request \cup {Manager} |-> [node |-> None, unlinked |-> FALSE]]
    /\ manager = "sleep"
    /\ loader = [todo |-> OnDisk, at |-> None, failed |-> FALSE]

Files == <<disk, fresh>>
Others == <<del, manager, loader>>

Lookup(k) == {n \in Node : node[n].key = k}
Unused == {n \in Node : node[n].key = None}
Count == Cardinality(Node \ Unused)

ToHead(n) == Cons(n, RemoveFirst(queue, n))

-----------------------------------------------------------------------------
\* ngx_http_file_cache_exists() and the branches of ngx_http_file_cache_open()
\* that follow: the node of the request, its file if it is worth a look.
Found(r, n) ==
    LET renew == node[n].error /\ ~node[n].errorValid
        held == IF req[r].node = None THEN node[n].count + 1 ELSE node[n].count
    IN  /\ node' = [node EXCEPT ![n] =
                      IF renew THEN [@ EXCEPT !.count = held, !.error = FALSE,
                                              !.exists = FALSE, !.fs = 0]
                               ELSE [@ EXCEPT !.count = held]]
        /\ queue' = ToHead(n)
        /\ req' = [req EXCEPT ![r].node = n,
                              ![r].error = IF node[n].error /\ ~renew THEN "seen" ELSE "no",
                              ![r].pc = IF node[n].error /\ ~renew THEN "free"
                                        ELSE IF IF renew THEN cold ELSE node[n].exists
                                        THEN "open" ELSE "lock"]
        /\ UNCHANGED watermark

\* A new node is made for the key.
Create(r, n) ==
    /\ node' = [node EXCEPT ![n] = [FreeNode EXCEPT !.key = KeyOf[r], !.count = 1]]
    /\ queue' = Cons(n, queue)
    /\ req' = [req EXCEPT ![r].node = n, ![r].pc = IF cold THEN "open" ELSE "lock"]
    /\ UNCHANGED watermark

Exists(r) ==
    /\ req[r].pc \in {"idle", "again"}
    /\ IF req[r].node # None THEN Found(r, req[r].node)
       ELSE IF Lookup(KeyOf[r]) # {} THEN \E n \in Lookup(KeyOf[r]) : Found(r, n)
       ELSE IF Unused # {} THEN Create(r, CHOOSE n \in Unused : TRUE)
       ELSE /\ watermark' = Count - Count \div 8
            /\ req' = [req EXCEPT ![r].pc = "nomem"]
            /\ UNCHANGED <<node, queue>>
    /\ UNCHANGED <<size, cold, Files, Others>>

-----------------------------------------------------------------------------
\* ngx_http_file_cache_delete(), up to the release of the lock.
DeleteBegin(p, n, order) ==
    IF node[n].exists
    THEN /\ size' = size - node[n].fs
         /\ node' = [node EXCEPT ![n].count = @ + 1, ![n].deleting = TRUE]
         /\ queue' = order
         /\ del' = [del EXCEPT ![p] = [node |-> n, unlinked |-> FALSE]]
    ELSE /\ node' = [node EXCEPT ![n] = FreeNode]
         /\ queue' = RemoveFirst(order, n)
         /\ UNCHANGED <<size, del>>

\* The file that has the name now is removed, whichever it is.
DeleteFile(p) ==
    /\ del[p].node # None /\ ~del[p].unlinked
    /\ LET k == node[del[p].node].key IN
          disk' = [disk EXCEPT ![k] = None] /\ fresh' = fresh \ {disk[k]}
    /\ del' = [del EXCEPT ![p].unlinked = TRUE]
    /\ UNCHANGED <<node, queue, size, watermark, cold, req, manager, loader>>

\* Wrong on purpose: nobody can have come in between.
DeleteEnd_NotChecked(p) ==
    LET n == del[p].node IN
    /\ n # None /\ del[p].unlinked
    /\ node' = [node EXCEPT ![n] = FreeNode] /\ queue' = RemoveFirst(queue, n)
    /\ del' = [del EXCEPT ![p] = [node |-> None, unlinked |-> FALSE]]
    /\ UNCHANGED <<size, watermark, cold, Files, req, manager, loader>>

\* The rest of ngx_http_file_cache_delete(), under the lock again.
DeleteEnd(p) ==
    LET n == del[p].node IN
    /\ n # None /\ del[p].unlinked
    /\ IF node[n].count = 1
       THEN node' = [node EXCEPT ![n] = FreeNode] /\ queue' = RemoveFirst(queue, n)
       ELSE node' = [node EXCEPT ![n].count = @ - 1, ![n].deleting = FALSE] /\ UNCHANGED queue
    /\ del' = [del EXCEPT ![p] = [node |-> None, unlinked |-> FALSE]]
    /\ UNCHANGED <<size, watermark, cold, Files, req, manager, loader>>

\* ngx_http_file_cache_forced_expire(): the node that is used by nobody and that
\* was not used for longest; the ones behind it are moved to the head.
Victims == {i \in 1..Len(queue) : node[queue[i]].count = 0}

ForcedExpire(p) ==
    IF Victims = {} THEN UNCHANGED <<node, queue, size, del>>
    ELSE LET i == CHOOSE j \in Victims : \A k \in Victims : k <= j
         IN  DeleteBegin(p, queue[i], SubSeq(queue, i + 1, Len(queue)) \o SubSeq(queue, 1, i))

\* No memory for a node: one is made room for, and what the lookup said before
\* the lock was released is not asked again.
MakeRoom(r) ==
    /\ req[r].pc = "nomem"
    /\ ForcedExpire(r)
    /\ req' = [req EXCEPT ![r].pc = "retry"]
    /\ UNCHANGED <<watermark, cold, Files, manager, loader>>

Retry(r) ==
    /\ req[r].pc = "retry" /\ del[r].node = None
    /\ \/ Unused # {} /\ Create(r, CHOOSE n \in Unused : TRUE)
       \/ /\ Unused = {}
          /\ req' = [req EXCEPT ![r].pc = "done"]
          /\ UNCHANGED <<node, queue, watermark>>
    /\ UNCHANGED <<size, cold, Files, Others>>

-----------------------------------------------------------------------------
\* The file is opened in ngx_http_file_cache_open(), and its header is read.
Open(r) ==
    /\ req[r].pc = "open"
    /\ LET file == disk[KeyOf[r]] IN
       req' = [req EXCEPT ![r].file = file,
                          ![r].expired = file \notin fresh,
                          ![r].pc = IF file = None THEN "lock" ELSE "read"]
    /\ UNCHANGED <<node, queue, size, watermark, cold, Files, Others>>

\* ngx_http_file_cache_read(): what the loader has not seen yet is counted; an
\* expired file is for the next section.
Read(r) ==
    LET n == req[r].node IN
    /\ req[r].pc = "read"
    /\ IF cold /\ ~node[n].exists
       THEN node' = [node EXCEPT ![n].exists = TRUE, ![n].fs = 1] /\ size' = size + 1
       ELSE UNCHANGED <<node, size>>
    /\ req' = [req EXCEPT ![r].pc = IF req[r].expired THEN "stale" ELSE "free"]
    /\ UNCHANGED <<queue, watermark, cold, Files, Others>>

\* A file that cannot be opened or read ends the request with an error; one that
\* is too short or has the header of another sends it to the server, unlocked.
Unreadable(r) ==
    /\ \/ req[r].pc \in {"open", "read"} /\ req' = [req EXCEPT ![r].pc = "free"]
       \/ req[r].pc = "read" /\ req' = [req EXCEPT ![r].pc = "fetch"]
    /\ UNCHANGED <<node, queue, size, watermark, cold, Files, Others>>

\* Wrong on purpose: lock_time is not taken over from the node.
ReadStale_NoLockTime(r) ==
    LET n == req[r].node IN
    /\ req[r].pc = "stale"
    /\ IF node[n].updating
       THEN /\ req' = [req EXCEPT ![r].pc = IF r \in UseStale THEN "free" ELSE "fetch"]
            /\ UNCHANGED node
       ELSE /\ node' = [node EXCEPT ![n].updating = TRUE]
            /\ req' = [req EXCEPT ![r].pc = "fetch", ![r].updating = TRUE]
    /\ UNCHANGED <<queue, size, watermark, cold, Files, Others>>

\* The end of it: the first one to find it expired updates it; the others send
\* what there is, or ask the server themselves.
ReadStale(r) ==
    LET n == req[r].node IN
    /\ req[r].pc = "stale"
    /\ IF node[n].updating
       THEN /\ req' = [req EXCEPT ![r].pc = IF r \in UseStale THEN "free" ELSE "fetch"]
            /\ UNCHANGED node
       ELSE /\ node' = [node EXCEPT ![n].updating = TRUE, ![n].lockers = @ \cup {r}]
            /\ req' = [req EXCEPT ![r].pc = "fetch", ![r].updating = TRUE]
    /\ UNCHANGED <<queue, size, watermark, cold, Files, Others>>

\* ngx_http_file_cache_lock(): one request fetches what is missing, the others wait
\* for it; who has waited long enough asks the server but does not cache.
Lock(r) ==
    LET n == req[r].node IN
    /\ req[r].pc = "lock"
    /\ \/ /\ ~node[n].updating \/ ~node[n].young
          /\ node' = [node EXCEPT ![n].updating = TRUE, ![n].young = TRUE, ![n].lockers = {r}]
          /\ req' = [req EXCEPT ![r].pc = "fetch", ![r].updating = TRUE]
       \/ /\ node[n].updating /\ node[n].young
          /\ req' = [req EXCEPT ![r].pc = IF req[r].patient THEN "wait" ELSE "fetch",
                                ![r].cacheable = req[r].patient,
                                ![r].timer = req[r].patient]
          /\ UNCHANGED node
    /\ UNCHANGED <<queue, size, watermark, cold, Files, Others>>

\* Wrong on purpose: c->waiting stays set, and there is no timer.
LockWait_StillWaiting(r) ==
    /\ req[r].pc = "wait" /\ req[r].timer
    /\ \E patient \in BOOLEAN :
          /\ patient => ~node[req[r].node].updating \/ ~node[req[r].node].young
          /\ req' = [req EXCEPT ![r].timer = FALSE,
                                ![r].patient = patient]
    /\ UNCHANGED <<node, queue, size, watermark, cold, Files, Others>>

\* ngx_http_file_cache_lock_wait() ends the wait: proxy_cache_lock_timeout is over,
\* or the lock is.  (Otherwise the timer is set again.)
LockWait(r) ==
    /\ req[r].pc = "wait" /\ req[r].timer
    /\ \E patient \in BOOLEAN :
          /\ patient => ~node[req[r].node].updating \/ ~node[req[r].node].young
          /\ req' = [req EXCEPT ![r].pc = "again", ![r].timer = FALSE,
                                ![r].patient = patient]
    /\ UNCHANGED <<node, queue, size, watermark, cold, Files, Others>>

-----------------------------------------------------------------------------
\* The answer of the server: a response to cache, a response that is not cached,
\* a failure that proxy_cache_valid has a time for, 304 for what is in the file.
Answer(r) ==
    /\ req[r].pc = "fetch"
    /\ \/ req[r].cacheable /\ req' = [req EXCEPT ![r].pc = "rename"]
       \/ req' = [req EXCEPT ![r].pc = "free"]
       \/ req[r].cacheable /\ req' = [req EXCEPT ![r].pc = "free", ![r].error = "new"]
       \/ req[r].file # None /\ req' = [req EXCEPT ![r].pc = "header"]
    /\ UNCHANGED <<node, queue, size, watermark, cold, Files, Others>>

\* ngx_http_file_cache_update_header(): if the name still stands for that file
UpdateHeader(r) ==
    /\ req[r].pc = "header"
    /\ fresh' = IF disk[KeyOf[r]] = req[r].file THEN fresh \cup {req[r].file} ELSE fresh
    /\ req' = [req EXCEPT ![r].pc = "free"]
    /\ UNCHANGED <<node, queue, size, watermark, cold, disk, Others>>

\* ngx_http_file_cache_update(), first half: the temporary file gets the name.
Rename(r) ==
    /\ req[r].pc = "rename"
    /\ \/ /\ disk' = [disk EXCEPT ![KeyOf[r]] = r]
          /\ fresh' = (fresh \ {disk[KeyOf[r]]}) \cup {r}
          /\ req' = [req EXCEPT ![r].pc = "update", ![r].renamed = TRUE]
       \/ /\ req' = [req EXCEPT ![r].pc = "update"]
          /\ UNCHANGED Files
    /\ UNCHANGED <<node, queue, size, watermark, cold, Others>>

Update(r) ==
    LET n == req[r].node
        fs == IF req[r].renamed THEN 1 ELSE 0
    IN  /\ req[r].pc = "update"
        /\ node' = [node EXCEPT ![n].count = @ - 1, ![n].error = FALSE, ![n].fs = fs,
                                ![n].exists = @ \/ req[r].renamed,
                                ![n].updating = FALSE]
        /\ size' = size + fs - node[n].fs
        /\ req' = [req EXCEPT ![r] = [NewRequest EXCEPT !.pc = "done"]]
        /\ UNCHANGED <<queue, watermark, cold, Files, Others>>

\* ngx_http_file_cache_free(): an error is recorded, with its time if it is new;
\* a node that came to nothing is removed.
Free(r) ==
    LET n == req[r].node
        left == [node[n] EXCEPT
                   !.count = @ - 1,
                   !.updating = @ /\ ~(req[r].updating /\ r \in node[n].lockers),
                   !.error = @ \/ req[r].error # "no",
                   !.errorValid = @ \/ req[r].error = "new"]
    IN  /\ req[r].pc = "free"
        /\ IF req[r].error = "no" /\ ~left.exists /\ left.count = 0
           THEN node' = [node EXCEPT ![n] = FreeNode] /\ queue' = RemoveFirst(queue, n)
           ELSE node' = [node EXCEPT ![n] = left] /\ UNCHANGED queue
        /\ req' = [req EXCEPT ![r] = [NewRequest EXCEPT !.pc = "done"]]
        /\ UNCHANGED <<size, watermark, cold, Files, Others>>

-----------------------------------------------------------------------------
\* ngx_http_file_cache_expire(): the node at the end of the queue, if its time is
\* over; then, or when enough were looked at, it is the turn of the limits.
ManagerExpire ==
    /\ manager = "expire" /\ del[Manager].node = None
    /\ \/ /\ manager' = "forced"
          /\ UNCHANGED <<node, queue, size, del>>
       \/ /\ queue # <<>>
          /\ LET n == Last(queue) IN
             \/ /\ node[n].count = 0
                /\ DeleteBegin(Manager, n, queue)
             \/ /\ node[n].count > 0 /\ ~node[n].deleting
                /\ queue' = ToHead(n)
                /\ UNCHANGED <<node, size, del>>
          /\ manager' \in {"expire", "sleep"}
    /\ UNCHANGED <<watermark, cold, Files, req, loader>>

\* ngx_http_file_cache_manager(): as long as there is too much
ManagerForced ==
    /\ manager = "forced" /\ del[Manager].node = None
    /\ IF size < MaxSize /\ (watermark # None => Count < watermark)
       THEN manager' = "sleep" /\ UNCHANGED <<node, queue, size, del>>
       ELSE /\ ForcedExpire(Manager)
            /\ manager' \in IF Victims = {} THEN {"sleep"} ELSE {"forced", "sleep"}
    /\ UNCHANGED <<watermark, cold, Files, req, loader>>

ManagerStart ==
    /\ manager = "sleep" /\ del[Manager].node = None
    /\ manager' = "expire"
    /\ UNCHANGED <<node, queue, size, watermark, cold, Files, req, del, loader>>

\* ngx_walk_tree() finds a file, or finds that it is gone.
LoaderVisit(k) ==
    /\ loader.at = None /\ k \in loader.todo
    /\ loader' = [loader EXCEPT !.todo = @ \ {k}, !.at = IF disk[k] = None THEN None ELSE k]
    /\ UNCHANGED <<node, queue, size, watermark, cold, Files, req, del, manager>>

\* ngx_http_file_cache_add()
LoaderAdd ==
    LET k == loader.at IN
    /\ k # None /\ ~loader.failed
    /\ \/ /\ Lookup(k) # {}
          /\ \E n \in Lookup(k) : queue' = ToHead(n)
          /\ loader' = [loader EXCEPT !.at = None]
          /\ UNCHANGED <<node, size, watermark>>
       \/ /\ Lookup(k) = {} /\ Unused # {}
          /\ LET n == CHOOSE m \in Unused : TRUE IN
                /\ node' = [node EXCEPT ![n] = [FreeNode EXCEPT !.key = k, !.exists = TRUE, !.fs = 1]]
                /\ queue' = Cons(n, queue)
          /\ size' = size + 1
          /\ loader' = [loader EXCEPT !.at = None]
          /\ UNCHANGED watermark
       \/ /\ Lookup(k) = {} /\ Unused = {}
          /\ watermark' = Count - Count \div 8
          /\ loader' = [loader EXCEPT !.failed = TRUE]
          /\ UNCHANGED <<node, queue, size>>
    /\ UNCHANGED <<cold, Files, req, del, manager>>

\* ngx_http_file_cache_manage_file() deletes a file that could not be added, or
\* the one that by then has its name.
LoaderDelete ==
    LET k == loader.at IN
    /\ loader.failed
    /\ disk' = [disk EXCEPT ![k] = None]
    /\ fresh' = fresh \ {disk[k]}
    /\ loader' = [loader EXCEPT !.at = None, !.failed = FALSE]
    /\ UNCHANGED <<node, queue, size, watermark, cold, req, del, manager>>

\* ngx_http_file_cache_loader() has seen everything.
LoaderEnd ==
    /\ cold /\ loader.todo = {} /\ loader.at = None
    /\ cold' = FALSE
    /\ UNCHANGED <<node, queue, size, watermark, Files, req, Others>>

-----------------------------------------------------------------------------
\* A worker is killed; what it held in the zone stays as it is.
Kill(r) ==
    /\ r \in Mortal /\ req[r].pc \notin {"idle", "done", "killed"}
    /\ req' = [req EXCEPT ![r].pc = "killed"]
    /\ UNCHANGED <<node, queue, size, watermark, cold, Files, Others>>

\* Time passes: proxy_cache_lock_age, the validity of an error or of a file is over.
LockAges(n) ==
    /\ node[n].young
    /\ node' = [node EXCEPT ![n].young = FALSE]
    /\ UNCHANGED <<queue, size, watermark, cold, Files, req, Others>>

ErrorEnds(n) ==
    /\ node[n].errorValid
    /\ node' = [node EXCEPT ![n].errorValid = FALSE]
    /\ UNCHANGED <<queue, size, watermark, cold, Files, req, Others>>

FileExpires(file) ==
    /\ file \in fresh
    /\ fresh' = fresh \ {file}
    /\ UNCHANGED <<node, queue, size, watermark, cold, disk, req, Others>>

Deletes(p) ==
    /\ p \in Request => req[p].pc # "killed"
    /\ DeleteFile(p) \/ DeleteEnd(p)

\* What request r does by itself, and what it waits for.
Step(r) ==
    \/ Exists(r) /\ req[r].pc # "idle"
    \/ MakeRoom(r) \/ Deletes(r) \/ Retry(r) \/ Open(r) \/ Unreadable(r) \/ Read(r)
    \/ ReadStale(r) \/ Lock(r) \/ LockWait(r) \/ Answer(r) \/ UpdateHeader(r) \/ Rename(r)
    \/ Update(r) \/ Free(r)

Arrive(r) == req[r].pc = "idle" /\ Exists(r)

Next ==
    \/ \E r \in Request : Arrive(r) \/ Step(r) \/ Kill(r)
    \/ ManagerStart \/ ManagerExpire \/ ManagerForced \/ Deletes(Manager)
    \/ \E k \in Key : LoaderVisit(k)
    \/ LoaderAdd \/ LoaderDelete \/ LoaderEnd
    \/ \E n \in Node : LockAges(n) \/ ErrorEnds(n)
    \/ \E file \in File : FileExpires(file)

Spec == Init /\ [][Next]_vars

\* A worker that is not killed goes on; the server answers or times out, and the
\* timer of a waiting request fires.
FairSpec == Spec /\ \A r \in Request : WF_vars(Step(r))

-----------------------------------------------------------------------------
Holders(n) == {r \in Request : req[r].node = n}
Deleters(n) == {p \in DOMAIN del : del[p].node = n}

\* The count of a node, which protects its memory, is the number of requests and
\* deletions under way that refer to it, those of killed workers included; and what
\* a request refers to is still the node of its key.
HoldersAreCounted ==
    \A n \in Node :
        /\ node[n].count = Cardinality(Holders(n)) + Cardinality(Deleters(n))
        /\ \A r \in Holders(n) : node[n].key = KeyOf[r]

\* A node marked as being updated has a request that will unmark it when it ends,
\* unless its worker was killed: no entry is stuck in the state UPDATING.
UpdatingHasUpdater ==
    \A n \in Node : node[n].updating =>
        \E r \in Holders(n) : req[r].updating /\ r \in node[n].lockers

\* Every request ends, also when the worker that it waits for is killed.
RequestsEnd == \A r \in Request : req[r].pc # "idle" ~> req[r].pc \in {"done", "killed"}
=============================================================================
