------------------------- MODULE MasterCycleProofs -------------------------
(***************************************************************************)
(* The table of processes of the master and its decisions, for every       *)
(* number of workers, of slots, of signals, of deaths and of failures.     *)
(***************************************************************************)
EXTENDS MasterCycle, FiniteSetTheorems, WellFoundedInduction, TLAPS

\* An entry of the table: a free one is empty, a process that has been told to leave
\* no longer serves, and "exited" is one that waitpid() has returned.
EntryOK(p) ==
    /\ p.st = "none" => p = Free
    /\ p.exiting => p.st # "run"
    /\ p.exited <=> p.st = "gone"
    /\ p.detached => ~p.just

TableOK == \A s \in Slots : EntryOK(slot[s])

\* The places where the master carries out what it was asked for
Working == {"start", "reloaded", "reconfigure", "restart", "reopen", "change_binary", "noaccept"}

\* It gets there only when it has not been told to stop.
StopOK == pc \in Working => ~Stopping

\* The new processes of a reload are being started, the old ones not yet told.
Reloading == pc = "reloaded" \/ (pc = "start" /\ mode = "reload")

\* A process that serves is of the current cycle, except during a reload, where
\* just_spawn marks those that are.
GenOK ==
    /\ pc = "start" => (mode = "reload" <=> ret = "reloaded")
    /\ \A s \in Slots :
          IF Reloading THEN slot[s].just => slot[s].gen = gen
          ELSE ~slot[s].just /\ (slot[s].st = "run" /\ ~slot[s].detached => slot[s].gen = gen)

-----------------------------------------------------------------------------
\* The master that cannot be upgraded: no second binary, and so no process of which
\* it is not the keeper; the workers are never started again behind its back.
NoUpgrade == ~Daemonized \/ "USR2" \notin Admin

NeverUpgraded ==
    /\ newBinary = "none"
    /\ "USR2" \in pending => ~Daemonized
    /\ flags \cap {"change_binary", "restart"} = {}
    /\ pc \notin {"change_binary", "restart"}
    /\ pc = "start" => ret \in {"top", "reloaded"}
    /\ \A s \in Slots : ~slot[s].detached

\* A process that has not left yet is known to be there: "live" is set, or will be
\* set before it is looked at, by ngx_reap_children() or at the end of the reload.
LiveOK ==
    /\ pc # "reap" /\ ~Reloading /\ ~live => \A s \in Slots : slot[s].st \notin Running
    /\ pc = "reap" /\ ~live => \A s \in Slots : s < i => slot[s].st \notin Running
    /\ pc = "start" /\ mode = "boot" => live
    /\ pc = "exited" => ~live

-----------------------------------------------------------------------------
\* The entries that hold, or will get again, a process that serves.
Claims == {s \in Slots : slot[s].st # "none" /\ slot[s].respawn /\ ~slot[s].exiting}
NewClaims == {s \in Claims : slot[s].just}

\* How many of the first k jobs are respawned.
Lasting(k) == IF k < Standing THEN k ELSE Standing

\* An entry waits to be respawned only in ngx_reap_children().
GoneOK == \A s \in Slots : slot[s].st = "gone" => pc = "reap" /\ i <= s

\* No job has two claims.
ClaimsOK ==
    /\ pc = "start" => i >= 1
    /\ pc = "start" /\ mode = "boot" => Cardinality(Claims) <= Lasting(i - 1)
    /\ pc = "start" /\ mode = "reload" => Cardinality(NewClaims) <= Lasting(i - 1)
    /\ pc = "reloaded" => Cardinality(NewClaims) <= Standing
    /\ pc \notin {"start", "reloaded"} => Cardinality(Claims) <= Standing

-----------------------------------------------------------------------------
\* A set of natural numbers that is not empty has a least element: what a CHOOSE
\* of the least index relies on.
LEMMA LeastExists ==
  ASSUME NEW S \in SUBSET Nat, S # {}
  PROVE  \E j \in S : \A k \in S : j <= k
<1>1. \E j \in S : \A k \in S : ~(<<k, j>> \in OpToRel(<, Nat))
  BY WFMin, NatLessThanWellFounded, Zenon
<1>2. ASSUME NEW j \in Nat, NEW k \in Nat, ~(<<k, j>> \in OpToRel(<, Nat))
      PROVE  j <= k
  <2>1. ~(k < j)
    BY <1>2, Zenon DEF OpToRel
  <2> QED
    BY <2>1
<1> QED
  BY <1>1, <1>2

-----------------------------------------------------------------------------
\* The operators of the model.

LEMMA PlacesAre ==
  Places = {"start", "top", "suspend", "reap", "check", "reloaded", "exited", "reconfigure",
            "restart", "reopen", "change_binary", "noaccept"}
<1>1. {Phases[k] : k \in 1..5} = {"reconfigure", "restart", "reopen", "change_binary", "noaccept"}
  <2>1. /\ Phases[1] = "reconfigure" /\ Phases[2] = "restart" /\ Phases[3] = "reopen"
        /\ Phases[4] = "change_binary" /\ Phases[5] = "noaccept"
    BY DEF Phases
  <2>2. 1..5 = {1, 2, 3, 4, 5}
    OBVIOUS
  <2> QED
    BY <2>1, <2>2
<1> QED
  BY <1>1 DEF Places

\* The next phase is one whose flag is set, or there is none.
LEMMA PhaseFromIn ==
  ASSUME NEW k \in 1..5, NEW fl
  PROVE  /\ PhaseFrom(k, fl) = "top" \/ PhaseFrom(k, fl) \in fl
         /\ PhaseFrom(k, fl) \in
              {"top", "reconfigure", "restart", "reopen", "change_binary", "noaccept"}
<1> DEFINE set == {n \in k..5 : Phases[n] \in fl}
           m == CHOOSE n \in set : \A j \in set : n <= j
<1>1. PhaseFrom(k, fl) = IF set = {} THEN "top" ELSE Phases[m]
  BY DEF PhaseFrom
<1>2. CASE set = {}
  BY <1>1, <1>2
<1>3. CASE set # {}
  <2>1. set \in SUBSET Nat
    OBVIOUS
  <2>2. \E n \in set : \A j \in set : n <= j
    <3> HIDE DEF set
    <3> QED
      BY <1>3, <2>1, LeastExists
  <2>3. m \in set
    <3> HIDE DEF set
    <3> QED
      BY <2>2
  <2> HIDE DEF m
  <2>4. m \in 1..5 /\ Phases[m] \in fl
    BY <2>3
  <2>5. PhaseFrom(k, fl) = Phases[m]
    BY <1>1, <1>3
  <2>6. Phases[m] \in {"reconfigure", "restart", "reopen", "change_binary", "noaccept"}
    BY <2>4 DEF Phases
  <2> QED
    BY <2>4, <2>5, <2>6
<1> QED
  BY <1>2, <1>3

\* The slot of the next process is a free one, if there is one.
LEMMA SpawnSlotFree ==
  ASSUME TypeOK, SpawnSlot < MaxSlots
  PROVE  SpawnSlot \in Slots /\ SpawnSlot <= last /\ slot[SpawnSlot].st = "none"
<1> USE DEF TypeOK, Slots
<1> DEFINE free == {s \in 0..last - 1 : slot[s].st = "none"}
           m == CHOOSE s \in free : \A t \in free : s <= t
<1>1. SpawnSlot = IF free = {} THEN last ELSE m
  BY DEF SpawnSlot
<1>2. CASE free = {}
  <2>1. SpawnSlot = last /\ last \in Slots
    BY <1>1, <1>2, SizeAssumption
  <2> QED
    BY <2>1 DEF Free
<1>3. CASE free # {}
  <2>1. free \in SUBSET Nat
    OBVIOUS
  <2>2. \E s \in free : \A t \in free : s <= t
    <3> HIDE DEF free
    <3> QED
      BY <1>3, <2>1, LeastExists
  <2>3. m \in free
    <3> HIDE DEF free
    <3> QED
      BY <2>2
  <2>4. SpawnSlot = m
    BY <1>1, <1>3
  <2> HIDE DEF m
  <2> QED
    BY <2>3, <2>4, SizeAssumption
<1> QED
  BY <1>2, <1>3

\* What becomes of an entry whose process is sent a signal.
LEMMA SignalledIs ==
  ASSUME NEW p \in Slot, EntryOK(p), NEW signo \in {"QUIT", "TERM", "KILL", "USR1"}
  PROVE  LET q == Signalled(p, signo)
         IN  /\ q \in Slot /\ EntryOK(q)
             /\ q.respawn = p.respawn /\ q.detached = p.detached /\ q.gen = p.gen
             /\ q.just => p.just
             /\ q.st = "none" <=> p.st = "none"
             /\ q.st = "run" => p.st = "run"
             /\ q.st \in Running => p.st \in Running
             /\ p.st = "gone" <=> q.st = "gone"
             /\ p.st # "gone" /\ p.exiting => q.exiting
<1> USE DEF Slot, States, Running, EntryOK
<1> DEFINE q == Signalled(p, signo)
<1>1. CASE Skipped(p, signo) /\ (p.detached \/ p.st = "none")
  <2>1. q = p
    BY <1>1 DEF Signalled
  <2> QED
    BY <2>1
<1>2. CASE Skipped(p, signo) /\ ~(p.detached \/ p.st = "none")
  <2>1. q = [p EXCEPT !.just = FALSE]
    BY <1>2 DEF Signalled
  <2> QED
    BY <1>2, <2>1 DEF Free
<1>3. CASE NoProcess(p, signo)
  <2>1. q = [p EXCEPT !.exited = TRUE, !.exiting = FALSE] /\ p.st = "gone"
    BY <1>3 DEF Signalled, NoProcess
  <2> QED
    BY <2>1 DEF Free
<1>4. CASE ~Skipped(p, signo) /\ ~NoProcess(p, signo)
  <2>1. q = [p EXCEPT !.st = Told(p.st, signo), !.exiting = p.exiting \/ signo # "USR1"]
    BY <1>4, Zenon DEF Signalled
  <2>2. p.st # "none" /\ p.st # "gone" /\ ~p.just
    BY <1>4 DEF Skipped, NoProcess
  <2>3. /\ Told(p.st, signo) \in States \ {"none", "gone"}
        /\ Told(p.st, signo) = "run" => p.st = "run" /\ signo = "USR1"
        /\ Told(p.st, signo) \in Running => p.st \in Running
    BY <2>2 DEF Told
  <2>4. q.st = Told(p.st, signo) /\ q.exiting = (p.exiting \/ signo # "USR1") /\ q \in Slot
    BY <2>1, <2>3
  <2>5. /\ q.exited = p.exited /\ q.respawn = p.respawn /\ q.detached = p.detached
        /\ q.gen = p.gen /\ q.just = p.just
    BY <2>1
  <2> QED
    BY <2>2, <2>3, <2>4, <2>5 DEF Free
<1> QED
  BY <1>1, <1>2, <1>3, <1>4 DEF NoProcess

\* SIGQUIT reaches every process but those just started and the new binary.
LEMMA QuitReaches ==
  ASSUME NEW p \in Slot, EntryOK(p), ~p.detached, p.st \notin {"none", "gone"}, ~p.just
  PROVE  Signalled(p, "QUIT").exiting
<1> USE DEF Slot, States, Running, EntryOK
<1>1. CASE p.exiting
  <2>1. Signalled(p, "QUIT") = [p EXCEPT !.just = FALSE]
    BY <1>1 DEF Signalled, Skipped
  <2> QED
    BY <1>1, <2>1
<1>2. CASE ~p.exiting
  <2>1. ~Skipped(p, "QUIT") /\ ~NoProcess(p, "QUIT")
    BY <1>2 DEF Skipped, NoProcess
  <2>2. Signalled(p, "QUIT") =
          [p EXCEPT !.st = Told(p.st, "QUIT"), !.exiting = p.exiting \/ "QUIT" # "USR1"]
    BY <2>1, Zenon DEF Signalled
  <2> QED
    BY <2>2
<1> QED
  BY <1>1, <1>2

\* A process just started loses its mark, and nothing else.
LEMMA QuitUnmarks ==
  ASSUME NEW p \in Slot, EntryOK(p), p.st # "none", p.just
  PROVE  Signalled(p, "QUIT") = [p EXCEPT !.just = FALSE]
BY DEF Signalled, Skipped, EntryOK, Slot

\* No mark outlives the signal.
LEMMA SignalUnmarks ==
  ASSUME NEW p \in Slot, EntryOK(p), NEW signo \in {"QUIT", "TERM", "KILL", "USR1"}
  PROVE  ~Signalled(p, signo).just
<1> USE DEF Slot, EntryOK
<1>1. CASE p.just /\ p.st # "none"
  <2>1. Signalled(p, signo) = [p EXCEPT !.just = FALSE]
    BY <1>1 DEF Signalled, Skipped
  <2> QED
    BY <2>1
<1>2. CASE p.just /\ p.st = "none"
  BY <1>2 DEF Free
<1>3. CASE ~p.just
  BY <1>3, SignalledIs
<1> QED
  BY <1>1, <1>2, <1>3

\* What becomes of an entry when the children are waited for.
LEMMA WaitedIs ==
  ASSUME NEW p \in Slot, EntryOK(p)
  PROVE  LET q == Waited(p)
         IN  /\ q \in Slot /\ EntryOK(q)
             /\ q.exiting = p.exiting /\ q.detached = p.detached /\ q.gen = p.gen
             /\ q.just = p.just
             /\ q.respawn => p.respawn
             /\ q.st = "none" <=> p.st = "none"
             /\ q.st = "run" <=> p.st = "run"
             /\ q.st \in Running <=> p.st \in Running
<1> USE DEF Slot, States, Running, EntryOK
<1>1. CASE p.st \in {"zombie", "fatal"}
  <2>1. Waited(p) = [p EXCEPT !.st = "gone", !.exited = TRUE,
                              !.respawn = p.respawn /\ p.st # "fatal"]
    BY <1>1, Zenon DEF Waited
  <2> QED
    BY <1>1, <2>1 DEF Free
<1>2. CASE p.st \notin {"zombie", "fatal"}
  <2>1. Waited(p) = p
    BY <1>2 DEF Waited
  <2> QED
    BY <2>1
<1> QED
  BY <1>1, <1>2
-----------------------------------------------------------------------------
\* The types.

\* What TypeOK and TableOK say of the table, and what TypeOK says of the rest.
TableType ==
    /\ slot \in [Slots -> Slot]
    /\ last \in 0..MaxSlots
    /\ \A s \in Slots : s >= last => slot[s] = Free
    /\ TableOK

RestType ==
    /\ flags \subseteq Flags
    /\ pending \subseteq Signals
    /\ live \in BOOLEAN /\ armed \in BOOLEAN /\ noaccepting \in BOOLEAN
    /\ delay \in Nat
    /\ sigio \in 0..Workers + 2
    /\ newBinary \in {"none", "running", "failed"}
    /\ gen \in Nat
    /\ pc \in Places
    /\ i \in Nat
    /\ mode \in {"boot", "reload"}
    /\ ret \in Places
    /\ count \in [{"signals", "deaths", "fatal", "fails"} -> Nat]

LEMMA TypeSplit == (TypeOK /\ TableOK) <=> (TableType /\ RestType)
BY DEF TypeOK, TableType, RestType

LEMMA FreeOK == Free \in Slot /\ EntryOK(Free) /\ Free.st = "none"
BY DEF Free, Slot, States, Running, EntryOK

LEMMA InitTypes == Init => TypeOK /\ TableOK
<1> SUFFICES ASSUME Init PROVE TypeOK /\ TableOK
  OBVIOUS
<1>1. TableType
  BY FreeOK, SizeAssumption DEF Init, TableType, TableOK, Slots
<1>2. count \in [{"signals", "deaths", "fatal", "fails"} -> Nat]
  BY DEF Init
<1>3. RestType
  <2>1. sigio \in 0..Workers + 2
    BY SizeAssumption DEF Init
  <2>2. pc \in Places /\ ret \in Places
    BY PlacesAre DEF Init
  <2> QED
    BY <1>2, <2>1, <2>2, Zenon DEF Init, RestType
<1> QED
  BY <1>1, <1>3, TypeSplit

LEMMA SpawnTable ==
  ASSUME TypeOK, TableOK, SpawnSlot < MaxSlots,
         NEW respawn \in BOOLEAN, NEW just \in BOOLEAN, NEW detached \in BOOLEAN,
         detached => ~just, SpawnAt(SpawnSlot, respawn, just, detached)
  PROVE  TableType'
<1>1. TableType /\ gen \in Nat
  BY TypeSplit DEF TypeOK
<1> DEFINE n == SpawnSlot
           p == [st |-> "run", exited |-> FALSE, exiting |-> FALSE, respawn |-> respawn,
                 just |-> just, detached |-> detached, gen |-> gen]
<1>2. n \in Slots /\ n <= last /\ n < MaxSlots
  BY SpawnSlotFree
<1>3. p \in Slot /\ EntryOK(p)
  BY <1>1 DEF Slot, States, Running, EntryOK
<1>4. slot' = [slot EXCEPT ![n] = p] /\ last' = IF n = last THEN last + 1 ELSE last
  BY DEF SpawnAt
<1> HIDE DEF n, p
<1> QED
  BY <1>1, <1>2, <1>3, <1>4, SizeAssumption DEF TableType, TableOK, Slots

LEMMA SignalTable ==
  ASSUME TypeOK, TableOK, NEW signo \in {"QUIT", "TERM", "KILL", "USR1"},
         SignalWorkers(signo), last' = last
  PROVE  TableType' /\ pending' \subseteq Signals
<1>1. TableType /\ pending \subseteq Signals
  BY TypeSplit DEF TypeOK
<1>2. slot' = [s \in Slots |-> IF s < last THEN Signalled(slot[s], signo) ELSE slot[s]]
  BY DEF SignalWorkers
<1>3. \A s \in Slots : slot'[s] \in Slot /\ EntryOK(slot'[s])
  BY <1>1, <1>2, SignalledIs DEF TableType, TableOK
<1>4. \A s \in Slots : s >= last => slot'[s] = Free
  <2> TAKE s \in Slots
  <2> HAVE s >= last
  <2>1. ~(s < last)
    BY <1>1, SizeAssumption DEF TableType, Slots
  <2> QED
    BY <1>1, <1>2, <2>1 DEF TableType
<1>5. pending' \subseteq Signals
  BY <1>1 DEF SignalWorkers, Signals
<1>6. slot' \in [Slots -> Slot]
  BY <1>2, <1>3
<1> QED
  BY <1>1, <1>3, <1>4, <1>5, <1>6 DEF TableType, TableOK

LEMMA ChildTable ==
  ASSUME TypeOK, TableOK, NEW s \in Slots, slot[s].st \in Running,
         NEW st \in {"zombie", "fatal"}, ChildBecomes(s, st)
  PROVE  TableType' /\ pending' \subseteq Signals
<1>1. TableType /\ pending \subseteq Signals
  BY TypeSplit DEF TypeOK
<1> DEFINE p == slot[s]
           q == [p EXCEPT !.st = st]
<1>2. p \in Slot /\ EntryOK(p) /\ p.st \in Running
  BY <1>1 DEF TableType, TableOK
<1>3. q \in Slot /\ EntryOK(q)
  <2> HIDE DEF p
  <2> QED
    BY <1>2 DEF Slot, States, Running, EntryOK
<1>4. slot' = [slot EXCEPT ![s] = q] /\ last' = last /\ pending' = pending \cup {"CHLD"}
  BY <1>1 DEF ChildBecomes, TableType
<1>5. ~(s >= last)
  BY <1>1, <1>2, FreeOK DEF TableType, Running
<1> HIDE DEF q, p
<1> QED
  BY <1>1, <1>3, <1>4, <1>5 DEF TableType, TableOK, Signals

\* The table of processes stays well-formed.
LEMMA TableStep ==
  ASSUME TypeOK, TableOK, [Next]_vars
  PROVE  TableType'
<1>0. TableType /\ RestType
  BY TypeSplit
<1>1. ASSUME UNCHANGED <<slot, last>>
      PROVE  TableType'
  BY <1>0, <1>1 DEF TableType, TableOK
<1>2. CASE StartProcess
  <2>1. CASE SpawnSlot < MaxSlots /\ SpawnAt(SpawnSlot, ~IsLoader(i), mode = "reload", FALSE)
    BY <2>1, SpawnTable
  <2>2. CASE SpawnFails
    BY <1>1, <2>2 DEF SpawnFails
  <2> QED
    BY <1>2, <2>1, <2>2 DEF StartProcess
<1>3. CASE StartDone \/ Top \/ ReapRunning \/ ReapDone \/ Exit \/ Carry \/ ReconfigureNewBinary
           \/ ReconfigureRejected \/ Reconfigure \/ Restart \/ Alarm \/ UNCHANGED vars
  BY <1>1, <1>3 DEF StartDone, Top, ReapRunning, ReapDone, Exit, Carry, ReconfigureNewBinary,
       ReconfigureRejected, Reconfigure, Restart, Alarm, vars
<1>4. CASE \E sig \in Admin : Send(sig)
  BY <1>1, <1>4 DEF Send
<1>5. CASE Suspend
  <2>1. last' = last /\ (slot' = [s \in Slots |-> Waited(slot[s])] \/ slot' = slot)
    BY <1>5 DEF Suspend
  <2>2. CASE slot' = slot
    BY <1>1, <2>1, <2>2
  <2>3. CASE slot' = [s \in Slots |-> Waited(slot[s])]
    <3>1. \A s \in Slots : slot'[s] \in Slot /\ EntryOK(slot'[s])
      BY <1>0, <2>3, WaitedIs DEF TableType, TableOK
    <3>2. Waited(Free) = Free
      BY FreeOK DEF Waited
    <3> QED
      BY <1>0, <2>1, <2>3, <3>1, <3>2 DEF TableType, TableOK
  <2> QED
    BY <2>1, <2>2, <2>3
<1>6. CASE ReapRespawn
  <2>1. i \in Slots /\ i < last /\ last' = last /\ slot[i].exited /\ ~slot[i].exiting
    BY <1>0, <1>6, SizeAssumption DEF ReapRespawn, ReapNext, MayRespawn, TableType, RestType, Slots
  <2>2. CASE slot' = slot
    BY <1>1, <2>1, <2>2
  <2>3. CASE slot' = [slot EXCEPT ![i].st = "run", ![i].exited = FALSE, ![i].gen = gen]
    <3> DEFINE p == slot[i]
               q == [p EXCEPT !.st = "run", !.exited = FALSE, !.gen = gen]
    <3>1. p \in Slot /\ EntryOK(p) /\ ~p.exiting /\ gen \in Nat
      BY <1>0, <2>1 DEF TableType, TableOK, RestType
    <3>2. q \in Slot /\ EntryOK(q)
      <4> HIDE DEF p
      <4> QED
        BY <3>1 DEF Slot, States, Running, EntryOK
    <3>3. slot' = [slot EXCEPT ![i] = q]
      BY <1>0, <2>1, <2>3 DEF TableType
    <3>4. ~(i >= last)
      BY <1>0, <2>1 DEF TableType, RestType
    <3> HIDE DEF q, p
    <3> QED
      BY <1>0, <2>1, <3>2, <3>3, <3>4 DEF TableType, TableOK
  <2> QED
    BY <1>6, <2>2, <2>3 DEF ReapRespawn
<1>7. CASE ReapFree
  <2>1. /\ i \in Slots /\ i < last
        /\ slot' = [slot EXCEPT ![i] = Free] /\ last' = IF i = last - 1 THEN last - 1 ELSE last
    BY <1>0, <1>7, SizeAssumption DEF ReapFree, ReapNext, TableType, RestType, Slots
  <2>2. last' \in 0..MaxSlots
    BY <1>0, <2>1, SizeAssumption DEF TableType, Slots
  <2>3. \A s \in Slots : s >= last' => slot'[s] = Free
    <3> TAKE s \in Slots
    <3> HAVE s >= last'
    <3>1. s = i \/ s >= last
      BY <1>0, <2>1, SizeAssumption DEF TableType, Slots
    <3> QED
      BY <1>0, <2>1, <3>1 DEF TableType
  <2> QED
    BY <1>0, <2>1, <2>2, <2>3, FreeOK DEF TableType, TableOK
<1>8. CASE Terminate
  <2>1. CASE UNCHANGED slot
    BY <1>1, <1>8, <2>1 DEF Terminate
  <2>2. CASE SignalWorkers("KILL") \/ SignalWorkers("TERM")
    BY <1>8, <2>2, SignalTable DEF Terminate
  <2> QED
    BY <1>8, <2>1, <2>2 DEF Terminate
<1>9. CASE Quit \/ Reloaded \/ NoAccept
  BY <1>9, SignalTable DEF Quit, Reloaded, NoAccept
<1>10. CASE Reopen
  BY <1>10, SignalTable DEF Reopen
<1>11. CASE ChangeBinary
  <2>1. CASE SpawnSlot < MaxSlots /\ SpawnAt(SpawnSlot, FALSE, FALSE, TRUE)
    BY <2>1, SpawnTable
  <2>2. CASE SpawnFails
    BY <1>1, <2>2 DEF SpawnFails
  <2> QED
    BY <1>11, <2>1, <2>2 DEF ChangeBinary
<1>12. CASE \E s \in Slots : ChildLeaves(s) \/ ChildDies(s) \/ ChildFatal(s)
  BY <1>12, ChildTable DEF ChildLeaves, ChildDies, ChildFatal, Running
<1> QED
  BY <1>2, <1>3, <1>4, <1>5, <1>6, <1>7, <1>8, <1>9, <1>10, <1>11, <1>12 DEF Next, Master
\* The other variables keep their types.
LEMMA RestStep ==
  ASSUME TypeOK, TableOK, [Next]_vars
  PROVE  RestType'
<1>0. RestType
  BY TypeSplit
<1>a. ASSUME NEW c \in {"signals", "deaths", "fatal", "fails"}, Count(c)
      PROVE  count' \in [{"signals", "deaths", "fatal", "fails"} -> Nat]
  BY <1>0, <1>a DEF RestType, Count
<1>b. /\ \A k \in 1..5 : PhaseFrom(k, flags) \in Places
      /\ {"start", "top", "suspend", "reap", "check", "reloaded", "exited"} \subseteq Places
  BY PlacesAre, PhaseFromIn
<1>c. \A signo : ReapGone(signo) \subseteq Flags
  BY DEF ReapGone, Flags
<1>d. SpawnFails => count' \in [{"signals", "deaths", "fatal", "fails"} -> Nat]
  BY <1>0, <1>a DEF SpawnFails, RestType
<1> USE DEF local, loop, Start
<1>1. CASE StartProcess
  <2>1. count' \in [{"signals", "deaths", "fatal", "fails"} -> Nat]
    BY <1>0, <1>1, <1>d DEF StartProcess, RestType
  <2>2. /\ i' = i + 1
        /\ UNCHANGED <<flags, pending, live, delay, sigio, noaccepting, newBinary, gen, armed, pc,
                       mode, ret>>
    BY <1>1 DEF StartProcess
  <2> QED
    BY <1>0, <2>1, <2>2 DEF RestType
<1>2. CASE StartDone \/ ReapDone \/ Exit \/ Carry
  <2>1. /\ pc' \in Places
        /\ UNCHANGED <<flags, pending, live, delay, sigio, noaccepting, newBinary, gen, armed, i,
                       mode, ret, count>>
    BY <1>0, <1>2, <1>b DEF StartDone, ReapDone, Exit, Carry, RestType
  <2> QED
    BY <1>0, <2>1 DEF RestType
<1>3. CASE Top
  <2>1. /\ pc' \in Places
        /\ sigio' = 0 \/ sigio' = sigio
        /\ delay' = delay \/ delay' = 2 * delay
        /\ flags' \subseteq Flags /\ armed' \in BOOLEAN
        /\ UNCHANGED <<pending, live, noaccepting, newBinary, gen, i, mode, ret, count>>
    BY <1>0, <1>3, <1>b DEF Top, RestType
  <2>2. delay' \in Nat /\ sigio' \in 0..Workers + 2
    BY <1>0, <2>1, SizeAssumption DEF RestType
  <2> QED
    BY <1>0, <2>1, <2>2 DEF RestType
<1>4. CASE Suspend
  <2>1. \A sig \in Signals : Flagged(sig) \subseteq Flags
    BY DEF Flagged, Signals, Flags
  <2>2. flags' \subseteq Flags
    <3> DEFINE fl == flags \cup UNION {Flagged(sig) : sig \in pending}
    <3>1. fl \subseteq Flags
      BY <1>0, <2>1 DEF RestType
    <3>2. flags' = fl \/ flags' = fl \ {"reap"}
      BY <1>4 DEF Suspend
    <3> HIDE DEF fl
    <3> QED
      BY <3>1, <3>2
  <2>3. /\ pending' = {} /\ pc' \in Places /\ live' \in BOOLEAN /\ i' \in Nat
        /\ UNCHANGED <<delay, sigio, noaccepting, newBinary, gen, armed, mode, ret, count>>
    <3>1. /\ pending' = {}
          /\ \/ pc' = "reap" /\ live' = FALSE /\ i' = 0
             \/ pc' = "check" /\ UNCHANGED <<live, i>>
          /\ UNCHANGED <<delay, sigio, noaccepting, newBinary, gen, armed, mode, ret, count>>
      BY <1>4, Zenon DEF Suspend
    <3>2. live' \in BOOLEAN
      BY <1>0, <3>1, Zenon DEF RestType
    <3>3. pc' \in Places /\ i' \in Nat
      BY <1>0, <1>b, <3>1 DEF RestType
    <3> QED
      BY <3>1, <3>2, <3>3
  <2> QED
    BY <1>0, <2>2, <2>3 DEF RestType
<1>5. CASE ReapRunning
  <2>1. /\ live' \in BOOLEAN /\ i' = i + 1
        /\ UNCHANGED <<flags, pending, delay, sigio, noaccepting, newBinary, gen, armed, pc, mode,
                       ret, count>>
    BY <1>5 DEF ReapRunning, ReapNext, ReapRest
  <2> QED
    BY <1>0, <2>1 DEF RestType
<1>6. CASE ReapRespawn
  <2>1. /\ live' \in BOOLEAN /\ i' = i + 1
        /\ UNCHANGED <<flags, pending, delay, sigio, noaccepting, newBinary, gen, armed, pc, mode,
                       ret>>
    BY <1>0, <1>6 DEF ReapRespawn, ReapNext, ReapRest, RestType
  <2>2. count' \in [{"signals", "deaths", "fatal", "fails"} -> Nat]
    BY <1>0, <1>6, <1>a DEF ReapRespawn, RestType
  <2> QED
    BY <1>0, <2>1, <2>2 DEF RestType
<1>7. CASE ReapFree
  <2>1. /\ i' = i + 1
        /\ newBinary' \in {"none", newBinary} /\ flags' \subseteq Flags
        /\ noaccepting' \in BOOLEAN
        /\ UNCHANGED <<pending, live, delay, sigio, gen, armed, pc, mode, ret, count>>
    BY <1>0, <1>7 DEF ReapFree, ReapNext, ReapRest, RestType, Flags
  <2> QED
    BY <1>0, <2>1 DEF RestType
<1>8. CASE Terminate
  <2>1. /\ delay' \in Nat /\ pc' \in Places
        /\ sigio' \in 0..Workers + 2
        /\ flags' \subseteq Flags
        /\ UNCHANGED <<live, noaccepting, newBinary, gen, armed, i, mode, ret, count>>
    BY <1>0, <1>8, <1>b, <1>c, SizeAssumption DEF Terminate, RestType
  <2>2. pending' \subseteq Signals
    BY <1>0, <1>8 DEF Terminate, RestType, SignalWorkers, Signals
  <2> QED
    BY <1>0, <2>1, <2>2 DEF RestType
<1>9. CASE Quit
  <2>1. /\ pc' \in Places /\ flags' \subseteq Flags
        /\ UNCHANGED <<live, delay, sigio, noaccepting, newBinary, gen, armed, i, mode, ret, count>>
    BY <1>0, <1>9, <1>b, <1>c DEF Quit, RestType
  <2>2. pending' \subseteq Signals
    BY <1>0, <1>9 DEF Quit, RestType, SignalWorkers, Signals
  <2> QED
    BY <1>0, <2>1, <2>2 DEF RestType
<1>10. CASE ReconfigureNewBinary \/ Restart
  <2>1. /\ flags' \subseteq flags /\ (noaccepting' = FALSE \/ noaccepting' = noaccepting)
        /\ (live' = TRUE \/ live' = live)
        /\ pc' = "start" /\ i' = 1 /\ mode' = "boot"
        /\ UNCHANGED <<pending, delay, sigio, newBinary, gen, armed, count>>
    BY <1>10 DEF ReconfigureNewBinary, Restart
  <2>2. ret' \in Places
    BY <1>10, <1>b DEF ReconfigureNewBinary, Restart
  <2> QED
    BY <1>0, <1>b, <2>1, <2>2 DEF RestType
<1>18. CASE ReconfigureRejected \/ Reconfigure
  <2>1. /\ flags' \subseteq flags /\ pc' \in {"top", "start"}
        /\ gen' \in {gen, gen + 1} /\ i' \in {1, i} /\ mode' \in {"reload", mode}
        /\ ret' \in {"reloaded", ret}
        /\ UNCHANGED <<pending, live, delay, sigio, noaccepting, newBinary, armed, count>>
    BY <1>18 DEF ReconfigureRejected, Reconfigure
  <2> QED
    BY <1>0, <1>b, <2>1 DEF RestType
<1>11. CASE Reloaded
  <2>1. /\ pc' \in Places /\ flags' \subseteq Flags /\ live' \in BOOLEAN
        /\ UNCHANGED <<delay, sigio, noaccepting, newBinary, gen, armed, i, mode, ret, count>>
    BY <1>0, <1>11, <1>b, <1>c DEF Reloaded, RestType
  <2>2. pending' \subseteq Signals
    BY <1>0, <1>11 DEF Reloaded, RestType, SignalWorkers, Signals
  <2> QED
    BY <1>0, <2>1, <2>2 DEF RestType
<1>12. CASE Reopen
  <2>1. /\ pc' \in Places /\ flags' \subseteq Flags
        /\ UNCHANGED <<live, delay, sigio, noaccepting, newBinary, gen, armed, i, mode, ret, count>>
    BY <1>0, <1>12, <1>b, <1>c DEF Reopen, RestType
  <2>2. pending' \subseteq Signals
    BY <1>0, <1>12 DEF Reopen, RestType, SignalWorkers, Signals
  <2> QED
    BY <1>0, <2>1, <2>2 DEF RestType
<1>13. CASE ChangeBinary
  <2>1. /\ pc' \in Places /\ flags' \subseteq Flags /\ newBinary' \in {"running", "failed"}
        /\ UNCHANGED <<pending, live, delay, sigio, noaccepting, gen, armed, i, mode, ret>>
    <3>1. pc' = PhaseFrom(5, flags) /\ flags' = flags \ {"change_binary"}
      BY <1>13 DEF ChangeBinary
    <3>2. newBinary' \in {"running", "failed"}
      BY <1>13 DEF ChangeBinary
    <3>3. UNCHANGED <<pending, live, delay, sigio, noaccepting, gen, armed, i, mode, ret>>
      BY <1>13 DEF ChangeBinary
    <3> QED
      BY <1>0, <1>b, <3>1, <3>2, <3>3 DEF RestType
  <2>2. count' \in [{"signals", "deaths", "fatal", "fails"} -> Nat]
    BY <1>0, <1>13, <1>d DEF ChangeBinary, RestType
  <2> QED
    BY <1>0, <2>1, <2>2 DEF RestType
<1>14. CASE NoAccept
  <2>1. /\ pc' \in Places /\ flags' \subseteq Flags /\ noaccepting' \in BOOLEAN
        /\ UNCHANGED <<live, delay, sigio, newBinary, gen, armed, i, mode, ret, count>>
    BY <1>0, <1>14, <1>b, <1>c DEF NoAccept, RestType
  <2>2. pending' \subseteq Signals
    BY <1>0, <1>14 DEF NoAccept, RestType, SignalWorkers, Signals
  <2> QED
    BY <1>0, <2>1, <2>2 DEF RestType
<1>15. CASE Alarm \/ \E sig \in Admin : Send(sig)
  <2>1. /\ pending' \subseteq Signals /\ armed' \in BOOLEAN
        /\ count' \in [{"signals", "deaths", "fatal", "fails"} -> Nat]
        /\ UNCHANGED <<flags, live, delay, sigio, noaccepting, newBinary, gen, pc, i, mode, ret>>
    BY <1>0, <1>15, <1>a, AdminAssumption DEF Alarm, Send, RestType, Signals
  <2> QED
    BY <1>0, <2>1 DEF RestType
<1>16. CASE \E s \in Slots : ChildLeaves(s) \/ ChildDies(s) \/ ChildFatal(s)
  <2>1. /\ pending' = pending \cup {"CHLD"}
        /\ count' \in [{"signals", "deaths", "fatal", "fails"} -> Nat]
        /\ UNCHANGED <<flags, live, delay, sigio, noaccepting, newBinary, gen, armed, pc, i, mode,
                       ret>>
    BY <1>0, <1>16, <1>a DEF ChildLeaves, ChildDies, ChildFatal, ChildBecomes, RestType
  <2> QED
    BY <1>0, <2>1 DEF RestType, Signals
<1>17. CASE UNCHANGED vars
  BY <1>0, <1>17 DEF vars, RestType
<1> QED
  BY <1>1, <1>2, <1>3, <1>4, <1>5, <1>6, <1>7, <1>8, <1>9, <1>10, <1>11, <1>12, <1>13, <1>14,
     <1>15, <1>16, <1>17, <1>18 DEF Next, Master

\* Every variable keeps its type, the table has nothing behind ngx_last_process, and no
\* entry says of a process what cannot be.
THEOREM TypeCorrect == Spec => [](TypeOK /\ TableOK)
<1>1. TypeOK /\ TableOK /\ [Next]_vars => (TypeOK /\ TableOK)'
  <2> SUFFICES ASSUME TypeOK, TableOK, [Next]_vars PROVE TypeOK' /\ TableOK'
    OBVIOUS
  <2>1. TableType' /\ RestType'
    BY TableStep, RestStep
  <2> QED
    BY <2>1 DEF TypeOK, TableType, RestType
<1> QED
  BY <1>1, InitTypes, PTL DEF Spec
-----------------------------------------------------------------------------
\* A master that has been told to stop.

LEMMA StopStep ==
  ASSUME StopOK, [Next]_vars
  PROVE  StopOK'
<1> USE DEF StopOK, Working, Stopping, local, loop, Start
<1>a. \A signo : ReapGone(signo) \subseteq {"reap"}
  BY DEF ReapGone
<1>1. CASE StartProcess \/ Alarm \/ UNCHANGED vars
  BY <1>1 DEF StartProcess, Alarm, vars
<1>2. CASE \E sig \in Admin : Send(sig)
  BY <1>2 DEF Send
<1>3. CASE \E s \in Slots : ChildLeaves(s) \/ ChildDies(s) \/ ChildFatal(s)
  BY <1>3 DEF ChildLeaves, ChildDies, ChildFatal, ChildBecomes
<1>4. CASE Top \/ Suspend \/ ReapDone \/ Exit \/ Terminate \/ Quit \/ NoAccept
           \/ ReconfigureRejected
  <2>1. pc' \in {"suspend", "reap", "check", "exited", "top"}
    BY <1>4 DEF Top, Suspend, ReapDone, Exit, Terminate, Quit, NoAccept, ReconfigureRejected
  <2> QED
    BY <2>1
<1>5. CASE ReapRunning \/ ReapRespawn \/ ReapFree
  <2>1. pc' = "reap"
    BY <1>5 DEF ReapRunning, ReapRespawn, ReapFree, ReapNext, ReapRest
  <2> QED
    BY <2>1
<1>6. CASE StartDone \/ Carry
  BY <1>6 DEF StartDone, Carry
<1>7. CASE ReconfigureNewBinary \/ Reconfigure \/ Restart
  <2>1. flags' \subseteq flags /\ pc \in Working
    BY <1>7 DEF ReconfigureNewBinary, Reconfigure, Restart
  <2> QED
    BY <2>1
<1>8. CASE Reloaded \/ Reopen \/ ChangeBinary
  <2>1. flags' \subseteq flags \cup {"reap"} /\ pc \in Working
    BY <1>8, <1>a DEF Reloaded, Reopen, ChangeBinary
  <2> QED
    BY <2>1
<1> QED
  BY <1>1, <1>2, <1>3, <1>4, <1>5, <1>6, <1>7, <1>8 DEF Next, Master

\* A step of a master that has been told to stop starts no process.
LEMMA StoppingStep ==
  ASSUME TypeOK, TableOK, StopOK, [Next]_vars, Stopping, NEW s \in Slots, slot'[s].st = "run"
  PROVE  slot[s].st = "run"
<1>0. slot \in [Slots -> Slot] /\ \A n \in Slots : slot[n] \in Slot /\ EntryOK(slot[n])
  BY DEF TypeOK, TableOK
<1>1. ASSUME NEW signo \in {"QUIT", "TERM", "KILL", "USR1"}, SignalWorkers(signo)
      PROVE  slot[s].st = "run"
  <2>1. slot'[s] = IF s < last THEN Signalled(slot[s], signo) ELSE slot[s]
    BY <1>1 DEF SignalWorkers
  <2> QED
    BY <1>0, <2>1, SignalledIs
<1>2. CASE StartProcess \/ StartDone \/ ReconfigureNewBinary \/ ReconfigureRejected \/ Reconfigure
           \/ Reloaded \/ Restart \/ Reopen \/ ChangeBinary \/ NoAccept
  <2>1. pc \in Working
    BY <1>2 DEF StartProcess, StartDone, ReconfigureNewBinary, ReconfigureRejected, Reconfigure,
         Reloaded, Restart, Reopen, ChangeBinary, NoAccept, Working
  <2> QED
    BY <2>1 DEF StopOK
<1>3. CASE Top \/ ReapRunning \/ ReapDone \/ Exit \/ Carry \/ Alarm \/ UNCHANGED vars
  BY <1>3 DEF Top, ReapRunning, ReapDone, Exit, Carry, Alarm, vars
<1>4. CASE \E sig \in Admin : Send(sig)
  BY <1>4 DEF Send
<1>5. CASE Suspend
  <2>1. slot'[s] = Waited(slot[s]) \/ slot'[s] = slot[s]
    BY <1>5 DEF Suspend
  <2> QED
    BY <1>0, <2>1, WaitedIs
<1>6. CASE ReapRespawn
  BY <1>6 DEF ReapRespawn, MayRespawn
<1>7. CASE ReapFree
  <2>1. slot' = [slot EXCEPT ![i] = Free]
    BY <1>7 DEF ReapFree
  <2> QED
    BY <1>0, <2>1, FreeOK
<1>8. CASE Terminate \/ Quit
  BY <1>1, <1>8 DEF Terminate, Quit
<1>9. CASE \E n \in Slots : ChildLeaves(n) \/ ChildDies(n) \/ ChildFatal(n)
  <2>1. PICK n \in Slots, st \in {"zombie", "fatal"} : slot' = [slot EXCEPT ![n].st = st]
    BY <1>9 DEF ChildLeaves, ChildDies, ChildFatal, ChildBecomes
  <2>2. CASE s = n
    <3>1. slot'[s] = [slot[s] EXCEPT !.st = st]
      BY <1>0, <2>1, <2>2
    <3>2. slot'[s].st = st
      BY <1>0, <3>1 DEF Slot
    <3> QED
      BY <3>2
  <2>3. CASE s # n
    BY <1>0, <2>1, <2>3
  <2> QED
    BY <2>2, <2>3
<1> QED
  BY <1>2, <1>3, <1>4, <1>5, <1>6, <1>7, <1>8, <1>9 DEF Next, Master

\* NoSpawnWhileStopping: once SIGQUIT or SIGTERM has been taken, ngx_master_process_cycle()
\* starts nothing, neither by a respawn nor by a reload or an upgrade asked for before.
THEOREM StoppingSpawnsNothing == Spec => NoSpawnWhileStopping
<1>1. Init => StopOK
  BY DEF Init, StopOK, Stopping
<1>2. TypeOK /\ TableOK /\ StopOK /\ [Next]_vars => StopOK'
  BY StopStep
<1>3. TypeOK /\ TableOK /\ StopOK /\ [Next]_vars =>
        [Stopping => \A s \in Slots : slot'[s].st = "run" => slot[s].st = "run"]_vars
  BY StoppingStep
<1> QED
  BY <1>1, <1>2, <1>3, TypeCorrect, PTL DEF Spec, NoSpawnWhileStopping

-----------------------------------------------------------------------------
\* The workers of older cycles.

\* A process that serves after a signal to all served before and was not reached.
LEMMA GenStep ==
  ASSUME TypeOK, TableOK, GenOK, [Next]_vars
  PROVE  GenOK'
<1>0. slot \in [Slots -> Slot] /\ \A s \in Slots : slot[s] \in Slot /\ EntryOK(slot[s])
  BY DEF TypeOK, TableOK
<1>1. ASSUME UNCHANGED <<slot, gen, pc, mode, ret>>
      PROVE  GenOK'
  BY <1>1 DEF GenOK, Reloading
\* Outside a reload before and after: every entry is as good as before.
<1>2. ASSUME pc \notin {"start", "reloaded"}, pc' \notin {"start", "reloaded"}, gen' = gen,
             \A s \in Slots :
                \/ slot'[s] = slot[s]
                \/ /\ slot'[s].just => slot[s].just
                   /\ slot'[s].st = "run" /\ ~slot'[s].detached =>
                        \/ slot'[s].gen = gen
                        \/ slot[s].st = "run" /\ ~slot[s].detached /\ slot'[s].gen = slot[s].gen
      PROVE  GenOK'
  BY <1>2 DEF GenOK, Reloading
<1>3. CASE StartProcess
  <2>1. pc = "start" /\ UNCHANGED <<gen, pc, mode, ret>>
    BY <1>3 DEF StartProcess, local
  <2>2. CASE UNCHANGED slot
    BY <1>1, <2>1, <2>2
  <2>3. CASE SpawnSlot < MaxSlots /\ SpawnAt(SpawnSlot, ~IsLoader(i), mode = "reload", FALSE)
    <3> DEFINE n == SpawnSlot
               p == [st |-> "run", exited |-> FALSE, exiting |-> FALSE, respawn |-> ~IsLoader(i),
                     just |-> (mode = "reload"), detached |-> FALSE, gen |-> gen]
    <3>1. n \in Slots /\ slot' = [slot EXCEPT ![n] = p]
      BY <2>3, SpawnSlotFree DEF SpawnAt
    <3>2. p.gen = gen /\ p.just = (mode = "reload")
      OBVIOUS
    <3> HIDE DEF n, p
    <3>3. slot'[n] = p /\ \A s \in Slots : s # n => slot'[s] = slot[s]
      BY <1>0, <3>1
    <3> QED
      BY <2>1, <3>1, <3>2, <3>3 DEF GenOK, Reloading
  <2> QED
    BY <1>3, <2>2, <2>3 DEF StartProcess, SpawnFails
<1>4. CASE StartDone
  <2>1. pc = "start" /\ pc' = ret /\ UNCHANGED <<slot, gen, mode, ret>>
    BY <1>4 DEF StartDone, local, loop
  <2>2. mode \in {"boot", "reload"}
    BY DEF TypeOK
  <2> QED
    BY <2>1, <2>2 DEF GenOK, Reloading
<1>5. CASE Top \/ ReapRunning \/ ReapDone \/ Exit \/ Carry \/ ReconfigureRejected
  <2>1. UNCHANGED <<slot, gen>> /\ pc \notin {"start", "reloaded"}
    BY <1>5 DEF Top, ReapRunning, ReapDone, ReapRest, Exit, Carry, ReconfigureRejected, local,
         ReapNext
  <2>2. pc' \notin {"start", "reloaded"}
    BY <1>5, PhaseFromIn DEF Top, ReapRunning, ReapDone, ReapRest, Exit, Carry,
         ReconfigureRejected, ReapNext
  <2> QED
    BY <1>2, <2>1, <2>2
<1>6. CASE Alarm \/ UNCHANGED vars
  BY <1>1, <1>6 DEF Alarm, vars, local, loop
<1>7. CASE \E sig \in Admin : Send(sig)
  BY <1>1, <1>7 DEF Send, local, loop
<1>8. CASE Suspend
  <2>1. pc = "suspend" /\ pc' \in {"reap", "check"} /\ gen' = gen
    BY <1>8 DEF Suspend
  <2>2. \A s \in Slots : slot'[s] = Waited(slot[s]) \/ slot'[s] = slot[s]
    BY <1>8 DEF Suspend
  <2> QED
    BY <1>0, <1>2, <2>1, <2>2, WaitedIs
<1>9. CASE ReapRespawn
  <2>1. pc = "reap" /\ pc' = "reap" /\ gen' = gen
    BY <1>9 DEF ReapRespawn, ReapNext, ReapRest
  <2>2. \/ slot' = slot
        \/ slot' = [slot EXCEPT ![i].st = "run", ![i].exited = FALSE, ![i].gen = gen]
    BY <1>9 DEF ReapRespawn
  <2>3. \A s \in Slots : \/ slot'[s] = slot[s]
                         \/ slot'[s] = [slot[s] EXCEPT !.st = "run", !.exited = FALSE, !.gen = gen]
    BY <1>0, <2>2
  <2>4. \A s \in Slots : \/ slot'[s] = slot[s]
                         \/ slot'[s].just = slot[s].just /\ slot'[s].gen = gen
    BY <1>0, <2>3 DEF Slot
  <2> QED
    BY <1>2, <2>1, <2>4
<1>10. CASE ReapFree
  <2>1. pc = "reap" /\ pc' = "reap" /\ gen' = gen
    BY <1>10 DEF ReapFree, ReapNext, ReapRest
  <2>2. slot' = [slot EXCEPT ![i] = Free] /\ ~Free.just /\ Free.st = "none"
    BY <1>10 DEF ReapFree, Free
  <2>3. \A s \in Slots : slot'[s] = slot[s] \/ slot'[s] = Free
    BY <1>0, <2>2
  <2> QED
    BY <1>2, <2>1, <2>2, <2>3
<1>11. CASE Terminate \/ Quit \/ Reopen \/ NoAccept
  <2>1. pc \notin {"start", "reloaded"} /\ gen' = gen
    BY <1>11 DEF Terminate, Quit, Reopen, NoAccept, local
  <2>2. pc' \notin {"start", "reloaded"}
    BY <1>11, PhaseFromIn DEF Terminate, Quit, Reopen, NoAccept
  <2>3. CASE slot' = slot
    BY <1>2, <2>1, <2>2, <2>3
  <2>4. CASE \E signo \in {"QUIT", "TERM", "KILL", "USR1"} : SignalWorkers(signo)
    <3>1. PICK signo \in {"QUIT", "TERM", "KILL", "USR1"} : SignalWorkers(signo)
      BY <2>4
    <3>2. \A s \in Slots : slot'[s] = slot[s] \/ slot'[s] = Signalled(slot[s], signo)
      BY <3>1 DEF SignalWorkers
    <3> QED
      BY <1>0, <1>2, <2>1, <2>2, <3>2, SignalledIs
  <2> QED
    BY <1>11, <2>3, <2>4 DEF Terminate, Quit, Reopen, NoAccept
<1>12. CASE ReconfigureNewBinary \/ Restart
  <2>1. /\ pc \notin {"start", "reloaded"} /\ pc' = "start" /\ mode' = "boot"
        /\ ret' # "reloaded" /\ UNCHANGED <<slot, gen>>
    BY <1>12, PhaseFromIn DEF ReconfigureNewBinary, Restart, Start
  <2> QED
    BY <2>1 DEF GenOK, Reloading
<1>13. CASE Reconfigure
  <2>1. /\ pc = "reconfigure" /\ pc' = "start" /\ mode' = "reload" /\ ret' = "reloaded"
        /\ slot' = slot
    BY <1>13 DEF Reconfigure, Start
  <2> QED
    BY <2>1 DEF GenOK, Reloading
<1>14. CASE Reloaded
  <2>1. pc = "reloaded" /\ pc' \notin {"start", "reloaded"} /\ gen' = gen /\ last' = last
    BY <1>14, PhaseFromIn DEF Reloaded
  <2>2. slot' = [s \in Slots |-> IF s < last THEN Signalled(slot[s], "QUIT") ELSE slot[s]]
    BY <1>14 DEF Reloaded, SignalWorkers
  <2> SUFFICES ASSUME NEW s \in Slots
               PROVE  ~slot'[s].just /\ (slot'[s].st = "run" /\ ~slot'[s].detached => slot'[s].gen = gen)
    BY <2>1 DEF GenOK, Reloading
  <2>3. CASE ~(s < last)
    <3>1. slot'[s] = slot[s] /\ slot[s] = Free
      BY <2>2, <2>3, SizeAssumption DEF TypeOK, Slots
    <3> QED
      BY <3>1 DEF Free
  <2>4. CASE s < last
    <3> DEFINE p == slot[s]
               q == Signalled(p, "QUIT")
    <3>1. slot'[s] = q /\ p \in Slot /\ EntryOK(p) /\ (p.just => p.gen = gen)
      BY <1>0, <2>1, <2>2, <2>4 DEF GenOK, Reloading
    <3>2. ~q.just
      BY <3>1, SignalUnmarks
    <3>3. q.st = "run" /\ ~q.detached => q.gen = gen
      <4>1. CASE p.just
        BY <3>1, <4>1, SignalledIs
      <4>2. CASE ~p.just /\ p.st = "run" /\ ~p.detached
        <5>1. q.exiting /\ EntryOK(q)
          BY <3>1, <4>2, QuitReaches, SignalledIs
        <5> QED
          BY <5>1 DEF EntryOK
      <4>3. CASE ~(p.st = "run" /\ ~p.detached)
        BY <3>1, <4>3, SignalledIs
      <4> QED
        BY <4>1, <4>2, <4>3
    <3> QED
      BY <3>1, <3>2, <3>3
  <2> QED
    BY <2>3, <2>4
<1>15. CASE ChangeBinary
  <2>1. pc = "change_binary" /\ pc' \notin {"start", "reloaded"} /\ gen' = gen
    BY <1>15, PhaseFromIn DEF ChangeBinary
  <2>2. CASE slot' = slot
    BY <1>2, <2>1, <2>2
  <2>3. CASE SpawnSlot < MaxSlots /\ SpawnAt(SpawnSlot, FALSE, FALSE, TRUE)
    <3> DEFINE p == [st |-> "run", exited |-> FALSE, exiting |-> FALSE, respawn |-> FALSE,
                     just |-> FALSE, detached |-> TRUE, gen |-> gen]
    <3>1. slot' = [slot EXCEPT ![SpawnSlot] = p]
      BY <2>3 DEF SpawnAt
    <3>2. ~p.just /\ p.detached
      OBVIOUS
    <3> HIDE DEF p
    <3>3. \A s \in Slots : slot'[s] = slot[s] \/ slot'[s] = p
      BY <1>0, <3>1
    <3> QED
      BY <1>2, <2>1, <3>2, <3>3
  <2> QED
    BY <1>15, <2>2, <2>3 DEF ChangeBinary, SpawnFails
<1>16. CASE \E n \in Slots : ChildLeaves(n) \/ ChildDies(n) \/ ChildFatal(n)
  <2>1. UNCHANGED <<gen, pc, mode, ret>>
    BY <1>16 DEF ChildLeaves, ChildDies, ChildFatal, ChildBecomes, local, loop
  <2>2. PICK n \in Slots, st \in {"zombie", "fatal"} : slot' = [slot EXCEPT ![n].st = st]
    BY <1>16 DEF ChildLeaves, ChildDies, ChildFatal, ChildBecomes
  <2>3. \A s \in Slots : slot'[s] = slot[s] \/ slot'[s] = [slot[s] EXCEPT !.st = st]
    BY <1>0, <2>2
  <2>4. \A s \in Slots :
          \/ slot'[s] = slot[s]
          \/ slot'[s].just = slot[s].just /\ slot'[s].gen = slot[s].gen /\ slot'[s].st = st
    BY <1>0, <2>3 DEF Slot
  <2> QED
    BY <2>1, <2>4 DEF GenOK, Reloading
<1> QED
  BY <1>3, <1>4, <1>5, <1>6, <1>7, <1>8, <1>9, <1>10, <1>11, <1>12, <1>13, <1>14, <1>15, <1>16
  DEF Next, Master

LEMMA GenAlways == Spec => []GenOK
<1>1. Init => GenOK
  BY FreeOK DEF Init, GenOK, Reloading, Free
<1>2. TypeOK /\ TableOK /\ GenOK /\ [Next]_vars => GenOK'
  BY GenStep
<1> QED
  BY <1>1, <1>2, TypeCorrect, PTL DEF Spec

\* OldWorkersRetire: a sleeping master has told every worker of an older cycle to leave, also
\* when processes died, failed to start or were asked for by an upgrade in between.
THEOREM OldRetire == Spec => []OldWorkersRetire
<1>1. GenOK => OldWorkersRetire
  BY DEF GenOK, Reloading, OldWorkersRetire
<1> QED
  BY <1>1, GenAlways, PTL

-----------------------------------------------------------------------------
\* A master that cannot be upgraded.

LEMMA NeverUpgradedStep ==
  ASSUME NoUpgrade, TypeOK, TableOK, NeverUpgraded, [Next]_vars
  PROVE  NeverUpgraded'
<1>0. slot \in [Slots -> Slot] /\ \A s \in Slots : slot[s] \in Slot /\ EntryOK(slot[s])
  BY DEF TypeOK, TableOK
<1>a. \A signo : ReapGone(signo) \subseteq {"reap"}
  BY DEF ReapGone
<1>b. \A k \in 1..5 : PhaseFrom(k, flags) \in {"top", "reconfigure", "reopen", "noaccept"}
  <2> TAKE k \in 1..5
  <2>1. "change_binary" \notin flags /\ "restart" \notin flags
    BY DEF NeverUpgraded
  <2> QED
    BY <2>1, PhaseFromIn
\* What the handlers change, apart from the table.
<1>c. ASSUME newBinary' = newBinary, pending' \subseteq pending \cup (Signals \ {"USR2"}),
             flags' \subseteq flags \cup (Flags \ {"change_binary", "restart"}),
             \/ pc' = pc /\ ret' = ret
             \/ pc' \notin {"change_binary", "restart", "start"}
             \/ pc' = "start" /\ ret' \in {"top", "reloaded"},
             \A s \in Slots : slot'[s].detached => slot[s].detached
      PROVE  NeverUpgraded'
  <2>1. flags' \cap {"change_binary", "restart"} = {}
    BY <1>c DEF NeverUpgraded
  <2>2. "USR2" \in pending' => ~Daemonized
    BY <1>c DEF NeverUpgraded
  <2>3. pc' \notin {"change_binary", "restart"} /\ (pc' = "start" => ret' \in {"top", "reloaded"})
    BY <1>c DEF NeverUpgraded
  <2> QED
    BY <1>c, <2>1, <2>2, <2>3 DEF NeverUpgraded
<1>d. ASSUME NEW signo \in {"QUIT", "TERM", "KILL", "USR1"}, SignalWorkers(signo)
      PROVE  /\ pending' \subseteq pending \cup (Signals \ {"USR2"})
             /\ \A s \in Slots : slot'[s].detached => slot[s].detached
  <2>1. pending' \subseteq pending \cup {"CHLD"}
    BY <1>d DEF SignalWorkers
  <2>2. \A s \in Slots : slot'[s] = slot[s] \/ slot'[s] = Signalled(slot[s], signo)
    BY <1>d DEF SignalWorkers
  <2> QED
    BY <1>0, <2>1, <2>2, SignalledIs DEF Signals
<1> USE DEF local, loop, Start
<1>1. CASE StartProcess
  <2>1. UNCHANGED <<newBinary, pending, flags, pc, ret>>
    BY <1>1 DEF StartProcess
  <2>2. \A s \in Slots : slot'[s].detached => slot[s].detached
    <3>1. CASE slot' = slot
      BY <3>1
    <3>2. CASE SpawnAt(SpawnSlot, ~IsLoader(i), mode = "reload", FALSE)
      <4> DEFINE p == [st |-> "run", exited |-> FALSE, exiting |-> FALSE,
                       respawn |-> ~IsLoader(i), just |-> (mode = "reload"),
                       detached |-> FALSE, gen |-> gen]
      <4>1. slot' = [slot EXCEPT ![SpawnSlot] = p] /\ ~p.detached
        BY <3>2 DEF SpawnAt
      <4> HIDE DEF p
      <4> QED
        BY <1>0, <4>1
    <3> QED
      BY <1>1, <3>1, <3>2 DEF StartProcess, SpawnFails
  <2> QED
    BY <1>c, <2>1, <2>2
<1>2. CASE StartDone
  <2>1. /\ UNCHANGED <<newBinary, pending, flags, slot>>
        /\ pc = "start" /\ pc' = ret
    BY <1>2 DEF StartDone
  <2>2. ret \in {"top", "reloaded"}
    BY <2>1 DEF NeverUpgraded
  <2> QED
    BY <1>c, <2>1, <2>2
<1>3. CASE Top \/ ReapDone \/ Exit \/ Carry \/ ReconfigureRejected
  <2>1. /\ UNCHANGED <<newBinary, pending, slot>> /\ flags' \subseteq flags
        /\ pc' \notin {"change_binary", "restart", "start"}
    BY <1>3, <1>b DEF Top, ReapDone, Exit, Carry, ReconfigureRejected
  <2> QED
    BY <1>c, <2>1
<1>4. CASE Suspend
  <2>1. UNCHANGED <<newBinary>> /\ pending' = {} /\ pc' \in {"reap", "check"}
    BY <1>4 DEF Suspend
  <2>2. \A s \in Slots : slot'[s] = Waited(slot[s]) \/ slot'[s] = slot[s]
    BY <1>4 DEF Suspend
  <2>3. \A sig \in pending : Flagged(sig) \subseteq Flags \ {"change_binary", "restart"}
    BY DEF Flagged, Signals, Flags, NeverUpgraded, TypeOK
  <2>4. flags' \subseteq flags \cup (Flags \ {"change_binary", "restart"})
    <3> DEFINE new == UNION {Flagged(sig) : sig \in pending}
    <3>1. new \subseteq Flags \ {"change_binary", "restart"}
      BY <2>3
    <3>2. flags' \subseteq flags \cup new
      BY <1>4 DEF Suspend
    <3> HIDE DEF new
    <3> QED
      BY <3>1, <3>2
  <2>5. \A s \in Slots : slot'[s].detached => slot[s].detached
    BY <1>0, <2>2, WaitedIs
  <2> QED
    BY <1>c, <2>1, <2>4, <2>5
<1>5. CASE ReapRunning
  BY <1>c, <1>5 DEF ReapRunning, ReapNext, ReapRest
<1>6. CASE ReapRespawn
  <2>1. UNCHANGED <<newBinary, pending, flags, pc, ret>>
    BY <1>6 DEF ReapRespawn, ReapRest
  <2>2. \/ slot' = slot
        \/ slot' = [slot EXCEPT ![i].st = "run", ![i].exited = FALSE, ![i].gen = gen]
    BY <1>6 DEF ReapRespawn
  <2>3. \A s \in Slots : \/ slot'[s] = slot[s]
                         \/ slot'[s] = [slot[s] EXCEPT !.st = "run", !.exited = FALSE, !.gen = gen]
    BY <1>0, <2>2
  <2>4. \A s \in Slots : slot'[s].detached => slot[s].detached
    BY <1>0, <2>3 DEF Slot
  <2> QED
    BY <1>c, <2>1, <2>4
<1>7. CASE ReapFree
  <2>1. /\ i \in Slots /\ UNCHANGED <<pending, pc, ret>>
        /\ slot' = [slot EXCEPT ![i] = Free] /\ ~Free.detached
    BY <1>7, SizeAssumption DEF ReapFree, ReapRest, ReapNext, Free, TypeOK, Slots
  <2>2. ~slot[i].detached
    BY <2>1 DEF NeverUpgraded
  <2>3. UNCHANGED <<newBinary, flags>>
    BY <1>7, <2>2 DEF ReapFree
  <2>4. \A s \in Slots : slot'[s].detached => slot[s].detached
    BY <1>0, <2>1
  <2> QED
    BY <1>c, <2>1, <2>3, <2>4
<1>8. CASE Terminate
  <2>1. /\ newBinary' = newBinary /\ flags' \subseteq flags \cup {"reap"} /\ pc' = "top"
    BY <1>8, <1>a DEF Terminate
  <2>2. /\ pending' \subseteq pending \cup (Signals \ {"USR2"})
        /\ \A s \in Slots : slot'[s].detached => slot[s].detached
    BY <1>8, <1>d DEF Terminate
  <2> QED
    BY <1>c, <2>1, <2>2 DEF Flags
<1>9. CASE Quit \/ Reloaded \/ Reopen \/ NoAccept
  <2>1. newBinary' = newBinary /\ flags' \subseteq flags \cup {"reap"}
    BY <1>9, <1>a DEF Quit, Reloaded, Reopen, NoAccept
  <2>2. pc' \notin {"change_binary", "restart", "start"}
    BY <1>9, <1>b DEF Quit, Reloaded, Reopen, NoAccept
  <2>3. /\ pending' \subseteq pending \cup (Signals \ {"USR2"})
        /\ \A s \in Slots : slot'[s].detached => slot[s].detached
    BY <1>9, <1>d DEF Quit, Reloaded, Reopen, NoAccept
  <2> QED
    BY <1>c, <2>1, <2>2, <2>3 DEF Flags
<1>10. CASE ReconfigureNewBinary \/ Restart \/ ChangeBinary
  BY <1>10 DEF NeverUpgraded, ReconfigureNewBinary, Restart, ChangeBinary
<1>11. CASE Reconfigure
  <2>1. /\ UNCHANGED <<newBinary, pending, slot>> /\ flags' \subseteq flags
        /\ pc' = "start" /\ ret' = "reloaded"
    BY <1>11 DEF Reconfigure
  <2> QED
    BY <1>c, <2>1
<1>12. CASE Alarm
  <2>1. UNCHANGED <<newBinary, flags, pc, ret, slot>> /\ pending' = pending \cup {"ALRM"}
    BY <1>12 DEF Alarm
  <2> QED
    BY <1>c, <2>1 DEF Signals
<1>13. CASE \E sig \in Admin : Send(sig)
  <2>1. PICK sig \in Admin : Send(sig)
    BY <1>13
  <2>2. UNCHANGED <<newBinary, flags, pc, ret, slot>> /\ pending' = pending \cup {sig}
    BY <2>1 DEF Send
  <2> QED
    BY <2>2 DEF NeverUpgraded, NoUpgrade
<1>14. CASE \E n \in Slots : ChildLeaves(n) \/ ChildDies(n) \/ ChildFatal(n)
  <2>1. UNCHANGED <<newBinary, flags, pc, ret>> /\ pending' = pending \cup {"CHLD"}
    BY <1>14 DEF ChildLeaves, ChildDies, ChildFatal, ChildBecomes
  <2>2. PICK n \in Slots, st \in {"zombie", "fatal"} : slot' = [slot EXCEPT ![n].st = st]
    BY <1>14 DEF ChildLeaves, ChildDies, ChildFatal, ChildBecomes
  <2>3. \A s \in Slots : slot'[s] = slot[s] \/ slot'[s] = [slot[s] EXCEPT !.st = st]
    BY <1>0, <2>2
  <2>4. \A s \in Slots : slot'[s].detached => slot[s].detached
    BY <1>0, <2>3 DEF Slot
  <2> QED
    BY <1>c, <2>1, <2>4 DEF Signals
<1>15. CASE UNCHANGED vars
  BY <1>c, <1>15 DEF vars
<1> QED
  BY <1>1, <1>2, <1>3, <1>4, <1>5, <1>6, <1>7, <1>8, <1>9, <1>10, <1>11, <1>12, <1>13, <1>14,
     <1>15 DEF Next, Master
\* "live" is right whenever ngx_master_process_cycle() looks at it.
LEMMA LiveStep ==
  ASSUME TypeOK, TableOK, GenOK, NeverUpgraded, LiveOK, [Next]_vars
  PROVE  LiveOK'
<1>0. slot \in [Slots -> Slot] /\ \A s \in Slots : slot[s] \in Slot /\ EntryOK(slot[s])
  BY DEF TypeOK, TableOK
<1> DEFINE NoneStarted == \A s \in Slots : slot'[s].st \in Running => slot[s].st \in Running
<1>a. ASSUME NoneStarted, live' = live, pc \notin {"reap", "start", "reloaded"},
             pc' \notin {"reap", "start", "reloaded", "exited"}
      PROVE  LiveOK'
  BY <1>a DEF LiveOK, Reloading
<1>b. ASSUME NoneStarted, UNCHANGED <<live, pc, mode, i>>
      PROVE  LiveOK'
  BY <1>b DEF LiveOK, Reloading
<1>c. ASSUME NEW signo \in {"QUIT", "TERM", "KILL", "USR1"}, SignalWorkers(signo)
      PROVE  NoneStarted
  <2>1. \A s \in Slots : slot'[s] = slot[s] \/ slot'[s] = Signalled(slot[s], signo)
    BY <1>c DEF SignalWorkers
  <2> QED
    BY <1>0, <2>1, SignalledIs
<1>d. \A k \in 1..5 : PhaseFrom(k, flags) \notin {"start", "reap", "reloaded", "exited"}
  BY PhaseFromIn
<1>e. slot' = slot => NoneStarted
  OBVIOUS
<1> USE DEF local, loop, Start
<1> HIDE DEF NoneStarted
<1>1. CASE StartProcess
  <2>1. pc = "start" /\ pc' = "start" /\ UNCHANGED <<live, mode>> /\ mode \in {"boot", "reload"}
    BY <1>1 DEF StartProcess, TypeOK
  <2> QED
    BY <2>1 DEF LiveOK, Reloading
<1>2. CASE StartDone
  <2>1. /\ pc = "start" /\ pc' = ret /\ UNCHANGED <<live, mode, slot>>
        /\ mode \in {"boot", "reload"} /\ ret \in {"top", "reloaded"}
    BY <1>2 DEF StartDone, TypeOK, NeverUpgraded
  <2>2. mode = "reload" <=> ret = "reloaded"
    BY <2>1 DEF GenOK
  <2> QED
    BY <2>1, <2>2 DEF LiveOK, Reloading
<1>3. CASE Top \/ Carry \/ ReconfigureRejected
  <2>1. /\ UNCHANGED <<live, slot>> /\ pc \notin {"reap", "start", "reloaded"}
        /\ pc' \notin {"reap", "start", "reloaded", "exited"}
    BY <1>3, <1>d DEF Top, Carry, ReconfigureRejected
  <2> QED
    BY <1>a, <1>e, <2>1
<1>4. CASE Suspend
  <2>1. \A s \in Slots : slot'[s] = Waited(slot[s]) \/ slot'[s] = slot[s]
    BY <1>4 DEF Suspend
  <2>2. NoneStarted
    BY <1>0, <2>1, WaitedIs DEF NoneStarted
  <2>3. /\ pc = "suspend"
        /\ \/ pc' = "reap" /\ i' = 0
           \/ pc' = "check" /\ live' = live
    BY <1>4 DEF Suspend
  <2>4. CASE pc' = "reap" /\ i' = 0
    <3>1. \A s \in Slots : ~(s < 0)
      BY SizeAssumption DEF Slots
    <3> QED
      BY <2>4, <3>1 DEF LiveOK, Reloading
  <2>5. CASE pc' = "check" /\ live' = live
    BY <1>a, <2>2, <2>3, <2>5
  <2> QED
    BY <2>3, <2>4, <2>5
<1>5. CASE ReapRunning
  <2>1. /\ pc = "reap" /\ pc' = "reap" /\ i' = i + 1 /\ slot' = slot /\ i \in Nat
        /\ live' = (live \/ (slot[i].st # "none" /\ (slot[i].exiting \/ ~slot[i].detached)))
    BY <1>5 DEF ReapRunning, ReapNext, ReapRest, TypeOK
  <2> SUFFICES ASSUME ~live', NEW s \in Slots, s < i'
               PROVE  slot[s].st \notin Running
    BY <2>1 DEF LiveOK, Reloading
  <2>2. s < i \/ s = i
    BY <2>1, SizeAssumption DEF Slots
  <2>3. CASE s < i
    BY <2>1, <2>3 DEF LiveOK
  <2>4. CASE s = i
    <3>1. ~slot[s].detached
      BY DEF NeverUpgraded
    <3> QED
      BY <2>1, <2>4, <3>1 DEF Running
  <2> QED
    BY <2>2, <2>3, <2>4
<1>6. CASE ReapRespawn \/ ReapFree
  <2>1. pc = "reap" /\ pc' = "reap" /\ i' = i + 1 /\ i \in Nat /\ slot[i].exited /\ i < last
    BY <1>6 DEF ReapRespawn, ReapFree, ReapNext, ReapRest, TypeOK
  <2>2. i \in Slots
    BY <2>1, SizeAssumption DEF Slots, TypeOK
  <2>3. \/ live' = TRUE
        \/ live' = live /\ slot' = slot
        \/ live' = live /\ slot' = [slot EXCEPT ![i] = Free]
    BY <1>6, <2>1 DEF ReapRespawn, ReapFree
  <2>4. slot[i].st = "gone" /\ Free.st = "none"
    BY <1>0, <2>1, <2>2 DEF EntryOK, Free
  <2> SUFFICES ASSUME ~live', NEW s \in Slots, s < i'
               PROVE  slot'[s].st \notin Running
    BY <2>1 DEF LiveOK, Reloading
  <2>5. ~live
    BY <2>3
  <2>6. s < i \/ s = i
    BY <2>1, SizeAssumption DEF Slots
  <2>7. slot[s].st \notin Running
    BY <2>1, <2>4, <2>5, <2>6 DEF LiveOK, Running
  <2>8. slot'[s] = slot[s] \/ slot'[s] = Free
    BY <1>0, <2>3
  <2> QED
    BY <2>4, <2>7, <2>8 DEF Running
<1>7. CASE ReapDone
  <2>1. pc = "reap" /\ pc' = "check" /\ i >= last /\ UNCHANGED <<slot, live>>
    BY <1>7 DEF ReapDone
  <2> SUFFICES ASSUME ~live, NEW s \in Slots
               PROVE  slot[s].st \notin Running
    BY <2>1 DEF LiveOK, Reloading
  <2>2. s < i \/ s >= last
    BY <2>1, SizeAssumption DEF Slots, TypeOK
  <2>3. CASE s < i
    BY <2>1, <2>3 DEF LiveOK
  <2>4. CASE s >= last
    <3>1. slot[s] = Free
      BY <2>4 DEF TypeOK
    <3> QED
      BY <3>1, FreeOK DEF Running
  <2> QED
    BY <2>2, <2>3, <2>4
<1>8. CASE Terminate \/ Quit \/ Reopen \/ NoAccept
  <2>1. live' = live /\ pc \notin {"reap", "start", "reloaded"}
    BY <1>8 DEF Terminate, Quit, Reopen, NoAccept
  <2>2. pc' \notin {"reap", "start", "reloaded", "exited"}
    BY <1>8, <1>d DEF Terminate, Quit, Reopen, NoAccept
  <2>3. NoneStarted
    BY <1>8, <1>c, <1>e DEF Terminate, Quit, Reopen, NoAccept
  <2> QED
    BY <1>a, <2>1, <2>2, <2>3
<1>9. CASE ReconfigureNewBinary \/ Restart \/ ChangeBinary
  BY <1>9 DEF NeverUpgraded, ReconfigureNewBinary, Restart, ChangeBinary
<1>10. CASE Reconfigure
  <2>1. pc' = "start" /\ mode' = "reload"
    BY <1>10 DEF Reconfigure
  <2> QED
    BY <2>1 DEF LiveOK, Reloading
<1>11. CASE Reloaded
  <2>1. live' = TRUE /\ pc' # "exited"
    BY <1>11, <1>d DEF Reloaded
  <2> QED
    BY <2>1 DEF LiveOK
<1>12. CASE Alarm \/ UNCHANGED vars
  BY <1>b, <1>e, <1>12 DEF Alarm, vars
<1>13. CASE \E sig \in Admin : Send(sig)
  BY <1>b, <1>e, <1>13 DEF Send
<1>14. CASE \E n \in Slots : ChildLeaves(n) \/ ChildDies(n) \/ ChildFatal(n)
  <2>1. UNCHANGED <<live, pc, mode, i>>
    BY <1>14 DEF ChildLeaves, ChildDies, ChildFatal, ChildBecomes
  <2>2. PICK n \in Slots, st \in {"zombie", "fatal"} : slot' = [slot EXCEPT ![n].st = st]
    BY <1>14 DEF ChildLeaves, ChildDies, ChildFatal, ChildBecomes
  <2>3. \A s \in Slots : slot'[s] = slot[s] \/ slot'[s] = [slot[s] EXCEPT !.st = st]
    BY <1>0, <2>2
  <2>4. \A s \in Slots : slot'[s] = slot[s] \/ slot'[s].st = st
    BY <1>0, <2>3 DEF Slot
  <2>5. NoneStarted
    BY <2>4 DEF NoneStarted, Running
  <2> QED
    BY <1>b, <2>1, <2>5
<1>15. CASE Exit
  <2>1. pc = "check" /\ pc' = "exited" /\ ~live /\ UNCHANGED <<live, slot>>
    BY <1>15 DEF Exit
  <2> QED
    BY <2>1 DEF LiveOK, Reloading
<1> QED
  BY <1>1, <1>2, <1>3, <1>4, <1>5, <1>6, <1>7, <1>8, <1>9, <1>10, <1>11, <1>12, <1>13, <1>14,
     <1>15 DEF Next, Master

\* A master that cannot be upgraded is never in the middle of an upgrade.
LEMMA StaysNeverUpgraded ==
  ASSUME NoUpgrade
  PROVE  Spec => []NeverUpgraded
<1>1. Init => NeverUpgraded
  BY DEF Init, NeverUpgraded, Free
<1>2. TypeOK /\ TableOK /\ NeverUpgraded /\ [Next]_vars => NeverUpgraded'
  BY NeverUpgradedStep
<1> QED
  BY <1>1, <1>2, TypeCorrect, PTL DEF Spec

\* NoOrphans, of a master that is not a daemon, as in the image, or is never sent SIGUSR2: it
\* exits only when its last child has left, however deaths, reloads and failures fall between
\* ngx_reap_children() and the test of "live".
THEOREM LeavesNoOrphans ==
  ASSUME NoUpgrade
  PROVE  Spec => []NoOrphans
<1>1. Init => LiveOK
  BY DEF Init, LiveOK, Reloading
<1>2. TypeOK /\ TableOK /\ GenOK /\ NeverUpgraded /\ LiveOK /\ [Next]_vars => LiveOK'
  BY LiveStep
<1>3. LiveOK => NoOrphans
  BY DEF LiveOK, NoOrphans, Reloading
<1> QED
  BY <1>1, <1>2, <1>3, StaysNeverUpgraded, GenAlways, TypeCorrect, PTL DEF Spec
-----------------------------------------------------------------------------
\* The number of workers.

LEMMA GoneStep ==
  ASSUME MaxSpawnFails = 0, TypeOK, TableOK, GoneOK, [Next]_vars
  PROVE  GoneOK'
<1>0. slot \in [Slots -> Slot] /\ \A s \in Slots : slot[s] \in Slot /\ EntryOK(slot[s])
  BY DEF TypeOK, TableOK
<1>a. ASSUME pc # "reap", \A s \in Slots : slot'[s].st = "gone" => slot[s].st = "gone"
      PROVE  GoneOK'
  BY <1>a DEF GoneOK
<1>b. ASSUME NEW signo \in {"QUIT", "TERM", "KILL", "USR1"}, SignalWorkers(signo), pc # "reap"
      PROVE  GoneOK'
  <2>1. \A s \in Slots : slot'[s] = slot[s] \/ slot'[s] = Signalled(slot[s], signo)
    BY <1>b DEF SignalWorkers
  <2>2. \A s \in Slots : slot'[s].st = "gone" => slot[s].st = "gone"
    BY <1>0, <2>1, SignalledIs
  <2> QED
    BY <1>a, <1>b, <2>2
<1>c. ASSUME pc # "reap", NEW respawn, NEW just, NEW detached,
             SpawnAt(SpawnSlot, respawn, just, detached)
      PROVE  GoneOK'
  <2> DEFINE p == [st |-> "run", exited |-> FALSE, exiting |-> FALSE, respawn |-> respawn,
                   just |-> just, detached |-> detached, gen |-> gen]
  <2>1. slot' = [slot EXCEPT ![SpawnSlot] = p] /\ p.st = "run"
    BY <1>c DEF SpawnAt
  <2> HIDE DEF p
  <2>2. \A s \in Slots : slot'[s].st = "gone" => slot[s].st = "gone"
    BY <1>0, <2>1
  <2> QED
    BY <1>a, <1>c, <2>2
<1> USE DEF local, loop, Start
<1>1. CASE StartProcess \/ ChangeBinary
  <2>1. pc # "reap"
    BY <1>1 DEF StartProcess, ChangeBinary
  <2>2. CASE slot' = slot
    BY <1>a, <2>1, <2>2
  <2> QED
    BY <1>1, <1>c, <2>1, <2>2 DEF StartProcess, ChangeBinary, SpawnFails
<1>2. CASE StartDone \/ Top \/ Exit \/ Carry \/ ReconfigureNewBinary \/ ReconfigureRejected
           \/ Reconfigure \/ Restart
  <2>1. pc # "reap" /\ slot' = slot
    BY <1>2 DEF StartDone, Top, Exit, Carry, ReconfigureNewBinary, ReconfigureRejected,
         Reconfigure, Restart
  <2> QED
    BY <1>a, <2>1
<1>3. CASE Suspend
  <2>1. pc = "suspend" /\ pending \subseteq Signals
    BY <1>3 DEF Suspend, TypeOK
  <2>2. CASE "CHLD" \in pending
    <3> DEFINE fl == flags \cup UNION {Flagged(sig) : sig \in pending}
    <3>1. "reap" \in Flagged("CHLD")
      BY DEF Flagged
    <3>2. "reap" \in fl
      BY <2>2, <3>1
    <3>3. "reap" \in fl => pc' = "reap" /\ i' = 0
      BY <1>3, Zenon DEF Suspend
    <3> HIDE DEF fl
    <3> QED
      BY <3>2, <3>3, SizeAssumption DEF GoneOK, Slots
  <2>3. CASE "CHLD" \notin pending
    <3>1. slot' = slot
      BY <1>3, <2>3 DEF Suspend
    <3> QED
      BY <1>a, <2>1, <3>1
  <2> QED
    BY <2>2, <2>3
<1>4. CASE ReapRunning
  <2>1. /\ pc = "reap" /\ pc' = "reap" /\ i' = i + 1 /\ slot' = slot /\ i \in Nat
        /\ ~slot[i].exited
    BY <1>4 DEF ReapRunning, ReapNext, ReapRest, TypeOK
  <2> SUFFICES ASSUME NEW s \in Slots, slot[s].st = "gone" PROVE i' <= s
    BY <2>1 DEF GoneOK
  <2>2. slot[s].exited /\ i <= s
    BY <1>0 DEF EntryOK, GoneOK
  <2> QED
    BY <2>1, <2>2, SizeAssumption DEF Slots
<1>5. CASE ReapRespawn \/ ReapFree
  <2>1. pc = "reap" /\ pc' = "reap" /\ i' = i + 1 /\ i \in Nat
    BY <1>5 DEF ReapRespawn, ReapFree, ReapNext, ReapRest, TypeOK
  <2>2. ~(count.fails < MaxSpawnFails)
    BY DEF TypeOK
  <2>3. \/ slot' = [slot EXCEPT ![i].st = "run", ![i].exited = FALSE, ![i].gen = gen]
        \/ slot' = [slot EXCEPT ![i] = Free]
    BY <1>5, <2>2 DEF ReapRespawn, ReapFree
  <2> SUFFICES ASSUME NEW s \in Slots, slot'[s].st = "gone" PROVE i' <= s
    BY <2>1 DEF GoneOK
  <2>4. CASE s # i
    <3>1. slot'[s] = slot[s]
      BY <1>0, <2>3, <2>4
    <3>2. i <= s
      BY <3>1 DEF GoneOK
    <3> QED
      BY <2>1, <2>4, <3>2, SizeAssumption DEF Slots
  <2>5. CASE s = i
    <3>1. slot'[s] = Free \/ slot'[s] = [slot[s] EXCEPT !.st = "run", !.exited = FALSE, !.gen = gen]
      BY <1>0, <2>3, <2>5
    <3>2. slot'[s].st \in {"none", "run"}
      BY <1>0, <3>1, FreeOK DEF Slot
    <3> QED
      BY <3>2
  <2> QED
    BY <2>4, <2>5
<1>6. CASE ReapDone
  <2>1. pc = "reap" /\ i >= last /\ slot' = slot
    BY <1>6 DEF ReapDone
  <2> SUFFICES ASSUME NEW s \in Slots, slot[s].st = "gone" PROVE FALSE
    BY <2>1 DEF GoneOK
  <2>2. i <= s
    BY DEF GoneOK
  <2>3. s >= last
    BY <2>1, <2>2, SizeAssumption DEF TypeOK, Slots
  <2> QED
    BY <2>3, FreeOK DEF TypeOK
<1>7. CASE Terminate \/ Quit \/ Reloaded \/ Reopen \/ NoAccept
  <2>1. pc # "reap"
    BY <1>7 DEF Terminate, Quit, Reloaded, Reopen, NoAccept
  <2>2. CASE slot' = slot
    BY <1>a, <2>1, <2>2
  <2> QED
    BY <1>7, <1>b, <2>1, <2>2 DEF Terminate, Quit, Reloaded, Reopen, NoAccept
<1>8. CASE Alarm \/ UNCHANGED vars
  BY <1>8 DEF Alarm, vars, GoneOK
<1>9. CASE \E sig \in Admin : Send(sig)
  BY <1>9 DEF Send, GoneOK
<1>10. CASE \E n \in Slots : ChildLeaves(n) \/ ChildDies(n) \/ ChildFatal(n)
  <2>1. UNCHANGED <<pc, i>>
    BY <1>10 DEF ChildLeaves, ChildDies, ChildFatal, ChildBecomes
  <2>2. PICK n \in Slots, st \in {"zombie", "fatal"} : slot' = [slot EXCEPT ![n].st = st]
    BY <1>10 DEF ChildLeaves, ChildDies, ChildFatal, ChildBecomes
  <2>3. \A s \in Slots : slot'[s] = slot[s] \/ slot'[s] = [slot[s] EXCEPT !.st = st]
    BY <1>0, <2>2
  <2>4. \A s \in Slots : slot'[s] = slot[s] \/ slot'[s].st = st
    BY <1>0, <2>3 DEF Slot
  <2> QED
    BY <2>1, <2>4 DEF GoneOK
<1> QED
  BY <1>1, <1>2, <1>3, <1>4, <1>5, <1>6, <1>7, <1>8, <1>9, <1>10 DEF Next, Master
LEMMA SubsetsOfSlots ==
  /\ \A S : S \subseteq Slots => IsFiniteSet(S) /\ Cardinality(S) \in Nat
  /\ \A S, T : T \subseteq Slots /\ S \subseteq T => Cardinality(S) <= Cardinality(T)
<1>1. IsFiniteSet(Slots)
  BY FS_Interval, SizeAssumption DEF Slots
<1>2. \A S : S \subseteq Slots => IsFiniteSet(S) /\ Cardinality(S) \in Nat
  BY <1>1, FS_Subset, FS_CardinalityType
<1> QED
  BY <1>2, FS_Subset

\* One more process takes at most one more claim, and only if it is to be respawned.
LEMMA OneMoreClaim ==
  ASSUME NEW S, NEW T, S \subseteq Slots, NEW k \in Nat, k >= 1, k <= Jobs,
         T \subseteq S \/ (~IsLoader(k) /\ \E n \in Slots \ S : T \subseteq S \cup {n}),
         Cardinality(S) <= Lasting(k - 1)
  PROVE  Cardinality(T) <= Lasting(k)
<1>0. /\ Workers \in Nat /\ Standing \in Nat
      /\ Jobs \in Nat /\ Cardinality(S) \in Nat /\ IsFiniteSet(S)
  BY SizeAssumption, SubsetsOfSlots DEF Standing, Jobs
<1>1. CASE T \subseteq S
  <2>1. Cardinality(T) \in Nat /\ Cardinality(T) <= Cardinality(S)
    BY <1>1, SubsetsOfSlots
  <2> QED
    BY <1>0, <2>1 DEF Lasting
<1>2. CASE ~IsLoader(k) /\ \E n \in Slots \ S : T \subseteq S \cup {n}
  <2>0. PICK n \in Slots \ S : T \subseteq S \cup {n}
    BY <1>2
  <2>1. Cardinality(S \cup {n}) = Cardinality(S) + 1
    BY <1>0, FS_AddElement
  <2>2. Cardinality(T) \in Nat /\ Cardinality(T) <= Cardinality(S \cup {n})
    BY <2>0, SubsetsOfSlots
  <2>3. k <= Standing
    BY <1>0, <1>2 DEF Jobs, Standing, IsLoader
  <2> QED
    BY <1>0, <2>1, <2>2, <2>3 DEF Lasting
<1> QED
  BY <1>1, <1>2

LEMMA ClaimsStep ==
  ASSUME TypeOK, TableOK, GenOK, NeverUpgraded, GoneOK, ClaimsOK, [Next]_vars
  PROVE  ClaimsOK'
<1>0. slot \in [Slots -> Slot] /\ \A s \in Slots : slot[s] \in Slot /\ EntryOK(slot[s])
  BY DEF TypeOK, TableOK
<1>s. /\ Standing \in Nat /\ Jobs \in Nat /\ i \in Nat
      /\ Claims \subseteq Slots /\ NewClaims \subseteq Slots
      /\ Claims' \subseteq Slots /\ NewClaims' \subseteq Slots
  BY SizeAssumption DEF Standing, Jobs, Claims, NewClaims, TypeOK
<1>c. /\ Cardinality(Claims) \in Nat /\ Cardinality(NewClaims) \in Nat
      /\ Cardinality(Claims') \in Nat /\ Cardinality(NewClaims') \in Nat
  BY <1>s, SubsetsOfSlots
\* Entries keep, or lose, their claims.
<1> DEFINE Keeps(s) == /\ slot[s].st = "none" => slot'[s].st = "none"
                       /\ slot'[s].respawn => slot[s].respawn
                       /\ ~slot'[s].exiting => ~slot[s].exiting
                       /\ slot'[s].just => slot[s].just
<1>k. ASSUME \A s \in Slots : slot'[s] = slot[s] \/ slot'[s].st = "none" \/ Keeps(s)
      PROVE  /\ Cardinality(Claims') <= Cardinality(Claims)
             /\ Cardinality(NewClaims') <= Cardinality(NewClaims)
  <2>1. Claims' \subseteq Claims /\ NewClaims' \subseteq NewClaims
    BY <1>k DEF Claims, NewClaims
  <2> QED
    BY <1>s, <2>1, SubsetsOfSlots
<1>a. ASSUME pc \notin {"start", "reloaded"}, pc' \notin {"start", "reloaded"},
             \A s \in Slots : slot'[s] = slot[s] \/ slot'[s].st = "none" \/ Keeps(s)
      PROVE  ClaimsOK'
  <2>1. Cardinality(Claims') <= Cardinality(Claims)
    BY <1>a, <1>k
  <2>2. Cardinality(Claims) <= Standing
    BY <1>a DEF ClaimsOK
  <2>3. Cardinality(Claims') <= Standing
    BY <1>c, <1>s, <2>1, <2>2
  <2>4. Standing' = Standing
    BY DEF Standing
  <2> QED
    BY <1>a, <2>3, <2>4 DEF ClaimsOK
<1>b. ASSUME UNCHANGED <<pc, mode, i>>,
             \A s \in Slots : slot'[s] = slot[s] \/ slot'[s].st = "none" \/ Keeps(s)
      PROVE  ClaimsOK'
  <2>1. /\ Cardinality(Claims') <= Cardinality(Claims)
        /\ Cardinality(NewClaims') <= Cardinality(NewClaims)
    BY <1>b, <1>k
  <2>2. Standing' = Standing /\ Lasting(i - 1)' = Lasting(i - 1) /\ Lasting(i - 1) \in Int
    BY <1>b, <1>s DEF Standing, Lasting
  <2> HIDE DEF Keeps
  <2> QED
    BY <1>b, <1>c, <1>s, <2>1, <2>2 DEF ClaimsOK
<1>d. \A k \in 1..5 : PhaseFrom(k, flags) \notin {"start", "reloaded"}
  BY PhaseFromIn
<1>e. slot' = slot => \A s \in Slots : slot'[s] = slot[s] \/ slot'[s].st = "none" \/ Keeps(s)
  OBVIOUS
\* Nothing is gone here, so a signal takes claims and gives none.
<1>f. ASSUME NEW signo \in {"QUIT", "TERM", "KILL", "USR1"}, SignalWorkers(signo), pc # "reap"
      PROVE  \A s \in Slots : slot'[s] = slot[s] \/ slot'[s].st = "none" \/ Keeps(s)
  <2>1. \A s \in Slots : slot'[s] = slot[s] \/ slot'[s] = Signalled(slot[s], signo)
    BY <1>f DEF SignalWorkers
  <2>2. \A s \in Slots : slot[s].st # "gone"
    BY <1>f DEF GoneOK
  <2> QED
    BY <1>0, <2>1, <2>2, SignalledIs
<1> USE DEF local, loop, Start
<1> HIDE DEF Keeps
<1>1. CASE StartProcess
  <2>1. /\ pc = "start" /\ i <= Jobs /\ i' = i + 1 /\ UNCHANGED <<pc, mode>>
        /\ mode \in {"boot", "reload"}
    BY <1>1 DEF StartProcess, TypeOK
  <2>2. i >= 1
    BY <2>1 DEF ClaimsOK
  <2>3. /\ \/ Claims' \subseteq Claims
           \/ ~IsLoader(i) /\ \E n \in Slots \ Claims : Claims' \subseteq Claims \cup {n}
        /\ \/ NewClaims' \subseteq NewClaims
           \/ ~IsLoader(i) /\ \E n \in Slots \ NewClaims : NewClaims' \subseteq NewClaims \cup {n}
    <3>1. CASE slot' = slot
      BY <3>1 DEF Claims, NewClaims
    <3>2. CASE SpawnSlot < MaxSlots /\ SpawnAt(SpawnSlot, ~IsLoader(i), mode = "reload", FALSE)
      <4> DEFINE m == SpawnSlot
                 p == [st |-> "run", exited |-> FALSE, exiting |-> FALSE,
                       respawn |-> ~IsLoader(i), just |-> (mode = "reload"),
                       detached |-> FALSE, gen |-> gen]
      <4>1. m \in Slots /\ slot[m].st = "none" /\ slot' = [slot EXCEPT ![m] = p]
        BY <3>2, SpawnSlotFree DEF SpawnAt
      <4>2. p.respawn = ~IsLoader(i)
        OBVIOUS
      <4> HIDE DEF m, p
      <4>3. m \notin Claims /\ m \notin NewClaims
        BY <4>1 DEF Claims, NewClaims
      <4>4. slot'[m] = p /\ \A s \in Slots : s # m => slot'[s] = slot[s]
        BY <1>0, <4>1
      <4>5. CASE IsLoader(i)
        <5>1. Claims' \subseteq Claims
          BY <4>2, <4>4, <4>5 DEF Claims
        <5>2. \A s \in Claims' : s \in Claims /\ slot'[s] = slot[s]
          BY <1>s, <4>3, <4>4, <5>1
        <5>3. NewClaims' \subseteq NewClaims
          BY <5>2 DEF NewClaims
        <5> QED
          BY <5>1, <5>3
      <4>6. CASE ~IsLoader(i)
        <5>1. Claims' \subseteq Claims \cup {m}
          BY <4>4 DEF Claims
        <5>2. NewClaims' \subseteq NewClaims \cup {m}
          BY <4>4, <5>1 DEF NewClaims, Claims
        <5> QED
          BY <4>1, <4>3, <4>6, <5>1, <5>2
      <4> QED
        BY <4>5, <4>6
    <3> QED
      BY <1>1, <3>1, <3>2 DEF StartProcess, SpawnFails
  <2>4. CASE mode = "boot"
    <3>1. Cardinality(Claims) <= Lasting(i - 1)
      BY <2>1, <2>4 DEF ClaimsOK
    <3>2. Cardinality(Claims') <= Lasting(i)
      BY <1>s, <2>1, <2>2, <2>3, <3>1, OneMoreClaim
    <3>3. (i - 1)' = i /\ i' >= 1
      BY <1>s, <2>1
    <3> QED
      BY <2>1, <2>4, <3>2, <3>3 DEF ClaimsOK, Lasting, Standing
  <2>5. CASE mode = "reload"
    <3>1. Cardinality(NewClaims) <= Lasting(i - 1)
      BY <2>1, <2>5 DEF ClaimsOK
    <3>2. Cardinality(NewClaims') <= Lasting(i)
      BY <1>s, <2>1, <2>2, <2>3, <3>1, OneMoreClaim
    <3>3. (i - 1)' = i /\ i' >= 1
      BY <1>s, <2>1
    <3> QED
      BY <2>1, <2>5, <3>2, <3>3 DEF ClaimsOK, Lasting, Standing
  <2> QED
    BY <2>1, <2>4, <2>5
<1>2. CASE StartDone
  <2>1. /\ pc = "start" /\ pc' = ret /\ UNCHANGED <<mode, slot>>
        /\ mode \in {"boot", "reload"} /\ ret \in {"top", "reloaded"}
    BY <1>2 DEF StartDone, TypeOK, NeverUpgraded
  <2>2. mode = "reload" <=> ret = "reloaded"
    BY <2>1 DEF GenOK
  <2>3. Lasting(i - 1) \in Int /\ Lasting(i - 1) <= Standing
    BY <1>s DEF Lasting
  <2>4. Claims' = Claims /\ NewClaims' = NewClaims /\ Standing' = Standing
    BY <2>1 DEF Claims, NewClaims, Standing
  <2>5. CASE mode = "boot"
    <3>1. Cardinality(Claims) <= Lasting(i - 1) /\ pc' = "top"
      BY <2>1, <2>2, <2>5 DEF ClaimsOK
    <3>2. Cardinality(Claims) <= Standing
      BY <1>c, <1>s, <2>3, <3>1
    <3> QED
      BY <2>4, <3>1, <3>2 DEF ClaimsOK
  <2>6. CASE mode = "reload"
    <3>1. Cardinality(NewClaims) <= Lasting(i - 1) /\ pc' = "reloaded"
      BY <2>1, <2>2, <2>6 DEF ClaimsOK
    <3>2. Cardinality(NewClaims) <= Standing
      BY <1>c, <1>s, <2>3, <3>1
    <3> QED
      BY <2>4, <3>1, <3>2 DEF ClaimsOK
  <2> QED
    BY <2>1, <2>5, <2>6
<1>3. CASE Top \/ ReapRunning \/ ReapDone \/ Exit \/ Carry \/ ReconfigureRejected
  <2>1. slot' = slot /\ pc \notin {"start", "reloaded"}
    BY <1>3 DEF Top, ReapRunning, ReapDone, Exit, Carry, ReconfigureRejected, ReapNext
  <2>2. pc' \notin {"start", "reloaded"}
    BY <1>3, <1>d DEF Top, ReapRunning, ReapDone, Exit, Carry, ReconfigureRejected, ReapNext,
         ReapRest
  <2> QED
    BY <1>a, <1>e, <2>1, <2>2
<1>4. CASE Suspend
  <2>1. pc = "suspend" /\ pc' \in {"reap", "check"}
    BY <1>4 DEF Suspend
  <2>2. \A s \in Slots : slot'[s] = Waited(slot[s]) \/ slot'[s] = slot[s]
    BY <1>4 DEF Suspend
  <2>3. \A s \in Slots : slot'[s] = slot[s] \/ slot'[s].st = "none" \/ Keeps(s)
    BY <1>0, <2>2, WaitedIs DEF Keeps
  <2> QED
    BY <1>a, <2>1, <2>3
<1>5. CASE ReapRespawn
  <2>1. pc = "reap" /\ pc' = "reap" /\ slot[i].exited /\ i \in Slots
    BY <1>5, SizeAssumption DEF ReapRespawn, ReapNext, ReapRest, TypeOK, Slots
  <2>2. slot[i].st = "gone"
    BY <1>0, <2>1 DEF EntryOK
  <2>3. \/ slot' = slot
        \/ slot' = [slot EXCEPT ![i].st = "run", ![i].exited = FALSE, ![i].gen = gen]
    BY <1>5 DEF ReapRespawn
  <2>4. \A s \in Slots : \/ slot'[s] = slot[s]
                         \/ /\ s = i
                            /\ slot'[s] = [slot[s] EXCEPT !.st = "run", !.exited = FALSE, !.gen = gen]
    BY <1>0, <2>3
  <2>5. \A s \in Slots : slot'[s] = slot[s] \/ slot'[s].st = "none" \/ Keeps(s)
    <3> SUFFICES ASSUME NEW s \in Slots, slot'[s] # slot[s] PROVE Keeps(s)
      OBVIOUS
    <3> DEFINE p == slot[s]
               q == slot'[s]
    <3>1. p \in Slot /\ p.st = "gone" /\ q = [p EXCEPT !.st = "run", !.exited = FALSE, !.gen = gen]
      BY <1>0, <2>2, <2>4
    <3> HIDE DEF p, q
    <3>2. q.respawn = p.respawn /\ q.exiting = p.exiting /\ q.just = p.just
      BY <3>1 DEF Slot
    <3> QED
      BY <3>1, <3>2 DEF Keeps, p, q
  <2> QED
    BY <1>a, <2>1, <2>5
<1>6. CASE ReapFree
  <2>1. pc = "reap" /\ pc' = "reap" /\ slot' = [slot EXCEPT ![i] = Free]
    BY <1>6 DEF ReapFree, ReapNext, ReapRest
  <2>2. \A s \in Slots : slot'[s] = slot[s] \/ slot'[s] = Free
    BY <1>0, <2>1
  <2> QED
    BY <1>a, <2>1, <2>2, FreeOK
<1>7. CASE Terminate \/ Quit \/ Reopen \/ NoAccept
  <2>1. pc \notin {"start", "reloaded", "reap"}
    BY <1>7 DEF Terminate, Quit, Reopen, NoAccept
  <2>2. pc' \notin {"start", "reloaded"}
    BY <1>7, <1>d DEF Terminate, Quit, Reopen, NoAccept
  <2>3. \A s \in Slots : slot'[s] = slot[s] \/ slot'[s].st = "none" \/ Keeps(s)
    BY <1>7, <1>e, <1>f, <2>1 DEF Terminate, Quit, Reopen, NoAccept
  <2> QED
    BY <1>a, <2>1, <2>2, <2>3
<1>8. CASE ReconfigureNewBinary \/ Restart \/ ChangeBinary
  BY <1>8 DEF NeverUpgraded, ReconfigureNewBinary, Restart, ChangeBinary
<1>9. CASE Reconfigure
  <2>1. /\ pc = "reconfigure" /\ pc' = "start" /\ mode' = "reload" /\ i' = 1 /\ slot' = slot
    BY <1>9 DEF Reconfigure
  <2>2. NewClaims' = {}
    BY <2>1 DEF NewClaims, Claims, GenOK, Reloading
  <2>3. Cardinality(NewClaims') = 0
    BY <2>2, FS_EmptySet
  <2>4. Lasting(i - 1)' = 0
    BY <1>s, <2>1 DEF Lasting, Standing
  <2> QED
    BY <2>1, <2>3, <2>4 DEF ClaimsOK
<1>10. CASE Reloaded
  <2>1. pc = "reloaded" /\ pc' \notin {"start", "reloaded"}
    BY <1>10, <1>d DEF Reloaded
  <2>2. slot' = [s \in Slots |-> IF s < last THEN Signalled(slot[s], "QUIT") ELSE slot[s]]
    BY <1>10 DEF Reloaded, SignalWorkers
  <2>3. ASSUME NEW s \in Slots, s \in Claims'
        PROVE  s \in NewClaims
    <3>1. slot'[s].st # "none" /\ slot'[s].respawn /\ ~slot'[s].exiting
      BY <2>3 DEF Claims
    <3>2. s < last
      <4>1. s >= last => slot[s] = Free
        BY DEF TypeOK
      <4>2. ~(s < last) => slot'[s] = Free
        BY <2>2, <4>1, SizeAssumption DEF TypeOK, Slots
      <4> QED
        BY <3>1, <4>2, FreeOK
    <3> DEFINE p == slot[s]
    <3>3. slot'[s] = Signalled(p, "QUIT") /\ p \in Slot /\ EntryOK(p) /\ ~p.detached
      BY <1>0, <2>2, <3>2 DEF NeverUpgraded
    <3>4. p.st # "none" /\ p.st # "gone" /\ p.respawn
      BY <2>1, <3>1, <3>3, SignalledIs DEF GoneOK
    <3>5. p.just
      BY <3>1, <3>3, <3>4, QuitReaches
    <3>6. ~p.exiting
      <4>1. Signalled(p, "QUIT") = [p EXCEPT !.just = FALSE]
        BY <3>3, <3>4, <3>5, QuitUnmarks
      <4> QED
        BY <3>1, <3>3, <4>1 DEF Slot
    <3> QED
      BY <3>4, <3>5, <3>6 DEF Claims, NewClaims
  <2>4. Claims' \subseteq NewClaims
    BY <1>s, <2>3
  <2>5. Cardinality(Claims') <= Cardinality(NewClaims)
    BY <1>s, <2>4, SubsetsOfSlots
  <2>6. Cardinality(NewClaims) <= Standing
    BY <2>1 DEF ClaimsOK
  <2>7. Cardinality(Claims') <= Standing /\ Standing' = Standing
    BY <1>c, <1>s, <2>5, <2>6 DEF Standing
  <2> QED
    BY <2>1, <2>7 DEF ClaimsOK
<1>11. CASE Alarm \/ UNCHANGED vars
  BY <1>b, <1>e, <1>11 DEF Alarm, vars
<1>12. CASE \E sig \in Admin : Send(sig)
  BY <1>b, <1>e, <1>12 DEF Send
<1>13. CASE \E n \in Slots : ChildLeaves(n) \/ ChildDies(n) \/ ChildFatal(n)
  <2>1. UNCHANGED <<pc, mode, i>>
    BY <1>13 DEF ChildLeaves, ChildDies, ChildFatal, ChildBecomes
  <2>2. PICK n \in Slots, st \in {"zombie", "fatal"} :
          slot[n].st \in Running /\ slot' = [slot EXCEPT ![n].st = st]
    BY <1>13 DEF ChildLeaves, ChildDies, ChildFatal, ChildBecomes, Running
  <2>3. \A s \in Slots : \/ slot'[s] = slot[s]
                         \/ s = n /\ slot'[s] = [slot[s] EXCEPT !.st = st]
    BY <1>0, <2>2
  <2>4. \A s \in Slots : slot'[s] = slot[s] \/ slot'[s].st = "none" \/ Keeps(s)
    BY <1>0, <2>2, <2>3 DEF Slot, Keeps, Running
  <2> QED
    BY <1>b, <2>1, <2>4
<1> QED
  BY <1>1, <1>2, <1>3, <1>4, <1>5, <1>6, <1>7, <1>8, <1>9, <1>10, <1>11, <1>12, <1>13
  DEF Next, Master

\* NoSurplusWorkers, of a master that is not upgraded and whose fork() does not fail: no
\* interleaving of deaths, reloads and signals makes it start a worker twice.
THEOREM NoneTwice ==
  ASSUME NoUpgrade, MaxSpawnFails = 0
  PROVE  Spec => []NoSurplusWorkers
<1>1. Init => GoneOK /\ ClaimsOK
  <2> SUFFICES ASSUME Init PROVE GoneOK /\ ClaimsOK
    OBVIOUS
  <2>1. Claims = {}
    BY DEF Init, Claims, Free
  <2>2. Cardinality(Claims) = 0
    BY <2>1, FS_EmptySet
  <2>3. Lasting(i - 1) = 0
    BY SizeAssumption DEF Init, Lasting, Standing
  <2>4. ClaimsOK
    BY <2>2, <2>3 DEF Init, ClaimsOK
  <2> QED
    BY <2>4 DEF Init, GoneOK, Free
<1>2. TypeOK /\ TableOK /\ GoneOK /\ [Next]_vars => GoneOK'
  BY GoneStep
<1>3. TypeOK /\ TableOK /\ GenOK /\ NeverUpgraded /\ GoneOK /\ ClaimsOK /\ [Next]_vars => ClaimsOK'
  BY ClaimsStep
<1>4. TypeOK /\ TableOK /\ ClaimsOK => NoSurplusWorkers
  <2> SUFFICES ASSUME TypeOK, TableOK, ClaimsOK, pc = "suspend"
               PROVE  Cardinality(Serving) <= Standing
    BY DEF NoSurplusWorkers
  <2>1. Claims \subseteq Slots /\ Serving \subseteq Claims
    BY DEF Serving, Claims, TableOK, EntryOK
  <2>2. /\ Cardinality(Serving) <= Cardinality(Claims)
        /\ Cardinality(Serving) \in Nat /\ Cardinality(Claims) \in Nat /\ Standing \in Nat
    BY <2>1, SubsetsOfSlots, SizeAssumption DEF Standing
  <2>3. Cardinality(Claims) <= Standing
    BY DEF ClaimsOK
  <2> QED
    BY <2>2, <2>3
<1> QED
  BY <1>1, <1>2, <1>3, <1>4, StaysNeverUpgraded, GenAlways, TypeCorrect, PTL DEF Spec
=============================================================================
