--------------------------- MODULE ChannelProofs ---------------------------
(***************************************************************************)
(* The tables of the workers, for any number of slots, of processes and of *)
(* children that die together, as long as the sockets hold what the master *)
(* writes.                                                                 *)
(***************************************************************************)
EXTENDS Channel, FiniteSetTheorems, SequenceTheorems, WellFoundedInduction, TLAPS

\* The types of what is used below.
Types ==
    /\ table \in [Slots -> Entry]
    /\ last \in 0 .. MaxSlots
    /\ view \in [Procs -> [Slots -> Entry]]
    /\ queue \in [Procs -> Seq(Msg)]
    /\ procs \in 0 .. MaxProcs
    /\ i \in Nat
    /\ ch \in Msg

\* A slot in use is below ngx_last_process, holds the descriptor of its process, and
\* no other slot holds that process.
Entries ==
    /\ \A s \in Slots : table[s].pid # None =>
          s < last /\ table[s].fd = table[s].pid /\ table[s].pid \in 1 .. procs
    /\ \A s, t \in Slots : table[s].pid # None /\ table[s].pid = table[t].pid => s = t

\* Nothing is written to a process that is not started, and it is not dead.
NotYet == dead \subseteq 1 .. procs /\ \A p \in Procs : p > procs => queue[p] = <<>>

\* No process is sent more than one message for every process that was started and
\* one for every process that was reaped.
Occupied == {s \in Slots : table[s].pid # None}
Room == \A p \in Procs : Len(queue[p]) <= 2 * procs - Cardinality(Occupied)

\* After reading the messages of q, one who has the entry v for slot s will have e:
\* there is none about s and v is right, or the last one about s says so.
About(q, s) == {k \in 1 .. Len(q) : q[k].slot = s}
Opens(m, e) == m.command = "OPEN" /\ m.pid = e.pid /\ m.fd = e.fd
Told(v, q, s, e) ==
    \/ About(q, s) = {} /\ v.pid = e.pid /\ v.fd = e.fd
    \/ \E k \in About(q, s) : Opens(q[k], e) /\ \A j \in About(q, s) : j <= k

\* Every process knows or will know of all the others, dead ones that are not reaped
\* yet included.
AllTold ==
    \A p \in Alive, s \in Slots :
        table[s].pid \notin {None, p} => Told(view[p][s], queue[p], s, table[s])

ChannelInv == Types /\ Entries /\ NotYet /\ Room /\ AllTold

-----------------------------------------------------------------------------
\* A message about another slot changes nothing of what is told of this one.
LEMMA ToldWritten ==
  ASSUME NEW v, NEW q \in Seq(Msg), NEW m \in Msg, NEW s, NEW e, m.slot # s, Told(v, q, s, e)
  PROVE  Told(v, Written(q, m), s, e)
<1>1. CASE ~(Len(q) < QueueSize)
  BY <1>1 DEF Written
<1>2. CASE Len(q) < QueueSize
  <2> DEFINE r == Append(q, m)
             n == Len(q)
  <2>1. /\ n \in Nat /\ Len(r) = n + 1 /\ r[n + 1] = m
        /\ \A k \in 1 .. n : r[k] = q[k]
    BY AppendProperties
  <2>2. Written(q, m) = r
    BY <1>2 DEF Written
  <2> HIDE DEF r
  <2>3. About(r, s) = About(q, s)
    <3>1. ASSUME NEW k \in 1 .. (n + 1), r[k].slot = s PROVE k \in 1 .. n
      BY <2>1, <3>1
    <3>2. \A k \in 1 .. n : k \in 1 .. (n + 1)
      BY <2>1
    <3> QED
      BY <2>1, <3>1, <3>2 DEF About
  <2>4. \A k \in About(q, s) : r[k] = q[k]
    BY <2>1 DEF About
  <2> QED
    BY <2>2, <2>3, <2>4 DEF Told
<1> QED
  BY <1>1, <1>2

\* A message that is not lost is the last one.
LEMMA ToldOpen ==
  ASSUME NEW v, NEW q \in Seq(Msg), NEW m \in Msg, NEW e, Len(q) < QueueSize, Opens(m, e)
  PROVE  Told(v, Written(q, m), m.slot, e)
<1> DEFINE r == Append(q, m)
           n == Len(q)
<1>1. n \in Nat /\ Len(r) = n + 1 /\ r[n + 1] = m
  BY AppendProperties
<1>2. Written(q, m) = r
  BY DEF Written
<1> HIDE DEF r, n
<1>3. n + 1 \in About(r, m.slot) /\ \A j \in About(r, m.slot) : j <= n + 1
  BY <1>1 DEF About
<1>4. Opens(r[n + 1], e)
  BY <1>1
<1> QED
  BY <1>2, <1>3, <1>4 DEF Told

\* The first message is read: an entry follows the message about it, except that
\* NGX_CMD_CLOSE_CHANNEL leaves the pid.
LEMMA ToldRead ==
  ASSUME NEW v, NEW w, NEW q \in Seq(Msg), NEW s, NEW e, q # <<>>, Told(v, q, s, e),
         Head(q).slot # s => w = v,
         Head(q).slot = s /\ Head(q).command = "OPEN" => w.pid = Head(q).pid /\ w.fd = Head(q).fd
  PROVE  Told(w, Tail(q), s, e)
<1> DEFINE r == Tail(q)
           n == Len(q)
<1>1. n \in Nat \ {0} /\ q[1] = Head(q) /\ r \in Seq(Msg)
  BY EmptySeq, HeadTailProperties
<1>2. Len(r) = n - 1 /\ \A k \in 1 .. (n - 1) : r[k] = q[k + 1]
  BY HeadTailProperties
<1> HIDE DEF r, n
<1>3. ASSUME NEW k \in About(r, s) PROVE k + 1 \in About(q, s) /\ r[k] = q[k + 1] /\ k \in Nat
  <2>1. k \in 1 .. (n - 1) /\ r[k].slot = s
    BY <1>2 DEF About
  <2>2. k + 1 \in 1 .. n
    BY <1>1, <2>1
  <2> QED
    BY <1>2, <2>1, <2>2 DEF About, n
<1>4. ASSUME NEW k \in About(q, s), k # 1 PROVE k - 1 \in About(r, s) /\ r[k - 1] = q[k]
  <2>1. k \in 1 .. n /\ q[k].slot = s
    BY DEF About, n
  <2>2. k - 1 \in 1 .. (n - 1) /\ (k - 1) + 1 = k
    BY <1>1, <1>4, <2>1
  <2>3. r[k - 1] = q[k]
    BY <1>2, <2>2
  <2> QED
    BY <1>2, <2>1, <2>2, <2>3 DEF About
<1>5. 1 \in About(q, s) <=> Head(q).slot = s
  BY <1>1 DEF About, n
<1>6. CASE About(q, s) = {} /\ v.pid = e.pid /\ v.fd = e.fd
  <2>1. About(r, s) = {} /\ w = v
    BY <1>3, <1>5, <1>6
  <2> QED
    BY <1>6, <2>1 DEF Told, r
<1>7. ASSUME NEW k \in About(q, s), Opens(q[k], e), \A j \in About(q, s) : j <= k
      PROVE  Told(w, r, s, e)
  <2>0. k \in Nat
    BY DEF About
  <2>1. CASE k = 1
    <3>1. About(r, s) = {}
      <4> SUFFICES ASSUME NEW j \in About(r, s) PROVE FALSE
        OBVIOUS
      <4>1. j + 1 <= 1 /\ j \in 1 .. (n - 1)
        BY <1>2, <1>3, <1>7, <2>1 DEF About
      <4> QED
        BY <1>1, <4>1
    <3>2. w.pid = e.pid /\ w.fd = e.fd
      BY <1>1, <1>5, <1>7, <2>1 DEF Opens
    <3> QED
      BY <3>1, <3>2 DEF Told
  <2>2. CASE k # 1
    <3>1. k - 1 \in About(r, s) /\ Opens(r[k - 1], e)
      BY <1>4, <1>7, <2>2
    <3>2. ASSUME NEW j \in About(r, s) PROVE j <= k - 1
      <4>1. j + 1 <= k /\ j \in Nat
        BY <1>3, <1>7
      <4> QED
        BY <2>0, <4>1
    <3> QED
      BY <3>1, <3>2 DEF Told
  <2> QED
    BY <2>1, <2>2
<1> QED
  BY <1>6, <1>7 DEF Told, r

-----------------------------------------------------------------------------
\* What is written keeps its type, and one message makes a queue longer by one.
LEMMA SentTypes ==
  ASSUME NEW tab, NEW que \in [Procs -> Seq(Msg)], NEW to, NEW m \in Msg
  PROVE  /\ Sent(tab, que, to, m) \in [Procs -> Seq(Msg)]
         /\ \A p \in Procs : /\ Sent(tab, que, to, m)[p] \in {que[p], Written(que[p], m)}
                             /\ Len(Sent(tab, que, to, m)[p]) <= Len(que[p]) + 1
<1>1. ASSUME NEW p \in Procs
      PROVE  /\ que[p] \in Seq(Msg) /\ Written(que[p], m) \in Seq(Msg)
             /\ Len(que[p]) <= Len(que[p]) + 1 /\ Len(Written(que[p], m)) <= Len(que[p]) + 1
  <2>1. que[p] \in Seq(Msg) /\ Len(que[p]) \in Nat
    BY LenProperties
  <2>2. Append(que[p], m) \in Seq(Msg) /\ Len(Append(que[p], m)) = Len(que[p]) + 1
    BY <2>1, AppendProperties
  <2> QED
    BY <2>1, <2>2 DEF Written
<1>2. ASSUME NEW p \in Procs PROVE Sent(tab, que, to, m)[p] \in {que[p], Written(que[p], m)}
  BY DEF Sent
<1>3. Sent(tab, que, to, m) \in [Procs -> Seq(Msg)]
  BY <1>1 DEF Sent
<1> QED
  BY <1>1, <1>2, <1>3

LEMMA SlotsFinite == IsFiniteSet(Slots)
<1>1. 0 \in Int /\ MaxSlots - 1 \in Int
  BY SizeAssumption
<1> QED
  BY <1>1, FS_Interval DEF Slots

-----------------------------------------------------------------------------
\* A process is started in slot s, with the table tab and the messages que, which are
\* those of the master but for slot s; the process that had the slot is forgotten.
LEMMA SpawnStep ==
  ASSUME Types, Entries, NotYet, NEW s \in Slots, s <= last,
         NEW tab \in [Slots -> Entry], \A t \in Slots \ {s} : tab[t] = table[t],
         NEW que \in [Procs -> Seq(Msg)], \A p \in Procs : p > procs => que[p] = <<>>,
         \A p \in Procs : Len(que[p]) < QueueSize,
         \A p \in Alive, t \in Slots \ {s} :
             table[t].pid \notin {None, p} => Told(view[p][t], que[p], t, table[t]),
         SpawnIn(tab, que, s), dead' = dead \ {table[s].pid}
  PROVE  /\ table' \in [Slots -> Entry] /\ last' \in 0 .. MaxSlots
         /\ view' \in [Procs -> [Slots -> Entry]] /\ queue' \in [Procs -> Seq(Msg)]
         /\ procs' = procs + 1 /\ procs' \in 0 .. MaxProcs
         /\ Entries' /\ NotYet' /\ AllTold'
         /\ \A p \in Procs : Len(queue'[p]) <= Len(que[p]) + 1
         /\ Occupied' = Occupied \cup {s}
<1> DEFINE P == procs + 1
           new == [tab EXCEPT ![s] = [pid |-> P, fd |-> P, exited |-> FALSE]]
           others == {t \in Slots \ {s} : t < last}
           m == [command |-> "OPEN", slot |-> s, pid |-> P, fd |-> P]
<1>1. /\ procs < MaxProcs /\ procs' = P /\ table' = new
      /\ last' = IF s = last THEN last + 1 ELSE last
      /\ view' = [view EXCEPT ![P] = Forked(new, s)]
      /\ queue' = Sent(new, que, others, m)
  BY Zenon DEF SpawnIn
<1>2. /\ procs \in Nat /\ MaxProcs \in Nat /\ P \in Procs /\ P \in Nat /\ P # None
      /\ P \in 0 .. MaxProcs /\ P \notin 1 .. procs /\ \A p \in 1 .. procs : p \in 1 .. P
      /\ \A p \in 1 .. P : p = P \/ p \in 1 .. procs
  <2>1. procs < MaxProcs /\ procs \in Nat /\ MaxProcs \in Nat
    BY <1>1, SizeAssumption DEF Types
  <2> QED
    BY <2>1 DEF Procs, None
<1>3. /\ new \in [Slots -> Entry] /\ new[s].pid = P /\ new[s].fd = P
      /\ \A t \in Slots : t # s => new[t] = table[t]
  <2>1. [pid |-> P, fd |-> P, exited |-> FALSE] \in Entry
    BY <1>2 DEF Entry
  <2> QED
    BY <2>1
<1>4. m \in Msg
  BY <1>2 DEF Msg
<1>5. queue' \in [Procs -> Seq(Msg)] /\ \A p \in Procs : Len(queue'[p]) <= Len(que[p]) + 1
  <2> HIDE DEF new, others, m
  <2> QED
    BY <1>1, <1>4, SentTypes
<1>6. last' \in 0 .. MaxSlots /\ last \in Nat /\ last' \in Nat /\ last <= last' /\ s < last'
  BY <1>1, SizeAssumption DEF Types, Slots
<1> HIDE DEF P, new, others
<1>7. /\ view' \in [Procs -> [Slots -> Entry]]
      /\ \A p \in Procs : p # P => view'[p] = view[p]
      /\ \A t \in Slots : t # s => view'[P][t] = new[t]
  <2>1. /\ Forked(new, s) \in [Slots -> Entry]
        /\ \A t \in Slots : t # s => Forked(new, s)[t] = new[t]
    <3>1. [new[s] EXCEPT !.fd = None] \in Entry
      <4>1. new[s] \in Entry
        BY <1>3
      <4> QED
        BY <4>1 DEF Entry
    <3> QED
      BY <1>3, <3>1 DEF Forked
  <2> QED
    BY <1>1, <1>2, <2>1 DEF Types
<1>8. /\ table'[s].pid = P /\ table'[s].fd = P
      /\ \A t \in Slots : t # s => table'[t] = table[t]
  BY <1>1, <1>3
<1>9. Entries'
  <2>1. ASSUME NEW t \in Slots, table'[t].pid # None
        PROVE  t < last' /\ table'[t].fd = table'[t].pid /\ table'[t].pid \in 1 .. procs'
    <3>1. CASE t = s
      BY <1>1, <1>2, <1>6, <1>8, <3>1 DEF Procs
    <3>2. CASE t # s
      <4>1. t < last /\ table[t].fd = table[t].pid /\ table[t].pid \in 1 .. procs
        BY <1>8, <2>1, <3>2 DEF Entries
      <4>2. t \in Int
        BY SizeAssumption DEF Slots
      <4>3. t < last'
        BY <1>6, <4>1, <4>2
      <4>4. table[t].pid \in 1 .. procs'
        BY <1>1, <1>2, <4>1
      <4> QED
        BY <1>8, <3>2, <4>1, <4>3, <4>4
    <3> QED
      BY <3>1, <3>2
  <2>2. ASSUME NEW t \in Slots, NEW u \in Slots, table'[t].pid # None,
               table'[t].pid = table'[u].pid
        PROVE  t = u
    <3>1. \A x \in Slots : x # s => table'[x].pid # P
      BY <1>2, <1>8 DEF Entries
    <3> QED
      BY <1>8, <2>2, <3>1 DEF Entries
  <2> QED
    BY <2>1, <2>2 DEF Entries
<1>10. ASSUME NEW p \in Procs, p > procs PROVE queue'[p] = que[p]
  <2>1. ASSUME NEW t \in others PROVE new[t].pid # None => new[t].fd # p
    <3>1. t \in Slots /\ t # s
      BY DEF others
    <3>2. CASE table[t].pid # None
      <4>1. table[t].fd \in 1 .. procs
        BY <3>1, <3>2 DEF Entries
      <4> QED
        BY <1>2, <1>3, <1>10, <3>1, <4>1
    <3>3. CASE table[t].pid = None
      BY <1>3, <3>1, <3>3
    <3> QED
      BY <3>2, <3>3
  <2> HIDE DEF m
  <2> QED
    BY <1>1, <2>1 DEF Sent
<1>11. NotYet'
  <2>1. ASSUME NEW p \in Procs, p > procs' PROVE queue'[p] = <<>>
    <3>1. p > procs
      BY <1>1, <1>2, <2>1 DEF Procs, P
    <3> QED
      BY <1>10, <3>1
  <2>2. dead' \subseteq 1 .. procs'
    BY <1>1, <1>2 DEF NotYet
  <2> QED
    BY <2>1, <2>2 DEF NotYet
<1>12. Occupied' = Occupied \cup {s}
  BY <1>2, <1>8 DEF Occupied
<1>13. AllTold'
  <2> SUFFICES ASSUME NEW p \in Alive', NEW t \in Slots, table'[t].pid \notin {None, p}
               PROVE  Told(view'[p][t], queue'[p], t, table'[t])
    BY DEF AllTold
  <2>0. p \in 1 .. P /\ p \notin dead' /\ \E u \in Slots : table'[u].pid = p
    BY <1>1 DEF Alive
  <2>1. CASE p = P
    <3>1. t # s
      BY <1>8, <2>1
    <3>2. P > procs
      BY <1>2 DEF P
    <3>3. queue'[P] = <<>>
      BY <1>2, <1>10, <3>2
    <3>4. view'[P][t] = table'[t]
      BY <1>1, <1>7, <3>1
    <3>5. About(<<>>, t) = {}
      BY DEF About
    <3> QED
      BY <2>1, <3>3, <3>4, <3>5 DEF Told
  <2>2. CASE p # P
    <3>1. PICK u \in Slots : table'[u].pid = p
      BY <2>0
    <3>2. p \in 1 .. procs /\ p \in Procs /\ u # s /\ table[u].pid = p /\ p # None
      BY <1>2, <1>8, <2>0, <2>2, <3>1, SizeAssumption DEF Procs, None, P
    <3>3. u < last /\ table[u].fd = p
      BY <3>2 DEF Entries
    <3>4. p # table[s].pid
      BY <3>2 DEF Entries
    <3>5. p \notin dead
      BY <2>0, <3>4
    <3>6. p \in Alive
      BY <3>2, <3>5 DEF Alive
    <3>7. queue'[p] = Written(que[p], m)
      <4>1. p \notin dead /\ u \in others /\ new[u].fd = p /\ new[u].pid # None
        BY <1>3, <3>2, <3>3, <3>5 DEF others
      <4> HIDE DEF m
      <4> QED
        BY <1>1, <3>2, <4>1 DEF Sent
    <3>8. view'[p] = view[p]
      BY <1>7, <2>2, <3>2
    <3>9. CASE t = s
      <4>1. Opens(m, table'[s]) /\ m.slot = s
        BY <1>8 DEF Opens
      <4> HIDE DEF m
      <4>2. Told(view'[p][t], Written(que[p], m), m.slot, table'[s])
        BY <1>4, <3>2, <4>1, ToldOpen
      <4> QED
        BY <3>7, <3>9, <4>1, <4>2
    <3>10. CASE t # s
      <4>1. Told(view[p][t], que[p], t, table[t])
        BY <1>8, <3>6, <3>10
      <4>2. m.slot # t
        BY <3>10
      <4> HIDE DEF m
      <4>3. Told(view[p][t], Written(que[p], m), t, table[t])
        BY <1>4, <3>2, <4>1, <4>2, ToldWritten
      <4> QED
        BY <1>8, <3>7, <3>8, <3>10, <4>3
    <3> QED
      BY <3>9, <3>10
  <2> QED
    BY <2>1, <2>2
<1> QED
  BY <1>1, <1>2, <1>3, <1>5, <1>6, <1>7, <1>9, <1>11, <1>12, <1>13 DEF P

\* The message about the process that is reaped: it says nothing of the other slots.
LEMMA AnnounceStep ==
  ASSUME Types, Entries, NotYet, AllTold, NEW que, que = Sent(Closed, queue, Listeners, Announced),
         i < last
  PROVE  /\ i \in Slots /\ Closed \in [Slots -> Entry] /\ Announced \in Msg
         /\ \A t \in Slots \ {i} : Closed[t] = table[t]
         /\ que \in [Procs -> Seq(Msg)]
         /\ \A p \in Procs : Len(que[p]) <= Len(queue[p]) + 1
         /\ \A p \in Procs : p > procs => que[p] = <<>>
         /\ \A p \in Alive, t \in Slots \ {i} :
                table[t].pid \notin {None, p} => Told(view[p][t], que[p], t, table[t])
<1>1. i \in Slots
  BY SizeAssumption DEF Types, Slots
<1>2. table[i] \in Entry /\ table[i].pid \in Procs \cup {None}
  BY <1>1 DEF Types, Entry
<1>3. Announced \in Msg /\ Announced.slot = i
  <2>1. ch \in Msg
    BY DEF Types
  <2> QED
    BY <1>1, <1>2, <2>1 DEF Announced, Msg
<1>4. /\ Closed \in [Slots -> Entry] /\ Closed[i].fd = None
      /\ \A t \in Slots : t # i => Closed[t] = table[t]
  <2>1. [table[i] EXCEPT !.fd = None] \in Entry /\ [table[i] EXCEPT !.fd = None].fd = None
    BY <1>2 DEF Entry
  <2>2. Closed = [table EXCEPT ![i] = [table[i] EXCEPT !.fd = None]]
    BY DEF Closed
  <2> QED
    BY <1>1, <2>1, <2>2 DEF Types
<1> DEFINE m == Announced
<1> HIDE DEF m
<1>5. /\ que \in [Procs -> Seq(Msg)]
      /\ \A p \in Procs : /\ que[p] \in {queue[p], Written(queue[p], m)}
                          /\ Len(que[p]) <= Len(queue[p]) + 1
  <2>1. queue \in [Procs -> Seq(Msg)] /\ m \in Msg /\ que = Sent(Closed, queue, Listeners, m)
    BY <1>3 DEF Types, m
  <2> QED
    BY <2>1, SentTypes
<1>6. ASSUME NEW p \in Procs, p > procs PROVE que[p] = <<>>
  <2>1. p \in Nat /\ p # None /\ procs \in Nat /\ p \notin 1 .. procs
    BY <1>6, SizeAssumption DEF Procs, Types, None
  <2>2. ASSUME NEW t \in Listeners, Closed[t].pid # None PROVE Closed[t].fd # p
    <3>1. t \in Slots
      BY DEF Listeners
    <3>2. CASE t = i
      BY <1>4, <2>1, <3>2
    <3>3. CASE t # i
      BY <1>4, <2>1, <2>2, <3>1, <3>3 DEF Entries
    <3> QED
      BY <3>2, <3>3
  <2>3. que[p] = queue[p]
    BY <2>2 DEF Sent, Types
  <2> QED
    BY <1>6, <2>3 DEF NotYet
<1>7. ASSUME NEW p \in Alive, NEW t \in Slots \ {i}, table[t].pid \notin {None, p}
      PROVE  Told(view[p][t], que[p], t, table[t])
  <2>1. p \in Procs /\ queue[p] \in Seq(Msg)
    BY SizeAssumption DEF Alive, Types, Procs
  <2>2. Told(view[p][t], queue[p], t, table[t])
    BY <1>7 DEF AllTold
  <2>3. m \in Msg /\ m.slot # t
    BY <1>3 DEF m
  <2>4. Told(view[p][t], Written(queue[p], m), t, table[t])
    BY <2>1, <2>2, <2>3, ToldWritten
  <2> QED
    BY <1>5, <2>1, <2>2, <2>4
<1> QED
  BY <1>1, <1>3, <1>4, <1>5, <1>6, <1>7

-----------------------------------------------------------------------------
LEMMA ChannelInit == Init => ChannelInv
<1> SUFFICES ASSUME Init PROVE ChannelInv
  OBVIOUS
<1> USE DEF Init
<1>1. Free \in Entry /\ NoMessage \in Msg
  BY SizeAssumption DEF Free, Entry, NoMessage, Msg, None, Slots
<1>2. Types
  BY <1>1, SizeAssumption DEF Types
<1>3. Entries
  BY DEF Entries, Free
<1>4. NotYet
  BY DEF NotYet
<1>5. Room
  <2>1. Occupied = {}
    BY DEF Occupied, Free
  <2>2. Cardinality(Occupied) = 0
    BY <2>1, FS_EmptySet
  <2>3. \A p \in Procs : Len(queue[p]) = 0
    OBVIOUS
  <2> QED
    BY <2>2, <2>3 DEF Room
<1>6. AllTold
  BY DEF AllTold, Alive
<1> QED
  BY <1>2, <1>3, <1>4, <1>5, <1>6 DEF ChannelInv

\* Slots in use, counted.
LEMMA Counting ==
  /\ IsFiniteSet(Occupied) /\ Cardinality(Occupied) \in Nat
  /\ \A s \in Slots : Cardinality(Occupied \cup {s}) =
         IF s \in Occupied THEN Cardinality(Occupied) ELSE Cardinality(Occupied) + 1
  /\ \A s \in Occupied : Cardinality(Occupied \ {s}) = Cardinality(Occupied) - 1
<1>1. IsFiniteSet(Occupied)
  BY SlotsFinite, FS_Subset DEF Occupied
<1>2. Cardinality(Occupied) \in Nat
  BY <1>1, FS_CardinalityType
<1> QED
  BY <1>1, <1>2, FS_AddElement, FS_RemoveElement

\* A set of natural numbers that is not empty has a least element.
LEMMA LeastExists ==
  ASSUME NEW S \in SUBSET Nat, S # {}
  PROVE  \E j \in S : \A k \in S : j <= k
<1>1. \E j \in S : \A k \in S : ~(<<k, j>> \in OpToRel(<, Nat))
  BY WFMin, NatLessThanWellFounded, Zenon
<1>2. ASSUME NEW j \in Nat, NEW k \in Nat, ~(<<k, j>> \in OpToRel(<, Nat))
      PROVE  j <= k
  <2>1. ~(k < j)
    BY <1>2, Zenon DEF OpToRel
  <2> QED
    BY <2>1
<1> QED
  BY <1>1, <1>2

LEMMA StartStep ==
  ASSUME QueueSize >= 2 * MaxProcs, ChannelInv, Start
  PROVE  ChannelInv'
<1> DEFINE free == {s \in 0 .. last - 1 : table[s].pid = None}
           s == IF free = {} THEN last ELSE CHOOSE t \in free : \A u \in free : t <= u
<1>0. Types /\ Entries /\ NotYet /\ Room /\ AllTold
  BY DEF ChannelInv
<1>1. s < MaxSlots /\ SpawnIn(table, queue, s) /\ UNCHANGED <<dead, i, ch>>
  BY Zenon DEF Start
<1>2. s \in Slots /\ s <= last /\ table[s].pid = None
  <2>0. last \in Nat
    BY <1>0 DEF Types
  <2>1. CASE free = {}
    <3>1. s = last
      BY <2>1
    <3>2. last \in Slots
      <4>1. last < MaxSlots
        BY <1>1, <3>1
      <4> QED
        BY <2>0, <4>1, SizeAssumption DEF Slots
    <3>3. ~(last < last) /\ last <= last
      BY <2>0
    <3> HIDE DEF s
    <3> QED
      BY <1>0, <2>0, <3>1, <3>2, <3>3 DEF Entries
  <2>2. CASE free # {}
    <3>1. free \in SUBSET Nat
      BY <2>0
    <3>2. s \in free
      <4> HIDE DEF free
      <4> QED
        BY <2>2, <3>1, LeastExists
    <3>3. s \in 0 .. last - 1 /\ table[s].pid = None
      BY <3>2
    <3> HIDE DEF s
    <3> QED
      BY <1>1, <2>0, <3>3, SizeAssumption DEF Slots
  <2> QED
    BY <2>1, <2>2
<1> HIDE DEF s
<1>3. procs \in Nat /\ procs < MaxProcs /\ MaxProcs \in Nat /\ QueueSize \in Nat
  BY <1>0, <1>1, SizeAssumption DEF Types, SpawnIn
<1>4. ASSUME NEW p \in Procs
      PROVE  /\ Len(queue[p]) \in Nat /\ Len(queue[p]) < QueueSize
             /\ Len(queue[p]) <= 2 * procs - Cardinality(Occupied)
  <2>1. Len(queue[p]) \in Nat /\ Len(queue[p]) <= 2 * procs - Cardinality(Occupied)
    BY <1>0, LenProperties DEF Types, Room
  <2> QED
    BY <1>3, <2>1, Counting
<1>5. dead' = dead \ {table[s].pid}
  BY <1>0, <1>1, <1>2, <1>3 DEF NotYet, None
<1>6. /\ table' \in [Slots -> Entry] /\ last' \in 0 .. MaxSlots
      /\ view' \in [Procs -> [Slots -> Entry]] /\ queue' \in [Procs -> Seq(Msg)]
      /\ procs' = procs + 1 /\ procs' \in 0 .. MaxProcs
      /\ Entries' /\ NotYet' /\ AllTold'
      /\ \A p \in Procs : Len(queue'[p]) <= Len(queue[p]) + 1
      /\ Occupied' = Occupied \cup {s}
  <2>1. table \in [Slots -> Entry] /\ queue \in [Procs -> Seq(Msg)]
    BY <1>0 DEF Types
  <2>2. \A p \in Procs : p > procs => queue[p] = <<>>
    BY <1>0 DEF NotYet
  <2>3. \A p \in Alive, t \in Slots \ {s} :
             table[t].pid \notin {None, p} => Told(view[p][t], queue[p], t, table[t])
    BY <1>0 DEF AllTold
  <2> QED
    BY <1>0, <1>1, <1>2, <1>4, <1>5, <2>1, <2>2, <2>3, SpawnStep
<1>7. Types'
  BY <1>0, <1>1, <1>6 DEF Types
<1>8. Room'
  <2>1. Cardinality(Occupied') = Cardinality(Occupied) + 1 /\ Cardinality(Occupied) \in Nat
    BY <1>2, <1>6, Counting DEF Occupied
  <2>2. ASSUME NEW p \in Procs PROVE Len(queue'[p]) <= 2 * procs' - Cardinality(Occupied')
    <3>1. Len(queue'[p]) \in Nat
      BY <1>6, LenProperties
    <3> QED
      BY <1>3, <1>4, <1>6, <2>1, <3>1
  <2> QED
    BY <2>2 DEF Room
<1> QED
  BY <1>6, <1>7, <1>8 DEF ChannelInv

LEMMA ReapRespawnStep ==
  ASSUME QueueSize >= 2 * MaxProcs, ChannelInv, ReapRespawn
  PROVE  ChannelInv'
<1> DEFINE que == Sent(Closed, queue, Listeners, Announced)
<1>0. Types /\ Entries /\ NotYet /\ Room /\ AllTold
  BY DEF ChannelInv
<1>1. /\ i < last /\ table[i].pid # None /\ SpawnIn(Closed, que, i) /\ i' = i + 1
      /\ dead' = dead \ {table[i].pid}
      /\ ch' = [command |-> "OPEN", slot |-> i, pid |-> procs', fd |-> procs']
  BY Zenon DEF ReapRespawn
<1> HIDE DEF que
<1>2. /\ i \in Slots /\ Closed \in [Slots -> Entry]
      /\ \A t \in Slots \ {i} : Closed[t] = table[t]
      /\ que \in [Procs -> Seq(Msg)]
      /\ \A p \in Procs : Len(que[p]) <= Len(queue[p]) + 1
      /\ \A p \in Procs : p > procs => que[p] = <<>>
      /\ \A p \in Alive, t \in Slots \ {i} :
             table[t].pid \notin {None, p} => Told(view[p][t], que[p], t, table[t])
  BY <1>0, <1>1, AnnounceStep DEF que
<1>3. procs \in Nat /\ procs < MaxProcs /\ MaxProcs \in Nat /\ QueueSize \in Nat
  BY <1>0, <1>1, SizeAssumption DEF Types, SpawnIn
<1>4. ASSUME NEW p \in Procs
      PROVE  /\ Len(que[p]) \in Nat /\ Len(que[p]) < QueueSize
             /\ Len(que[p]) <= 2 * procs - Cardinality(Occupied) + 1
  <2>1. Len(queue[p]) \in Nat /\ Len(queue[p]) <= 2 * procs - Cardinality(Occupied)
    BY <1>0, LenProperties DEF Types, Room
  <2>2. Len(que[p]) \in Nat /\ Len(que[p]) <= Len(queue[p]) + 1
    BY <1>2, LenProperties
  <2> QED
    BY <1>3, <2>1, <2>2, Counting
<1>5. i <= last
  BY <1>0, <1>1 DEF Types
<1>6. /\ table' \in [Slots -> Entry] /\ last' \in 0 .. MaxSlots
      /\ view' \in [Procs -> [Slots -> Entry]] /\ queue' \in [Procs -> Seq(Msg)]
      /\ procs' = procs + 1 /\ procs' \in 0 .. MaxProcs
      /\ Entries' /\ NotYet' /\ AllTold'
      /\ \A p \in Procs : Len(queue'[p]) <= Len(que[p]) + 1
      /\ Occupied' = Occupied \cup {i}
  BY <1>0, <1>1, <1>2, <1>4, <1>5, SpawnStep
<1>7. ch' \in Msg
  <2>1. procs' \in Procs
    BY <1>3, <1>6 DEF Procs
  <2> QED
    BY <1>1, <1>2, <2>1 DEF Msg
<1>8. Types'
  BY <1>0, <1>1, <1>6, <1>7 DEF Types
<1>9. Room'
  <2>1. Cardinality(Occupied') = Cardinality(Occupied) /\ Cardinality(Occupied) \in Nat
    BY <1>1, <1>2, <1>6, Counting DEF Occupied
  <2>2. ASSUME NEW p \in Procs PROVE Len(queue'[p]) <= 2 * procs' - Cardinality(Occupied')
    <3>1. Len(queue'[p]) \in Nat /\ Len(queue'[p]) <= Len(que[p]) + 1
      BY <1>6, LenProperties
    <3> QED
      BY <1>3, <1>4, <1>6, <2>1, <3>1
  <2> QED
    BY <2>2 DEF Room
<1> QED
  BY <1>6, <1>8, <1>9 DEF ChannelInv

LEMMA ReapFreeStep ==
  ASSUME ChannelInv, ReapFree
  PROVE  ChannelInv'
<1>0. Types /\ Entries /\ NotYet /\ Room /\ AllTold
  BY DEF ChannelInv
<1>1. /\ i < last /\ table[i].pid # None /\ i' = i + 1
      /\ queue' = Sent(Closed, queue, Listeners, Announced) /\ ch' = Announced
      /\ table' = [table EXCEPT ![i] = Free]
      /\ last' = IF i = last - 1 THEN last - 1 ELSE last
      /\ dead' = dead \ {table[i].pid} /\ UNCHANGED <<view, procs>>
  BY Zenon DEF ReapFree
<1>2. /\ i \in Slots /\ Announced \in Msg /\ queue' \in [Procs -> Seq(Msg)]
      /\ \A p \in Procs : Len(queue'[p]) <= Len(queue[p]) + 1
      /\ \A p \in Procs : p > procs => queue'[p] = <<>>
      /\ \A p \in Alive, t \in Slots \ {i} :
             table[t].pid \notin {None, p} => Told(view[p][t], queue'[p], t, table[t])
  BY <1>0, <1>1, AnnounceStep
<1>3. /\ table' \in [Slots -> Entry] /\ table'[i].pid = None
      /\ \A t \in Slots : t # i => table'[t] = table[t]
  <2>1. Free \in Entry /\ Free.pid = None
    BY DEF Free, Entry
  <2> QED
    BY <1>0, <1>1, <1>2, <2>1 DEF Types
<1>4. last \in Nat /\ last' \in 0 .. MaxSlots /\ i \in Nat /\ i' \in Nat
  BY <1>0, <1>1, SizeAssumption DEF Types
<1>5. Types'
  BY <1>0, <1>1, <1>2, <1>3, <1>4 DEF Types
<1>6. Entries'
  <2>1. ASSUME NEW t \in Slots, table'[t].pid # None
        PROVE  t < last' /\ table'[t].fd = table'[t].pid /\ table'[t].pid \in 1 .. procs'
    <3>1. t # i /\ table'[t] = table[t]
      BY <1>3, <2>1
    <3>2. t < last /\ table[t].fd = table[t].pid /\ table[t].pid \in 1 .. procs
      BY <1>0, <2>1, <3>1 DEF Entries
    <3>3. t \in Int
      BY SizeAssumption DEF Slots
    <3>4. t < last'
      BY <1>1, <1>4, <3>1, <3>2, <3>3
    <3> QED
      BY <1>1, <3>1, <3>2, <3>4
  <2>2. ASSUME NEW t \in Slots, NEW u \in Slots, table'[t].pid # None,
               table'[t].pid = table'[u].pid
        PROVE  t = u
    BY <1>0, <1>3, <2>2 DEF Entries
  <2> QED
    BY <2>1, <2>2 DEF Entries
<1>7. NotYet'
  BY <1>0, <1>1, <1>2 DEF NotYet
<1>8. Room'
  <2>1. Occupied' = Occupied \ {i} /\ i \in Occupied
    BY <1>1, <1>2, <1>3 DEF Occupied
  <2>2. Cardinality(Occupied') = Cardinality(Occupied) - 1 /\ Cardinality(Occupied) \in Nat
    BY <2>1, Counting
  <2>3. ASSUME NEW p \in Procs PROVE Len(queue'[p]) <= 2 * procs' - Cardinality(Occupied')
    <3>1. Len(queue'[p]) \in Nat /\ Len(queue'[p]) <= Len(queue[p]) + 1
      BY <1>2, LenProperties
    <3>2. Len(queue[p]) \in Nat /\ Len(queue[p]) <= 2 * procs - Cardinality(Occupied)
      BY <1>0, LenProperties DEF Types, Room
    <3>3. procs' = procs /\ procs \in Nat
      BY <1>0, <1>1 DEF Types
    <3> QED
      BY <2>2, <3>1, <3>2, <3>3
  <2> QED
    BY <2>3 DEF Room
<1>9. AllTold'
  <2> SUFFICES ASSUME NEW p \in Alive', NEW t \in Slots, table'[t].pid \notin {None, p}
               PROVE  Told(view'[p][t], queue'[p], t, table'[t])
    BY DEF AllTold
  <2>1. PICK u \in Slots : table'[u].pid = p
    BY DEF Alive
  <2>2. p \in 1 .. procs /\ p \notin dead' /\ p # None
    BY <1>0, <1>1 DEF Alive, None, Types
  <2>3. u # i /\ table[u].pid = p
    BY <1>3, <2>1, <2>2
  <2>4. p # table[i].pid
    BY <1>0, <1>1, <1>2, <2>3 DEF Entries
  <2>5. p \in Alive
    BY <1>1, <2>2, <2>3, <2>4 DEF Alive
  <2>6. t # i /\ table'[t] = table[t]
    BY <1>3
  <2> QED
    BY <1>1, <1>2, <2>5, <2>6
<1> QED
  BY <1>5, <1>6, <1>7, <1>8, <1>9 DEF ChannelInv

\* The process p dies.
LEMMA DieStep ==
  ASSUME ChannelInv, NEW p \in Procs, Die(p)
  PROVE  ChannelInv'
<1>0. Types /\ Entries /\ NotYet /\ Room /\ AllTold
  BY DEF ChannelInv
<1>1. /\ p \in Alive /\ dead' = dead \cup {p} /\ queue' = [queue EXCEPT ![p] = <<>>]
      /\ view' = [view EXCEPT ![p] = [s \in Slots |-> Free]]
      /\ UNCHANGED <<table, last, procs, i, ch>>
  BY DEF Die
<1>2. Types'
  <2>1. [s \in Slots |-> Free] \in [Slots -> Entry] /\ <<>> \in Seq(Msg)
    BY DEF Free, Entry
  <2> QED
    BY <1>0, <1>1, <2>1 DEF Types
<1>3. Entries'
  BY <1>0, <1>1 DEF Entries
<1>4. NotYet'
  BY <1>0, <1>1 DEF NotYet, Alive, Types
<1>5. Room'
  <2>1. Occupied' = Occupied
    BY <1>1 DEF Occupied
  <2>2. ASSUME NEW q \in Procs PROVE Len(queue'[q]) <= 2 * procs' - Cardinality(Occupied')
    <3>1. Len(queue[q]) \in Nat /\ Len(queue[q]) <= 2 * procs - Cardinality(Occupied)
      BY <1>0, LenProperties DEF Types, Room
    <3>2. queue'[q] = queue[q] \/ Len(queue'[q]) = 0
      BY <1>0, <1>1 DEF Types
    <3>3. procs \in Nat /\ Cardinality(Occupied) \in Nat
      BY <1>0, Counting DEF Types
    <3> QED
      BY <1>1, <2>1, <3>1, <3>2, <3>3
  <2> QED
    BY <2>2 DEF Room
<1>6. AllTold'
  <2>1. ASSUME NEW q \in Alive'
        PROVE  q \in Alive /\ queue'[q] = queue[q] /\ view'[q] = view[q]
    <3>1. q \in Alive /\ q # p
      BY <1>1 DEF Alive
    <3>2. q \in Procs
      BY <1>0, <3>1, SizeAssumption DEF Alive, Types, Procs
    <3> QED
      BY <1>0, <1>1, <3>1, <3>2 DEF Types
  <2> QED
    BY <1>0, <1>1, <2>1 DEF AllTold
<1> QED
  BY <1>2, <1>3, <1>4, <1>5, <1>6 DEF ChannelInv

\* The process p has read the first message: what it says is what p has.
LEMMA ReadStep ==
  ASSUME ChannelInv, NEW p \in Alive, queue[p] # <<>>,
         view' \in [Procs -> [Slots -> Entry]],
         \A q \in Procs : q # p => view'[q] = view[q],
         \A s \in Slots : Head(queue[p]).slot # s => view'[p][s] = view[p][s],
         \A s \in Slots : Head(queue[p]).slot = s /\ Head(queue[p]).command = "OPEN" =>
             view'[p][s].pid = Head(queue[p]).pid /\ view'[p][s].fd = Head(queue[p]).fd,
         queue' = [queue EXCEPT ![p] = Tail(queue[p])],
         UNCHANGED <<table, last, dead, procs, i, ch>>
  PROVE  ChannelInv'
<1>0. Types /\ Entries /\ NotYet /\ Room /\ AllTold
  BY DEF ChannelInv
<1>1. p \in Procs /\ p <= procs /\ procs \in Nat /\ p \in Nat
  BY <1>0, SizeAssumption DEF Alive, Types, Procs
<1>2. queue[p] \in Seq(Msg) /\ Tail(queue[p]) \in Seq(Msg)
      /\ Len(Tail(queue[p])) = Len(queue[p]) - 1 /\ Len(queue[p]) \in Nat
  BY <1>0, <1>1, HeadTailProperties, LenProperties DEF Types
<1>5. /\ queue' \in [Procs -> Seq(Msg)] /\ queue'[p] = Tail(queue[p])
      /\ \A q \in Procs : q # p => queue'[q] = queue[q]
  BY <1>0, <1>1, <1>2 DEF Types
<1>6. Types'
  BY <1>0, <1>5 DEF Types
<1>7. Entries'
  BY <1>0 DEF Entries
<1>8. NotYet'
  <2>1. ASSUME NEW q \in Procs, q > procs PROVE queue'[q] = <<>>
    <3>1. q # p
      BY <1>1, <2>1
    <3> QED
      BY <1>0, <1>5, <2>1, <3>1 DEF NotYet
  <2> QED
    BY <1>0, <2>1 DEF NotYet
<1>9. Room'
  <2>1. Occupied' = Occupied
    BY DEF Occupied
  <2>2. ASSUME NEW q \in Procs PROVE Len(queue'[q]) <= 2 * procs' - Cardinality(Occupied')
    <3>1. Len(queue[q]) \in Nat /\ Len(queue[q]) <= 2 * procs - Cardinality(Occupied)
      BY <1>0, LenProperties DEF Types, Room
    <3>2. Len(queue'[q]) = Len(queue[q]) \/ Len(queue'[q]) = Len(queue[q]) - 1
      BY <1>2, <1>5
    <3> QED
      BY <1>1, <2>1, <3>1, <3>2, Counting
  <2> QED
    BY <2>2 DEF Room
<1>10. AllTold'
  <2> SUFFICES ASSUME NEW q \in Alive', NEW s \in Slots, table'[s].pid \notin {None, q}
               PROVE  Told(view'[q][s], queue'[q], s, table'[s])
    BY DEF AllTold
  <2>1. q \in Alive /\ q \in Procs
    BY <1>0, SizeAssumption DEF Alive, Types, Procs
  <2>2. Told(view[q][s], queue[q], s, table[s])
    BY <1>0, <2>1 DEF AllTold
  <2>3. CASE q # p
    BY <1>5, <2>1, <2>2, <2>3
  <2>4. CASE q = p
    <3>1. Told(view'[p][s], Tail(queue[p]), s, table[s])
      BY <1>2, <2>2, <2>4, ToldRead
    <3> QED
      BY <1>5, <2>4, <3>1
  <2> QED
    BY <2>3, <2>4
<1> QED
  BY <1>6, <1>7, <1>8, <1>9, <1>10 DEF ChannelInv

\* One entry of one table is assigned.
Assigned(f, g, p, s, e) ==
    /\ g \in [Procs -> [Slots -> Entry]] /\ g[p][s] = e
    /\ \A q \in Procs : q # p => g[q] = f[q]
    /\ \A t \in Slots : t # s => g[p][t] = f[p][t]

LEMMA EntryAssigned ==
  ASSUME NEW f \in [Procs -> [Slots -> Entry]], NEW p \in Procs, NEW s \in Slots,
         NEW e \in Entry
  PROVE  Assigned(f, [f EXCEPT ![p] = [f[p] EXCEPT ![s] = e]], p, s, e)
<1> DEFINE w == [f[p] EXCEPT ![s] = e]
           g == [f EXCEPT ![p] = w]
<1>1. f[p] \in [Slots -> Entry]
  OBVIOUS
<1>2. w \in [Slots -> Entry] /\ w[s] = e /\ \A t \in Slots : t # s => w[t] = f[p][t]
  BY <1>1
<1> HIDE DEF w
<1>3. g \in [Procs -> [Slots -> Entry]] /\ g[p] = w /\ \A q \in Procs : q # p => g[q] = f[q]
  BY <1>2
<1> HIDE DEF g
<1>4. Assigned(f, g, p, s, e)
  BY <1>2, <1>3 DEF Assigned
<1> QED
  BY <1>4 DEF g, w

LEMMA ReadOpenStep ==
  ASSUME ChannelInv, NEW p \in Procs, ReadOpen(p)
  PROVE  ChannelInv'
<1> DEFINE m == Head(queue[p])
           s == m.slot
           e == [view[p][s] EXCEPT !.pid = m.pid]
           f == [view EXCEPT ![p] = [view[p] EXCEPT ![s] = e]]
           d == [f[p][s] EXCEPT !.fd = m.fd]
<1>1. /\ p \in Alive /\ queue[p] # <<>> /\ m.command = "OPEN"
      /\ view' = [view EXCEPT ![p][s].pid = m.pid, ![p][s].fd = m.fd]
      /\ queue' = [queue EXCEPT ![p] = Tail(queue[p])]
      /\ UNCHANGED <<table, last, dead, procs, i, ch>>
  BY DEF ReadOpen
<1>2. m \in Msg /\ view \in [Procs -> [Slots -> Entry]]
  BY <1>1, HeadTailProperties DEF ChannelInv, Types
<1>3. s \in Slots /\ m.pid \in Procs \cup {None} /\ m.fd \in Procs \cup {None}
  BY <1>2 DEF Msg
<1>4. view' = [f EXCEPT ![p] = [f[p] EXCEPT ![s] = d]]
  BY <1>1
<1>5. view[p][s] \in Entry
  BY <1>2, <1>3
<1>6. e \in Entry /\ e.pid = m.pid
  BY <1>3, <1>5 DEF Entry
<1> HIDE DEF e
<1>7. Assigned(view, f, p, s, e)
  BY <1>2, <1>3, <1>6, EntryAssigned
<1> HIDE DEF f
<1>8. d \in Entry /\ d.pid = m.pid /\ d.fd = m.fd
  <2>1. f[p][s] = e
    BY <1>7 DEF Assigned
  <2> QED
    BY <1>3, <1>6, <2>1 DEF Entry
<1> HIDE DEF d
<1>9. Assigned(f, view', p, s, d)
  <2>1. f \in [Procs -> [Slots -> Entry]]
    BY <1>7 DEF Assigned
  <2> QED
    BY <1>3, <1>4, <1>8, <2>1, EntryAssigned
<1>10. /\ view' \in [Procs -> [Slots -> Entry]]
       /\ \A q \in Procs : q # p => view'[q] = view[q]
       /\ \A t \in Slots : s # t => view'[p][t] = view[p][t]
       /\ \A t \in Slots : s = t => view'[p][t].pid = m.pid /\ view'[p][t].fd = m.fd
  BY <1>7, <1>8, <1>9 DEF Assigned
<1> QED
  BY <1>1, <1>10, ReadStep

LEMMA ReadCloseStep ==
  ASSUME ChannelInv, NEW p \in Procs, ReadClose(p)
  PROVE  ChannelInv'
<1> DEFINE m == Head(queue[p])
           s == m.slot
           e == [view[p][s] EXCEPT !.fd = None]
<1>1. /\ p \in Alive /\ queue[p] # <<>> /\ m.command = "CLOSE"
      /\ view' = [view EXCEPT ![p][s].fd = None]
      /\ queue' = [queue EXCEPT ![p] = Tail(queue[p])]
      /\ UNCHANGED <<table, last, dead, procs, i, ch>>
  BY DEF ReadClose
<1>2. m \in Msg /\ view \in [Procs -> [Slots -> Entry]]
  BY <1>1, HeadTailProperties DEF ChannelInv, Types
<1>3. s \in Slots
  BY <1>2 DEF Msg
<1>4. view' = [view EXCEPT ![p] = [view[p] EXCEPT ![s] = e]]
  BY <1>1
<1>5. view[p][s] \in Entry
  BY <1>2, <1>3
<1>6. e \in Entry
  BY <1>5 DEF Entry
<1> HIDE DEF e
<1>7. Assigned(view, view', p, s, e)
  BY <1>2, <1>3, <1>4, <1>6, EntryAssigned
<1>8. /\ view' \in [Procs -> [Slots -> Entry]]
      /\ \A q \in Procs : q # p => view'[q] = view[q]
      /\ \A t \in Slots : s # t => view'[p][t] = view[p][t]
  BY <1>7 DEF Assigned
<1> QED
  BY <1>1, <1>8, ReadStep

\* An action that changes nothing of the tables but who has exited.
LEMMA SameTables ==
  ASSUME ChannelInv, table' \in [Slots -> Entry], i' \in Nat, ch' \in Msg,
         \A s \in Slots : table'[s].pid = table[s].pid /\ table'[s].fd = table[s].fd,
         UNCHANGED <<last, dead, view, queue, procs>>
  PROVE  ChannelInv'
<1>0. Types /\ Entries /\ NotYet /\ Room /\ AllTold
  BY DEF ChannelInv
<1>1. Types'
  BY <1>0 DEF Types
<1>2. Entries' /\ NotYet'
  BY <1>0 DEF Entries, NotYet
<1>3. Room'
  <2>1. Occupied' = Occupied
    BY DEF Occupied
  <2> QED
    BY <1>0, <2>1 DEF Room
<1>4. AllTold'
  <2>1. Alive' = Alive
    BY DEF Alive
  <2>2. ASSUME NEW p \in Alive, NEW s \in Slots, table[s].pid \notin {None, p}
        PROVE  Told(view[p][s], queue[p], s, table'[s])
    <3>1. Told(view[p][s], queue[p], s, table[s])
      BY <1>0, <2>2 DEF AllTold
    <3>2. \A m : Opens(m, table'[s]) <=> Opens(m, table[s])
      BY DEF Opens
    <3> QED
      BY <3>1, <3>2 DEF Told
  <2> QED
    BY <2>1, <2>2 DEF AllTold
<1> QED
  BY <1>1, <1>2, <1>3, <1>4 DEF ChannelInv

LEMMA ChannelStep ==
  QueueSize >= 2 * MaxProcs /\ ChannelInv /\ [Next]_vars => ChannelInv'
<1> SUFFICES ASSUME QueueSize >= 2 * MaxProcs, ChannelInv, [Next]_vars PROVE ChannelInv'
  OBVIOUS
<1>0. table \in [Slots -> Entry] /\ i \in Nat /\ i + 1 \in Nat /\ 0 \in Nat /\ ch \in Msg
      /\ NoMessage \in Msg
  BY SizeAssumption DEF ChannelInv, Types, NoMessage, Msg, Slots, None
<1>1. CASE Start
  BY <1>1, StartStep
<1>2. CASE Reap
  <2>1. /\ table' = [s \in Slots |-> IF table[s].pid \in dead THEN [table[s] EXCEPT !.exited = TRUE]
                                     ELSE table[s]]
        /\ UNCHANGED <<last, dead, view, queue, procs, i, ch>>
    BY <1>2 DEF Reap
  <2>2. ASSUME NEW s \in Slots
        PROVE  table'[s] \in Entry /\ table'[s].pid = table[s].pid /\ table'[s].fd = table[s].fd
    <3>1. table[s] \in Entry
      BY <1>0
    <3>2. table'[s] = table[s] \/ table'[s] = [table[s] EXCEPT !.exited = TRUE]
      BY <2>1
    <3> QED
      BY <3>1, <3>2 DEF Entry
  <2>3. table' \in [Slots -> Entry]
    BY <2>1, <2>2
  <2> QED
    BY <1>0, <2>1, <2>2, <2>3, SameTables
<1>3. CASE ReapSkip
  BY <1>0, <1>3, SameTables DEF ReapSkip
<1>4. CASE ReapRespawn
  BY <1>4, ReapRespawnStep
<1>5. CASE ReapFree
  BY <1>5, ReapFreeStep
<1>6. CASE ReapDone
  BY <1>0, <1>6, SameTables DEF ReapDone
<1>7. ASSUME NEW p \in Procs, Die(p) \/ ReadOpen(p) \/ ReadClose(p) PROVE ChannelInv'
  BY <1>7, DieStep, ReadOpenStep, ReadCloseStep
<1>8. CASE UNCHANGED vars
  BY <1>0, <1>8, SameTables DEF vars
<1> QED
  BY <1>1, <1>2, <1>3, <1>4, <1>5, <1>6, <1>7, <1>8 DEF Next

\* One who has read all messages knows what it was told.
LEMMA ChannelFollows == ChannelInv => LivingAreReachable
<1> SUFFICES ASSUME ChannelInv, NEW p \in Procs, UpToDate(p), NEW s \in Slots,
                    table[s].pid \in Alive \ {p}
             PROVE  view[p][s].pid = table[s].pid /\ view[p][s].fd = table[s].fd
  BY DEF LivingAreReachable
<1>1. p \in Alive /\ queue[p] = <<>>
  BY DEF UpToDate
<1>2. table[s].pid \notin {None, p}
  BY DEF Alive, None, ChannelInv, Types
<1>3. Told(view[p][s], <<>>, s, table[s])
  BY <1>1, <1>2 DEF ChannelInv, AllTold
<1>4. About(<<>>, s) = {}
  BY DEF About
<1> QED
  BY <1>3, <1>4 DEF Told

-----------------------------------------------------------------------------
\* For any number of slots and processes, however many children die at a time and
\* whatever becomes of their slots: a worker that has read all that the master wrote
\* (ngx_pass_open_channel(), ngx_reap_children()) has the right pid and the right
\* descriptor for every other process that lives, if its socket holds two messages
\* for every process that is started.  (A socket that is full loses messages:
\* ngx_write_channel() has "TODO: NGX_AGAIN".)
THEOREM Reachable ==
    QueueSize >= 2 * MaxProcs => (Spec => []LivingAreReachable)
<1> SUFFICES ASSUME QueueSize >= 2 * MaxProcs PROVE Spec => []LivingAreReachable
  OBVIOUS
<1>1. ChannelInv /\ [Next]_vars => ChannelInv'
  BY ChannelStep
<1> QED
  BY <1>1, ChannelInit, ChannelFollows, PTL DEF Spec
=============================================================================
