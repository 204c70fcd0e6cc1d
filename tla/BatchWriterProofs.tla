-------------------------- MODULE BatchWriterProofs --------------------------
(***************************************************************************)
(* Proofs about BatchWriter, for any number of timers and callers and any  *)
(* number of records: the lock's queue, the order and completeness of what *)
(* is appended, and what a flush or a close that returned has achieved.    *)
(***************************************************************************)
EXTENDS BatchWriter, SequenceTheorems, TLAPS

-----------------------------------------------------------------------------
(* The inductive invariant.                                                *)

Labels == {"free", "sleep", "queued", "append", "drain", "orphan", "returned"}
Tasks == {"none", "running", "ok", "failed"}

\* A flush at one of these places is in the lock's queue.
InQueue == {"queued", "append", "drain"}

\* Where a flush is, and what that says of its task.
PcInv ==
    /\ pc \in [Flusher -> Labels] /\ task \in [Flusher -> Tasks]
    /\ timer \in Timer \cup {NoTimer}
    /\ \A t \in Timer : pc[t] = "sleep" <=> timer = t
    /\ \A c \in Caller : pc[c] # "sleep"
    /\ \A f \in Flusher : task[f] = "none" <=> pc[f] \notin {"append", "drain", "orphan"}

\* The queue holds each flush that is at the lock, once, and all but its first
\* wait.
QueueInv ==
    /\ queue \in Seq(Flusher)
    /\ \A i, j \in 1..Len(queue) : queue[i] = queue[j] => i = j
    /\ \A i \in 1..Len(queue) : pc[queue[i]] \in InQueue
    /\ \A i \in 2..Len(queue) : pc[queue[i]] = "queued"
    /\ \A f \in Flusher : pc[f] \in InQueue => \E i \in 1..Len(queue) : queue[i] = f

DataInv ==
    /\ written \in 0..MaxRecords
    /\ buf \in Seq(Nat) /\ log \in Seq(Nat) /\ batch \in [Flusher -> Seq(Nat)]
    /\ mark \in [Caller -> Nat]
    /\ \A f \in Flusher : task[f] = "none" => batch[f] = <<>>
    /\ \A c \in Caller : mark[c] <= written

\* What the lock's holder is appending.
Held == IF queue = <<>> THEN <<>> ELSE InFlight(Head(queue))

Order == log \o Held \o buf = Numbers(written)

\* A flush that returned, or whose append goes well, covers its call.
Covered(c) ==
    /\ pc[c] = "returned" => mark[c] <= Len(log)
    /\ pc[c] = "append" => mark[c] <= Len(log) + Len(InFlight(c))

\* What holds as long as no append was abandoned.
Strict ==
    /\ Order
    /\ \A c \in Caller : Covered(c)
    /\ \A f \in Flusher : pc[f] # "orphan"

Base == PcInv /\ QueueInv /\ DataInv

IInv == Base /\ (abandoned \/ Strict)

-----------------------------------------------------------------------------
(* The queue.                                                              *)

\* The queue while nobody comes or goes, and only its first moves.
LEMMA QueueFrame ==
    ASSUME QueueInv, queue' = queue,
           \A f \in Flusher : pc'[f] \in InQueue <=> pc[f] \in InQueue,
           \A i \in 2..Len(queue) : pc'[queue[i]] = pc[queue[i]]
    PROVE  QueueInv'
<1>1. \A i \in 1..Len(queue) : queue[i] \in Flusher
  BY DEF QueueInv
<1> QED BY <1>1 DEF QueueInv

\* A flush asks for the lock.
LEMMA Enqueue ==
    ASSUME QueueInv, NEW f \in Flusher, pc[f] \notin InQueue,
           queue' = Append(queue, f), pc'[f] = "queued",
           \A g \in Flusher \ {f} : pc'[g] = pc[g] \/ {pc[g], pc'[g]} \cap InQueue = {}
    PROVE  QueueInv' /\ (queue # <<>> => queue' # <<>> /\ Head(queue') = Head(queue))
                     /\ (queue = <<>> => queue' # <<>> /\ Head(queue') = f)
<1> DEFINE n == Len(queue)
<1>1. /\ n \in Nat /\ queue' \in Seq(Flusher) /\ Len(queue') = n + 1
      /\ queue'[n + 1] = f
      /\ \A i \in 1..n : queue'[i] = queue[i]
  BY DEF QueueInv
<1>2. \A i \in 1..n : queue[i] \in Flusher /\ queue[i] # f /\ pc'[queue[i]] = pc[queue[i]]
  BY DEF QueueInv
<1>3. \A i \in 1..Len(queue') : i \in 1..n \/ i = n + 1
  BY <1>1
<1> HIDE DEF n
<1>4. \A i, j \in 1..Len(queue') : queue'[i] = queue'[j] => i = j
  <2>1. \A i, j \in 1..n : queue[i] = queue[j] => i = j
    BY DEF QueueInv, n
  <2> QED BY <1>1, <1>2, <1>3, <2>1
<1>5. \A i \in 1..Len(queue') : pc'[queue'[i]] \in InQueue
  <2>1. \A i \in 1..n : pc[queue[i]] \in InQueue
    BY DEF QueueInv, n
  <2> QED BY <1>1, <1>2, <1>3, <2>1 DEF InQueue
<1>6. \A i \in 2..Len(queue') : pc'[queue'[i]] = "queued"
  <2>1. \A i \in 2..n : pc[queue[i]] = "queued"
    BY DEF QueueInv, n
  <2> QED BY <1>1, <1>2, <1>3, <2>1
<1>7. \A g \in Flusher : pc'[g] \in InQueue => \E i \in 1..Len(queue') : queue'[i] = g
  <2>1. \A g \in Flusher : pc[g] \in InQueue => \E i \in 1..n : queue[i] = g
    BY DEF QueueInv, n
  <2>2. n + 1 \in 1..Len(queue') /\ \A i \in 1..n : i \in 1..Len(queue')
    BY <1>1
  <2>3. ASSUME NEW g \in Flusher \ {f}, pc'[g] \in InQueue PROVE pc[g] \in InQueue
    BY <2>3
  <2> QED BY <1>1, <2>1, <2>2, <2>3
<1>8. /\ queue # <<>> => queue' # <<>> /\ Head(queue') = Head(queue)
      /\ queue = <<>> => queue' # <<>> /\ Head(queue') = f
  BY <1>1 DEF QueueInv, n
<1> QED BY <1>1, <1>4, <1>5, <1>6, <1>7, <1>8 DEF QueueInv

\* A flush leaves the queue.  If it was the first, all that are left wait; if
\* not, the first stays.
LEMMA Dequeue ==
    ASSUME QueueInv, NEW f \in Flusher, Release(f), pc'[f] \notin InQueue,
           \A g \in Flusher \ {f} : pc'[g] = pc[g]
    PROVE  /\ QueueInv'
           /\ Head(queue) = f => \A i \in 1..Len(queue') : pc'[queue'[i]] = "queued"
           /\ Head(queue) # f => queue' # <<>> /\ queue # <<>> /\ Head(queue') = Head(queue)
<1> DEFINE n == Len(queue)
<1>1. PICK k \in 1..n : /\ queue[k] = f
                        /\ queue' = [j \in 1..n - 1 |-> IF j < k THEN queue[j] ELSE queue[j + 1]]
  BY DEF Release, QueueInv
<1>2. n \in Nat /\ \A i \in 1..n : queue[i] \in Flusher
  BY DEF QueueInv
<1> HIDE DEF n
<1> DEFINE old(j) == IF j < k THEN j ELSE j + 1
<1>3. /\ queue' \in Seq(Flusher) /\ Len(queue') = n - 1
      /\ \A j \in 1..n - 1 : queue'[j] = queue[old(j)]
  BY <1>1, <1>2
<1>4. \A j \in 1..n - 1 : old(j) \in 1..n /\ old(j) # k /\ (j >= 2 => old(j) >= 2)
  BY <1>1, <1>2
<1>5. \A i, j \in 1..n - 1 : old(i) = old(j) => i = j
  BY <1>1, <1>2
<1>6. \A i \in 1..n : i # k => \E j \in 1..n - 1 : old(j) = i
  <2> SUFFICES ASSUME NEW i \in 1..n, i # k PROVE \E j \in 1..n - 1 : old(j) = i
    OBVIOUS
  <2>1. CASE i < k
    <3>1. i \in 1..n - 1 /\ old(i) = i
      BY <1>1, <1>2, <2>1
    <3> QED BY <3>1
  <2>2. CASE i > k
    <3>1. i - 1 \in 1..n - 1 /\ old(i - 1) = i
      BY <1>1, <1>2, <2>2
    <3> QED BY <3>1
  <2> QED BY <1>1, <1>2, <2>1, <2>2
<1>7. k = 1 => \A j \in 1..n - 1 : old(j) >= 2
  OBVIOUS
<1>8. k # 1 => 1 \in 1..n - 1 /\ old(1) = 1
  BY <1>1, <1>2
<1> HIDE DEF old
<1>9. \A i, j \in 1..n : queue[i] = queue[j] => i = j
  BY DEF QueueInv, n
<1>10. \A j \in 1..n - 1 : queue'[j] \in Flusher \ {f} /\ pc'[queue'[j]] = pc[queue[old(j)]]
  BY <1>1, <1>2, <1>3, <1>4, <1>9
<1>11. \A i, j \in 1..n - 1 : queue'[i] = queue'[j] => i = j
  BY <1>3, <1>4, <1>5, <1>9
<1>12. \A j \in 1..n - 1 : pc'[queue'[j]] \in InQueue
  <2>1. \A i \in 1..n : pc[queue[i]] \in InQueue
    BY DEF QueueInv, n
  <2> QED BY <1>4, <1>10, <2>1
<1>13. \A i \in 2..n : pc[queue[i]] = "queued"
  BY DEF QueueInv, n
<1>14. \A j \in 2..n - 1 : pc'[queue'[j]] = "queued"
  <2>1. \A j \in 2..n - 1 : j \in 1..n - 1 /\ old(j) \in 2..n
    BY <1>2, <1>4
  <2> QED BY <1>10, <1>13, <2>1
<1>15. \A g \in Flusher : pc'[g] \in InQueue => \E j \in 1..n - 1 : queue'[j] = g
  <2> SUFFICES ASSUME NEW g \in Flusher \ {f}, pc'[g] \in InQueue
               PROVE  \E j \in 1..n - 1 : queue'[j] = g
    OBVIOUS
  <2>1. PICK i \in 1..n : queue[i] = g
    BY DEF QueueInv, n
  <2>2. PICK j \in 1..n - 1 : old(j) = i
    BY <1>1, <1>6, <2>1
  <2> QED BY <1>3, <2>1, <2>2
<1>16. QueueInv'
  BY <1>3, <1>11, <1>12, <1>14, <1>15 DEF QueueInv
<1>17. Head(queue) = queue[1] /\ queue # <<>> /\ 1 \in 1..n
  BY <1>1, <1>2 DEF QueueInv, n
<1>18. ASSUME Head(queue) = f PROVE \A i \in 1..Len(queue') : pc'[queue'[i]] = "queued"
  <2>1. k = 1
    BY <1>1, <1>9, <1>17, <1>18
  <2>2. \A j \in 1..n - 1 : old(j) \in 2..n
    BY <1>2, <1>4, <1>7, <2>1
  <2> QED BY <1>3, <1>10, <1>13, <2>2
<1>19. ASSUME Head(queue) # f PROVE queue' # <<>> /\ Head(queue') = Head(queue)
  <2>1. 1 \in 1..n - 1 /\ old(1) = 1
    BY <1>1, <1>8, <1>17, <1>19
  <2>2. queue'[1] = queue[1] /\ Len(queue') >= 1
    BY <1>2, <1>3, <2>1
  <2> QED BY <1>3, <1>17, <2>2
<1> QED BY <1>16, <1>17, <1>18, <1>19

\* A flush in its append has the lock.
LEMMA AtHead ==
    ASSUME QueueInv, NEW f \in Flusher, pc[f] \in {"append", "drain"}
    PROVE  queue # <<>> /\ Head(queue) = f
<1>1. PICK i \in 1..Len(queue) : queue[i] = f
  BY DEF QueueInv, InQueue
<1>2. i = 1
  BY <1>1 DEF QueueInv
<1> QED BY <1>1, <1>2 DEF QueueInv

\* While everybody in the queue waits, nothing is being appended.
LEMMA HeldNone ==
    ASSUME Base, \A i \in 1..Len(queue) : pc[queue[i]] = "queued"
    PROVE  Held = <<>>
<1> SUFFICES ASSUME queue # <<>> PROVE InFlight(Head(queue)) = <<>>
  BY DEF Held
<1>1. Head(queue) \in Flusher /\ pc[Head(queue)] = "queued"
  BY DEF Base, QueueInv
<1> QED BY <1>1 DEF Base, PcInv, DataInv, InFlight

LEMMA HeldNoneNext ==
    ASSUME Base', \A i \in 1..Len(queue') : pc'[queue'[i]] = "queued"
    PROVE  Held' = <<>>
<1> SUFFICES ASSUME queue' # <<>> PROVE InFlight(Head(queue))' = <<>>
  BY DEF Held
<1>1. Head(queue') \in Flusher /\ pc'[Head(queue')] = "queued"
  BY DEF Base, QueueInv
<1> QED BY <1>1 DEF Base, PcInv, DataInv, InFlight

\* The head of the queue and its task decide what is being appended.
LEMMA HeldFrame ==
    ASSUME Base, UNCHANGED <<task, batch>>,
           queue # <<>> => queue' # <<>> /\ Head(queue') = Head(queue),
           queue = <<>> => queue' = <<>> \/ (Head(queue') \in Flusher /\ task[Head(queue')] = "none")
    PROVE  Held' = Held
BY DEF Base, DataInv, Held, InFlight

LEMMA HeldType ==
    ASSUME Base
    PROVE  Held \in Seq(Nat) /\ \A f \in Flusher : InFlight(f) \in Seq(Nat)
<1>1. \A f \in Flusher : InFlight(f) \in Seq(Nat)
  BY EmptySeq DEF Base, DataInv, InFlight
<1>2. queue # <<>> => Head(queue) \in Flusher
  BY DEF Base, QueueInv
<1> QED BY <1>1, <1>2, EmptySeq DEF Held

\* A step that leaves the data alone keeps what Strict says.
LEMMA StrictFrame ==
    ASSUME Strict, UNCHANGED <<log, written, buf>>, Held' = Held,
           \A c \in Caller :
               \/ pc'[c] \notin {"returned", "append"}
               \/ pc'[c] = pc[c] /\ mark'[c] = mark[c] /\ InFlight(c)' = InFlight(c),
           \A f \in Flusher : pc'[f] # "orphan"
    PROVE  Strict'
BY DEF Strict, Order, Covered

-----------------------------------------------------------------------------
(* Sequences.                                                              *)

LEMMA NumbersNext ==
    ASSUME NEW n \in Nat
    PROVE  /\ Numbers(n) \in Seq(Nat) /\ Len(Numbers(n)) = n
           /\ Append(Numbers(n), n + 1) = Numbers(n + 1)
<1>1. Numbers(n) \in Seq(Nat) /\ Len(Numbers(n)) = n
  BY DEF Numbers
<1>2. Append(Numbers(n), n + 1) \in Seq(Nat) /\ Numbers(n + 1) \in Seq(Nat)
  BY <1>1 DEF Numbers
<1>3. Len(Append(Numbers(n), n + 1)) = n + 1 /\ Len(Numbers(n + 1)) = n + 1
  BY <1>1 DEF Numbers
<1>4. \A i \in 1..n + 1 : Append(Numbers(n), n + 1)[i] = i /\ Numbers(n + 1)[i] = i
  BY <1>1 DEF Numbers
<1> QED BY <1>1, <1>2, <1>3, <1>4, SeqEqual

\* The three parts, regrouped.
LEMMA Regroup ==
    ASSUME NEW l \in Seq(Nat), NEW h \in Seq(Nat), NEW b \in Seq(Nat)
    PROVE  /\ (l \o <<>>) \o b = (l \o b) \o <<>>
           /\ (l \o h) \o b = ((l \o h) \o <<>>) \o b
           /\ (l \o h) \o b = (l \o <<>>) \o (h \o b)
           /\ Len((l \o h) \o b) = Len(l) + Len(h) + Len(b)
           /\ \A x \in Nat : (l \o h) \o Append(b, x) = Append((l \o h) \o b, x)
<1>1. l \o h \in Seq(Nat) /\ h \o b \in Seq(Nat) /\ l \o b \in Seq(Nat) /\ l \o <<>> = l
      /\ Len(l \o h) = Len(l) + Len(h)
  BY ConcatProperties, ConcatEmptySeq
<1>2. (l \o b) \o <<>> = l \o b /\ (l \o h) \o <<>> = l \o h
  BY <1>1, ConcatEmptySeq
<1>3. (l \o h) \o b = l \o (h \o b)
  <2>1. (l \o h) \o b \in Seq(Nat) /\ l \o (h \o b) \in Seq(Nat)
    BY <1>1, ConcatProperties
  <2>2. Len((l \o h) \o b) = Len(l \o (h \o b))
    BY <1>1, ConcatProperties
  <2>3. \A i \in 1..Len((l \o h) \o b) : ((l \o h) \o b)[i] = (l \o (h \o b))[i]
    BY <1>1
  <2> QED BY <2>1, <2>2, <2>3, SeqEqual
<1>4. Len((l \o h) \o b) = Len(l) + Len(h) + Len(b)
  BY <1>1, ConcatProperties
<1>5. ASSUME NEW x \in Nat
      PROVE  (l \o h) \o Append(b, x) = Append((l \o h) \o b, x)
  <2> DEFINE u == l \o h
  <2>1. u \in Seq(Nat)
    BY <1>1
  <2> HIDE DEF u
  <2>2. u \o Append(b, x) = Append(u \o b, x)
    BY <2>1
  <2> QED BY <2>2 DEF u
<1> QED BY <1>1, <1>2, <1>3, <1>4, <1>5

-----------------------------------------------------------------------------
(* The invariant holds at the start and every step keeps it.               *)

LEMMA InitIInv == Init => IInv
<1> SUFFICES ASSUME Init PROVE IInv
  OBVIOUS
<1> USE RolesDistinct, Bounds DEF Init, Flusher
<1>1. PcInv
  BY DEF PcInv, Labels, Tasks
<1>2. QueueInv
  BY DEF QueueInv, InQueue
<1>3. DataInv
  BY DEF DataInv
<1>4. Strict
  <2>1. Held = <<>> /\ Numbers(0) = <<>>
    BY DEF Held, Numbers
  <2> QED BY <2>1 DEF Strict, Order, Covered
<1> QED BY <1>1, <1>2, <1>3, <1>4 DEF IInv, Base

\* A step of whoever is not in the queue and stays out of it.
LEMMA OutsideQueue ==
    ASSUME Base, NEW f \in Flusher, NEW l, pc[f] \notin InQueue, l \notin InQueue,
           UNCHANGED <<queue, task, batch>>,
           \A g \in Flusher : pc'[g] = IF g = f THEN l ELSE pc[g]
    PROVE  QueueInv' /\ Held' = Held
<1>1. QueueInv'
  <2>1. \A i \in 2..Len(queue) : queue[i] \in Flusher /\ pc[queue[i]] = "queued"
    BY DEF Base, QueueInv
  <2>2. \A i \in 2..Len(queue) : pc'[queue[i]] = pc[queue[i]]
    BY <2>1 DEF InQueue
  <2> QED BY <2>2, QueueFrame DEF Base
<1>2. Held' = Held
  BY DEF Held, InFlight
<1> QED BY <1>1, <1>2

LEMMA WriteStep ==
    ASSUME IInv, Write
    PROVE  IInv'
<1> USE RolesDistinct, Bounds
<1>1. Base /\ PcInv /\ DataInv
  BY DEF IInv, Base
<1>2. /\ written < MaxRecords /\ written' = written + 1 /\ buf' = Append(buf, written + 1)
      /\ UNCHANGED <<queue, mark, task, batch, log, abandoned>>
  BY DEF Write
<1>3. PcInv' /\ QueueInv' /\ Held' = Held /\ \A c \in Caller : pc'[c] = pc[c]
  <2>1. CASE timer # NoTimer
    <3>1. UNCHANGED <<timer, pc, queue, task, batch>>
      BY <2>1 DEF Write
    <3> QED BY <1>1, <3>1 DEF Base, PcInv, QueueInv, Held, InFlight
  <2>2. CASE timer = NoTimer
    <3>1. PICK t \in Timer : pc[t] = "free" /\ timer' = t /\ pc' = [pc EXCEPT ![t] = "sleep"]
      BY <2>2 DEF Write, Goto
    <3>2. PcInv'
      BY <1>1, <1>2, <2>2, <3>1 DEF PcInv, Labels, Flusher
    <3>3. QueueInv' /\ Held' = Held
      BY <1>1, <1>2, <3>1, OutsideQueue DEF PcInv, Flusher, InQueue
    <3> QED BY <1>1, <3>1, <3>2, <3>3 DEF PcInv, Flusher
  <2> QED BY <2>1, <2>2
<1>4. DataInv'
  BY <1>1, <1>2 DEF DataInv
<1>5. ASSUME Strict PROVE Strict'
  <2>1. Order'
    <3>1. (log \o Held) \o Append(buf, written + 1) = Append((log \o Held) \o buf, written + 1)
      BY <1>1, HeldType, Regroup DEF DataInv
    <3>2. Append(Numbers(written), written + 1) = Numbers(written + 1)
      <4>1. written \in Nat
        BY <1>1 DEF DataInv
      <4> QED BY <4>1, NumbersNext
    <3> QED BY <1>2, <1>3, <1>5, <3>1, <3>2 DEF Strict, Order
  <2>2. \A f \in Flusher : pc'[f] # "orphan"
    <3>1. \A t \in Timer : pc'[t] = pc[t] \/ pc'[t] = "sleep"
      BY <1>1 DEF Write, Goto, PcInv, Flusher
    <3> QED BY <1>3, <1>5, <3>1 DEF Strict, Flusher
  <2> QED BY <1>2, <1>3, <1>5, <2>1, <2>2 DEF Strict, Covered, InFlight
<1> QED BY <1>2, <1>3, <1>4, <1>5, Zenon DEF IInv, Base

\* A flush that finds an error pending goes nowhere near the lock, one that
\* does not asks for it; either way the data stays.
LEMMA AskStep ==
    ASSUME IInv, NEW f \in Flusher, pc[f] \notin InQueue, PcInv',
           \/ queue' = queue /\ pc'[f] = "free"
           \/ queue' = Append(queue, f) /\ pc'[f] = "queued",
           pc[f] # "orphan",
           \A g \in Flusher \ {f} : pc'[g] = pc[g] \/ (pc[g] = "sleep" /\ pc'[g] = "free"),
           \A c \in Caller : mark'[c] = IF c = f THEN written ELSE mark[c],
           mark' \in [Caller -> Nat],
           UNCHANGED <<written, buf, task, batch, log, abandoned>>
    PROVE  IInv'
<1>1. Base /\ PcInv /\ DataInv /\ QueueInv
  BY DEF IInv, Base
<1>2. task[f] = "none"
  BY <1>1 DEF PcInv, InQueue
<1>3. QueueInv' /\ Held' = Held
  <2>1. CASE queue' = queue /\ pc'[f] = "free"
    <3>1. \A g \in Flusher : pc'[g] \in InQueue <=> pc[g] \in InQueue
      BY <2>1 DEF InQueue
    <3>2. \A i \in 2..Len(queue) : queue[i] \in Flusher /\ pc[queue[i]] = "queued"
      BY <1>1 DEF QueueInv
    <3>3. \A i \in 2..Len(queue) : pc'[queue[i]] = pc[queue[i]]
      BY <2>1, <3>2 DEF InQueue
    <3>4. QueueInv'
      BY <1>1, <2>1, <3>1, <3>3, QueueFrame
    <3> QED BY <2>1, <3>4 DEF Held, InFlight
  <2>2. CASE queue' = Append(queue, f) /\ pc'[f] = "queued"
    <3>1. \A g \in Flusher \ {f} : pc'[g] = pc[g] \/ {pc[g], pc'[g]} \cap InQueue = {}
      BY DEF InQueue
    <3>2. /\ QueueInv'
          /\ queue # <<>> => queue' # <<>> /\ Head(queue') = Head(queue)
          /\ queue = <<>> => queue' # <<>> /\ Head(queue') = f
      BY <1>1, <2>2, <3>1, Enqueue
    <3> QED BY <1>1, <1>2, <3>2, HeldFrame
  <2> QED BY <2>1, <2>2
<1>4. DataInv'
  <2>1. written \in Nat
    BY <1>1, Bounds DEF DataInv
  <2>2. ASSUME NEW c \in Caller PROVE mark'[c] <= written
    <3>1. mark[c] <= written /\ written <= written
      BY <1>1, <2>1 DEF DataInv
    <3>2. mark'[c] = IF c = f THEN written ELSE mark[c]
      OBVIOUS
    <3> QED BY <3>1, <3>2
  <2> QED BY <1>1, <2>1, <2>2 DEF DataInv
<1>5. ASSUME Strict PROVE Strict'
  <2>1. \A g \in Flusher : pc'[g] # "orphan"
    BY <1>5 DEF Strict
  <2>2. ASSUME NEW c \in Caller
        PROVE  \/ pc'[c] \notin {"returned", "append"}
               \/ pc'[c] = pc[c] /\ mark'[c] = mark[c] /\ InFlight(c)' = InFlight(c)
    BY DEF Flusher, InFlight
  <2> QED BY <1>3, <1>5, <2>1, <2>2, StrictFrame
<1> QED BY <1>1, <1>3, <1>4, <1>5, Zenon DEF IInv, Base

LEMMA TimerFiresStep ==
    ASSUME IInv, NEW t \in Timer, TimerFires(t)
    PROVE  IInv'
<1> USE RolesDistinct
<1>1. Base /\ PcInv /\ DataInv /\ t \in Flusher /\ t \notin Caller
  BY DEF IInv, Base, Flusher
<1>2. PcInv'
  BY <1>1 DEF TimerFires, Goto, PcInv, Labels, Flusher
<1>3. /\ \/ queue' = queue /\ pc'[t] = "free"
         \/ queue' = Append(queue, t) /\ pc'[t] = "queued"
      /\ \A g \in Flusher \ {t} : pc'[g] = pc[g]
      /\ pc[t] = "sleep"
      /\ UNCHANGED <<written, buf, mark, task, batch, log, abandoned>>
  BY <1>1 DEF TimerFires, Goto, PcInv
<1> QED BY <1>1, <1>2, <1>3, AskStep DEF DataInv, InQueue

LEMMA CallStep ==
    ASSUME IInv, NEW c \in Caller, FlushBegin(c) \/ CloseBegin(c)
    PROVE  IInv'
<1> USE RolesDistinct
<1>1. Base /\ PcInv /\ DataInv /\ c \in Flusher /\ c \notin Timer
  BY DEF IInv, Base, Flusher
<1>2. PcInv'
  <2>1. CASE FlushBegin(c)
    BY <1>1, <2>1 DEF FlushBegin, Goto, PcInv, Labels, Flusher
  <2>2. CASE CloseBegin(c)
    BY <1>1, <2>2 DEF CloseBegin, PcInv, Labels, Flusher
  <2> QED BY <2>1, <2>2
<1>3. /\ \/ queue' = queue /\ pc'[c] = "free"
         \/ queue' = Append(queue, c) /\ pc'[c] = "queued"
      /\ \A g \in Flusher \ {c} : pc'[g] = pc[g] \/ (pc[g] = "sleep" /\ pc'[g] = "free")
  <2>1. CASE FlushBegin(c)
    BY <1>1, <2>1 DEF FlushBegin, Goto, PcInv
  <2>2. CASE CloseBegin(c)
    BY <1>1, <2>2 DEF CloseBegin, PcInv, Flusher
  <2> QED BY <2>1, <2>2
<1>4. /\ pc[c] \in {"free", "returned"} /\ mark' = [mark EXCEPT ![c] = written]
      /\ UNCHANGED <<written, buf, task, batch, log, abandoned>>
  BY DEF FlushBegin, CloseBegin
<1>5. mark' \in [Caller -> Nat] /\ \A d \in Caller : mark'[d] = IF d = c THEN written ELSE mark[d]
  BY <1>1, <1>4 DEF DataInv
<1> QED BY <1>1, <1>2, <1>3, <1>4, <1>5, AskStep DEF InQueue

LEMMA TakeStep ==
    ASSUME IInv, NEW f \in Flusher, Take(f)
    PROVE  IInv'
<1>1. Base /\ PcInv /\ DataInv /\ QueueInv
  BY DEF IInv, Base
<1>2. /\ pc[f] = "queued" /\ Head(queue) = f
      /\ batch' = [batch EXCEPT ![f] = buf] /\ buf' = <<>>
      /\ task' = [task EXCEPT ![f] = "running"] /\ pc' = [pc EXCEPT ![f] = "append"]
      /\ UNCHANGED <<written, timer, queue, mark, log, abandoned>>
  BY DEF Take, Goto
<1>3. PcInv'
  BY <1>1, <1>2 DEF PcInv, Labels, Tasks, Flusher
<1>4. queue # <<>> /\ queue[1] = f /\ 1 \in 1..Len(queue)
  <2>1. \E i \in 1..Len(queue) : queue[i] = f
    BY <1>1, <1>2 DEF QueueInv, InQueue
  <2> QED BY <1>1, <1>2, <2>1 DEF QueueInv
<1>5. QueueInv'
  <2>1. \A i \in 2..Len(queue) : queue[i] \in Flusher /\ queue[i] # f
    BY <1>1, <1>4 DEF QueueInv
  <2>2. /\ \A g \in Flusher : pc'[g] \in InQueue <=> pc[g] \in InQueue
        /\ \A i \in 2..Len(queue) : pc'[queue[i]] = pc[queue[i]]
    BY <1>1, <1>2, <2>1 DEF PcInv, InQueue
  <2> QED BY <1>1, <1>2, <2>2, QueueFrame
<1>6. DataInv'
  BY <1>1, <1>2, <1>3 DEF DataInv, PcInv
<1>7. Held = <<>> /\ Held' = buf /\ InFlight(f)' = buf
  <2>1. \A i \in 1..Len(queue) : pc[queue[i]] = "queued"
    BY <1>1, <1>2, <1>4 DEF QueueInv
  <2>2. InFlight(f)' = buf
    BY <1>1, <1>2 DEF InFlight, PcInv, DataInv
  <2> QED BY <1>1, <1>2, <1>4, <2>1, <2>2, HeldNone DEF Held, InFlight
<1>8. ASSUME Strict PROVE Strict'
  <2>1. /\ log \in Seq(Nat) /\ buf \in Seq(Nat) /\ <<>> \in Seq(Nat)
        /\ (log \o <<>>) \o buf = Numbers(written)
    BY <1>1, <1>7, <1>8, EmptySeq DEF DataInv, Strict, Order
  <2>2. /\ (log \o <<>>) \o buf = (log \o buf) \o <<>>
        /\ Len((log \o <<>>) \o buf) = Len(log) + Len(buf)
    BY <2>1, Regroup, EmptySeq
  <2>3. Order'
    BY <1>2, <1>7, <2>1, <2>2 DEF Order
  <2>4. \A c \in Caller : Covered(c)'
    <3>1. written = Len(log) + Len(buf)
      <4>1. written \in Nat
        BY <1>1, Bounds DEF DataInv
      <4> QED BY <2>1, <2>2, <4>1, NumbersNext
    <3>2. \A c \in Caller : c = f => Covered(c)'
      BY <1>1, <1>2, <1>7, <3>1 DEF Covered, DataInv, PcInv
    <3>3. ASSUME NEW c \in Caller, c # f PROVE Covered(c)'
      <4>1. pc'[c] = pc[c] /\ mark'[c] = mark[c] /\ InFlight(c)' = InFlight(c) /\ log' = log
        BY <1>1, <1>2, <3>3 DEF PcInv, DataInv, InFlight, Flusher
      <4> QED BY <1>8, <4>1 DEF Strict, Covered
    <3> QED BY <3>2, <3>3
  <2>5. \A g \in Flusher : pc'[g] # "orphan"
    BY <1>1, <1>2, <1>8 DEF Strict, PcInv
  <2> QED BY <2>3, <2>4, <2>5 DEF Strict
<1> QED BY <1>2, <1>3, <1>5, <1>6, <1>8, Zenon DEF IInv, Base

\* A flush leaves the queue with nothing of its own under way.
LEMMA TakeNothingStep ==
    ASSUME IInv, NEW f \in Flusher, TakeNothing(f)
    PROVE  IInv'
<1> USE RolesDistinct
<1>1. Base /\ PcInv /\ DataInv /\ QueueInv
  BY DEF IInv, Base
<1> DEFINE l == IF f \in Caller THEN "returned" ELSE "free"
<1>2. /\ pc[f] = "queued" /\ Head(queue) = f /\ buf = <<>> /\ Release(f)
      /\ pc' = [pc EXCEPT ![f] = l]
      /\ UNCHANGED <<written, buf, timer, mark, task, batch, log, abandoned>>
  BY DEF TakeNothing, Return, Goto
<1>3. PcInv'
  BY <1>1, <1>2 DEF PcInv, Labels, Flusher
<1>4. QueueInv' /\ \A i \in 1..Len(queue') : pc'[queue'[i]] = "queued"
  BY <1>1, <1>2, Dequeue DEF PcInv, InQueue
<1>5. DataInv'
  BY <1>1, <1>2 DEF DataInv
<1>6. Held = <<>> /\ Held' = <<>>
  <2>1. Base'
    BY <1>3, <1>4, <1>5 DEF Base
  <2>2. \A i \in 1..Len(queue) : pc[queue[i]] = "queued"
    BY <1>1, <1>2 DEF QueueInv
  <2> QED BY <1>1, <1>4, <2>1, <2>2, HeldNone, HeldNoneNext
<1>7. ASSUME Strict PROVE Strict'
  <2>1. Order'
    BY <1>2, <1>6, <1>7 DEF Strict, Order
  <2>2. written = Len(log)
    <3>1. /\ log \in Seq(Nat) /\ (log \o <<>>) \o <<>> = Numbers(written)
      BY <1>1, <1>2, <1>6, <1>7 DEF DataInv, Strict, Order
    <3>2. (log \o <<>>) \o <<>> = log
      BY <3>1, ConcatEmptySeq
    <3>3. written \in Nat
      BY <1>1, Bounds DEF DataInv
    <3> QED BY <3>1, <3>2, <3>3, NumbersNext
  <2>3. \A c \in Caller : Covered(c)'
    <3>1. ASSUME NEW c \in Caller, c = f PROVE Covered(c)'
      BY <1>1, <1>2, <2>2, <3>1 DEF Covered, DataInv, PcInv
    <3>2. ASSUME NEW c \in Caller, c # f PROVE Covered(c)'
      BY <1>1, <1>2, <1>7, <3>2 DEF Strict, Covered, InFlight, PcInv, Flusher
    <3> QED BY <3>1, <3>2
  <2>4. \A g \in Flusher : pc'[g] # "orphan"
    BY <1>1, <1>2, <1>7 DEF Strict, PcInv
  <2> QED BY <2>1, <2>3, <2>4 DEF Strict
<1> QED BY <1>2, <1>3, <1>4, <1>5, <1>7, Zenon DEF IInv, Base

LEMMA AppendEndsStep ==
    ASSUME IInv, NEW f \in Flusher, AppendOk(f) \/ AppendFails(f)
    PROVE  IInv'
<1>1. Base /\ PcInv /\ DataInv /\ QueueInv
  BY DEF IInv, Base
<1>2. /\ task[f] = "running" /\ UNCHANGED <<written, buf, timer, queue, pc, mark, batch, abandoned>>
      /\ \/ task' = [task EXCEPT ![f] = "ok"] /\ log' = log \o batch[f]
         \/ task' = [task EXCEPT ![f] = "failed"] /\ log' = log
  BY DEF AppendOk, AppendFails
<1>3. /\ pc[f] \in {"append", "drain", "orphan"} /\ batch[f] \in Seq(Nat) /\ log \in Seq(Nat)
      /\ InFlight(f) = batch[f]
  BY <1>1, <1>2 DEF PcInv, DataInv, InFlight
<1>4. PcInv'
  BY <1>1, <1>2, <1>3 DEF PcInv, Tasks
<1>5. QueueInv'
  BY <1>1, <1>2 DEF QueueInv
<1>6. DataInv'
  <2>1. log' \in Seq(Nat)
    <3>1. log \o batch[f] \in Seq(Nat)
      BY <1>3, ConcatProperties
    <3> QED BY <1>2, <1>3, <3>1
  <2> QED BY <1>1, <1>2, <2>1 DEF DataInv, PcInv
<1>7. \A g \in Flusher \ {f} : InFlight(g)' = InFlight(g)
  BY <1>1, <1>2 DEF InFlight, PcInv
<1>8. ASSUME Strict PROVE Strict'
  <2>1. queue # <<>> /\ Head(queue) = f
    BY <1>1, <1>3, <1>8, AtHead DEF Strict
  <2>2. Held = batch[f] /\ Held' = InFlight(f)'
    BY <1>2, <1>3, <2>1 DEF Held, InFlight
  <2>3. \A g \in Flusher : pc'[g] # "orphan"
    BY <1>2, <1>8 DEF Strict
  <2>4. CASE task' = [task EXCEPT ![f] = "ok"] /\ log' = log \o batch[f]
    <3>1. InFlight(f)' = <<>>
      BY <1>1, <2>4 DEF InFlight, PcInv
    <3>2. Order'
      <4>1. (log \o batch[f]) \o buf = ((log \o batch[f]) \o <<>>) \o buf
        BY <1>1, <1>3, Regroup DEF DataInv
      <4> QED BY <1>2, <1>8, <2>2, <2>4, <3>1, <4>1 DEF Strict, Order
    <3>3. Len(log') = Len(log) + Len(batch[f]) /\ Len(log) \in Nat /\ Len(batch[f]) \in Nat
      BY <1>3, <2>4, ConcatProperties
    <3>4. ASSUME NEW c \in Caller PROVE Covered(c)'
      <4>1. pc'[c] = pc[c] /\ mark'[c] = mark[c] /\ mark[c] \in Nat
        BY <1>1, <1>2 DEF DataInv
      <4>2. Covered(c)
        BY <1>8 DEF Strict
      <4>3. CASE c = f
        <5>1. pc[c] # "returned" /\ Len(InFlight(c)') = 0
          BY <1>3, <3>1, <4>3
        <5> QED BY <1>3, <3>3, <4>1, <4>2, <4>3, <5>1 DEF Covered
      <4>4. CASE c # f
        <5>1. InFlight(c)' = InFlight(c) /\ Len(InFlight(c)) \in Nat
          BY <1>1, <1>7, <4>4, HeldType, LenProperties DEF Flusher
        <5> QED BY <3>3, <4>1, <4>2, <5>1 DEF Covered
      <4> QED BY <4>3, <4>4
    <3> QED BY <2>3, <3>2, <3>4 DEF Strict
  <2>5. CASE task' = [task EXCEPT ![f] = "failed"] /\ log' = log
    <3>1. InFlight(f)' = batch[f]
      BY <1>1, <1>2, <2>5 DEF InFlight, PcInv
    <3>2. \A c \in Caller : pc'[c] = pc[c] /\ mark'[c] = mark[c] /\ InFlight(c)' = InFlight(c)
      BY <1>2, <1>3, <1>7, <3>1 DEF Flusher
    <3> QED BY <1>2, <1>8, <2>2, <2>3, <2>5, <3>1, <3>2, StrictFrame
  <2> QED BY <1>2, <2>4, <2>5
<1> QED BY <1>2, <1>4, <1>5, <1>6, <1>8, Zenon DEF IInv, Base

\* The append of f is over and f leaves: it returns if all went well and nobody
\* cancelled it.
LEMMA FinishStep ==
    ASSUME IInv, NEW f \in Flusher, Finish(f) \/ (f \in Caller /\ FinishCancelled(f))
    PROVE  IInv'
<1> USE RolesDistinct
<1>1. Base /\ PcInv /\ DataInv /\ QueueInv
  BY DEF IInv, Base
<1>2. /\ pc[f] \in {"append", "drain"} /\ task[f] \in {"ok", "failed"} /\ Release(f)
      /\ buf' = IF task[f] = "failed" THEN batch[f] \o buf ELSE buf
      /\ task' = [task EXCEPT ![f] = "none"] /\ batch' = [batch EXCEPT ![f] = <<>>]
      /\ UNCHANGED <<written, timer, mark, log, abandoned>>
  BY DEF Finish, FinishCancelled, PutBack, TaskGone
<1>3. PICK l \in {"free", "returned"} :
        /\ pc' = [pc EXCEPT ![f] = l]
        /\ l = "returned" => pc[f] = "append" /\ task[f] = "ok"
  BY DEF Finish, FinishCancelled, Return, Goto
<1>4. PcInv'
  BY <1>1, <1>2, <1>3 DEF PcInv, Labels, Tasks, Flusher
<1>5. /\ queue # <<>> /\ Head(queue) = f
      /\ QueueInv' /\ \A i \in 1..Len(queue') : pc'[queue'[i]] = "queued"
  <2>1. queue # <<>> /\ Head(queue) = f
    BY <1>1, <1>2, AtHead
  <2>2. pc'[f] \notin InQueue /\ \A g \in Flusher \ {f} : pc'[g] = pc[g]
    BY <1>1, <1>3 DEF PcInv, InQueue
  <2> QED BY <1>1, <1>2, <2>1, <2>2, Dequeue
<1>6. DataInv'
  <2>1. batch[f] \o buf \in Seq(Nat) /\ <<>> \in Seq(Nat)
    BY <1>1, ConcatProperties, EmptySeq DEF DataInv
  <2> QED BY <1>1, <1>2, <2>1 DEF DataInv, PcInv
<1>7. Held = InFlight(f) /\ Held' = <<>>
  <2>1. Base'
    BY <1>4, <1>5, <1>6 DEF Base
  <2> QED BY <1>5, <2>1, HeldNoneNext DEF Held
<1>8. ASSUME Strict PROVE Strict'
  <2>1. Order'
    <3>1. CASE task[f] = "ok"
      BY <1>2, <1>7, <1>8, <3>1 DEF Strict, Order, InFlight
    <3>2. CASE task[f] = "failed"
      <4>1. (log \o batch[f]) \o buf = (log \o <<>>) \o (batch[f] \o buf)
        BY <1>1, Regroup DEF DataInv
      <4> QED BY <1>2, <1>7, <1>8, <3>2, <4>1 DEF Strict, Order, InFlight
    <3> QED BY <1>2, <3>1, <3>2
  <2>2. ASSUME NEW c \in Caller PROVE Covered(c)'
    <3>1. Covered(c) /\ mark[c] \in Nat
      BY <1>1, <1>8 DEF Strict, DataInv
    <3>2. CASE c = f
      <4>1. pc'[c] = l
        BY <1>1, <1>3, <3>2 DEF PcInv
      <4>2. l = "returned" => mark[c] <= Len(log)
        <5> SUFFICES ASSUME l = "returned" PROVE mark[c] <= Len(log)
          OBVIOUS
        <5>1. pc[c] = "append" /\ Len(InFlight(c)) = 0
          BY <1>3, <3>2 DEF InFlight
        <5>2. Len(log) \in Nat
          BY <1>1, LenProperties DEF DataInv
        <5> QED BY <3>1, <5>1, <5>2 DEF Covered
      <4> QED BY <1>2, <4>1, <4>2 DEF Covered
    <3>3. CASE c # f
      <4>1. pc'[c] = pc[c] /\ InFlight(c)' = InFlight(c)
        BY <1>1, <1>2, <1>3, <3>3 DEF PcInv, DataInv, InFlight, Flusher
      <4> QED BY <1>2, <3>1, <4>1 DEF Covered
    <3> QED BY <3>2, <3>3
  <2>3. \A g \in Flusher : pc'[g] # "orphan"
    BY <1>1, <1>3, <1>8 DEF Strict, PcInv
  <2> QED BY <2>1, <2>2, <2>3 DEF Strict
<1> QED BY <1>2, <1>4, <1>5, <1>6, <1>8, Zenon DEF IInv, Base

LEMMA CancelQueuedStep ==
    ASSUME IInv, NEW c \in Caller, CancelQueued(c)
    PROVE  IInv'
<1> USE RolesDistinct
<1>1. Base /\ PcInv /\ DataInv /\ QueueInv /\ c \in Flusher
  BY DEF IInv, Base, Flusher
<1>2. /\ pc[c] = "queued" /\ Release(c) /\ pc' = [pc EXCEPT ![c] = "free"]
      /\ UNCHANGED <<written, buf, timer, mark, task, batch, log, abandoned>>
  BY DEF CancelQueued, Goto
<1>3. PcInv'
  BY <1>1, <1>2 DEF PcInv, Labels, Flusher
<1>4. /\ QueueInv'
      /\ Head(queue) = c => \A i \in 1..Len(queue') : pc'[queue'[i]] = "queued"
      /\ Head(queue) # c => queue' # <<>> /\ queue # <<>> /\ Head(queue') = Head(queue)
  <2>1. pc'[c] \notin InQueue /\ \A g \in Flusher \ {c} : pc'[g] = pc[g]
    BY <1>1, <1>2 DEF PcInv, InQueue
  <2> QED BY <1>1, <1>2, <2>1, Dequeue
<1>5. DataInv'
  BY <1>1, <1>2 DEF DataInv
<1>6. Held' = Held
  <2>1. CASE Head(queue) = c
    <3>1. Base'
      BY <1>3, <1>4, <1>5 DEF Base
    <3>2. \A i \in 1..Len(queue) : pc[queue[i]] = "queued"
      BY <1>1, <1>2, <2>1 DEF QueueInv
    <3> QED BY <1>1, <1>4, <2>1, <3>1, <3>2, HeldNone, HeldNoneNext
  <2>2. CASE Head(queue) # c
    BY <1>1, <1>2, <1>4, <2>2, HeldFrame
  <2> QED BY <2>1, <2>2
<1>7. ASSUME Strict PROVE Strict'
  <2>1. \A g \in Flusher : pc'[g] # "orphan"
    BY <1>1, <1>2, <1>7 DEF Strict, PcInv
  <2>2. \A d \in Caller : \/ pc'[d] \notin {"returned", "append"}
                          \/ pc'[d] = pc[d] /\ mark'[d] = mark[d] /\ InFlight(d)' = InFlight(d)
    BY <1>1, <1>2 DEF PcInv, InFlight, Flusher
  <2> QED BY <1>2, <1>6, <1>7, <2>1, <2>2, StrictFrame
<1> QED BY <1>2, <1>3, <1>4, <1>5, <1>7, Zenon DEF IInv, Base

LEMMA CancelAppendStep ==
    ASSUME IInv, NEW c \in Caller, CancelAppend(c)
    PROVE  IInv'
<1> USE RolesDistinct
<1>1. Base /\ PcInv /\ DataInv /\ QueueInv /\ c \in Flusher
  BY DEF IInv, Base, Flusher
<1>2. /\ pc[c] = "append" /\ pc' = [pc EXCEPT ![c] = "drain"]
      /\ UNCHANGED <<written, buf, timer, queue, mark, task, batch, log, abandoned>>
  BY DEF CancelAppend, Goto
<1>3. PcInv'
  BY <1>1, <1>2 DEF PcInv, Labels, Flusher
<1>4. QueueInv'
  <2>1. \A i \in 2..Len(queue) : queue[i] \in Flusher /\ queue[i] # c
    BY <1>1, <1>2 DEF QueueInv
  <2>2. /\ \A g \in Flusher : pc'[g] \in InQueue <=> pc[g] \in InQueue
        /\ \A i \in 2..Len(queue) : pc'[queue[i]] = pc[queue[i]]
    BY <1>1, <1>2, <2>1 DEF PcInv, InQueue
  <2> QED BY <1>1, <1>2, <2>2, QueueFrame
<1>5. DataInv' /\ Held' = Held
  BY <1>1, <1>2 DEF DataInv, Held, InFlight
<1>6. ASSUME Strict PROVE Strict'
  <2>1. \A g \in Flusher : pc'[g] # "orphan"
    BY <1>1, <1>2, <1>6 DEF Strict, PcInv
  <2>2. \A d \in Caller : \/ pc'[d] \notin {"returned", "append"}
                          \/ pc'[d] = pc[d] /\ mark'[d] = mark[d] /\ InFlight(d)' = InFlight(d)
    BY <1>1, <1>2 DEF PcInv, InFlight, Flusher
  <2> QED BY <1>2, <1>5, <1>6, <2>1, <2>2, StrictFrame
<1> QED BY <1>2, <1>3, <1>4, <1>5, <1>6, Zenon DEF IInv, Base

\* After a second cancellation only the queue and the types are left to keep.
LEMMA AbandonStep ==
    ASSUME IInv, NEW c \in Caller, CancelDrain(c) \/ OrphanEnds(c)
    PROVE  IInv'
<1> USE RolesDistinct
<1>1. Base /\ PcInv /\ DataInv /\ QueueInv /\ c \in Flusher
  BY DEF IInv, Base, Flusher
<1>2. CASE CancelDrain(c)
  <2>1. /\ pc[c] = "drain" /\ Release(c) /\ pc' = [pc EXCEPT ![c] = "orphan"] /\ abandoned'
        /\ UNCHANGED <<written, buf, timer, mark, task, batch, log>>
    BY <1>2 DEF CancelDrain, Goto
  <2>2. PcInv'
    BY <1>1, <2>1 DEF PcInv, Labels, Flusher
  <2>3. QueueInv'
    <3>1. pc'[c] \notin InQueue /\ \A g \in Flusher \ {c} : pc'[g] = pc[g]
      BY <1>1, <2>1 DEF PcInv, InQueue
    <3> QED BY <1>1, <2>1, <3>1, Dequeue
  <2>4. DataInv'
    BY <1>1, <2>1 DEF DataInv
  <2> QED BY <2>1, <2>2, <2>3, <2>4, Zenon DEF IInv, Base
<1>3. CASE OrphanEnds(c)
  <2>1. /\ pc[c] = "orphan" /\ pc' = [pc EXCEPT ![c] = "free"]
        /\ task' = [task EXCEPT ![c] = "none"] /\ batch' = [batch EXCEPT ![c] = <<>>]
        /\ UNCHANGED <<written, buf, timer, queue, mark, log, abandoned>>
    BY <1>3 DEF OrphanEnds, TaskGone, Goto
  <2>2. PcInv'
    BY <1>1, <2>1 DEF PcInv, Labels, Tasks, Flusher
  <2>3. QueueInv'
    <3>1. \A i \in 2..Len(queue) : queue[i] \in Flusher /\ queue[i] # c
      BY <1>1, <2>1 DEF QueueInv
    <3>2. /\ \A g \in Flusher : pc'[g] \in InQueue <=> pc[g] \in InQueue
          /\ \A i \in 2..Len(queue) : pc'[queue[i]] = pc[queue[i]]
      BY <1>1, <2>1, <3>1 DEF PcInv, InQueue
    <3> QED BY <1>1, <2>1, <3>2, QueueFrame
  <2>4. DataInv'
    BY <1>1, <2>1, EmptySeq DEF DataInv, PcInv
  <2>5. ~Strict
    BY <1>1, <2>1 DEF Strict
  <2> QED BY <2>1, <2>2, <2>3, <2>4, <2>5, Zenon DEF IInv, Base
<1> QED BY <1>2, <1>3

\* A step that changes nothing the invariant speaks of.
LEMMA IdleStep ==
    ASSUME IInv, WriteRaises \/ UNCHANGED vars
    PROVE  IInv'
<1>1. UNCHANGED <<written, buf, timer, queue, pc, mark, task, batch, log, abandoned>>
  BY DEF WriteRaises, vars
<1>2. PcInv' /\ DataInv'
  BY <1>1 DEF IInv, Base, PcInv, DataInv
<1>3. QueueInv'
  BY <1>1 DEF IInv, Base, QueueInv
<1>4. ASSUME Strict PROVE Strict'
  BY <1>1, <1>4 DEF Strict, Order, Held, InFlight, Covered
<1> QED BY <1>1, <1>2, <1>3, <1>4, Zenon DEF IInv, Base

LEMMA Inductive == IInv /\ [Next]_vars => IInv'
<1> SUFFICES ASSUME IInv, [Next]_vars PROVE IInv'
  OBVIOUS
<1>1. CASE Write
  BY <1>1, WriteStep
<1>2. CASE WriteRaises \/ UNCHANGED vars
  BY <1>2, IdleStep
<1>3. CASE \E t \in Timer : TimerFires(t)
  BY <1>3, TimerFiresStep
<1>4. CASE \E c \in Caller : FlushBegin(c) \/ CloseBegin(c)
  BY <1>4, CallStep
<1>5. CASE \E f \in Flusher : FlushStep(f) \/ AppendOk(f) \/ AppendFails(f)
  BY <1>5, TakeStep, TakeNothingStep, FinishStep, AppendEndsStep DEF FlushStep
<1>6. CASE \E c \in Caller : CancelQueued(c) \/ CancelAppend(c) \/ FinishCancelled(c)
  BY <1>6, CancelQueuedStep, CancelAppendStep, FinishStep DEF Flusher
<1>7. CASE \E c \in Caller : CancelDrain(c) \/ OrphanEnds(c)
  BY <1>7, AbandonStep
<1> QED BY <1>1, <1>2, <1>3, <1>4, <1>5, <1>6, <1>7 DEF Next

LEMMA Invariant == Spec => []IInv
BY InitIInv, Inductive, PTL DEF Spec

-----------------------------------------------------------------------------
(* The theorems.                                                           *)

\* What is durable, being appended and buffered is what was written, in order
\* (_append, "keeping order even if the caller is cancelled").
THEOREM OrderIsKept == Spec => []OrderKept
<1>1. IInv => OrderKept
  BY Zenon DEF IInv, Strict, Order, Held, OrderKept
<1> QED BY <1>1, Invariant, PTL

\* Only the lock's holder has an append_many under way.
THEOREM AppendsOneByOne == Spec => []OneAppend
<1>1. IInv => OneAppend
  <2> SUFFICES ASSUME IInv, Strict, NEW f \in Flusher, task[f] = "running"
               PROVE  queue # <<>> /\ Head(queue) = f
    BY Zenon DEF IInv, OneAppend
  <2>1. pc[f] \in {"append", "drain"} /\ QueueInv
    BY DEF IInv, Base, PcInv, Strict
  <2> QED BY <2>1, AtHead
<1> QED BY <1>1, Invariant, PTL

\* A flush or a close that returned left nothing unwritten of what came before
\* its call.
THEOREM ReturnsDurable == Spec => []DurableOnReturn
<1>1. IInv => DurableOnReturn
  BY Zenon DEF IInv, Strict, Covered, DurableOnReturn
<1> QED BY <1>1, Invariant, PTL

\* The flags are Booleans.
Flags == error \in BOOLEAN /\ wclosed \in BOOLEAN /\ excused \in BOOLEAN

LEMMA FlagsKept == Spec => []Flags
<1>1. Init => Flags
  BY Zenon DEF Init, Flags
<1>2. Flags /\ [Next]_vars => Flags'
  <2> SUFFICES ASSUME Flags, [Next]_vars PROVE Flags'
    OBVIOUS
  <2>1. CASE Write \/ WriteRaises \/ UNCHANGED vars
    BY <2>1, Zenon DEF Write, WriteRaises, vars, Flags
  <2>2. CASE \E t \in Timer : TimerFires(t)
    BY <2>2, Zenon DEF TimerFires, Flags
  <2>3. CASE \E c \in Caller : FlushBegin(c) \/ CloseBegin(c)
    BY <2>3, Zenon DEF FlushBegin, CloseBegin, Flags
  <2>4. CASE \E f \in Flusher : FlushStep(f) \/ AppendOk(f) \/ AppendFails(f)
    <3>1. PICK f \in Flusher : FlushStep(f) \/ AppendOk(f) \/ AppendFails(f)
      BY <2>4
    <3>2. CASE Take(f) \/ AppendOk(f) \/ AppendFails(f)
      BY <3>2, Zenon DEF Take, AppendOk, AppendFails, Flags
    <3>3. CASE TakeNothing(f)
      BY <3>3, Zenon DEF TakeNothing, Return, Flags
    <3>4. CASE Finish(f)
      BY <3>4, Zenon DEF Finish, Return, Flags
    <3> QED BY <3>1, <3>2, <3>3, <3>4 DEF FlushStep
  <2>5. CASE \E c \in Caller : CancelQueued(c) \/ CancelAppend(c) \/ FinishCancelled(c)
    BY <2>5, Zenon DEF CancelQueued, CancelAppend, FinishCancelled, Flags
  <2>6. CASE \E c \in Caller : CancelDrain(c) \/ OrphanEnds(c)
    BY <2>6, Zenon DEF CancelDrain, OrphanEnds, Flags
  <2> QED BY <2>1, <2>2, <2>3, <2>4, <2>5, <2>6 DEF Next
<1> QED BY <1>1, <1>2, PTL DEF Spec

\* The types; and the pending timer is the one that sleeps.
THEOREM TypesKept == Spec => []TypeOK
<1>1. IInv /\ Flags => TypeOK
  <2> SUFFICES ASSUME IInv, Flags PROVE TypeOK
    OBVIOUS
  <2>1. PcInv /\ DataInv
    BY DEF IInv, Base
  <2> QED BY <2>1, Zenon DEF TypeOK, PcInv, DataInv, Labels, Tasks, Flags
<1> QED BY <1>1, Invariant, FlagsKept, PTL
=============================================================================
