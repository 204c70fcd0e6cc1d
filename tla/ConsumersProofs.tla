--------------------------- MODULE ConsumersProofs ---------------------------
(***************************************************************************)
(* Proofs about Consumers, for any number of threads, any offsets and any  *)
(* bounds: nobody sleeps through a change, a subscribe skips nothing and   *)
(* ends only when it has yielded all of the closed stream, the worker's    *)
(* checkpoint never runs ahead of its work, and a crash costs at most one  *)
(* chunk of it.                                                            *)
(***************************************************************************)
EXTENDS Consumers, SequenceTheorems, SetInduction, TLAPS

-----------------------------------------------------------------------------
(* The inductive invariant.                                                *)

Labels == {"new", "read", "yield", "test", "wait", "ended", "raised"}

\* The records of a run that begins at o, cut to length n.
Run(o, n) == [i \in 1..n |-> o + i - 1]

\* The engine: an append holds the lock until it ends, so a closed stream has
\* none under way.
EngineInv ==
    /\ next \in 0..MaxRecords /\ adding \in 0..MaxBatch /\ next + adding <= MaxRecords
    /\ lock \in Writer \cup {Nobody}
    /\ closed => lock = Nobody
    /\ fileOpen \/ closed

\* A subscribe has yielded everything from its first record to its offset, as
\* many records as it has advanced, none ahead of its turn, and what it holds
\* continues there.
Sane(s) ==
    /\ \A k \in Nat : from[s] <= k /\ k < pos[s]
         => \E i \in 1..Len(got[s]) : got[s][i] = k
    /\ pc[s] = "new" => got[s] = <<>>
    /\ Len(got[s]) = pos[s] - from[s]
    /\ got[s] # <<>> => /\ got[s][1] = Clamped(from[s])
                        /\ Clamped(pos[s]) <= got[s][Len(got[s])] + 1
    /\ \A i \in 1..Len(got[s]) - 1 : got[s][i + 1] <= got[s][i] + 1
    /\ pc[s] = "yield" => batch[s] = Run(Clamped(pos[s]), Len(batch[s]))

SubTypes ==
    /\ pc \in [Sub -> Labels]
    /\ from \in [Sub -> Offset \cup {0}] /\ pos \in [Sub -> Int]
    /\ batch \in [Sub -> Seq(Int)] /\ got \in [Sub -> Seq(Int)]

SubInv == SubTypes /\ \A s \in Sub : Sane(s)

\* A subscribe that ended is past the end of a closed stream.
EndInv == \A s \in Sub : pc[s] = "ended" => closed /\ next <= pos[s]

\* How often jobs were processed, and how many of these times the checkpoint, or
\* a worker that lives, accounts for.
Done == Total(runs)
Due == IF wpc = "down" THEN checkpoint ELSE offset

\* The worker: all below its offset is processed, and the chunk goes on there.
\* It is at most a chunk ahead of the checkpoint.
WorkerInv ==
    /\ wpc \in {"down", "loop", "process", "replace"}
    /\ offset \in 0..next /\ checkpoint \in 0..next
    /\ runs \in [0..MaxRecords -> Nat]
    /\ \A j \in 0..offset - 1 : runs[j] > 0
    /\ \A j \in 0..checkpoint - 1 : runs[j] > 0
    /\ chunk \in Seq(Int)
    /\ wpc = "process" =>
         chunk = Run(offset, Len(chunk)) /\ offset + Len(chunk) <= next
    /\ wpc = "loop" => offset = checkpoint
    /\ wpc = "process" => checkpoint <= offset /\ offset + Len(chunk) <= checkpoint + Chunk
    /\ wpc = "replace" => checkpoint <= offset /\ offset <= checkpoint + Chunk

\* Every job processed beyond those was the price of a crash.
WorkInv == crashes \in Nat /\ Done <= Due + crashes * Chunk

IInv == EngineInv /\ SubInv /\ NoSleeper /\ EndInv /\ WorkerInv /\ WorkInv

-----------------------------------------------------------------------------
(* The records a read returns.                                             *)

\* Max and Min of two numbers.
LEMMA MaxMin ==
    ASSUME NEW a \in Int, NEW b \in Int
    PROVE  /\ Max({a, b}) = IF a >= b THEN a ELSE b
           /\ Min({a, b}) = IF a <= b THEN a ELSE b
<1>1. \E x \in {a, b} : \A y \in {a, b} : x >= y
  BY SMT
<1>2. \E x \in {a, b} : \A y \in {a, b} : x <= y
  BY SMT
<1>3. /\ Max({a, b}) \in {a, b} /\ \A y \in {a, b} : Max({a, b}) >= y
  BY <1>1, Zenon DEF Max
<1>4. /\ Min({a, b}) \in {a, b} /\ \A y \in {a, b} : Min({a, b}) <= y
  BY <1>2, Zenon DEF Min
<1> QED BY <1>3, <1>4, SMT

LEMMA ClampedInt ==
    ASSUME NEW o \in Int
    PROVE  Clamped(o) = IF o >= 0 THEN o ELSE 0
BY MaxMin, SMT DEF Clamped

\* read(o, end) is a run from its clamped offset on that stays within the log.
LEMMA BetweenRun ==
    ASSUME NEW o \in Int, NEW end \in Int, next \in Nat
    PROVE  LET r == Between(o, end)
           IN  /\ r \in Seq(Int)
               /\ r = Run(Clamped(o), Len(r))
               /\ Len(r) > 0 => Clamped(o) + Len(r) <= next /\ Clamped(o) + Len(r) <= end
<1> DEFINE n == Max({0, Min({end, next}) - Clamped(o)})
<1>1. Clamped(o) \in Nat
  BY ClampedInt
<1>2. Min({end, next}) \in Int /\ Min({end, next}) <= next /\ Min({end, next}) <= end
  <2>1. Min({end, next}) = IF end <= next THEN end ELSE next
    BY MaxMin
  <2> QED BY <2>1
<1>3. n \in Nat /\ (n > 0 => Clamped(o) + n <= next /\ Clamped(o) + n <= end)
  <2> DEFINE d == Min({end, next}) - Clamped(o)
  <2>1. d \in Int /\ Clamped(o) + d <= next /\ Clamped(o) + d <= end
    BY <1>1, <1>2
  <2>2. n = IF 0 >= d THEN 0 ELSE d
    BY <2>1, MaxMin
  <2> HIDE DEF n, d
  <2> QED BY <1>1, <2>1, <2>2
<1>4. Between(o, end) = Run(Clamped(o), n)
  BY <1>1, <1>2 DEF Between, Run
<1> HIDE DEF n
<1>5. Run(Clamped(o), n) \in Seq(Int) /\ Len(Run(Clamped(o), n)) = n
  BY <1>1, <1>3 DEF Run
<1> QED BY <1>3, <1>4, <1>5

\* Where the elements of two sequences are in their concatenation.
LEMMA ConcatAt ==
    ASSUME NEW u \in Seq(Int), NEW v \in Seq(Int)
    PROVE  /\ u \o v \in Seq(Int)
           /\ \A i \in 1..Len(u) : i \in 1..Len(u \o v) /\ (u \o v)[i] = u[i]
           /\ \A i \in 1..Len(v) :
                Len(u) + i \in 1..Len(u \o v) /\ (u \o v)[Len(u) + i] = v[i]
           /\ Len(u \o v) = Len(u) + Len(v)
<1>1. Len(u) \in Nat /\ Len(v) \in Nat /\ Len(u \o v) = Len(u) + Len(v)
  BY ConcatProperties
<1> QED BY <1>1, ConcatProperties

-----------------------------------------------------------------------------
(* It holds at the start and every step keeps it.                          *)

LEMMA InitIInv == Init => IInv
<1> SUFFICES ASSUME Init PROVE IInv
  OBVIOUS
<1> USE ConsumerAssumption DEF Init
<1>1. EngineInv
  BY DEF EngineInv
<1>2. SubInv
  BY DEF SubInv, SubTypes, Sane, Labels
<1>3. NoSleeper /\ EndInv
  BY DEF NoSleeper, EndInv
<1>4. WorkerInv
  BY DEF WorkerInv
<1>5. WorkInv
  <2>1. IsFiniteSet(0..MaxRecords)
    BY FS_Interval
  <2>2. Done = 0
    BY <2>1, TotalOfZeros DEF Done
  <2> QED BY <2>2 DEF WorkInv, Due
<1> QED BY <1>1, <1>2, <1>3, <1>4, <1>5 DEF IInv

\* A thread whose variables a step leaves alone stays sane.
LEMMA SaneFrame ==
    ASSUME NEW s \in Sub, Sane(s), from'[s] = from[s], pos'[s] = pos[s],
           batch'[s] = batch[s], got'[s] = got[s],
           pc'[s] = pc[s] \/ (pc[s] # "new" /\ pc'[s] \notin {"new", "yield"})
    PROVE  Sane(s)'
BY DEF Sane

\* A step that leaves every thread of Sub where it is keeps SubInv.
LEMMA SubFrame ==
    ASSUME SubInv, UNCHANGED subscriber
    PROVE  SubInv'
<1>1. UNCHANGED <<pc, from, pos, batch, got>>
  BY DEF subscriber
<1> QED BY <1>1, SaneFrame DEF SubInv, SubTypes

\* So does a step that only moves one thread along.
LEMMA SubMove ==
    ASSUME SubInv, NEW s \in Sub, NEW l \in Labels \ {"new", "yield"}, pc[s] # "new",
           pc' = [pc EXCEPT ![s] = l], UNCHANGED <<from, pos, batch, got>>
    PROVE  SubInv'
<1>1. SubTypes' /\ pc \in [Sub -> Labels]
  BY DEF SubInv, SubTypes
<1>2. \A t \in Sub : pc'[t] = IF t = s THEN l ELSE pc[t]
  BY <1>1
<1> QED BY <1>1, <1>2, SaneFrame DEF SubInv

\* Waking threads that sleep keeps SubInv, and none sleeps any longer.
LEMMA Woken ==
    ASSUME SubInv, NotifyAll, UNCHANGED <<from, pos, batch, got>>
    PROVE  SubInv' /\ NoSleeper' /\ \A s \in Sub : pc'[s] = "ended" <=> pc[s] = "ended"
<1>1. SubTypes'
  BY DEF SubInv, SubTypes, NotifyAll, Labels
<1>2. \A s \in Sub : pc'[s] = IF pc[s] = "wait" THEN "test" ELSE pc[s]
  BY DEF NotifyAll
<1>3. SubInv'
  BY <1>1, <1>2, SaneFrame DEF SubInv
<1>4. NoSleeper'
  BY <1>2 DEF NoSleeper
<1> QED BY <1>2, <1>3, <1>4

\* The worker does not move while the log only grows.
LEMMA WorkerFrame ==
    ASSUME WorkerInv, WorkInv, UNCHANGED worker,
           next \in Nat, next' \in Nat, next <= next'
    PROVE  WorkerInv' /\ WorkInv'
<1>1. chunk \in Seq(Int) /\ Len(chunk) \in Nat /\ offset \in Nat
  BY DEF WorkerInv
<1>2. WorkerInv'
  BY <1>1 DEF WorkerInv, worker, Run
<1>3. WorkInv'
  BY Zenon DEF WorkInv, Due, Done, worker
<1> QED BY <1>2, <1>3

\* What the engine does.
LEMMA EngineStep ==
    ASSUME IInv,
           \/ \E w \in Writer : WriterEnd(w) \/ \E n \in 1..MaxBatch : AppendBegin(w, n)
           \/ Close \/ CloseFds
    PROVE  IInv'
<1> USE ConsumerAssumption
<1>1. ASSUME NEW w \in Writer, NEW n \in 1..MaxBatch, AppendBegin(w, n) PROVE IInv'
  <2>1. EngineInv'
    BY <1>1 DEF AppendBegin, IInv, EngineInv
  <2>2. SubInv'
    BY <1>1, SubFrame DEF AppendBegin, IInv
  <2>3. NoSleeper' /\ EndInv'
    BY <1>1 DEF AppendBegin, subscriber, IInv, NoSleeper, EndInv
  <2>4. WorkerInv' /\ WorkInv'
    BY <1>1, WorkerFrame DEF AppendBegin, IInv, EngineInv
  <2> QED BY <2>1, <2>2, <2>3, <2>4 DEF IInv
<1>2. ASSUME NEW w \in Writer, AppendEnd(w) PROVE IInv'
  <2>1. EngineInv' /\ ~closed /\ ~closed' /\ next <= next' /\ next' \in Nat
    BY <1>2 DEF AppendEnd, IInv, EngineInv
  <2>2. SubInv' /\ NoSleeper' /\ EndInv'
    BY <1>2, <2>1, Woken DEF AppendEnd, IInv, EndInv
  <2>3. WorkerInv' /\ WorkInv'
    BY <1>2, <2>1, WorkerFrame DEF AppendEnd, IInv, EngineInv
  <2> QED BY <2>1, <2>2, <2>3 DEF IInv
<1>3. ASSUME NEW w \in Writer, AppendFail(w) PROVE IInv'
  <2>1. EngineInv' /\ next' = next
    BY <1>3 DEF AppendFail, IInv, EngineInv
  <2>2. SubInv' /\ NoSleeper' /\ EndInv'
    <3>1. CASE closed' = TRUE /\ NotifyAll
      BY <1>3, <3>1, Woken DEF AppendFail, IInv, EndInv
    <3>2. CASE UNCHANGED <<closed, pc>>
      <4>1. SubInv'
        BY <1>3, <3>2, SubFrame DEF AppendFail, subscriber, IInv
      <4>2. NoSleeper' /\ EndInv'
        BY <1>3, <3>2 DEF AppendFail, IInv, NoSleeper, EndInv
      <4> QED BY <4>1, <4>2
    <3> QED BY <1>3, <3>1, <3>2 DEF AppendFail
  <2>3. WorkerInv' /\ WorkInv'
    BY <1>3, <2>1, WorkerFrame DEF AppendFail, IInv, EngineInv
  <2> QED BY <2>1, <2>2, <2>3 DEF IInv
<1>4. CASE Close \/ CloseFds
  <2>1. EngineInv' /\ next' = next /\ closed'
    BY <1>4 DEF Close, CloseFds, IInv, EngineInv
  <2>2. SubInv' /\ NoSleeper' /\ EndInv'
    BY <1>4, <2>1, Woken DEF Close, CloseFds, IInv, EndInv
  <2>3. WorkerInv' /\ WorkInv'
    BY <1>4, <2>1, WorkerFrame DEF Close, CloseFds, IInv, EngineInv
  <2> QED BY <2>1, <2>2, <2>3 DEF IInv
<1> QED BY <1>1, <1>2, <1>3, <1>4 DEF WriterEnd

\* What a subscribe does.
LEMMA SubscribeStep ==
    ASSUME IInv, NEW s \in Sub,
           SubStep(s) \/ \E o \in Offset : Subscribe(s, o)
    PROVE  IInv'
<1> USE ConsumerAssumption
<1>1. UNCHANGED <<engine, worker>>
  BY DEF SubStep, Subscribe, Read, Yield, Test
<1>2. EngineInv' /\ next' = next /\ closed' = closed
  BY <1>1 DEF engine, IInv, EngineInv
<1>3. WorkerInv' /\ WorkInv'
  BY <1>1, <1>2, WorkerFrame DEF IInv, EngineInv
<1>4. /\ pc \in [Sub -> Labels] /\ pos \in [Sub -> Int]
      /\ from \in [Sub -> Offset \cup {0}] /\ Offset \cup {0} \subseteq Int
      /\ batch \in [Sub -> Seq(Int)] /\ got \in [Sub -> Seq(Int)]
      /\ next \in Nat /\ next \in Int
  BY DEF IInv, SubInv, SubTypes, EngineInv
<1>5. SubInv /\ Sane(s) /\ NoSleeper /\ EndInv
  BY DEF IInv, SubInv
<1>6. ASSUME NEW o \in Offset, Subscribe(s, o) PROVE IInv'
  <2>1. /\ pc[s] = "new" /\ from' = [from EXCEPT ![s] = o] /\ pos' = [pos EXCEPT ![s] = o]
        /\ pc' = [pc EXCEPT ![s] = "read"] /\ UNCHANGED <<batch, got>>
    BY <1>6 DEF Subscribe, Goto
  <2>2. SubTypes'
    BY <1>4, <2>1 DEF SubTypes, Labels
  <2>3. Sane(s)'
    <3>1. got'[s] = <<>> /\ from'[s] = o /\ pos'[s] = o /\ pc'[s] = "read" /\ o \in Int
      BY <1>4, <1>5, <2>1 DEF Sane
    <3>2. Len(<<>>) = 0
      BY EmptySeq
    <3>3. Len(got'[s]) = pos'[s] - from'[s]
      BY <3>1, <3>2
    <3>4. \A i \in 1..Len(got'[s]) - 1 : FALSE
      BY <3>1, <3>2
    <3>5. \A k \in Nat : ~(from'[s] <= k /\ k < pos'[s])
      BY <3>1
    <3> QED BY <3>1, <3>3, <3>4, <3>5, Zenon DEF Sane
  <2>4. \A t \in Sub \ {s} : Sane(t)'
    BY <1>4, <1>5, <2>1, SaneFrame DEF SubInv
  <2>5. NoSleeper' /\ EndInv'
    BY <1>2, <1>4, <1>5, <2>1 DEF NoSleeper, EndInv
  <2> QED BY <1>2, <1>3, <2>2, <2>3, <2>4, <2>5 DEF IInv, SubInv
<1>7. CASE Read(s)
  <2>1. SubInv'
    <3>1. CASE Readable(pos[s], next)
      <4> DEFINE r == Between(pos[s], next)
      <4>1. r \in Seq(Int) /\ r = Run(Clamped(pos[s]), Len(r))
        <5>1. pos[s] \in Int
          BY <1>4
        <5> QED BY <1>4, <5>1, BetweenRun
      <4>2. /\ batch' = [batch EXCEPT ![s] = r] /\ pc' = [pc EXCEPT ![s] = "yield"]
            /\ UNCHANGED <<from, pos, got>> /\ pc[s] = "read"
        BY <1>7, <3>1 DEF Read, Goto
      <4> HIDE DEF r
      <4>3. SubTypes'
        BY <1>4, <4>1, <4>2 DEF SubTypes, Labels
      <4>4. Sane(s)'
        BY <1>4, <1>5, <4>1, <4>2 DEF Sane
      <4>5. \A t \in Sub \ {s} : Sane(t)'
        BY <1>4, <1>5, <4>2, SaneFrame DEF SubInv
      <4> QED BY <4>3, <4>4, <4>5 DEF SubInv
    <3>2. CASE ~Readable(pos[s], next)
      BY <1>5, <1>7, <3>2, SubMove DEF Read, Goto, Labels
    <3> QED BY <3>1, <3>2
  <2>2. NoSleeper' /\ EndInv'
    BY <1>2, <1>4, <1>5, <1>7 DEF Read, Goto, NoSleeper, EndInv
  <2> QED BY <1>2, <1>3, <2>1, <2>2 DEF IInv
<1>8. CASE Yield(s)
  <2> DEFINE b == batch[s]
             p == pos[s]
             g == got[s] \o b
  <2>1. b \in Seq(Int) /\ Len(b) \in Nat /\ p \in Int /\ got[s] \in Seq(Int)
        /\ Len(got[s]) \in Nat
    BY <1>4
  <2>2. /\ b = Run(Clamped(p), Len(b)) /\ from[s] \in Int
        /\ Len(got[s]) = p - from[s]
        /\ got[s] # <<>> => /\ got[s][1] = Clamped(from[s])
                            /\ Clamped(p) <= got[s][Len(got[s])] + 1
        /\ \A i \in 1..Len(got[s]) - 1 : got[s][i + 1] <= got[s][i] + 1
        /\ \A k \in Nat : from[s] <= k /\ k < p => \E i \in 1..Len(got[s]) : got[s][i] = k
    <3>1. pc[s] = "yield" /\ from[s] \in Int
      BY <1>4, <1>8 DEF Yield
    <3> QED BY <1>5, <3>1, Zenon DEF Sane
  <2>3. /\ got' = [got EXCEPT ![s] = g] /\ pos' = [pos EXCEPT ![s] = p + Len(b)]
        /\ batch' = [batch EXCEPT ![s] = <<>>] /\ pc' = [pc EXCEPT ![s] = "test"]
        /\ from' = from /\ pc[s] = "yield"
    BY <1>8 DEF Yield, Goto
  <2> HIDE DEF b, p
  <2>4. /\ g \in Seq(Int)
        /\ \A i \in 1..Len(got[s]) : i \in 1..Len(g) /\ g[i] = got[s][i]
        /\ \A i \in 1..Len(b) :
             Len(got[s]) + i \in 1..Len(g) /\ g[Len(got[s]) + i] = b[i]
        /\ Len(g) = Len(got[s]) + Len(b)
    BY <2>1, ConcatAt
  <2> HIDE DEF g
  <2>5. ASSUME NEW k \in Nat, from[s] <= k, k < p + Len(b)
        PROVE  \E i \in 1..Len(g) : g[i] = k
    <3>1. CASE k < p
      BY <2>2, <2>4, <2>5, <3>1
    <3>2. CASE k >= p
      <4> DEFINE j == k - Clamped(p) + 1
      <4>1. j \in 1..Len(b) /\ Clamped(p) \in Int
        BY <2>1, <2>5, <3>2, ClampedInt
      <4>2. b[j] = k
        <5>1. Run(Clamped(p), Len(b))[j] = Clamped(p) + j - 1
          BY <4>1 DEF Run
        <5> QED BY <2>2, <4>1, <5>1
      <4> HIDE DEF j
      <4> QED BY <2>4, <4>1, <4>2
    <3> QED BY <2>1, <3>1, <3>2
  <2>6. SubTypes'
    BY <1>4, <2>1, <2>3, <2>4 DEF SubTypes, Labels
  <2> DEFINE m == Len(got[s])
             n == Len(b)
  <2>7. m \in Nat /\ n \in Nat /\ Len(g) = m + n /\ p \in Int /\ Clamped(p) \in Int
    BY <2>1, <2>4, ClampedInt
  <2>8. /\ \A i \in 1..m : got[s][i] \in Int /\ g[i] = got[s][i]
        /\ \A i \in 1..n : g[m + i] = Clamped(p) + i - 1
    <3>1. \A i \in 1..n : b[i] = Clamped(p) + i - 1
      BY <2>2, <2>7 DEF Run
    <3> QED BY <2>1, <2>4, <3>1
  <2>9. m = 0 => p = from[s]
    BY <2>2, <2>7
  <2>10. got[s] # <<>> <=> m > 0
    BY <2>1, EmptySeq
  <2>11. g # <<>> <=> m + n > 0
    BY <2>4, <2>7, EmptySeq
  <2>12. Clamped(p + n) <= Clamped(p) + n
    BY <2>7, ClampedInt
  <2> HIDE DEF m, n
  <2>13. m + n > 0 => g[1] = Clamped(from[s])
    <3>1. CASE m > 0
      BY <2>2, <2>7, <2>8, <2>10, <3>1
    <3>2. CASE m = 0 /\ n > 0
      <4>1. g[m + 1] = Clamped(p) + 1 - 1
        BY <2>7, <2>8, <3>2
      <4> QED BY <2>7, <2>9, <3>2, <4>1
    <3> QED BY <2>7, <3>1, <3>2
  <2>14. m + n > 0 => Clamped(p + n) <= g[m + n] + 1
    <3>1. CASE n > 0
      <4>1. g[m + n] = Clamped(p) + n - 1
        BY <2>7, <2>8, <3>1
      <4>2. Clamped(p + n) \in Int
        BY <2>7, ClampedInt
      <4> QED BY <2>7, <2>12, <4>1, <4>2
    <3>2. CASE n = 0 /\ m > 0
      <4>1. p + n = p /\ m + n = m /\ m \in 1..m
        BY <2>7, <3>2
      <4>2. g[m] = got[s][m] /\ Clamped(p) <= got[s][m] + 1
        BY <2>2, <2>8, <2>10, <3>2, <4>1 DEF m
      <4> QED BY <4>1, <4>2
    <3> QED BY <2>7, <3>1, <3>2
  <2>15. ASSUME NEW i \in 1..m + n - 1 PROVE g[i + 1] <= g[i] + 1
    <3>1. CASE i < m
      <4>1. i \in 1..m /\ i + 1 \in 1..m /\ i \in 1..m - 1
        BY <2>7, <3>1
      <4>2. got[s][i + 1] <= got[s][i] + 1
        BY <2>2, <4>1 DEF m
      <4> QED BY <2>8, <4>1, <4>2
    <3>2. CASE i = m
      <4>1. m \in 1..m /\ 1 \in 1..n
        BY <2>7, <3>2
      <4>2. g[m] = got[s][m] /\ g[m + 1] = Clamped(p) + 1 - 1
        BY <2>8, <4>1
      <4>3. Clamped(p) <= got[s][m] + 1
        BY <2>2, <2>7, <2>10, <3>2 DEF m
      <4> QED BY <2>7, <3>2, <4>2, <4>3
    <3>3. CASE i > m
      <4>1. i - m \in 1..n /\ i - m + 1 \in 1..n /\ m + (i - m) = i
            /\ m + (i - m + 1) = i + 1
        BY <2>7, <3>3
      <4>2. g[i] = Clamped(p) + (i - m) - 1
        BY <2>8, <4>1
      <4>3. g[i + 1] = Clamped(p) + (i - m + 1) - 1
        BY <2>8, <4>1
      <4> QED BY <2>7, <3>3, <4>2, <4>3
    <3> QED BY <2>7, <3>1, <3>2, <3>3
  <2>16. Sane(s)'
    <3>1. /\ got'[s] = g /\ pos'[s] = p + n /\ from'[s] = from[s] /\ pc'[s] = "test"
      BY <1>4, <2>3 DEF n
    <3>2. Len(g) = (p + n) - from[s]
      BY <2>2, <2>7 DEF m
    <3>3. \A k \in Nat : from[s] <= k /\ k < p + n => \E i \in 1..Len(g) : g[i] = k
      BY <2>5 DEF n
    <3>4. Len(g) = m + n
      BY <2>7
    <3>5. g # <<>> => g[1] = Clamped(from[s]) /\ Clamped(p + n) <= g[Len(g)] + 1
      BY <2>11, <2>13, <2>14, <3>4
    <3>6. \A i \in 1..Len(g) - 1 : g[i + 1] <= g[i] + 1
      <4>1. Len(g) - 1 = m + n - 1
        BY <2>7, <3>4
      <4> QED BY <2>15, <4>1, Zenon
    <3>7. pc'[s] # "new" /\ pc'[s] # "yield"
      BY <3>1
    <3> QED BY <3>1, <3>2, <3>3, <3>5, <3>6, <3>7, Zenon DEF Sane, Clamped
  <2>17. \A t \in Sub \ {s} : Sane(t)'
    BY <1>4, <1>5, <2>3, SaneFrame DEF SubInv
  <2>18. NoSleeper' /\ EndInv'
    BY <1>2, <1>4, <1>5, <2>3 DEF NoSleeper, EndInv
  <2> QED BY <1>2, <1>3, <2>6, <2>16, <2>17, <2>18 DEF IInv, SubInv
<1>9. CASE Test(s)
  <2>1. SubInv'
    BY <1>5, <1>9, SubMove DEF Test, Goto, Labels
  <2>2. NoSleeper' /\ EndInv'
    BY <1>2, <1>4, <1>5, <1>9 DEF Test, Goto, NoSleeper, EndInv
  <2> QED BY <1>2, <1>3, <2>1, <2>2 DEF IInv
<1> QED BY <1>6, <1>7, <1>8, <1>9 DEF SubStep

\* What the worker does.
LEMMA WorkerMove ==
    ASSUME IInv, WorkerStep \/ Crash
    PROVE  IInv'
<1> USE ConsumerAssumption
<1>1. UNCHANGED <<engine, subscriber>>
  BY DEF WorkerStep, StartWorker, ReadChunk, Process, WriteTmp, Replace, Crash
<1>2. /\ EngineInv' /\ SubInv' /\ NoSleeper' /\ EndInv'
      /\ next' = next /\ next \in 0..MaxRecords
  <2>1. EngineInv' /\ next' = next /\ closed' = closed /\ next \in 0..MaxRecords
    BY <1>1 DEF engine, IInv, EngineInv
  <2>2. SubInv' /\ pc' = pc /\ pos' = pos
    BY <1>1, SubFrame DEF subscriber, IInv
  <2> QED BY <2>1, <2>2 DEF IInv, NoSleeper, EndInv
<1>3. /\ offset \in 0..next /\ checkpoint \in 0..next /\ runs \in [0..MaxRecords -> Nat]
      /\ chunk \in Seq(Int) /\ Len(chunk) \in Nat /\ WorkerInv
      /\ \A j \in 0..offset - 1 : runs[j] > 0
      /\ \A j \in 0..checkpoint - 1 : runs[j] > 0
  BY DEF IInv, WorkerInv
<1>4. crashes \in Nat /\ Done \in Nat /\ Chunk \in Nat /\ crashes * Chunk \in Nat
      /\ Done <= Due + crashes * Chunk
  <2>1. IsFiniteSet(0..MaxRecords)
    BY FS_Interval
  <2>2. Done \in Nat
    BY <1>3, <2>1, TotalNat DEF Done
  <2> QED BY <2>2 DEF IInv, WorkInv
<1>5. ASSUME UNCHANGED <<runs, crashes>>, Due' = Due PROVE WorkInv'
  BY <1>4, <1>5 DEF WorkInv, Done
<1>6. CASE StartWorker
  <2>1. /\ wpc = "down" /\ offset' = checkpoint /\ wpc' = "loop"
        /\ UNCHANGED <<chunk, checkpoint, runs, crashes>>
    BY <1>6 DEF StartWorker
  <2>2. WorkerInv'
    BY <1>2, <1>3, <2>1 DEF WorkerInv
  <2>3. WorkInv'
    BY <1>5, <2>1 DEF Due
  <2> QED BY <1>2, <2>2, <2>3 DEF IInv
<1>7. CASE ReadChunk
  <2>1. CASE offset < next /\ Readable(offset, offset + Chunk)
    <3> DEFINE r == Between(offset, offset + Chunk)
    <3>1. /\ r \in Seq(Int) /\ r = Run(Clamped(offset), Len(r))
          /\ Len(r) > 0 => /\ Clamped(offset) + Len(r) <= next
                           /\ Clamped(offset) + Len(r) <= offset + Chunk
      <4>1. offset \in Int /\ offset + Chunk \in Int /\ next \in Nat
        BY <1>2, <1>3
      <4> QED BY <4>1, BetweenRun
    <3>2. Clamped(offset) = offset
      BY <1>3, ClampedInt
    <3>3. /\ chunk' = r /\ wpc' = "process" /\ offset' = offset /\ wpc = "loop"
          /\ UNCHANGED <<checkpoint, runs, crashes>> /\ offset = checkpoint
      BY <1>3, <1>7, <2>1 DEF ReadChunk, WorkerInv
    <3> HIDE DEF r
    <3>4. Len(r) \in Nat /\ offset + Len(r) <= next /\ offset + Len(r) <= checkpoint + Chunk
      BY <1>2, <1>3, <1>4, <2>1, <3>1, <3>2, <3>3
    <3>5. WorkerInv'
      BY <1>2, <1>3, <3>1, <3>2, <3>3, <3>4 DEF WorkerInv
    <3>6. WorkInv'
      BY <1>5, <3>3 DEF Due
    <3> QED BY <1>2, <3>5, <3>6 DEF IInv
  <2>2. CASE ~(offset < next /\ Readable(offset, offset + Chunk))
    <3>1. /\ wpc = "loop" /\ wpc' = "down" /\ offset' = 0 /\ offset = checkpoint
          /\ UNCHANGED <<chunk, checkpoint, runs, crashes>>
      BY <1>3, <1>7, <2>2 DEF ReadChunk, WorkerInv
    <3>2. WorkerInv'
      BY <1>2, <1>3, <3>1 DEF WorkerInv
    <3>3. WorkInv'
      BY <1>5, <3>1 DEF Due
    <3> QED BY <1>2, <3>2, <3>3 DEF IInv
  <2> QED BY <2>1, <2>2
<1>8. CASE Process
  <2>1. /\ chunk = Run(offset, Len(chunk)) /\ offset + Len(chunk) <= next
        /\ chunk # <<>> /\ Len(chunk) > 0 /\ wpc = "process"
        /\ checkpoint <= offset /\ offset + Len(chunk) <= checkpoint + Chunk
    BY <1>3, <1>8 DEF Process, WorkerInv
  <2>2. Head(chunk) = offset /\ offset \in 0..MaxRecords
    <3>1. Head(Run(offset, Len(chunk))) = offset
      BY <1>3, <2>1 DEF Run
    <3> QED BY <1>2, <1>3, <2>1, <3>1
  <2>3. /\ Tail(chunk) \in Seq(Int) /\ Len(Tail(chunk)) = Len(chunk) - 1
        /\ Tail(chunk) = Run(offset + 1, Len(chunk) - 1)
    <3>1. Tail(chunk) \in Seq(Int) /\ Len(Tail(chunk)) = Len(chunk) - 1
      BY <1>3, <2>1
    <3>2. \A i \in 1..Len(chunk) - 1 : Tail(chunk)[i] = offset + 1 + i - 1
      <4>1. \A i \in 1..Len(chunk) - 1 : Tail(chunk)[i] = chunk[i + 1]
        BY <1>3, <2>1
      <4>2. \A i \in 1..Len(chunk) - 1 : Run(offset, Len(chunk))[i + 1] = offset + i
        BY <1>3 DEF Run
      <4> QED BY <1>3, <2>1, <4>1, <4>2
    <3>3. Tail(chunk) = [i \in 1..Len(chunk) - 1 |-> Tail(chunk)[i]]
      BY <3>1, LenProperties
    <3> QED BY <3>1, <3>2, <3>3 DEF Run
  <2>4. /\ runs' = [runs EXCEPT ![offset] = @ + 1] /\ chunk' = Tail(chunk)
        /\ offset' = offset + 1 /\ UNCHANGED <<wpc, checkpoint, crashes>>
    BY <1>8, <2>2 DEF Process
  <2>5. /\ runs' \in [0..MaxRecords -> Nat]
        /\ \A j \in 0..offset' - 1 : runs'[j] > 0
        /\ \A j \in 0..checkpoint' - 1 : runs'[j] > 0
    <3>1. \A j : runs[j] > 0 /\ j \in 0..MaxRecords => runs'[j] > 0
      BY <1>3, <2>2, <2>4
    <3> QED BY <1>3, <2>2, <2>4, <3>1
  <2>6. WorkerInv'
    <3>1. /\ chunk' = Run(offset', Len(chunk')) /\ offset' + Len(chunk') <= next
          /\ chunk' \in Seq(Int) /\ offset' \in 0..next /\ checkpoint' \in 0..next
          /\ checkpoint' <= offset' /\ offset' + Len(chunk') <= checkpoint' + Chunk
      <4>1. chunk' \in Seq(Int) /\ Len(chunk') = Len(chunk) - 1
            /\ chunk' = Run(offset + 1, Len(chunk) - 1)
        BY <2>3, <2>4
      <4>2. offset' = offset + 1 /\ checkpoint' = checkpoint
        BY <2>4
      <4>3. offset \in Nat /\ checkpoint \in 0..next /\ next \in Nat /\ Len(chunk) \in Nat
            /\ Chunk \in Nat
        BY <1>2, <1>3, <1>4
      <4>4. offset + 1 + (Len(chunk) - 1) = offset + Len(chunk)
        BY <4>3
      <4>5. /\ offset + Len(chunk) <= next /\ offset + Len(chunk) <= checkpoint + Chunk
            /\ Len(chunk) > 0 /\ checkpoint <= offset
        BY <2>1
      <4> HIDE DEF Run
      <4>6. offset + 1 \in 0..next /\ checkpoint <= offset + 1
        BY <4>3, <4>5
      <4>7. chunk' = Run(offset', Len(chunk'))
        BY <4>1, <4>2
      <4>8. offset' + Len(chunk') = offset + Len(chunk)
        BY <4>1, <4>2, <4>4
      <4> QED BY <4>1, <4>2, <4>3, <4>5, <4>6, <4>7, <4>8
    <3> QED BY <1>2, <2>1, <2>4, <2>5, <3>1 DEF WorkerInv
  <2>7. WorkInv'
    <3>1. IsFiniteSet(0..MaxRecords)
      BY FS_Interval
    <3>2. Done' = Done + 1
      BY <1>3, <2>2, <2>4, <3>1, TotalOfOneMore DEF Done
    <3>3. Due = offset /\ Due' = offset + 1
      BY <2>1, <2>4 DEF Due
    <3> QED BY <1>3, <1>4, <2>4, <3>2, <3>3 DEF WorkInv
  <2> QED BY <1>2, <2>6, <2>7 DEF IInv
<1>9. CASE WriteTmp
  <2>1. /\ wpc = "process" /\ chunk = <<>> /\ wpc' = "replace"
        /\ UNCHANGED <<offset, chunk, checkpoint, runs, crashes>>
        /\ checkpoint <= offset /\ offset + Len(chunk) <= checkpoint + Chunk
    BY <1>3, <1>9 DEF WriteTmp, WorkerInv
  <2>2. WorkerInv'
    BY <1>2, <1>3, <1>4, <2>1 DEF WorkerInv
  <2>3. WorkInv'
    BY <1>5, <2>1 DEF Due
  <2> QED BY <1>2, <2>2, <2>3 DEF IInv
<1>10. CASE Replace
  <2>1. /\ wpc = "replace" /\ checkpoint' = offset /\ wpc' = "loop"
        /\ UNCHANGED <<offset, chunk, runs, crashes>>
    BY <1>10 DEF Replace
  <2>2. WorkerInv'
    BY <1>2, <1>3, <2>1 DEF WorkerInv
  <2>3. WorkInv'
    BY <1>5, <2>1 DEF Due
  <2> QED BY <1>2, <2>2, <2>3 DEF IInv
<1>11. CASE Crash
  <2>1. /\ wpc # "down" /\ crashes' = crashes + 1 /\ wpc' = "down"
        /\ offset' = 0 /\ chunk' = <<>> /\ UNCHANGED <<checkpoint, runs>>
    BY <1>11 DEF Crash
  <2>2. WorkerInv'
    BY <1>2, <1>3, <2>1 DEF WorkerInv
  <2>3. offset <= checkpoint + Chunk
    BY <1>3, <1>4, <2>1 DEF WorkerInv
  <2>4. WorkInv'
    <3>1. Due = offset /\ Due' = checkpoint /\ Done' = Done
      BY <2>1 DEF Due, Done
    <3>2. crashes' * Chunk = crashes * Chunk + Chunk
      BY <1>4, <2>1
    <3> QED BY <1>3, <1>4, <2>1, <2>3, <3>1, <3>2 DEF WorkInv
  <2> QED BY <1>2, <2>2, <2>4 DEF IInv
<1> QED BY <1>6, <1>7, <1>8, <1>9, <1>10, <1>11 DEF WorkerStep

-----------------------------------------------------------------------------
(* The theorems.                                                           *)

LEMMA Inductive == IInv /\ [Next]_vars => IInv'
<1> SUFFICES ASSUME IInv, [Next]_vars PROVE IInv'
  OBVIOUS
<1>1. CASE \/ \E w \in Writer : WriterEnd(w) \/ \E n \in 1..MaxBatch : AppendBegin(w, n)
           \/ Close \/ CloseFds
  BY <1>1, EngineStep
<1>2. CASE \E s \in Sub : SubStep(s) \/ \E o \in Offset : Subscribe(s, o)
  BY <1>2, SubscribeStep
<1>3. CASE WorkerStep \/ Crash
  BY <1>3, WorkerMove
<1>4. CASE UNCHANGED vars
  <2>1. EngineInv' /\ next' = next /\ closed' = closed
    BY <1>4 DEF vars, IInv, EngineInv
  <2>2. SubInv' /\ NoSleeper' /\ EndInv'
    BY <1>4, SubFrame DEF vars, subscriber, IInv, NoSleeper, EndInv
  <2>3. WorkerInv' /\ WorkInv'
    BY <1>4, WorkerFrame DEF vars, worker, IInv, EngineInv
  <2> QED BY <2>1, <2>2, <2>3 DEF IInv
<1> QED BY <1>1, <1>2, <1>3, <1>4 DEF Next

LEMMA Invariant == Spec => []IInv
BY InitIInv, Inductive, PTL DEF Spec

\* The two flags are Booleans.
Flags == closed \in BOOLEAN /\ fileOpen \in BOOLEAN

LEMMA FlagsKept == Spec => []Flags
<1>1. Init => Flags
  BY Zenon DEF Init, Flags
<1>2. Flags /\ [Next]_vars => Flags'
  <2> SUFFICES ASSUME Flags, [Next]_vars PROVE Flags'
    OBVIOUS
  <2>1. CASE UNCHANGED vars
    BY <2>1, Zenon DEF vars, Flags
  <2>2. CASE \E w \in Writer : WriterEnd(w) \/ \E n \in 1..MaxBatch : AppendBegin(w, n)
    BY <2>2, Zenon DEF WriterEnd, AppendBegin, AppendEnd, AppendFail, Flags
  <2>3. CASE Close \/ CloseFds
    BY <2>3, Zenon DEF Close, CloseFds, Flags
  <2>4. CASE \E s \in Sub : SubStep(s) \/ \E o \in Offset : Subscribe(s, o)
    BY <2>4, Zenon DEF SubStep, Subscribe, Read, Yield, Test, engine, Flags
  <2>5. CASE WorkerStep \/ Crash
    BY <2>5, Zenon DEF WorkerStep, StartWorker, ReadChunk, Process, WriteTmp, Replace,
         Crash, engine, Flags
  <2> QED BY <2>1, <2>2, <2>3, <2>4, <2>5 DEF Next
<1> QED BY <1>1, <1>2, PTL DEF Spec

\* The types, for any threads and bounds; and a stream whose file is gone is
\* closed.
THEOREM TypesKept == Spec => []TypeOK
<1>1. IInv /\ Flags => TypeOK
  <2> SUFFICES ASSUME IInv, Flags PROVE TypeOK
    OBVIOUS
  <2>1. /\ next \in 0..MaxRecords /\ lock \in Writer \cup {Nobody}
        /\ adding \in 0..MaxBatch
        /\ fileOpen \/ closed
    BY Zenon DEF IInv, EngineInv
  <2>2. /\ wpc \in {"down", "loop", "process", "replace"}
        /\ offset \in 0..MaxRecords /\ checkpoint \in 0..MaxRecords
    BY <2>1, ConsumerAssumption DEF IInv, WorkerInv
  <2>3. /\ pc \in [Sub -> {"new", "read", "yield", "test", "wait", "ended", "raised"}]
        /\ from \in [Sub -> Offset \cup {0}] /\ pos \in [Sub -> Int]
    BY DEF IInv, SubInv, SubTypes, Labels
  <2> QED BY <2>1, <2>2, <2>3, Zenon DEF TypeOK, Flags
<1> QED BY <1>1, Invariant, FlagsKept, PTL

\* Nobody sleeps on the Condition with a record to fetch or a close to see
\* (subscribe tests and waits in one critical section).
THEOREM NobodySleeps == Spec => []NoSleeper
<1>1. IInv => NoSleeper
  BY DEF IInv
<1> QED BY <1>1, Invariant, PTL

\* A subscribe that ended has yielded all of the closed stream from its offset
\* on (stream.py, subscribe).
THEOREM EndsDrained == Spec => []EndedDrained
<1>1. IInv => EndedDrained
  <2> SUFFICES ASSUME IInv, NEW s \in Sub, pc[s] = "ended"
               PROVE  closed /\ \A k \in 0..next - 1 : k >= from[s] => k \in ToSet(got[s])
    BY DEF EndedDrained
  <2>1. /\ closed /\ next <= pos[s] /\ next \in 0..MaxRecords
        /\ from \in [Sub -> Offset \cup {0}] /\ pos \in [Sub -> Int]
    BY Zenon DEF IInv, EndInv, EngineInv, SubInv, SubTypes
  <2>2. got[s] \in Seq(Int) /\ Sane(s)
    BY DEF IInv, SubInv, SubTypes
  <2>3. ASSUME NEW k \in 0..next - 1, k >= from[s] PROVE k \in ToSet(got[s])
    <3>1. k \in Nat /\ from[s] <= k /\ k < pos[s]
      BY <2>1, <2>3, ConsumerAssumption
    <3>2. PICK i \in 1..Len(got[s]) : got[s][i] = k
      BY <2>2, <3>1 DEF Sane
    <3> QED BY <2>2, <3>2 DEF ToSet
  <2> QED BY <2>1, <2>3
<1> QED BY <1>1, Invariant, PTL

\* A subscribe yields records one after the other from its offset on and skips
\* none; from offset -k it yields k of them twice in all (stream.py, subscribe:
\* the offset advances by what was read, which begins at 0 at the earliest).
THEOREM SkipsNone == Spec => []NoneSkipped
<1>1. IInv => NoneSkipped
  <2> SUFFICES ASSUME IInv, NEW s \in Sub
               PROVE  /\ got[s] # <<>> => got[s][1] = Clamped(from[s])
                      /\ \A i \in 1..Len(got[s]) - 1 : got[s][i + 1] <= got[s][i] + 1
                      /\ Len(got[s]) - Cardinality(ToSet(got[s])) <= Max({0, -from[s]})
    BY DEF NoneSkipped
  <2> DEFINE g == got[s]
             f == from[s]
             p == pos[s]
  <2>1. g \in Seq(Int) /\ Len(g) \in Nat /\ f \in Int /\ p \in Int /\ Sane(s)
    <3>1. got \in [Sub -> Seq(Int)] /\ pos \in [Sub -> Int]
          /\ from \in [Sub -> Offset \cup {0}] /\ Sane(s)
      BY Zenon DEF IInv, SubInv, SubTypes
    <3>2. g \in Seq(Int) /\ Len(g) \in Nat
      BY <3>1
    <3>3. f \in Int /\ p \in Int
      <4>1. f \in Offset \cup {0} /\ p \in Int
        BY <3>1
      <4>2. Offset \cup {0} \subseteq Int
        BY ConsumerAssumption
      <4> QED BY <4>1, <4>2, Zenon
    <3> QED BY <3>1, <3>2, <3>3, Zenon
  <2>2. /\ g # <<>> => g[1] = Clamped(f)
        /\ \A i \in 1..Len(g) - 1 : g[i + 1] <= g[i] + 1
        /\ Len(g) = p - f
        /\ \A k \in Nat : f <= k /\ k < p => \E i \in 1..Len(g) : g[i] = k
    BY <2>1, Zenon DEF Sane
  <2>3. Max({0, -f}) = IF 0 >= -f THEN 0 ELSE -f
    BY <2>1, MaxMin
  <2> HIDE DEF g, f, p
  <2> DEFINE c == Clamped(f)
  <2>4. c = IF f >= 0 THEN f ELSE 0
    BY <2>1, ClampedInt
  <2>5. IsFiniteSet(ToSet(g))
    <3>1. ToSet(g) = {g[i] : i \in 1..Len(g)}
      BY <2>1 DEF ToSet
    <3>2. IsFiniteSet(1..Len(g))
      BY <2>1, FS_Interval
    <3>3. g \in Surjection(1..Len(g), ToSet(g))
      BY <2>1, <3>1 DEF Surjection
    <3> QED BY <3>2, <3>3, FS_Surjection, Zenon
  <2> HIDE DEF c
  <2>6. c..p - 1 \subseteq ToSet(g)
    <3> SUFFICES ASSUME NEW k \in c..p - 1 PROVE k \in ToSet(g)
      OBVIOUS
    <3>1. k \in Nat /\ f <= k /\ k < p
      BY <2>1, <2>4
    <3>2. PICK i \in 1..Len(g) : g[i] = k
      BY <2>2, <3>1
    <3> QED BY <2>1, <3>2 DEF ToSet
  <2>7. Cardinality(ToSet(g)) \in Nat /\ Cardinality(ToSet(g)) >= p - c
    <3>1. Cardinality(c..p - 1) <= Cardinality(ToSet(g))
      BY <2>5, <2>6, FS_Subset
    <3>2. Cardinality(c..p - 1) = IF c > p - 1 THEN 0 ELSE (p - 1) - c + 1
      <4>1. c \in Int /\ p - 1 \in Int
        BY <2>1, <2>4
      <4> QED BY <4>1, FS_Interval
    <3>3. Cardinality(ToSet(g)) \in Nat
      BY <2>5, FS_CardinalityType
    <3> QED BY <2>1, <2>4, <3>1, <3>2, <3>3
  <2>8. Len(g) - Cardinality(ToSet(g)) <= Max({0, -f})
    BY <2>1, <2>2, <2>3, <2>4, <2>7
  <2> QED BY <2>2, <2>8 DEF g, f, p, c
<1> QED BY <1>1, Invariant, PTL

\* A crash costs at most one chunk of work done again (work_queue.py, run_worker:
\* the checkpoint is written after each chunk).
THEOREM ReworkIsBounded == Spec => []ReworkBounded
<1>1. IInv => ReworkBounded
  <2> DEFINE seen == {j \in DOMAIN runs : runs[j] > 0}
  <2> SUFFICES ASSUME IInv
               PROVE  FoldFunction(+, 0, runs) - Cardinality(seen) <= crashes * Chunk
    BY DEF ReworkBounded
  <2>1. /\ Done <= Due + crashes * Chunk /\ crashes * Chunk \in Nat
        /\ next \in 0..MaxRecords /\ runs \in [0..MaxRecords -> Nat]
        /\ Due \in 0..next /\ \A j \in 0..Due - 1 : runs[j] > 0
    BY ConsumerAssumption DEF IInv, WorkInv, WorkerInv, EngineInv, Due
  <2>2. IsFiniteSet(0..MaxRecords)
    BY FS_Interval, ConsumerAssumption
  <2>3. Done \in Nat /\ Done = FoldFunction(+, 0, runs)
    BY <2>1, <2>2, TotalNat DEF Done, Total
  <2>4. IsFiniteSet(seen) /\ Cardinality(seen) \in Nat
    <3>1. seen \in SUBSET (0..MaxRecords)
      BY <2>1
    <3> QED BY <2>2, <3>1, FS_Subset, FS_CardinalityType
  <2>5. Due <= Cardinality(seen)
    <3>1. 0..Due - 1 \subseteq seen
      BY <2>1, ConsumerAssumption
    <3>2. Cardinality(0..Due - 1) <= Cardinality(seen)
      BY <2>4, <3>1, FS_Subset
    <3>3. Cardinality(0..Due - 1) = IF 0 > Due - 1 THEN 0 ELSE (Due - 1) - 0 + 1
      BY <2>1, FS_Interval
    <3> QED BY <2>1, <2>4, <3>2, <3>3
  <2> HIDE DEF seen
  <2>6. Done - Cardinality(seen) <= crashes * Chunk
    <3> DEFINE x == crashes * Chunk
               k == Cardinality(seen)
    <3>1. Due \in Nat
      BY <2>1, ConsumerAssumption
    <3>2. /\ x \in Nat /\ Done \in Nat /\ k \in Nat /\ Due \in Nat
          /\ Done <= Due + x /\ Due <= k
      BY <2>1, <2>3, <2>4, <2>5, <3>1, Zenon
    <3> HIDE DEF x, k
    <3>3. Done - k <= x
      BY <3>2
    <3> QED BY <3>3 DEF x, k
  <2> QED BY <2>3, <2>6
<1> QED BY <1>1, Invariant, PTL

\* Whenever the worker dies, every job below its checkpoint has been processed.
THEOREM NoJobLost == Spec => []CheckpointProcessed
<1>1. IInv => CheckpointProcessed
  BY DEF IInv, WorkerInv, CheckpointProcessed
<1> QED BY <1>1, Invariant, PTL
=============================================================================
