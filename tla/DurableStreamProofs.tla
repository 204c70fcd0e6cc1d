------------------------- MODULE DurableStreamProofs -------------------------
(***************************************************************************)
(* Proofs about DurableStream, for any number of handles, any payloads and *)
(* any bounds.  They need one assumption on the faults: either a failed    *)
(* fsync does not make dirty pages look clean, or no handle goes away      *)
(* leaving dirty pages behind.                                             *)
(***************************************************************************)
EXTENDS DurableStream, SequenceTheorems, SetInduction, TLAPS

FaultsApart == ~(CleanLost /\ DirtyExit)

-----------------------------------------------------------------------------
(* The inductive invariant.                                                *)

\* Only the flock's owner touches the file, and it has the file open.
OwnerInv ==
    \A h \in Handle :
        /\ pc[h] \in {"repair", "write", "rollback", "resync"} => owner = h
        /\ owner = h => pc[h] \notin {"gone", "row"}

\* Acknowledged records are in the file and on the disk.
KeptInv == IsPrefix(acked, disk) /\ IsPrefix(acked, cache)

\* What the owner's index says of the file, at each point of its operations.
IndexInv ==
    \A h \in Handle : owner = h =>
        /\ IsPrefix(index[h], cache)
        /\ pc[h] = "scan" => found[h] = cache
        /\ pc[h] # "scan" => IsPrefix(acked, index[h])
        /\ pc[h] \in {"repair", "resync"} \/ (pc[h] = "ready" /\ ~closed[h])
             => cache = index[h]
        /\ pc[h] = "write" => cache = index[h] \o SubSeq(batch, 1, written)

\* The owner's append is under way: the file may hold bytes no fsync covered.
Appending(h) == owner = h /\ pc[h] \in {"write", "rollback"}

\* Cells that a failed fsync lost are never below the end that the rollback
\* to come will cut back to.
LostInv ==
    /\ ~CleanLost => lost = {}
    /\ \A i \in lost : \E h \in Handle :
         owner = h /\ pc[h] = "rollback" /\ i > Len(index[h])

\* With a forgetful disk, the file is on disk except for an append under way.
CleanInv ==
    CleanLost =>
        /\ (\A h \in Handle : ~Appending(h)) => IsPrefix(cache, disk)
        /\ \A h \in Handle : Appending(h) => IsPrefix(index[h], disk)

\* What was acknowledged when a handle took the file's size was in the file
\* then; its scan finds it, and does not end before.
SeenInv ==
    \A h \in Handle :
        /\ seen[h] <= Len(acked)
        /\ \A i \in 1..seen[h] : i <= Len(index[h]) => index[h][i] = acked[i]
        /\ pc[h] = "scan" =>
             seen[h] <= Len(found[h]) /\ \A i \in 1..seen[h] : found[h][i] = acked[i]
        /\ pc[h] \notin {"gone", "row", "scan"} => seen[h] <= Len(index[h])

IInv == TypeOK /\ OwnerInv /\ KeptInv /\ IndexInv /\ LostInv /\ CleanInv /\ SeenInv

-----------------------------------------------------------------------------
(* Prefixes.                                                               *)

\* IsPrefix, cell by cell: the form the proofs below use.
LEMMA PrefixCells ==
    ASSUME NEW S, NEW s \in Seq(S), NEW t \in Seq(S)
    PROVE  IsPrefix(s, t) <=>
             Len(s) <= Len(t) /\ \A i \in 1..Len(s) : s[i] = t[i]
<1>1. ASSUME Len(s) <= Len(t)
      PROVE  /\ SubSeq(t, 1, Len(s)) \in Seq(S)
             /\ Len(SubSeq(t, 1, Len(s))) = Len(s)
             /\ \A i \in 1..Len(s) : SubSeq(t, 1, Len(s))[i] = t[i]
  BY <1>1
<1>2. SubSeq(s, 1, Len(s)) = s
  OBVIOUS
<1>3. ASSUME Len(s) <= Len(t), \A i \in 1..Len(s) : s[i] = t[i]
      PROVE  SubSeq(t, 1, Len(s)) = s
  <2>1. \A i \in 1..Len(s) : SubSeq(t, 1, Len(s))[i] = s[i]
    BY <1>1, <1>3
  <2> QED
    BY <1>1, <1>3, <2>1, SeqEqual
<1> QED
  BY <1>1, <1>2, <1>3 DEF IsPrefix

\* A file cut at n is its first n cells.
LEMMA CutCells ==
    ASSUME NEW S, NEW t \in Seq(S), NEW n \in 0..Len(t)
    PROVE  /\ Cut(t, n) \in Seq(S)
           /\ Len(Cut(t, n)) = n
           /\ \A i \in 1..n : Cut(t, n)[i] = t[i]
BY DEF Cut

LEMMA PrefixTransitive ==
    ASSUME NEW S, NEW s \in Seq(S), NEW t \in Seq(S), NEW u \in Seq(S),
           IsPrefix(s, t), IsPrefix(t, u)
    PROVE  IsPrefix(s, u)
BY PrefixCells

LEMMA PrefixReflexive ==
    ASSUME NEW S, NEW s \in Seq(S)
    PROVE  IsPrefix(s, s)
BY PrefixCells

LEMMA PrefixEmpty ==
    ASSUME NEW S, NEW s \in Seq(S)
    PROVE  <<>> \in Seq(S) /\ IsPrefix(<<>>, s)
<1>1. <<>> \in Seq(S) /\ Len(<<>>) = 0
  BY EmptySeq
<1>2. Len(<<>>) <= Len(s) /\ 1..Len(<<>>) = {}
  BY <1>1
<1>3. \A i \in 1..Len(<<>>) : <<>>[i] = s[i]
  BY <1>2
<1> QED
  BY <1>1, <1>2, <1>3, PrefixCells

LEMMA PrefixConcat ==
    ASSUME NEW S, NEW s \in Seq(S), NEW t \in Seq(S)
    PROVE  IsPrefix(s, s \o t)
<1>1. /\ s \o t \in Seq(S) /\ Len(s) <= Len(s \o t)
      /\ \A i \in 1..Len(s) : (s \o t)[i] = s[i]
  BY ConcatProperties
<1> QED
  BY <1>1, PrefixCells

LEMMA PrefixAppend ==
    ASSUME NEW S, NEW s \in Seq(S), NEW t \in Seq(S), NEW e \in S,
           IsPrefix(s, t)
    PROVE  Append(t, e) \in Seq(S) /\ IsPrefix(s, Append(t, e))
<1>1. /\ Append(t, e) \in Seq(S) /\ Len(Append(t, e)) = Len(t) + 1
      /\ \A i \in 1..Len(t) : Append(t, e)[i] = t[i]
  BY AppendProperties
<1>2. Len(s) <= Len(t) /\ \A i \in 1..Len(s) : s[i] = t[i]
  BY PrefixCells
<1>3. Len(s) <= Len(Append(t, e)) /\ \A i \in 1..Len(s) : s[i] = Append(t, e)[i]
  BY <1>1, <1>2
<1> QED
  BY <1>1, <1>3, PrefixCells

\* Of two prefixes of one sequence the shorter is a prefix of the longer.
LEMMA PrefixesNested ==
    ASSUME NEW S, NEW s \in Seq(S), NEW t \in Seq(S), NEW u \in Seq(S),
           IsPrefix(s, u), IsPrefix(t, u), Len(s) <= Len(t)
    PROVE  IsPrefix(s, t)
BY PrefixCells

\* Prefixes of equal length are the sequence itself.
LEMMA PrefixWhole ==
    ASSUME NEW S, NEW s \in Seq(S), NEW t \in Seq(S),
           IsPrefix(s, t), Len(s) = Len(t)
    PROVE  s = t
BY PrefixCells, SeqEqual

\* A cut keeps every prefix that is not longer than it.
LEMMA PrefixCut ==
    ASSUME NEW S, NEW s \in Seq(S), NEW t \in Seq(S), NEW n \in 0..Len(t),
           IsPrefix(s, t), Len(s) <= n
    PROVE  IsPrefix(s, Cut(t, n))
BY PrefixCells, CutCells

\* Cutting where a prefix ends gives that prefix.
LEMMA CutPrefix ==
    ASSUME NEW S, NEW s \in Seq(S), NEW t \in Seq(S), IsPrefix(s, t)
    PROVE  Cut(t, Len(s)) = s
BY DEF IsPrefix, Cut

-----------------------------------------------------------------------------
(* What the disk may hold.                                                 *)

\* A write-back keeps every prefix that the disk and the file agree on.
LEMMA ImagesKeepPrefix ==
    ASSUME NEW S, NEW d \in Seq(S), NEW c \in Seq(S), NEW p \in Seq(S),
           Torn \in S, IsPrefix(p, d), IsPrefix(p, c), NEW f \in Images(d, c)
    PROVE  f \in Seq(S) /\ IsPrefix(p, f)
<1>1. CASE f = d
  BY <1>1
<1>2. ASSUME NEW m \in 0..Len(c),
             \A j \in 1..Len(c) : j <= Len(d) /\ Agree(d, c, j) => j <= m,
             f \in {Cut(c, m), Append(Cut(c, m), Torn)}
      PROVE  f \in Seq(S) /\ IsPrefix(p, f)
  <2>1. Len(p) <= m
    <3>1. CASE Len(p) = 0
      BY <3>1
    <3>2. CASE Len(p) # 0
      <4>1. Len(p) \in 1..Len(c) /\ Len(p) <= Len(d)
        BY <3>2, PrefixCells
      <4>2. Agree(d, c, Len(p))
        BY PrefixCells DEF Agree
      <4> QED
        BY <4>1, <4>2, <1>2
    <3> QED
      BY <3>1, <3>2
  <2>2. Cut(c, m) \in Seq(S) /\ IsPrefix(p, Cut(c, m))
    BY <2>1, CutCells, PrefixCut
  <2> QED
    BY <1>2, <2>2, PrefixAppend
<1> QED
  BY <1>1, <1>2 DEF Images

\* Settled is the file, but for the lost cells.
LEMMA SettledCells ==
    ASSUME TypeOK
    PROVE  /\ Settled \in Seq(Cell)
           /\ Len(Settled) = Len(cache)
           /\ \A i \in 1..Len(cache) :
                Settled[i] = IF i \in lost THEN Torn ELSE cache[i]
<1>1. cache \in Seq(Cell) /\ DOMAIN cache = 1..Len(cache) /\ Len(cache) \in Nat
  BY DEF TypeOK
<1>2. \A i \in 1..Len(cache) : cache[i] \in Cell
  BY <1>1, ElementOfSeq
<1>3. Settled \in [1..Len(cache) -> Cell]
  BY <1>1, <1>2 DEF Settled, Cell
<1>4. Settled \in Seq(Cell) /\ Len(Settled) = Len(cache)
  BY <1>1, <1>3
<1> QED
  BY <1>1, <1>4 DEF Settled

LEMMA SettledWhole ==
    ASSUME TypeOK, lost = {}
    PROVE  Settled = cache
BY SettledCells, SeqEqual DEF TypeOK

\* A prefix of the file with no lost cell is a prefix of what gets written.
LEMMA SettledPrefix ==
    ASSUME TypeOK, NEW p \in Seq(Cell), IsPrefix(p, cache),
           \A i \in lost : i > Len(p)
    PROVE  IsPrefix(p, Settled)
<1>1. /\ Len(p) <= Len(cache) /\ Len(p) \in Nat /\ Len(cache) \in Nat
      /\ \A i \in 1..Len(p) : p[i] = cache[i] /\ i \notin lost
  BY PrefixCells DEF TypeOK
<1>2. \A i \in 1..Len(p) : p[i] = Settled[i]
  BY <1>1, SettledCells
<1> QED
  BY <1>1, <1>2, SettledCells, PrefixCells

-----------------------------------------------------------------------------
(* The steps.                                                              *)

\* A sequence of payloads is a sequence of cells.
LEMMA PayloadCells == \A s \in Seq(Payload) : s \in Seq(Cell)
BY DEF Cell

\* One more cell of the sequence it is a prefix of.
LEMMA PrefixNext ==
    ASSUME NEW S, NEW s \in Seq(S), NEW t \in Seq(S),
           IsPrefix(s, t), Len(s) + 1 <= Len(t)
    PROVE  IsPrefix(Append(s, t[Len(s) + 1]), t)
<1> DEFINE u == Append(s, t[Len(s) + 1])
<1>1. t[Len(s) + 1] \in S
  OBVIOUS
<1>2. u \in Seq(S) /\ Len(u) = Len(s) + 1
  BY <1>1, AppendProperties
<1>3. \A i \in 1..Len(s) : u[i] = s[i] /\ s[i] = t[i]
  BY <1>1, AppendProperties, PrefixCells
<1>4. u[Len(s) + 1] = t[Len(s) + 1]
  BY <1>1, AppendProperties
<1>5. \A i \in 1..Len(u) : u[i] = t[i]
  BY <1>2, <1>3, <1>4
<1> QED
  BY <1>2, <1>5, PrefixCells

\* Only an owner that will roll back has lost cells.
LEMMA NothingLost ==
    ASSUME IInv, NEW h \in Handle, owner = h, pc[h] # "rollback"
    PROVE  lost = {}
BY DEF IInv, LostInv

\* Acknowledged records are in what a sync or a write-back of the file writes.
LEMMA SettledKeeps ==
    ASSUME IInv
    PROVE  Settled \in Seq(Cell) /\ IsPrefix(acked, Settled)
<1>1. acked \in Seq(Cell) /\ cache \in Seq(Cell) /\ IsPrefix(acked, cache)
  BY PayloadCells DEF IInv, TypeOK, KeptInv
<1>2. ASSUME NEW i \in lost PROVE i > Len(acked)
  <2>1. PICK h \in Handle : owner = h /\ pc[h] = "rollback" /\ i > Len(index[h])
    BY <1>2 DEF IInv, LostInv
  <2>2. IsPrefix(acked, index[h]) /\ index[h] \in Seq(Payload) /\ acked \in Seq(Payload)
    BY <2>1 DEF IInv, TypeOK, IndexInv
  <2>3. Len(acked) <= Len(index[h])
    BY <2>2, PrefixCells
  <2>4. i \in Nat
    BY <1>2 DEF IInv, TypeOK
  <2> QED
    BY <2>1, <2>2, <2>3, <2>4
<1> QED
  BY <1>1, <1>2, SettledPrefix, SettledCells DEF IInv

\* What the owner's index says of the file, in the form the steps need.
LEMMA OwnerFacts ==
    ASSUME IInv, NEW h \in Handle, owner = h
    PROVE  /\ index[h] \in Seq(Payload) /\ index[h] \in Seq(Cell)
           /\ cache \in Seq(Cell) /\ disk \in Seq(Cell)
           /\ acked \in Seq(Payload) /\ acked \in Seq(Cell)
           /\ IsPrefix(index[h], cache) /\ Len(index[h]) <= Len(cache)
           /\ Cut(cache, Len(index[h])) = index[h]
<1>1. /\ index[h] \in Seq(Payload) /\ index[h] \in Seq(Cell)
      /\ cache \in Seq(Cell) /\ disk \in Seq(Cell)
      /\ acked \in Seq(Payload) /\ acked \in Seq(Cell)
      /\ IsPrefix(index[h], cache)
  BY PayloadCells DEF IInv, TypeOK, IndexInv
<1> QED
  BY <1>1, PrefixCells, CutPrefix

\* A scan adds payloads to the index.
LEMMA NextFramesType ==
    ASSUME IInv, NEW h \in Handle, NEW p \in NextFrames(h)
    PROVE  p \in Payload /\ index[h] \in Seq(Payload) /\ Append(index[h], p) \in Seq(Payload)
<1>1. index[h] \in Seq(Payload) /\ cache \in Seq(Cell) /\ Len(index[h]) + 1 \in Nat \ {0}
  BY DEF IInv, TypeOK
<1>2. p \in Payload
  BY <1>1 DEF NextFrames, Cell
<1> QED
  BY <1>1, <1>2, AppendProperties

\* While the index is the beginning of the file, the next frame is the file's.
LEMMA NextFrameAligned ==
    ASSUME IInv, NEW h \in Handle, NEW p \in NextFrames(h), IsPrefix(index[h], cache)
    PROVE  Len(index[h]) + 1 <= Len(cache) /\ p = cache[Len(index[h]) + 1]
BY DEF NextFrames

\* What the scan must find: the next cell of the file, if it is an intact frame
\* that was there when the handle took the size.
LEMMA FrameIsAhead ==
    ASSUME IInv, NEW h \in Handle, IsPrefix(index[h], cache), IsPrefix(index[h], found[h]),
           Len(index[h]) + 1 <= Len(cache), Len(index[h]) + 1 <= Len(found[h]),
           cache[Len(index[h]) + 1] = found[h][Len(index[h]) + 1],
           cache[Len(index[h]) + 1] # Torn
    PROVE  FrameAhead(h)
<1> DEFINE p == cache[Len(index[h]) + 1]
<1>1. index[h] \in Seq(Cell) /\ cache \in Seq(Cell) /\ found[h] \in Seq(Cell)
  BY PayloadCells DEF IInv, TypeOK
<1>2. index[h] # found[h]
  BY <1>1
<1>3. p \in NextFrames(h)
  BY <1>2 DEF NextFrames
<1>4. IsPrefix(Append(index[h], p), cache) /\ IsPrefix(Append(index[h], p), found[h])
  BY <1>1, PrefixNext
<1> QED
  BY <1>3, <1>4 DEF FrameAhead

\* The owner's scan ends before the end of the file only at a torn cell.
LEMMA OwnerScan ==
    ASSUME IInv, NEW h \in Handle, owner = h, pc[h] = "scan", index[h] # found[h],
           ~FrameAhead(h)
    PROVE  Len(index[h]) + 1 <= Len(cache) /\ cache[Len(index[h]) + 1] = Torn
<1>1. found[h] = cache
  BY DEF IInv, IndexInv
<1>2. Len(index[h]) + 1 <= Len(cache)
  <2>1. Len(index[h]) # Len(cache)
    BY <1>1, OwnerFacts, PrefixWhole
  <2> QED
    BY <2>1, OwnerFacts
<1> QED
  BY <1>1, <1>2, OwnerFacts, FrameIsAhead

\* What a handle has indexed of the records acknowledged when it took the size
\* is the beginning of the file, now as then.
LEMMA SeenPart ==
    ASSUME IInv, NEW h \in Handle, pc[h] = "scan", Len(index[h]) < seen[h]
    PROVE  /\ IsPrefix(index[h], cache) /\ IsPrefix(index[h], found[h])
           /\ Len(index[h]) + 1 \in 1..seen[h]
           /\ Len(index[h]) + 1 <= Len(cache) /\ Len(index[h]) + 1 <= Len(found[h])
           /\ cache[Len(index[h]) + 1] = acked[Len(index[h]) + 1]
           /\ found[h][Len(index[h]) + 1] = acked[Len(index[h]) + 1]
           /\ acked[Len(index[h]) + 1] \in Payload
<1>1. /\ index[h] \in Seq(Cell) /\ cache \in Seq(Cell) /\ found[h] \in Seq(Cell)
      /\ acked \in Seq(Payload) /\ acked \in Seq(Cell) /\ seen[h] \in Nat
      /\ Len(index[h]) \in Nat /\ Len(cache) \in Nat /\ Len(found[h]) \in Nat
      /\ Len(acked) \in Nat
  BY PayloadCells DEF IInv, TypeOK
<1>2. Len(acked) <= Len(cache) /\ \A i \in 1..Len(acked) : acked[i] = cache[i]
  BY <1>1, PrefixCells DEF IInv, KeptInv
<1>3. /\ seen[h] <= Len(acked) /\ seen[h] <= Len(found[h])
      /\ \A i \in 1..seen[h] : found[h][i] = acked[i]
      /\ \A i \in 1..seen[h] : i <= Len(index[h]) => index[h][i] = acked[i]
  BY DEF IInv, SeenInv
<1>4. \A i \in 1..Len(index[h]) : index[h][i] = cache[i] /\ index[h][i] = found[h][i]
  BY <1>1, <1>2, <1>3
<1>5. IsPrefix(index[h], cache) /\ IsPrefix(index[h], found[h])
  <2>1. Len(index[h]) <= Len(cache) /\ Len(index[h]) <= Len(found[h])
    BY <1>1, <1>2, <1>3
  <2>2. \A i \in 1..Len(index[h]) : index[h][i] = cache[i]
    BY <1>4
  <2>3. \A i \in 1..Len(index[h]) : index[h][i] = found[h][i]
    BY <1>4
  <2>4. IsPrefix(index[h], cache)
    BY <1>1, <2>1, <2>2, PrefixCells
  <2>5. IsPrefix(index[h], found[h])
    BY <1>1, <2>1, <2>3, PrefixCells
  <2> QED
    BY <2>4, <2>5
<1>6. Len(index[h]) + 1 \in 1..seen[h] /\ Len(index[h]) + 1 \in 1..Len(acked)
  BY <1>1, <1>3
<1> QED
  BY <1>1, <1>2, <1>3, <1>5, <1>6, ElementOfSeq

\* When the file is on disk, a failing fsync has nothing to lose.
LEMMA NothingDirty ==
    ASSUME IInv, NEW h \in Handle, owner = h, pc[h] \in {"repair", "resync"}, SyncFails
    PROVE  lost' = {}
<1>1. lost = {}
  BY NothingLost
<1>2. CASE CleanLost
  <2>1. IsPrefix(cache, disk)
    BY <1>2 DEF IInv, CleanInv, Appending
  <2>2. /\ Len(cache) <= Len(disk) /\ Len(cache) \in Nat /\ Len(disk) \in Nat
        /\ DOMAIN cache = 1..Len(cache) /\ DOMAIN disk = 1..Len(disk)
        /\ \A i \in 1..Len(cache) : cache[i] = disk[i]
    BY <2>1, PrefixCells DEF IInv, TypeOK
  <2>3. Dirty = {}
    BY <2>2 DEF Dirty
  <2> QED
    BY <1>1, <2>3 DEF SyncFails
<1>3. CASE ~CleanLost
  BY <1>1, <1>3 DEF SyncFails
<1> QED
  BY <1>2, <1>3

\* The cells that a failing fsync may lose are cells of the file.
LEMMA DirtyCells ==
    ASSUME TypeOK
    PROVE  Dirty \subseteq 1..Len(cache)
BY DEF TypeOK, Dirty

\* The batches that AppendBegin takes are sequences of payloads.
LEMMA BatchType ==
    ASSUME NEW b \in BoundedSeq(Payload, MaxBatch)
    PROVE  b \in Seq(Payload)
BY DEF BoundedSeq, SeqOf

\* Writing one frame extends the written part of the batch.
LEMMA WrittenNext ==
    ASSUME NEW S, NEW s \in Seq(S), NEW b \in Seq(S), NEW n \in 0..(Len(b) - 1)
    PROVE  Append(s \o SubSeq(b, 1, n), b[n + 1]) = s \o SubSeq(b, 1, n + 1)
<1>1. /\ b[n + 1] \in S /\ Len(b) \in Nat
      /\ SubSeq(b, 1, n) \in Seq(S) /\ Len(SubSeq(b, 1, n)) = n
      /\ \A i \in 1..n : SubSeq(b, 1, n)[i] = b[i]
      /\ SubSeq(b, 1, n + 1) \in Seq(S) /\ Len(SubSeq(b, 1, n + 1)) = n + 1
      /\ \A i \in 1..n + 1 : SubSeq(b, 1, n + 1)[i] = b[i]
  OBVIOUS
<1>2. SubSeq(b, 1, n + 1) = Append(SubSeq(b, 1, n), b[n + 1])
  <2> DEFINE u == Append(SubSeq(b, 1, n), b[n + 1])
  <2>1. u \in Seq(S) /\ Len(u) = n + 1
    BY <1>1, AppendProperties
  <2>2. \A i \in 1..n + 1 : u[i] = b[i]
    BY <1>1, AppendProperties
  <2> HIDE DEF u
  <2>3. SubSeq(b, 1, n + 1) = u
    BY <1>1, <2>1, <2>2, SeqEqual
  <2> QED
    BY <2>3 DEF u
<1> QED
  BY <1>1, <1>2

LEMMA OpenRowStep ==
    ASSUME IInv, FaultsApart, NEW h \in Handle, OpenRow(h)
    PROVE  IInv'
<1> USE DEF fileVars, handleVars, appendVars, Goto, Gone
<1>1. TypeOK'
  BY DEF IInv, TypeOK, OpenRow
<1>2. OwnerInv'
  BY NamesDistinct DEF IInv, TypeOK, OwnerInv, OpenRow
<1>3. KeptInv'
  BY DEF IInv, TypeOK, KeptInv, OpenRow
<1>4. IndexInv'
  BY DEF IInv, TypeOK, OwnerInv, KeptInv, IndexInv, OpenRow
<1>5. LostInv'
  BY DEF IInv, TypeOK, OwnerInv, LostInv, OpenRow
<1>6. CleanInv'
  BY DEF IInv, TypeOK, OwnerInv, CleanInv, Appending, OpenRow
<1>7. SeenInv'
  BY DEF IInv, TypeOK, OwnerInv, SeenInv, OpenRow
<1> QED
  BY <1>1, <1>2, <1>3, <1>4, <1>5, <1>6, <1>7 DEF IInv

LEMMA OpenLogStep ==
    ASSUME IInv, FaultsApart, NEW h \in Handle, OpenLog(h)
    PROVE  IInv'
<1> USE DEF fileVars, handleVars, appendVars, Goto, Gone
<1>1. TypeOK'
  BY DEF IInv, TypeOK, OpenLog
<1>2. OwnerInv'
  BY NamesDistinct DEF IInv, TypeOK, OwnerInv, OpenLog
<1>3. KeptInv'
  BY DEF IInv, TypeOK, KeptInv, OpenLog
<1>4. IndexInv'
  <2> SUFFICES ASSUME NEW g \in Handle, owner' = g
               PROVE  IndexInv!(g)'
    BY DEF IndexInv
  <2>1. CASE g = h
    BY <2>1, PrefixEmpty DEF IInv, TypeOK, OwnerInv, OpenLog
  <2>2. CASE g # h
    BY <2>2 DEF IInv, TypeOK, OwnerInv, IndexInv, OpenLog
  <2> QED
    BY <2>1, <2>2
<1>5. LostInv'
  BY NamesDistinct DEF IInv, TypeOK, OwnerInv, LostInv, OpenLog
<1>6. CleanInv'
  <2>1. \A g \in Handle : Appending(g)' <=> Appending(g)
    BY NamesDistinct DEF IInv, TypeOK, OwnerInv, Appending, OpenLog
  <2>2. \A g \in Handle : Appending(g) => index'[g] = index[g]
    BY DEF IInv, TypeOK, Appending, OpenLog
  <2> QED
    BY <2>1, <2>2 DEF IInv, CleanInv, OpenLog
<1>7. SeenInv'
  <2>1. /\ Len(acked) <= Len(cache) /\ Len(acked) \in Nat
        /\ \A i \in 1..Len(acked) : cache[i] = acked[i]
    BY PayloadCells, PrefixCells DEF IInv, TypeOK, KeptInv
  <2>2. found'[h] = cache /\ seen'[h] = Len(acked) /\ index'[h] = <<>> /\ pc'[h] = "scan"
    BY DEF IInv, TypeOK, OpenLog
  <2>3. \A g \in Handle : g # h => found'[g] = found[g] /\ seen'[g] = seen[g]
                                  /\ index'[g] = index[g] /\ pc'[g] = pc[g]
    BY DEF IInv, TypeOK, OpenLog
  <2>4. acked' = acked
    BY DEF OpenLog
  <2> QED
    BY <2>1, <2>2, <2>3, <2>4, EmptySeq DEF IInv, SeenInv
<1> QED
  BY <1>1, <1>2, <1>3, <1>4, <1>5, <1>6, <1>7 DEF IInv

LEMMA ScanFrameStep ==
    ASSUME IInv, FaultsApart, NEW h \in Handle, ScanFrame(h)
    PROVE  IInv'
<1> USE DEF fileVars, handleVars, appendVars, Goto, Gone
<1>a. PICK p \in NextFrames(h) : index' = [index EXCEPT ![h] = Append(@, p)]
  BY DEF ScanFrame
<1>b. index'[h] = Append(index[h], p) /\ \A g \in Handle : g # h => index'[g] = index[g]
  BY <1>a DEF IInv, TypeOK
<1>1. TypeOK'
  BY <1>a, NextFramesType DEF IInv, TypeOK, ScanFrame
<1>2. OwnerInv'
  BY NamesDistinct DEF IInv, TypeOK, OwnerInv, ScanFrame
<1>3. KeptInv'
  BY DEF IInv, TypeOK, KeptInv, ScanFrame
<1>4. IndexInv'
  <2> SUFFICES ASSUME NEW g \in Handle, owner' = g
               PROVE  IndexInv!(g)'
    BY DEF IndexInv
  <2>1. CASE g = h
    <3>1. /\ index[h] \in Seq(Cell) /\ cache \in Seq(Cell) /\ IsPrefix(index[h], cache)
      BY <2>1, OwnerFacts DEF ScanFrame
    <3>2. Len(index[h]) + 1 <= Len(cache) /\ p = cache[Len(index[h]) + 1]
      BY <3>1, NextFrameAligned
    <3>3. IsPrefix(Append(index[h], p), cache)
      BY <3>1, <3>2, PrefixNext
    <3> QED
      BY <2>1, <1>b, <3>3 DEF IInv, TypeOK, IndexInv, ScanFrame
  <2>2. CASE g # h
    BY <2>2 DEF IInv, TypeOK, IndexInv, ScanFrame
  <2> QED
    BY <2>1, <2>2
<1>5. LostInv'
  BY DEF IInv, TypeOK, OwnerInv, LostInv, ScanFrame
<1>6. CleanInv'
  BY DEF IInv, TypeOK, OwnerInv, CleanInv, Appending, ScanFrame
<1>7. SeenInv'
  <2>1. /\ p \in Payload /\ index[h] \in Seq(Payload) /\ Len(index[h]) \in Nat
        /\ Len(index'[h]) = Len(index[h]) + 1
        /\ index'[h][Len(index[h]) + 1] = p
        /\ \A i \in 1..Len(index[h]) : index'[h][i] = index[h][i]
    BY <1>b, NextFramesType, AppendProperties
  <2>2. seen[h] \in Nat /\ pc[h] = "scan"
    BY DEF IInv, TypeOK, ScanFrame
  <2>3. Len(index[h]) < seen[h] => p = acked[Len(index[h]) + 1]
    BY <2>2, SeenPart, NextFrameAligned
  <2>4. ASSUME NEW i \in 1..seen[h], i <= Len(index'[h]) PROVE index'[h][i] = acked[i]
    <3>1. CASE i <= Len(index[h])
      BY <2>1, <2>2, <3>1 DEF IInv, SeenInv
    <3>2. CASE i = Len(index[h]) + 1
      BY <2>1, <2>2, <2>3, <3>2
    <3> QED
      BY <2>1, <2>2, <2>4, <3>1, <3>2
  <2> QED
    BY <1>b, <2>2, <2>4 DEF IInv, SeenInv, ScanFrame
<1> QED
  BY <1>1, <1>2, <1>3, <1>4, <1>5, <1>6, <1>7 DEF IInv

LEMMA ScanEndStep ==
    ASSUME IInv, FaultsApart, NEW h \in Handle, ScanEnd(h)
    PROVE  IInv'
<1> USE DEF fileVars, handleVars, appendVars, Goto, Gone
<1>1. TypeOK'
  BY DEF IInv, TypeOK, ScanEnd
<1>2. OwnerInv'
  BY NamesDistinct DEF IInv, TypeOK, OwnerInv, ScanEnd
<1>3. KeptInv'
  BY DEF IInv, TypeOK, KeptInv, ScanEnd
<1>4. IndexInv'
  <2> SUFFICES ASSUME NEW g \in Handle, owner' = g
               PROVE  IndexInv!(g)'
    BY DEF IndexInv
  <2>1. CASE g = h
    <3>2. cache = index[h]
      BY <2>1 DEF IInv, IndexInv, ScanEnd
    <3> QED
      BY <2>1, <3>2 DEF IInv, TypeOK, IndexInv, KeptInv, ScanEnd
  <2>2. CASE g # h
    BY <2>2 DEF IInv, TypeOK, IndexInv, ScanEnd
  <2> QED
    BY <2>1, <2>2
<1>5. LostInv'
  BY DEF IInv, TypeOK, OwnerInv, LostInv, ScanEnd
<1>6. CleanInv'
  BY DEF IInv, TypeOK, OwnerInv, CleanInv, Appending, ScanEnd
<1>7. SeenInv'
  <2>1. Len(index[h]) \in Nat /\ seen[h] \in Nat
    BY DEF IInv, TypeOK
  <2>2. ~(Len(index[h]) < seen[h])
    <3> SUFFICES ASSUME Len(index[h]) < seen[h] PROVE FrameAhead(h)
      BY DEF ScanEnd
    <3> QED
      BY SeenPart, FrameIsAhead, NamesDistinct DEF ScanEnd
  <2> QED
    BY <2>1, <2>2 DEF IInv, TypeOK, SeenInv, ScanEnd
<1> QED
  BY <1>1, <1>2, <1>3, <1>4, <1>5, <1>6, <1>7 DEF IInv

LEMMA RepairStep ==
    ASSUME IInv, FaultsApart, NEW h \in Handle, Repair(h)
    PROVE  IInv'
<1> USE DEF fileVars, handleVars, appendVars, Goto, Gone
<1>a. owner = h /\ pc[h] = "scan" /\ cache' = index[h]
  BY OwnerFacts DEF Repair
<1>b. IsPrefix(acked, index[h])
  <2>1. /\ IsPrefix(acked, cache)
        /\ Len(index[h]) \in Nat /\ Len(cache) \in Nat /\ Len(acked) \in Nat
    BY <1>a DEF IInv, TypeOK, KeptInv
  <2>2. Len(index[h]) + 1 <= Len(cache) /\ cache[Len(index[h]) + 1] = Torn
    BY <1>a, OwnerScan DEF Repair
  <2>3. Len(acked) <= Len(index[h])
    <3>1. \A i \in 1..Len(acked) : cache[i] \in Payload
      BY <1>a, <2>1, OwnerFacts, PrefixCells, ElementOfSeq
    <3> QED
      BY <2>1, <2>2, <3>1, NamesDistinct
  <2> QED
    BY <1>a, <2>1, <2>3, OwnerFacts, PrefixesNested
<1>1. TypeOK'
  BY <1>a, OwnerFacts DEF IInv, TypeOK, Repair
<1>2. OwnerInv'
  BY NamesDistinct DEF IInv, TypeOK, OwnerInv, Repair
<1>3. KeptInv'
  BY <1>a, <1>b DEF IInv, KeptInv, Repair
<1>4. IndexInv'
  <2> SUFFICES ASSUME NEW g \in Handle, owner' = g
               PROVE  IndexInv!(g)'
    BY DEF IndexInv
  <2>1. CASE g = h
    BY <2>1, <1>a, <1>b, OwnerFacts, PrefixReflexive DEF Repair, IInv, TypeOK, IndexInv
  <2>2. CASE g # h
    BY <2>2, <1>a DEF IInv, TypeOK, OwnerInv, IndexInv, Repair
  <2> QED
    BY <2>1, <2>2
<1>5. LostInv'
  BY DEF IInv, TypeOK, OwnerInv, LostInv, Repair
<1>6. CleanInv'
  <2> SUFFICES ASSUME CleanLost
               PROVE  IsPrefix(index[h], disk)
    BY <1>a DEF IInv, TypeOK, CleanInv, Appending, Repair
  <2>1. IsPrefix(cache, disk)
    BY <1>a DEF IInv, CleanInv, Appending
  <2> QED
    BY <1>a, <2>1, OwnerFacts, PrefixTransitive
<1>7. SeenInv'
  <2>1. seen[h] <= Len(acked) /\ Len(acked) <= Len(index[h])
        /\ Len(acked) \in Nat /\ Len(index[h]) \in Nat /\ seen[h] \in Nat
    BY <1>a, <1>b, OwnerFacts, PrefixCells DEF IInv, TypeOK, SeenInv
  <2> QED
    BY <2>1 DEF IInv, TypeOK, SeenInv, Repair
<1> QED
  BY <1>1, <1>2, <1>3, <1>4, <1>5, <1>6, <1>7 DEF IInv

LEMMA RepairSyncStep ==
    ASSUME IInv, FaultsApart, NEW h \in Handle, RepairSync(h)
    PROVE  IInv'
<1> USE DEF fileVars, handleVars, appendVars, Goto, Gone
<1>a. owner = h /\ disk' = cache /\ lost = {}
  BY NothingLost, SettledWhole DEF IInv, OwnerInv, RepairSync
<1>1. TypeOK'
  BY <1>a DEF IInv, TypeOK, RepairSync
<1>2. OwnerInv'
  BY NamesDistinct DEF IInv, TypeOK, OwnerInv, RepairSync
<1>3. KeptInv'
  BY <1>a DEF IInv, KeptInv, RepairSync
<1>4. IndexInv'
  BY DEF IInv, TypeOK, OwnerInv, KeptInv, IndexInv, RepairSync
<1>5. LostInv'
  BY DEF IInv, TypeOK, OwnerInv, LostInv, RepairSync
<1>6. CleanInv'
  BY <1>a, OwnerFacts, PrefixReflexive DEF IInv, TypeOK, CleanInv, Appending, RepairSync
<1>7. SeenInv'
  BY DEF IInv, TypeOK, OwnerInv, SeenInv, RepairSync
<1> QED
  BY <1>1, <1>2, <1>3, <1>4, <1>5, <1>6, <1>7 DEF IInv

LEMMA RepairSyncFailsStep ==
    ASSUME IInv, FaultsApart, NEW h \in Handle, RepairSyncFails(h)
    PROVE  IInv'
<1> USE DEF fileVars, handleVars, appendVars, Goto, Gone
<1>a. owner = h /\ lost' = {}
  BY NothingDirty DEF IInv, OwnerInv, RepairSyncFails
<1>1. TypeOK'
  BY <1>a, EmptySeq DEF IInv, TypeOK, RepairSyncFails
<1>2. OwnerInv'
  BY NamesDistinct DEF IInv, TypeOK, OwnerInv, RepairSyncFails
<1>3. KeptInv'
  BY DEF IInv, TypeOK, KeptInv, RepairSyncFails
<1>4. IndexInv'
  BY <1>a, NamesDistinct DEF IInv, IndexInv, RepairSyncFails
<1>5. LostInv'
  BY <1>a DEF LostInv
<1>6. CleanInv'
  BY DEF IInv, TypeOK, OwnerInv, CleanInv, Appending, RepairSyncFails
<1>7. SeenInv'
  BY DEF IInv, TypeOK, OwnerInv, SeenInv, RepairSyncFails
<1> QED
  BY <1>1, <1>2, <1>3, <1>4, <1>5, <1>6, <1>7 DEF IInv

LEMMA AppendBeginStep ==
    ASSUME IInv, FaultsApart, NEW h \in Handle, NEW b \in BoundedSeq(Payload, MaxBatch), AppendBegin(h, b)
    PROVE  IInv'
<1> USE DEF fileVars, handleVars, appendVars, Goto, Gone
<1>1. TypeOK'
  BY BatchType DEF IInv, TypeOK, AppendBegin
<1>2. OwnerInv'
  BY NamesDistinct DEF IInv, TypeOK, OwnerInv, AppendBegin
<1>3. KeptInv'
  BY DEF IInv, TypeOK, KeptInv, AppendBegin
<1>4. IndexInv'
  BY DEF IInv, TypeOK, OwnerInv, KeptInv, IndexInv, AppendBegin
<1>5. LostInv'
  BY DEF IInv, TypeOK, OwnerInv, LostInv, AppendBegin
<1>6. CleanInv'
  <2> SUFFICES ASSUME CleanLost
               PROVE  IsPrefix(index[h], disk)
    BY DEF IInv, TypeOK, CleanInv, Appending, AppendBegin
  <2>1. IsPrefix(cache, disk)
    BY DEF IInv, CleanInv, Appending, AppendBegin
  <2> QED
    BY <2>1 DEF IInv, IndexInv, AppendBegin
<1>7. SeenInv'
  BY DEF IInv, TypeOK, OwnerInv, SeenInv, AppendBegin
<1> QED
  BY <1>1, <1>2, <1>3, <1>4, <1>5, <1>6, <1>7 DEF IInv

LEMMA WriteFrameStep ==
    ASSUME IInv, FaultsApart, NEW h \in Handle, WriteFrame(h)
    PROVE  IInv'
<1> USE DEF fileVars, handleVars, appendVars, Goto, Gone
<1>a. owner = h /\ cache' = Append(cache, batch[written + 1])
  BY DEF IInv, OwnerInv, WriteFrame
<1>b. batch[written + 1] \in Payload /\ batch[written + 1] \in Cell
  BY DEF IInv, TypeOK, WriteFrame, Cell
<1>c. /\ cache' \in Seq(Cell) /\ Len(cache') = Len(cache) + 1
      /\ IsPrefix(acked, cache') /\ IsPrefix(index[h], cache')
  BY <1>a, <1>b, OwnerFacts, PrefixAppend, AppendProperties DEF IInv, KeptInv
<1>1. TypeOK'
  BY <1>c DEF IInv, TypeOK, WriteFrame
<1>2. OwnerInv'
  BY NamesDistinct DEF IInv, TypeOK, OwnerInv, WriteFrame
<1>3. KeptInv'
  BY <1>c DEF IInv, KeptInv, WriteFrame
<1>4. IndexInv'
  <2> SUFFICES ASSUME NEW g \in Handle, owner' = g
               PROVE  IndexInv!(g)'
    BY DEF IndexInv
  <2>1. CASE g = h
    <3>1. cache = index[h] \o SubSeq(batch, 1, written)
      BY <1>a DEF IInv, IndexInv, WriteFrame
    <3>2. cache' = index[h] \o SubSeq(batch, 1, written + 1)
      <4>1. /\ index[h] \in Seq(Payload) /\ batch \in Seq(Payload)
            /\ written \in 0..(Len(batch) - 1)
        BY DEF IInv, TypeOK, WriteFrame
      <4>2. Append(index[h] \o SubSeq(batch, 1, written), batch[written + 1])
              = index[h] \o SubSeq(batch, 1, written + 1)
        BY <4>1, WrittenNext
      <4> QED
        BY <1>a, <3>1, <4>2
    <3> QED
      BY <2>1, <1>a, <1>c, <3>2 DEF IInv, IndexInv, WriteFrame
  <2>2. CASE g # h
    BY <2>2, <1>a DEF WriteFrame
  <2> QED
    BY <2>1, <2>2
<1>5. LostInv'
  BY DEF IInv, TypeOK, OwnerInv, LostInv, WriteFrame
<1>6. CleanInv'
  BY DEF IInv, TypeOK, OwnerInv, CleanInv, Appending, WriteFrame
<1>7. SeenInv'
  BY DEF IInv, TypeOK, OwnerInv, SeenInv, WriteFrame
<1> QED
  BY <1>1, <1>2, <1>3, <1>4, <1>5, <1>6, <1>7 DEF IInv

LEMMA WriteFailsStep ==
    ASSUME IInv, FaultsApart, NEW h \in Handle, WriteFails(h)
    PROVE  IInv'
<1> USE DEF fileVars, handleVars, appendVars, Goto, Gone
<1>a. owner = h /\ cache' \in {cache, Append(cache, Torn)}
  BY DEF IInv, OwnerInv, WriteFails
<1>b. /\ cache' \in Seq(Cell) /\ Len(cache') >= Len(cache)
      /\ IsPrefix(acked, cache') /\ IsPrefix(index[h], cache')
  <2>1. Torn \in Cell /\ Append(cache, Torn) \in Seq(Cell)
        /\ Len(Append(cache, Torn)) = Len(cache) + 1
    BY <1>a, OwnerFacts, AppendProperties DEF Cell
  <2>2. IsPrefix(acked, Append(cache, Torn)) /\ IsPrefix(index[h], Append(cache, Torn))
    BY <1>a, <2>1, OwnerFacts, PrefixAppend DEF IInv, KeptInv
  <2>3. cache \in Seq(Cell) /\ IsPrefix(acked, cache) /\ IsPrefix(index[h], cache)
    BY <1>a, OwnerFacts DEF IInv, KeptInv
  <2>4. CASE cache' = cache
    BY <2>3, <2>4
  <2>5. CASE cache' = Append(cache, Torn)
    BY <2>1, <2>2, <2>3, <2>5
  <2> QED
    BY <1>a, <2>4, <2>5
<1>1. TypeOK'
  BY <1>b DEF IInv, TypeOK, WriteFails
<1>2. OwnerInv'
  BY NamesDistinct DEF IInv, TypeOK, OwnerInv, WriteFails
<1>3. KeptInv'
  BY <1>b DEF IInv, KeptInv, WriteFails
<1>4. IndexInv'
  BY <1>a, <1>b DEF IInv, TypeOK, IndexInv, WriteFails
<1>5. LostInv'
  BY DEF IInv, TypeOK, OwnerInv, LostInv, WriteFails
<1>6. CleanInv'
  BY DEF IInv, TypeOK, OwnerInv, CleanInv, Appending, WriteFails
<1>7. SeenInv'
  BY DEF IInv, TypeOK, OwnerInv, SeenInv, WriteFails
<1> QED
  BY <1>1, <1>2, <1>3, <1>4, <1>5, <1>6, <1>7 DEF IInv

\* A sync that succeeds leaves the disk with what is then acknowledged.
LEMMA WholeOnDisk ==
    ASSUME IInv, NEW h \in Handle, FsyncOk(h)
    PROVE  /\ acked' \in Seq(Payload) /\ acked \in Seq(Payload)
           /\ disk' = acked' /\ cache = acked' /\ index'[h] = acked'
           /\ acked' = index[h] \o batch
           /\ owner = h /\ lost = {}
<1>1. owner = h /\ disk' = cache /\ lost = {}
  BY NothingLost, SettledWhole DEF IInv, OwnerInv, FsyncOk
<1>2. SubSeq(batch, 1, written) = batch
  BY DEF IInv, TypeOK, FsyncOk
<1>3. cache = index[h] \o batch
  BY <1>1, <1>2 DEF IInv, IndexInv, FsyncOk
<1>4. index'[h] = index[h] \o batch
  BY DEF IInv, TypeOK, FsyncOk
<1>5. index[h] \o batch \in Seq(Payload) /\ acked \in Seq(Payload)
  BY ConcatProperties DEF IInv, TypeOK
<1> QED
  BY <1>1, <1>3, <1>4, <1>5 DEF FsyncOk

\* A sync that succeeds extends what was acknowledged before.
LEMMA AckedGrows ==
    ASSUME IInv, NEW h \in Handle, FsyncOk(h)
    PROVE  IsPrefix(acked, acked')
<1>1. pc[h] = "write" /\ batch \in Seq(Payload)
  BY DEF IInv, TypeOK, FsyncOk
<1>2. index[h] \in Seq(Payload) /\ IsPrefix(acked, index[h])
  BY <1>1, WholeOnDisk DEF IInv, TypeOK, IndexInv
<1>3. IsPrefix(index[h], index[h] \o batch) /\ index[h] \o batch \in Seq(Payload)
  BY <1>1, <1>2, ConcatProperties, PrefixConcat
<1> QED
  BY <1>2, <1>3, WholeOnDisk, PrefixTransitive

LEMMA FsyncOkStep ==
    ASSUME IInv, FaultsApart, NEW h \in Handle, FsyncOk(h)
    PROVE  IInv'
<1> USE DEF fileVars, handleVars, appendVars, Goto, Gone
<1>a. owner = h /\ disk' = cache /\ lost = {}
  BY WholeOnDisk
<1>c. index'[h] = cache /\ acked' = cache /\ cache \in Seq(Payload)
  BY WholeOnDisk
<1>1. TypeOK'
  BY <1>a, <1>c, EmptySeq DEF IInv, TypeOK, FsyncOk
<1>2. OwnerInv'
  BY NamesDistinct DEF IInv, TypeOK, OwnerInv, FsyncOk
<1>3. KeptInv'
  BY <1>a, <1>c, PrefixReflexive DEF IInv, TypeOK, KeptInv, FsyncOk
<1>4. IndexInv'
  <2> SUFFICES ASSUME NEW g \in Handle, owner' = g
               PROVE  IndexInv!(g)'
    BY DEF IndexInv
  <2>1. CASE g = h
    BY <2>1, <1>a, <1>c, PrefixReflexive DEF IInv, TypeOK, FsyncOk
  <2>2. CASE g # h
    BY <2>2, <1>a DEF IInv, TypeOK, OwnerInv, IndexInv, FsyncOk
  <2> QED
    BY <2>1, <2>2
<1>5. LostInv'
  BY DEF IInv, TypeOK, OwnerInv, LostInv, FsyncOk
<1>6. CleanInv'
  BY <1>a, PrefixReflexive DEF IInv, TypeOK, CleanInv, Appending, FsyncOk
<1>7. SeenInv'
  <2>1. /\ acked \in Seq(Payload) /\ acked' \in Seq(Payload) /\ IsPrefix(acked, acked')
        /\ index[h] \in Seq(Payload) /\ batch \in Seq(Payload)
    BY WholeOnDisk, AckedGrows DEF IInv, TypeOK
  <2>2. /\ Len(acked) <= Len(acked') /\ Len(acked) \in Nat /\ Len(acked') \in Nat
        /\ \A i \in 1..Len(acked) : acked'[i] = acked[i]
    BY <2>1, PrefixCells
  <2>3. index'[h] = acked' /\ \A g \in Handle : g # h => index'[g] = index[g]
    BY WholeOnDisk DEF IInv, TypeOK, FsyncOk
  <2>4. seen' = seen /\ found' = found /\ pc' = [pc EXCEPT ![h] = "ready"]
    BY DEF FsyncOk
  <2>5. \A g \in Handle : seen[g] \in Nat /\ seen[g] <= Len(acked)
    BY DEF IInv, TypeOK, SeenInv
  <2> QED
    BY <2>2, <2>3, <2>4, <2>5 DEF IInv, TypeOK, SeenInv
<1> QED
  BY <1>1, <1>2, <1>3, <1>4, <1>5, <1>6, <1>7 DEF IInv

LEMMA FsyncFailsStep ==
    ASSUME IInv, FaultsApart, NEW h \in Handle, FsyncFails(h)
    PROVE  IInv'
<1> USE DEF fileVars, handleVars, appendVars, Goto, Gone
<1>1. TypeOK'
  BY DirtyCells DEF IInv, TypeOK, FsyncFails, SyncFails
<1>2. OwnerInv'
  BY NamesDistinct DEF IInv, TypeOK, OwnerInv, FsyncFails
<1>3. KeptInv'
  BY DEF IInv, TypeOK, KeptInv, FsyncFails
<1>4. IndexInv'
  BY DEF IInv, TypeOK, OwnerInv, KeptInv, IndexInv, FsyncFails
<1>5. LostInv'
  <2>a. owner = h /\ lost = {} /\ pc'[h] = "rollback"
    BY NothingLost DEF IInv, TypeOK, OwnerInv, FsyncFails
  <2>1. ~CleanLost => lost' = {}
    BY <2>a DEF FsyncFails, SyncFails
  <2>2. ASSUME NEW i \in lost' PROVE i > Len(index[h])
    <3>1. CleanLost /\ i \in Dirty
      BY <2>a, <2>2 DEF FsyncFails, SyncFails
    <3>2. IsPrefix(index[h], disk)
      BY <2>a, <3>1 DEF IInv, CleanInv, Appending, FsyncFails
    <3>3. /\ Len(index[h]) <= Len(disk)
          /\ \A j \in 1..Len(index[h]) : disk[j] = cache[j]
      BY <2>a, <3>2, OwnerFacts, PrefixCells
    <3>4. /\ DOMAIN disk = 1..Len(disk) /\ i \in Nat /\ i >= 1
          /\ Len(disk) \in Nat /\ Len(index[h]) \in Nat
      BY <2>a, <3>1, OwnerFacts, DirtyCells DEF IInv, TypeOK
    <3> QED
      BY <3>1, <3>3, <3>4 DEF Dirty
  <2> QED
    BY <2>a, <2>1, <2>2 DEF LostInv, FsyncFails
<1>6. CleanInv'
  BY DEF IInv, TypeOK, OwnerInv, CleanInv, Appending, FsyncFails
<1>7. SeenInv'
  BY DEF IInv, TypeOK, OwnerInv, SeenInv, FsyncFails
<1> QED
  BY <1>1, <1>2, <1>3, <1>4, <1>5, <1>6, <1>7 DEF IInv

LEMMA RollbackStep ==
    ASSUME IInv, FaultsApart, NEW h \in Handle, Rollback(h)
    PROVE  IInv'
<1> USE DEF fileVars, handleVars, appendVars, Goto, Gone
<1>a. owner = h /\ pc[h] = "rollback" /\ cache' = index[h]
  BY OwnerFacts DEF IInv, OwnerInv, Rollback
<1>b. IsPrefix(acked, index[h])
  BY <1>a DEF IInv, IndexInv
<1>1. TypeOK'
  BY <1>a, OwnerFacts DEF IInv, TypeOK, Rollback
<1>2. OwnerInv'
  BY NamesDistinct DEF IInv, TypeOK, OwnerInv, Rollback
<1>3. KeptInv'
  BY <1>a, <1>b DEF IInv, KeptInv, Rollback
<1>4. IndexInv'
  <2> SUFFICES ASSUME NEW g \in Handle, owner' = g
               PROVE  IndexInv!(g)'
    BY DEF IndexInv
  <2>1. CASE g = h
    BY <2>1, <1>a, <1>b, OwnerFacts, PrefixReflexive DEF Rollback, IInv, TypeOK
  <2>2. CASE g # h
    BY <2>2, <1>a DEF IInv, TypeOK, OwnerInv, IndexInv, Rollback
  <2> QED
    BY <2>1, <2>2
<1>5. LostInv'
  BY DEF IInv, TypeOK, OwnerInv, LostInv, Rollback
<1>6. CleanInv'
  BY <1>a DEF IInv, TypeOK, CleanInv, Appending, Rollback
<1>7. SeenInv'
  BY DEF IInv, TypeOK, OwnerInv, SeenInv, Rollback
<1> QED
  BY <1>1, <1>2, <1>3, <1>4, <1>5, <1>6, <1>7 DEF IInv

LEMMA RollbackFailsStep ==
    ASSUME IInv, FaultsApart, NEW h \in Handle, RollbackFails(h)
    PROVE  IInv'
<1> USE DEF fileVars, handleVars, appendVars, Goto, Gone
<1>a. ~CleanLost /\ lost = {}
  BY DEF IInv, LostInv, FaultsApart, RollbackFails
<1>1. TypeOK'
  BY DEF IInv, TypeOK, RollbackFails
<1>2. OwnerInv'
  BY NamesDistinct DEF IInv, TypeOK, OwnerInv, RollbackFails
<1>3. KeptInv'
  BY DEF IInv, TypeOK, KeptInv, RollbackFails
<1>4. IndexInv'
  BY DEF IInv, TypeOK, OwnerInv, KeptInv, IndexInv, RollbackFails
<1>5. LostInv'
  BY <1>a DEF LostInv, RollbackFails
<1>6. CleanInv'
  BY <1>a DEF CleanInv
<1>7. SeenInv'
  BY DEF IInv, TypeOK, OwnerInv, SeenInv, RollbackFails
<1> QED
  BY <1>1, <1>2, <1>3, <1>4, <1>5, <1>6, <1>7 DEF IInv

LEMMA RollbackSyncStep ==
    ASSUME IInv, FaultsApart, NEW h \in Handle, RollbackSync(h)
    PROVE  IInv'
<1> USE DEF fileVars, handleVars, appendVars, Goto, Gone
<1>a. owner = h /\ disk' = cache /\ lost = {}
  BY NothingLost, SettledWhole DEF IInv, OwnerInv, RollbackSync
<1>1. TypeOK'
  BY <1>a, EmptySeq DEF IInv, TypeOK, RollbackSync
<1>2. OwnerInv'
  BY NamesDistinct DEF IInv, TypeOK, OwnerInv, RollbackSync
<1>3. KeptInv'
  BY <1>a DEF IInv, KeptInv, RollbackSync
<1>4. IndexInv'
  BY DEF IInv, TypeOK, OwnerInv, KeptInv, IndexInv, RollbackSync
<1>5. LostInv'
  BY DEF IInv, TypeOK, OwnerInv, LostInv, RollbackSync
<1>6. CleanInv'
  BY <1>a, OwnerFacts, PrefixReflexive DEF IInv, TypeOK, CleanInv, Appending, RollbackSync
<1>7. SeenInv'
  BY DEF IInv, TypeOK, OwnerInv, SeenInv, RollbackSync
<1> QED
  BY <1>1, <1>2, <1>3, <1>4, <1>5, <1>6, <1>7 DEF IInv

LEMMA RollbackSyncFailsStep ==
    ASSUME IInv, FaultsApart, NEW h \in Handle, RollbackSyncFails(h)
    PROVE  IInv'
<1> USE DEF fileVars, handleVars, appendVars, Goto, Gone
<1>a. owner = h /\ lost' = {}
  BY NothingDirty DEF IInv, OwnerInv, RollbackSyncFails
<1>1. TypeOK'
  BY <1>a, EmptySeq DEF IInv, TypeOK, RollbackSyncFails
<1>2. OwnerInv'
  BY NamesDistinct DEF IInv, TypeOK, OwnerInv, RollbackSyncFails
<1>3. KeptInv'
  BY DEF IInv, TypeOK, KeptInv, RollbackSyncFails
<1>4. IndexInv'
  BY DEF IInv, TypeOK, OwnerInv, KeptInv, IndexInv, RollbackSyncFails
<1>5. LostInv'
  BY <1>a DEF LostInv
<1>6. CleanInv'
  BY DEF IInv, TypeOK, OwnerInv, CleanInv, Appending, RollbackSyncFails
<1>7. SeenInv'
  BY DEF IInv, TypeOK, OwnerInv, SeenInv, RollbackSyncFails
<1> QED
  BY <1>1, <1>2, <1>3, <1>4, <1>5, <1>6, <1>7 DEF IInv

LEMMA CloseStep ==
    ASSUME IInv, FaultsApart, NEW h \in Handle, Close(h)
    PROVE  IInv'
<1> USE DEF fileVars, handleVars, appendVars, Goto, Gone
<1>1. TypeOK'
  BY DEF IInv, TypeOK, Close
<1>2. OwnerInv'
  BY NamesDistinct DEF IInv, TypeOK, OwnerInv, Close
<1>3. KeptInv'
  BY DEF IInv, TypeOK, KeptInv, Close
<1>4. IndexInv'
  BY DEF IInv, TypeOK, OwnerInv, KeptInv, IndexInv, Close
<1>5. LostInv'
  BY DEF IInv, TypeOK, OwnerInv, LostInv, Close
<1>6. CleanInv'
  BY DEF IInv, TypeOK, OwnerInv, CleanInv, Appending, Close
<1>7. SeenInv'
  BY DEF IInv, TypeOK, OwnerInv, SeenInv, Close
<1> QED
  BY <1>1, <1>2, <1>3, <1>4, <1>5, <1>6, <1>7 DEF IInv

LEMMA CloseFdsStep ==
    ASSUME IInv, FaultsApart, NEW h \in Handle, CloseFds(h)
    PROVE  IInv'
<1> USE DEF fileVars, handleVars, appendVars, Goto, Gone
<1>1. TypeOK'
  BY DEF IInv, TypeOK, CloseFds
<1>2. OwnerInv'
  BY NamesDistinct DEF IInv, TypeOK, OwnerInv, CloseFds
<1>3. KeptInv'
  BY DEF IInv, TypeOK, KeptInv, CloseFds
<1>4. IndexInv'
  BY NamesDistinct DEF IInv, TypeOK, IndexInv, CloseFds
<1>5. LostInv'
  BY DEF IInv, TypeOK, OwnerInv, LostInv, CloseFds
<1>6. CleanInv'
  BY DEF IInv, TypeOK, OwnerInv, CleanInv, Appending, CloseFds
<1>7. SeenInv'
  BY DEF IInv, TypeOK, OwnerInv, SeenInv, CloseFds
<1> QED
  BY <1>1, <1>2, <1>3, <1>4, <1>5, <1>6, <1>7 DEF IInv

LEMMA CrashStep ==
    ASSUME IInv, FaultsApart, NEW h \in Handle, Crash(h)
    PROVE  IInv'
<1> USE DEF fileVars, handleVars, appendVars, Goto, Gone
<1>a. /\ cache' \in Seq(Cell) /\ Len(cache') >= Len(cache)
      /\ IsPrefix(acked, cache')
  <2>1. /\ Torn \in Cell /\ Append(cache, Torn) \in Seq(Cell)
        /\ Len(Append(cache, Torn)) = Len(cache) + 1
    BY AppendProperties DEF IInv, TypeOK, Cell
  <2>2. acked \in Seq(Cell) /\ cache \in Seq(Cell) /\ IsPrefix(acked, cache)
    BY PayloadCells DEF IInv, TypeOK, KeptInv
  <2>3. IsPrefix(acked, Append(cache, Torn))
    BY <2>1, <2>2, PrefixAppend
  <2>4. CASE cache' = cache
    BY <2>2, <2>4
  <2>5. CASE cache' = Append(cache, Torn)
    BY <2>1, <2>2, <2>3, <2>5
  <2> QED
    BY <2>4, <2>5 DEF Crash
<1>b. pc[h] \in {"write", "rollback"} => ~CleanLost /\ lost = {}
  BY DEF IInv, LostInv, FaultsApart, Crash
<1>c. pc[h] \notin {"write", "rollback"} => cache' = cache
  BY DEF Crash
<1>d. \A g \in Handle : owner' = g =>
        /\ g # h /\ owner = g
        /\ pc'[g] = pc[g] /\ index'[g] = index[g]
        /\ closed'[g] = closed[g] /\ found'[g] = found[g] /\ seen'[g] = seen[g]
  BY NamesDistinct DEF IInv, TypeOK, Crash
<1>e. \A g \in Handle : owner = g /\ g # h => owner' = g
  BY DEF Crash
<1>1. TypeOK'
  <2>1. lost' \subseteq 1..Len(cache')
    BY <1>a DEF IInv, TypeOK, Crash
  <2>2. batch' \in Seq(Payload) /\ written' \in 0..Len(batch')
    <3>1. CASE UNCHANGED appendVars
      BY <3>1 DEF IInv, TypeOK
    <3>2. CASE batch' = <<>> /\ written' = 0
      BY <3>2, EmptySeq
    <3> QED
      BY <3>1, <3>2 DEF Crash
  <2>3. owner' \in Handle \cup {NoHandle}
    BY DEF IInv, TypeOK, Crash
  <2>4. /\ pc' \in [Handle -> {"gone", "row", "scan", "repair", "ready",
                               "write", "rollback", "resync"}]
        /\ closed' \in [Handle -> BOOLEAN] /\ found' \in [Handle -> Seq(Cell)] /\ seen' \in [Handle -> Nat]
        /\ index' \in [Handle -> Seq(Payload)]
    BY EmptySeq DEF IInv, TypeOK, Crash
  <2> QED
    BY <1>a, <2>1, <2>2, <2>3, <2>4 DEF IInv, TypeOK, Crash
<1>2. OwnerInv'
  BY NamesDistinct DEF IInv, TypeOK, OwnerInv, Crash
<1>3. KeptInv'
  BY <1>a DEF IInv, KeptInv, Crash
<1>4. IndexInv'
  <2> SUFFICES ASSUME NEW g \in Handle, owner' = g
               PROVE  IndexInv!(g)'
    BY DEF IndexInv
  <2>1. g # h /\ owner = g
    BY <1>d
  <2>2. pc[h] \notin {"write", "rollback", "resync"}
    BY <2>1 DEF IInv, OwnerInv
  <2> QED
    BY <1>c, <1>d, <2>1, <2>2 DEF IInv, IndexInv, Crash
<1>5. LostInv'
  <2>1. ASSUME NEW i \in lost
        PROVE  \E g \in Handle : owner' = g /\ pc'[g] = "rollback" /\ i > Len(index'[g])
    <3>1. PICK g \in Handle : owner = g /\ pc[g] = "rollback" /\ i > Len(index[g])
      BY <2>1 DEF IInv, LostInv
    <3>2. g # h
      BY <2>1, <3>1, <1>b
    <3> QED
      BY <3>1, <3>2, <1>d DEF Crash
  <2> QED
    BY <2>1 DEF IInv, LostInv, Crash
<1>6. CleanInv'
  <2> SUFFICES ASSUME CleanLost PROVE CleanInv'
    BY DEF CleanInv
  <2>1. cache' = cache /\ disk' = disk /\ ~Appending(h)
    BY <1>b, <1>c DEF Appending, Crash
  <2>2. \A g \in Handle : g # h => (Appending(g)' <=> Appending(g))
    BY <1>d, <1>e DEF Appending
  <2>3. ~Appending(h)' /\ \A g \in Handle : Appending(g)' => index'[g] = index[g]
    BY <1>d DEF Appending
  <2> QED
    BY <2>1, <2>2, <2>3 DEF IInv, CleanInv
<1>7. SeenInv'
  BY DEF IInv, TypeOK, OwnerInv, SeenInv, Crash
<1> QED
  BY <1>1, <1>2, <1>3, <1>4, <1>5, <1>6, <1>7 DEF IInv

LEMMA WritebackStep ==
    ASSUME IInv, FaultsApart, Writeback
    PROVE  IInv'
<1> USE DEF fileVars, handleVars, appendVars, Goto, Gone
<1>a. disk \in Seq(Cell) /\ Torn \in Cell /\ disk' \in Images(disk, Settled)
  BY DEF IInv, TypeOK, Cell, Writeback
<1>b. ASSUME NEW p \in Seq(Cell), IsPrefix(p, disk), IsPrefix(p, Settled)
      PROVE  disk' \in Seq(Cell) /\ IsPrefix(p, disk')
  BY <1>a, <1>b, SettledKeeps, ImagesKeepPrefix
<1>c. disk' \in Seq(Cell) /\ IsPrefix(acked, disk')
  BY <1>b, SettledKeeps, PayloadCells DEF IInv, TypeOK, KeptInv
<1>1. TypeOK'
  BY <1>c DEF IInv, TypeOK, Writeback
<1>2. OwnerInv'
  BY NamesDistinct DEF IInv, TypeOK, OwnerInv, Writeback
<1>3. KeptInv'
  BY <1>c DEF IInv, KeptInv, Writeback
<1>4. IndexInv'
  BY DEF IInv, TypeOK, OwnerInv, KeptInv, IndexInv, Writeback
<1>5. LostInv'
  BY DEF IInv, TypeOK, OwnerInv, LostInv, Writeback
<1>6. CleanInv'
  <2> SUFFICES ASSUME CleanLost PROVE CleanInv'
    BY DEF CleanInv
  <2>1. ASSUME \A g \in Handle : ~Appending(g)
        PROVE  IsPrefix(cache, disk')
    <3>1. lost = {}
      BY <2>1 DEF IInv, LostInv, Appending
    <3>2. cache \in Seq(Cell) /\ IsPrefix(cache, Settled)
      BY <3>1, SettledWhole, PrefixReflexive DEF IInv, TypeOK
    <3> QED
      BY <2>1, <3>2, <1>b DEF IInv, CleanInv
  <2>2. ASSUME NEW g \in Handle, Appending(g)
        PROVE  IsPrefix(index[g], disk')
    <3>1. owner = g /\ IsPrefix(index[g], disk)
      BY <2>2 DEF IInv, CleanInv, Appending
    <3>2. \A i \in lost : i > Len(index[g])
      BY <3>1 DEF IInv, LostInv
    <3>3. IsPrefix(index[g], Settled)
      BY <3>1, <3>2, OwnerFacts, SettledPrefix DEF IInv
    <3> QED
      BY <3>1, <3>3, <1>b, OwnerFacts
  <2> QED
    BY <2>1, <2>2 DEF CleanInv, Appending, Writeback
<1>7. SeenInv'
  BY DEF IInv, TypeOK, OwnerInv, SeenInv, Writeback
<1> QED
  BY <1>1, <1>2, <1>3, <1>4, <1>5, <1>6, <1>7 DEF IInv

LEMMA PowerLossStep ==
    ASSUME IInv, FaultsApart, PowerLoss
    PROVE  IInv'
<1> USE DEF fileVars, handleVars, appendVars, Goto, Gone
<1>1. TypeOK'
  BY DEF IInv, TypeOK, PowerLoss
<1>2. OwnerInv'
  BY NamesDistinct DEF IInv, TypeOK, OwnerInv, PowerLoss
<1>3. KeptInv'
  BY DEF IInv, TypeOK, KeptInv, PowerLoss
<1>4. IndexInv'
  BY NamesDistinct DEF IndexInv, PowerLoss
<1>5. LostInv'
  BY DEF IInv, TypeOK, OwnerInv, LostInv, PowerLoss
<1>6. CleanInv'
  BY PrefixReflexive DEF IInv, TypeOK, CleanInv, Appending, PowerLoss
<1>7. SeenInv'
  BY DEF IInv, TypeOK, OwnerInv, SeenInv, PowerLoss
<1> QED
  BY <1>1, <1>2, <1>3, <1>4, <1>5, <1>6, <1>7 DEF IInv

-----------------------------------------------------------------------------
(* The theorems.                                                           *)

LEMMA InitIInv == Init => IInv
<1> SUFFICES ASSUME Init PROVE IInv
  OBVIOUS
<1>1. <<>> \in Seq(Cell) /\ <<>> \in Seq(Payload) /\ Len(<<>>) = 0
  BY EmptySeq
<1>2. IsPrefix(<<>>, <<>>)
  BY <1>1, PrefixReflexive
<1>3. TypeOK
  <2>1. /\ cache \in Seq(Cell) /\ disk \in Seq(Cell) /\ acked \in Seq(Payload)
        /\ lost \subseteq 1..Len(cache)
        /\ batch \in Seq(Payload) /\ written \in 0..Len(batch)
    BY <1>1 DEF Init
  <2>2. /\ pc \in [Handle -> {"gone", "row", "scan", "repair", "ready",
                              "write", "rollback", "resync"}]
        /\ closed \in [Handle -> BOOLEAN] /\ seen \in [Handle -> Nat]
        /\ rowClosed \in BOOLEAN /\ owner \in Handle \cup {NoHandle}
    BY DEF Init
  <2>3. index \in [Handle -> Seq(Payload)] /\ found \in [Handle -> Seq(Cell)]
    BY <1>1 DEF Init
  <2> QED
    BY <2>1, <2>2, <2>3 DEF TypeOK
<1>4. OwnerInv /\ IndexInv
  BY NamesDistinct DEF Init, OwnerInv, IndexInv
<1>5. KeptInv
  BY <1>2 DEF Init, KeptInv
<1>6. LostInv
  BY DEF Init, LostInv
<1>7. CleanInv
  BY <1>2, NamesDistinct DEF Init, CleanInv, Appending
<1>8. SeenInv
  BY <1>1 DEF Init, SeenInv
<1> QED
  BY <1>3, <1>4, <1>5, <1>6, <1>7, <1>8 DEF IInv

\* Every step keeps the inductive invariant.
LEMMA NextIInv ==
    ASSUME FaultsApart, IInv, [Next]_vars
    PROVE  IInv'
<1>1. CASE UNCHANGED vars
  BY <1>1 DEF vars, IInv, TypeOK, OwnerInv, KeptInv, IndexInv, LostInv, CleanInv, Appending,
               SeenInv
<1>2. ASSUME NEW h \in Handle, Step(h)
      PROVE  IInv'
  BY <1>2, OpenRowStep, OpenLogStep, ScanFrameStep, ScanEndStep, RepairStep,
     RepairSyncStep, RepairSyncFailsStep, AppendBeginStep, WriteFrameStep,
     WriteFailsStep, FsyncOkStep, FsyncFailsStep, RollbackStep,
     RollbackFailsStep, RollbackSyncStep, RollbackSyncFailsStep, CloseStep,
     CloseFdsStep, CrashStep
     DEF Step
<1>3. CASE Writeback
  BY <1>3, WritebackStep
<1>4. CASE PowerLoss
  BY <1>4, PowerLossStep
<1> QED
  BY <1>1, <1>2, <1>3, <1>4 DEF Next

LEMMA InvariantHolds ==
    ASSUME FaultsApart
    PROVE  Spec => []IInv
<1>1. IInv /\ [Next]_vars => IInv'
  BY NextIInv
<1> QED
  BY InitIInv, <1>1, PTL DEF Spec

\* The state has the type the comments of DurableStream give it.
THEOREM TypeCorrect ==
    ASSUME FaultsApart
    PROVE  Spec => []TypeOK
<1>1. IInv => TypeOK
  BY DEF IInv
<1> QED
  BY <1>1, InvariantHolds, PTL

\* What append_many has returned for survives a power loss at any moment.
THEOREM AckedSurvives ==
    ASSUME FaultsApart
    PROVE  Spec => []AckedDurable
<1>1. IInv => AckedDurable
  BY DEF IInv, KeptInv, AckedDurable
<1> QED
  BY <1>1, InvariantHolds, PTL

\* The owner's index delimits exactly the records of the file whenever it
\* accepts an append.
THEOREM WriterIndexExact ==
    ASSUME FaultsApart
    PROVE  Spec => []WriterFileExact
<1>1. IInv => WriterFileExact
  BY DEF IInv, IndexInv, WriterFileExact
<1> QED
  BY <1>1, InvariantHolds, PTL

\* An append that is acknowledged extends what was acknowledged before it.
THEOREM OffsetsNeverReused ==
    ASSUME FaultsApart
    PROVE  Spec => AckedAppendOnly
<1>1. ASSUME IInv, [Next]_vars
      PROVE  IsPrefix(acked, acked')
  <2>0. acked \in Seq(Payload)
    BY <1>1 DEF IInv, TypeOK
  <2>1. ASSUME NEW h \in Handle, FsyncOk(h)
        PROVE  IsPrefix(acked, acked')
    BY <1>1, <2>1, AckedGrows
  <2>2. CASE acked' = acked
    BY <2>0, <2>2, PrefixReflexive
  <2>3. (\E h \in Handle : FsyncOk(h)) \/ acked' = acked
    BY <1>1 DEF Next, Step, vars, OpenRow, OpenLog, ScanFrame, ScanEnd, Repair,
       RepairSync, RepairSyncFails, AppendBegin, WriteFrame, WriteFails,
       FsyncFails, Rollback, RollbackFails, RollbackSync, RollbackSyncFails,
       Close, CloseFds, Crash, Writeback, PowerLoss
  <2> QED
    BY <2>1, <2>2, <2>3
<1>2. IInv /\ [Next]_vars => [IsPrefix(acked, acked')]_vars
  BY <1>1
<1> QED
  BY <1>2, InvariantHolds, PTL DEF Spec, AckedAppendOnly

\* While the index delimits the frames that the file begins with, a read
\* returns them.
LEMMA AlignedRead ==
    ASSUME IInv, NEW h \in Handle, NEW o \in Nat, NEW e \in Nat, o < e,
           e <= Len(index[h]), e <= Len(acked),
           \A i \in 1..e : index[h][i] = acked[i]
    PROVE  ReadResults(h, o, e) = {Ok(SubSeq(acked, o + 1, e))}
<1>1. /\ acked \in Seq(Payload) /\ acked \in Seq(Cell) /\ cache \in Seq(Cell)
      /\ index[h] \in Seq(Cell) /\ Len(index[h]) \in Nat
      /\ Len(acked) \in Nat /\ Len(cache) \in Nat
  BY PayloadCells DEF IInv, TypeOK
<1>2. Len(acked) <= Len(cache) /\ \A i \in 1..Len(acked) : acked[i] = cache[i]
  BY <1>1, PrefixCells DEF IInv, KeptInv
<1>3. Min({e, Len(index[h])}) = e
  BY <1>1 DEF Min
<1>4. IsPrefix(Cut(index[h], e), cache)
  <2>1. e \in 0..Len(index[h]) /\ e <= Len(cache)
    BY <1>1, <1>2
  <2>2. /\ Cut(index[h], e) \in Seq(Cell) /\ Len(Cut(index[h], e)) = e
        /\ \A i \in 1..e : Cut(index[h], e)[i] = index[h][i]
    BY <1>1, <2>1, CutCells
  <2>3. \A i \in 1..e : Cut(index[h], e)[i] = cache[i]
    BY <1>1, <1>2, <2>2
  <2> QED
    BY <1>1, <2>1, <2>2, <2>3, PrefixCells
<1>5. SubSeq(cache, o + 1, e) = SubSeq(acked, o + 1, e)
  <2>1. /\ Len(SubSeq(cache, o + 1, e)) = e - o /\ Len(SubSeq(acked, o + 1, e)) = e - o
        /\ SubSeq(cache, o + 1, e) \in Seq(Cell) /\ SubSeq(acked, o + 1, e) \in Seq(Cell)
    BY <1>1, <1>2
  <2>2. ASSUME NEW i \in 1..(e - o)
        PROVE  SubSeq(cache, o + 1, e)[i] = SubSeq(acked, o + 1, e)[i]
    <3>1. o + i \in 1..Len(acked) /\ o + i \in 1..Len(cache)
      BY <1>1, <1>2
    <3>2. cache[o + i] = acked[o + i]
      BY <1>2, <3>1
    <3>3. SubSeq(cache, o + 1, e)[i] = cache[o + i]
      BY <1>1, <1>2, <3>1
    <3>4. SubSeq(acked, o + 1, e)[i] = acked[o + i]
      BY <1>1, <3>1
    <3> QED
      BY <3>2, <3>3, <3>4
  <2> QED
    BY <2>1, <2>2, SeqEqual
<1>6. ~(o >= e)
  OBVIOUS
<1> QED
  BY <1>3, <1>4, <1>5, <1>6 DEF ReadResults

\* The owner reads back every acknowledged record, and a view those that were
\* acknowledged when it was opened, whatever the sizes of the frames that were
\* written and cut back since.
THEOREM AckedReadable ==
    ASSUME FaultsApart
    PROVE  Spec => []ReadsAcked
<1>1. ASSUME IInv, NEW h \in Handle, pc[h] = "ready",
             NEW o \in 0..(IF owner = h THEN Len(acked) ELSE seen[h]),
             NEW e \in 0..(IF owner = h THEN Len(acked) ELSE seen[h]), o < e
      PROVE  ReadResults(h, o, e) = {Ok(SubSeq(acked, o + 1, e))}
  <2>1. Len(acked) \in Nat /\ seen[h] \in Nat /\ Len(index[h]) \in Nat
    BY <1>1 DEF IInv, TypeOK
  <2>2. CASE owner = h
    <3>1. IsPrefix(acked, index[h])
      BY <1>1, <2>2 DEF IInv, IndexInv
    <3>2. Len(acked) <= Len(index[h]) /\ \A i \in 1..Len(acked) : acked[i] = index[h][i]
      BY <1>1, <2>2, <3>1, OwnerFacts, PrefixCells
    <3>3. o \in Nat /\ e \in Nat /\ e <= Len(acked) /\ e <= Len(index[h])
      BY <1>1, <2>1, <2>2, <3>2
    <3>4. \A i \in 1..e : index[h][i] = acked[i]
      BY <2>1, <3>2, <3>3
    <3> QED
      BY <1>1, <3>3, <3>4, AlignedRead
  <2>3. CASE owner # h
    <3>1. /\ seen[h] <= Len(acked) /\ seen[h] <= Len(index[h])
          /\ \A i \in 1..seen[h] : i <= Len(index[h]) => index[h][i] = acked[i]
      BY <1>1 DEF IInv, SeenInv
    <3>2. o \in Nat /\ e \in Nat /\ e <= Len(acked) /\ e <= Len(index[h]) /\ e <= seen[h]
      BY <1>1, <2>1, <2>3, <3>1
    <3>3. \A i \in 1..e : index[h][i] = acked[i]
      BY <2>1, <3>1, <3>2
    <3> QED
      BY <1>1, <3>2, <3>3, AlignedRead
  <2> QED
    BY <2>2, <2>3
<1>2. IInv => ReadsAcked
  BY <1>1 DEF ReadsAcked
<1> QED
  BY <1>2, InvariantHolds, PTL

-----------------------------------------------------------------------------
(* One handle at a time.                                                   *)

OneHandleOnly == \A g, h \in Handle : g = h

\* A handle that is open on a closed stream knows that it is closed.
ClosedKnown == rowClosed => \A h \in Handle : closed[h]

\* With no second process, nothing is acknowledged after close() has
\* persisted, whatever crashes and reopenings follow.
THEOREM ClosedForGood ==
    ASSUME OneHandleOnly
    PROVE  Spec => ClosedIsFinal
<1> DEFINE CInv ==
      /\ closed \in [Handle -> BOOLEAN] /\ rowClosed \in BOOLEAN
      /\ pc \in [Handle -> {"gone", "row", "scan", "repair", "ready",
                            "write", "rollback", "resync"}]
      /\ ClosedKnown
      /\ \A h \in Handle : pc[h] \in {"write", "rollback", "resync"} => ~rowClosed
<1>1. Init => CInv
  BY DEF Init, ClosedKnown
<1>2. CInv /\ [Next]_vars => CInv'
  <2> SUFFICES ASSUME CInv, [Next]_vars PROVE CInv'
    OBVIOUS
  <2> USE DEF Goto, Gone, ClosedKnown, OneHandleOnly
  <2>1. CASE UNCHANGED vars \/ Writeback
    BY <2>1 DEF vars, Writeback, handleVars
  <2>2. CASE PowerLoss
    BY <2>2 DEF PowerLoss
  <2>3. ASSUME NEW h \in Handle, OpenRow(h) \/ Close(h)
        PROVE  CInv'
    <3>1. \A g \in Handle : g = h
      OBVIOUS
    <3>2. CASE OpenRow(h)
      <4>1. closed' = [closed EXCEPT ![h] = rowClosed]
        BY <3>2 DEF OpenRow
      <4>2. closed' \in [Handle -> BOOLEAN] /\ closed'[h] = rowClosed
        <5>1. closed \in [Handle -> BOOLEAN] /\ rowClosed \in BOOLEAN
          BY DEF ClosedKnown
        <5>2. closed' \in [Handle -> BOOLEAN]
          BY <4>1, <5>1
        <5>3. closed'[h] = rowClosed
          BY <4>1, <5>1, Zenon
        <5> QED
          BY <5>2, <5>3, Zenon
      <4>3. rowClosed' = rowClosed
        BY <3>2 DEF OpenRow
      <4>4. ClosedKnown'
        BY <3>1, <4>2, <4>3, Zenon
      <4>5. /\ pc' \in [Handle -> {"gone", "row", "scan", "repair", "ready",
                                   "write", "rollback", "resync"}]
            /\ pc'[h] = "row"
        BY <3>2 DEF OpenRow
      <4> QED
        BY <3>1, <4>2, <4>3, <4>4, <4>5
    <3>3. CASE Close(h)
      <4>1. closed'[h] = TRUE /\ pc' = pc /\ pc[h] = "ready"
        BY <3>3 DEF Close
      <4>2. closed' \in [Handle -> BOOLEAN] /\ rowClosed' = TRUE
        BY <3>3 DEF Close
      <4> QED
        BY <3>1, <4>1, <4>2
    <3> QED
      BY <2>3, <3>2, <3>3
  <2>4. ASSUME NEW h \in Handle, CloseFds(h) \/ Crash(h) \/ RepairSyncFails(h)
        PROVE  CInv'
    BY <2>4 DEF CloseFds, Crash, RepairSyncFails
  <2>5. ASSUME NEW h \in Handle, OpenLog(h) \/ ScanFrame(h) \/ ScanEnd(h)
                                 \/ Repair(h) \/ RepairSync(h)
        PROVE  CInv'
    BY <2>5 DEF OpenLog, ScanFrame, ScanEnd, Repair, RepairSync, handleVars
  <2>6. ASSUME NEW h \in Handle, \E b \in BoundedSeq(Payload, MaxBatch) : AppendBegin(h, b)
        PROVE  CInv'
    BY <2>6 DEF AppendBegin, handleVars
  <2>7. ASSUME NEW h \in Handle, WriteFrame(h) \/ WriteFails(h) \/ FsyncOk(h) \/ FsyncFails(h)
        PROVE  CInv'
    BY <2>7 DEF WriteFrame, WriteFails, FsyncOk, FsyncFails, handleVars
  <2>8. ASSUME NEW h \in Handle, Rollback(h) \/ RollbackFails(h)
                                 \/ RollbackSync(h) \/ RollbackSyncFails(h)
        PROVE  CInv'
    <3>1. CASE Rollback(h) \/ RollbackSync(h)
      BY <3>1 DEF Rollback, RollbackSync, handleVars
    <3>2. CASE RollbackFails(h) \/ RollbackSyncFails(h)
      BY <3>2 DEF RollbackFails, RollbackSyncFails
    <3> QED
      BY <2>8, <3>1, <3>2
  <2> QED
    BY <2>1, <2>2, <2>3, <2>4, <2>5, <2>6, <2>7, <2>8 DEF Next, Step
<1>3. CInv /\ [Next]_vars => [rowClosed => acked' = acked]_vars
  BY DEF Next, Step, vars, fileVars, handleVars, appendVars, OpenRow, OpenLog,
       ScanFrame, ScanEnd, Repair, RepairSync, RepairSyncFails, AppendBegin,
       WriteFrame, WriteFails, FsyncOk, FsyncFails, Rollback, RollbackFails,
       RollbackSync, RollbackSyncFails, Close, CloseFds, Crash, Writeback, PowerLoss
<1> QED
  BY <1>1, <1>2, <1>3, PTL DEF Spec, ClosedIsFinal

-----------------------------------------------------------------------------
(* The file implements the abstract log.                                   *)

\* The records that a scan of the file d finds before its first torn cell.
Intact(d) ==
    Cut(d, CHOOSE n \in 0..Len(d) :
             /\ \A i \in 1..n : d[i] # Torn
             /\ n = Len(d) \/ d[n + 1] = Torn)

\* There is such an end of the scan, and what lies before it are records, of
\* which every prefix of the file without a torn cell is a part.
LEMMA IntactRecords ==
    ASSUME NEW d \in Seq(Cell), NEW p \in Seq(Payload), IsPrefix(p, d)
    PROVE  Intact(d) \in Seq(Payload) /\ IsPrefix(p, Intact(d))
<1> DEFINE Ends(n) == (\A i \in 1..n : d[i] # Torn) /\ (n = Len(d) \/ d[n + 1] = Torn)
           stops   == {k \in 0..Len(d) : k = Len(d) \/ d[k + 1] = Torn}
           end     == CHOOSE n \in 0..Len(d) : Ends(n)
<1>1. \E n \in 0..Len(d) : Ends(n)
  <2>1. Len(d) \in stops /\ stops \subseteq Nat
    OBVIOUS
  <2>2. PICK n \in stops : \A k \in stops : n <= k
    BY <2>1, LeastNatural, Zenon
  <2>3. ASSUME NEW i \in 1..n PROVE d[i] # Torn
    <3>1. n \in 0..Len(d) /\ i - 1 \in 0..Len(d) /\ (i - 1) + 1 = i
      BY <2>3
    <3>2. i - 1 \notin stops
      <4>1. ~(n <= i - 1)
        BY <2>3, <3>1
      <4> QED
        BY <2>2, <4>1, Zenon
    <3>3. \A k \in 0..Len(d) : k \notin stops => d[k + 1] # Torn
      OBVIOUS
    <3>4. d[(i - 1) + 1] # Torn
      BY <3>1, <3>2, <3>3, Zenon
    <3> QED
      BY <3>1, <3>4, Zenon
  <2> QED
    BY <2>2, <2>3
<1>2. end \in 0..Len(d) /\ Ends(end)
  BY <1>1, Zenon
<1> HIDE DEF end
<1>3. Cut(d, end) \in Seq(Payload)
  <2>1. \A i \in 1..end : d[i] \in Payload
    BY <1>2 DEF Cell
  <2> QED
    BY <1>2, <2>1 DEF Cut
<1>4. IsPrefix(p, Cut(d, end))
  <2>1. p \in Seq(Cell) /\ Len(p) <= Len(d) /\ \A i \in 1..Len(p) : p[i] = d[i]
    BY PayloadCells, PrefixCells
  <2>2. Len(p) <= end
    <3>1. ASSUME end < Len(p) PROVE FALSE
      <4>1. end + 1 \in 1..Len(p) /\ end # Len(d)
        BY <1>2, <2>1, <3>1
      <4>2. d[end + 1] = Torn /\ p[end + 1] \in Payload
        BY <1>2, <4>1, ElementOfSeq
      <4> QED
        BY <2>1, <4>1, <4>2, NamesDistinct
    <3> QED
      BY <1>2, <2>1, <3>1
  <2> QED
    BY <1>2, <2>1, <2>2, PrefixCut
<1> QED
  BY <1>3, <1>4 DEF end, Intact

\* A file without torn cells is read whole.
LEMMA IntactWhole ==
    ASSUME NEW d \in Seq(Payload)
    PROVE  Intact(d) = d
<1>1. d \in Seq(Cell) /\ IsPrefix(d, d)
  BY PayloadCells, PrefixReflexive
<1>2. Intact(d) \in Seq(Payload) /\ IsPrefix(d, Intact(d))
  BY <1>1, IntactRecords
<1>3. \A n \in 0..Len(d) : Len(Cut(d, n)) <= Len(d)
  BY CutCells
<1>4. Len(Intact(d)) <= Len(d)
  <2>1. \E n \in 0..Len(d) : (\A i \in 1..n : d[i] # Torn) /\ (n = Len(d) \/ d[n + 1] = Torn)
    <3>1. Len(d) \in 0..Len(d) /\ \A i \in 1..Len(d) : d[i] # Torn
      BY ElementOfSeq, NamesDistinct
    <3> QED
      BY <3>1
  <2> QED
    BY <1>3, <2>1, Zenon DEF Intact
<1>5. Len(d) <= Len(Intact(d))
  BY <1>2, PrefixCells
<1> QED
  BY <1>2, <1>4, <1>5, PrefixWhole

\* Whatever number of processes has it open, the file with its page cache, its
\* failed writes and syncs, its crashes, power losses and repairs is one log
\* that keeps what it has acknowledged, in place, and acknowledges nothing
\* else, as long as no process appends through a handle it opened before
\* another one closed the stream.
THEOREM StreamKeepsLog ==
    ASSUME FaultsApart
    PROVE  Spec /\ ClosedIsFinal => ImplementsLog
<1>1. Init => Log!Init
  <2> SUFFICES ASSUME Init PROVE Log!Init
    OBVIOUS
  <2>1. disk = <<>> /\ acked = <<>> /\ rowClosed = FALSE
    BY DEF Init
  <2>2. Intact(disk) = <<>>
    BY <2>1, EmptySeq, IntactWhole
  <2>3. DurableRecords = <<>>
    BY <2>2 DEF DurableRecords, Intact
  <2> QED
    BY <2>1, <2>3 DEF Log!Init
<1>2. ASSUME IInv, IInv', [Next]_vars, [rowClosed => acked' = acked]_vars
      PROVE  [Log!Next]_(Log!logVars)
  <2>1. DurableRecords' \in Seq(Payload) /\ IsPrefix(acked', DurableRecords')
    <3>1. disk' \in Seq(Cell) /\ acked' \in Seq(Payload) /\ IsPrefix(acked', disk')
      BY <1>2 DEF IInv, TypeOK, KeptInv
    <3>2. Intact(disk') \in Seq(Payload) /\ IsPrefix(acked', Intact(disk'))
      BY <3>1, IntactRecords
    <3> QED
      BY <3>2 DEF DurableRecords, Intact
  <2>2. CASE acked' = acked /\ rowClosed' = rowClosed
    <3>1. DurableRecords' \in Seq(Payload) /\ IsPrefix(acked, DurableRecords')
      BY <2>1, <2>2, Zenon
    <3> QED
      BY <2>2, <3>1, Zenon DEF Log!Next, Log!Churn, Log!IsPrefix, IsPrefix
  <2>3. ASSUME NEW h \in Handle, FsyncOk(h)
        PROVE  [Log!Next]_(Log!logVars)
    <3>1. rowClosed' = rowClosed
      BY <2>3 DEF FsyncOk
    <3>2. CASE rowClosed
      <4>1. acked' = acked
        BY <1>2, <3>2 DEF vars
      <4> QED
        BY <2>2, <3>1, <4>1, Zenon
    <3>3. CASE ~rowClosed
      <4>1. acked' \in Seq(Payload) /\ acked \in Seq(Payload) /\ disk' = acked'
        BY <1>2, <2>3, WholeOnDisk
      <4>2. Intact(disk') = acked'
        BY <4>1, IntactWhole
      <4>3. DurableRecords' = acked'
        BY <4>2 DEF DurableRecords, Intact
      <4>4. IsPrefix(acked, acked')
        BY <1>2, <2>3, AckedGrows
      <4> QED
        BY <2>1, <3>1, <3>3, <4>3, <4>4, Zenon DEF Log!Next, Log!Ack, Log!IsPrefix, IsPrefix
    <3> QED
      BY <3>2, <3>3
  <2>4. ASSUME NEW h \in Handle, Close(h)
        PROVE  [Log!Next]_(Log!logVars)
    <3>1. disk' = disk /\ acked' = acked /\ rowClosed' = TRUE
      BY <2>4 DEF Close, fileVars
    <3>2. DurableRecords' = DurableRecords
      BY <3>1 DEF DurableRecords
    <3> QED
      BY <3>1, <3>2 DEF Log!Next, Log!Seal
  <2>5. \/ \E h \in Handle : FsyncOk(h) \/ Close(h)
        \/ acked' = acked /\ rowClosed' = rowClosed
    BY <1>2 DEF Next, Step, vars, OpenRow, OpenLog, ScanFrame, ScanEnd, Repair,
       RepairSync, RepairSyncFails, AppendBegin, WriteFrame, WriteFails,
       FsyncFails, Rollback, RollbackFails, RollbackSync, RollbackSyncFails,
       CloseFds, Crash, Writeback, PowerLoss
  <2> QED
    BY <2>2, <2>3, <2>4, <2>5
<1> QED
  BY <1>1, <1>2, InvariantHolds, PTL
     DEF Spec, ImplementsLog, Log!Spec, ClosedIsFinal

\* With no second process, close() seals the log, so the file implements the
\* promise that DurableLog states without a proviso.
THEOREM StreamImplementsLog ==
    ASSUME FaultsApart, OneHandleOnly
    PROVE  Spec => ImplementsLog
BY StreamKeepsLog, ClosedForGood, PTL
=============================================================================
