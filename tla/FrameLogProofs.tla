--------------------------- MODULE FrameLogProofs ---------------------------
(***************************************************************************)
(* Proofs about FrameLog, for any handles, any payloads and any bounds.    *)
(*                                                                         *)
(* The first half is about bytes: what it is to pack records into frames,  *)
(* and that a scan finds the records the bytes begin with and no others.   *)
(* After it the invariant speaks of records only.                          *)
(***************************************************************************)
EXTENDS FrameLog, SequenceTheorems, SetInduction, TLAPS

Bytes == Seq(Nat)
Records == Seq(Bytes)

-----------------------------------------------------------------------------
(* Sequences.                                                              *)

LEMMA RowIsSeq ==
    ASSUME NEW S, NEW n \in Nat, NEW s \in [1..n -> S]
    PROVE  s \in Seq(S) /\ Len(s) = n
OBVIOUS

\* IsPrefix, cell by cell: the form the proofs below use.
LEMMA PrefixCells ==
    ASSUME NEW S, NEW s \in Seq(S), NEW t \in Seq(S)
    PROVE  IsPrefix(s, t) <=>
             Len(s) <= Len(t) /\ \A i \in 1..Len(s) : s[i] = t[i]
<1>1. ASSUME Len(s) <= Len(t)
      PROVE  /\ SubSeq(t, 1, Len(s)) \in Seq(S)
             /\ Len(SubSeq(t, 1, Len(s))) = Len(s)
             /\ \A i \in 1..Len(s) : SubSeq(t, 1, Len(s))[i] = t[i]
  BY <1>1
<1>2. SubSeq(s, 1, Len(s)) = s
  OBVIOUS
<1>3. ASSUME Len(s) <= Len(t), \A i \in 1..Len(s) : s[i] = t[i]
      PROVE  SubSeq(t, 1, Len(s)) = s
  <2>1. \A i \in 1..Len(s) : SubSeq(t, 1, Len(s))[i] = s[i]
    BY <1>1, <1>3
  <2> QED BY <1>1, <1>3, <2>1, SeqEqual
<1> QED BY <1>1, <1>2, <1>3 DEF IsPrefix

\* The first n cells of a sequence, and those after them.
LEMMA CutCells ==
    ASSUME NEW S, NEW t \in Seq(S), NEW n \in 0..Len(t)
    PROVE  /\ Cut(t, n) \in Seq(S)
           /\ Len(Cut(t, n)) = n
           /\ \A i \in 1..n : Cut(t, n)[i] = t[i]
           /\ IsPrefix(Cut(t, n), t)
<1>1. /\ Cut(t, n) \in Seq(S)
      /\ Len(Cut(t, n)) = n
      /\ \A i \in 1..n : Cut(t, n)[i] = t[i]
  BY DEF Cut
<1> QED BY <1>1, PrefixCells

LEMMA DropCells ==
    ASSUME NEW S, NEW t \in Seq(S), NEW n \in 0..Len(t)
    PROVE  /\ SubSeq(t, n + 1, Len(t)) \in Seq(S)
           /\ Len(SubSeq(t, n + 1, Len(t))) = Len(t) - n
           /\ \A i \in 1..Len(t) - n : SubSeq(t, n + 1, Len(t))[i] = t[n + i]
OBVIOUS

LEMMA SpanCells ==
    ASSUME NEW S, NEW t \in Seq(S), NEW a \in Nat, NEW n \in Nat, a + n <= Len(t)
    PROVE  /\ SubSeq(t, a + 1, a + n) \in Seq(S)
           /\ Len(SubSeq(t, a + 1, a + n)) = n
           /\ \A i \in 1..n : SubSeq(t, a + 1, a + n)[i] = t[a + i]
<1>1. \A i \in a + 1..a + n : t[i] \in S
  OBVIOUS
<1> DEFINE u == SubSeq(t, a + 1, a + n)
<1>2. /\ u \in Seq(S)
      /\ Len(u) = IF a + 1 <= a + n THEN (a + n) - (a + 1) + 1 ELSE 0
      /\ \A i \in 1..(a + n) - (a + 1) + 1 : u[i] = t[(a + 1) + i - 1]
  BY <1>1, SubSeqProperties
<1> HIDE DEF u
<1>3. /\ (a + n) - (a + 1) + 1 = n /\ (a + 1 <= a + n <=> 1 <= n)
      /\ \A i \in 1..n : (a + 1) + i - 1 = a + i
  OBVIOUS
<1>4. Len(u) = n
  BY <1>2, <1>3
<1> QED BY <1>2, <1>3, <1>4 DEF u

LEMMA CutAndDrop ==
    ASSUME NEW S, NEW t \in Seq(S), NEW n \in 0..Len(t)
    PROVE  Cut(t, n) \o SubSeq(t, n + 1, Len(t)) = t
<1> DEFINE a == Cut(t, n)
           b == SubSeq(t, n + 1, Len(t))
<1>1. /\ a \in Seq(S) /\ b \in Seq(S) /\ Len(a) = n /\ Len(b) = Len(t) - n
      /\ \A i \in 1..n : a[i] = t[i]
      /\ \A i \in 1..Len(t) - n : b[i] = t[n + i]
  BY CutCells, DropCells
<1> HIDE DEF a, b
<1>2. /\ a \o b \in Seq(S) /\ Len(a \o b) = Len(t)
      /\ \A i \in 1..Len(t) : (a \o b)[i] = IF i <= n THEN a[i] ELSE b[i - n]
  BY <1>1, ConcatProperties
<1>3. \A i \in 1..Len(t) : (a \o b)[i] = t[i]
  BY <1>1, <1>2
<1> QED BY <1>2, <1>3, SeqEqual DEF a, b

LEMMA PrefixTransitive ==
    ASSUME NEW S, NEW s \in Seq(S), NEW t \in Seq(S), NEW u \in Seq(S),
           IsPrefix(s, t), IsPrefix(t, u)
    PROVE  IsPrefix(s, u)
BY PrefixCells

LEMMA PrefixReflexive ==
    ASSUME NEW S, NEW s \in Seq(S)
    PROVE  IsPrefix(s, s)
BY PrefixCells

LEMMA PrefixEmpty ==
    ASSUME NEW S, NEW s \in Seq(S)
    PROVE  IsPrefix(<<>>, s)
<1>1. <<>> \in Seq(S) /\ Len(<<>>) = 0
  BY EmptySeq
<1>2. Len(<<>>) <= Len(s) /\ 1..Len(<<>>) = {}
  BY <1>1
<1>3. \A i \in 1..Len(<<>>) : <<>>[i] = s[i]
  BY <1>2
<1> QED
  BY <1>1, <1>2, <1>3, PrefixCells

LEMMA PrefixConcat ==
    ASSUME NEW S, NEW s \in Seq(S), NEW t \in Seq(S)
    PROVE  IsPrefix(s, s \o t)
<1>1. /\ s \o t \in Seq(S) /\ Len(s) <= Len(s \o t)
      /\ \A i \in 1..Len(s) : (s \o t)[i] = s[i]
  BY ConcatProperties
<1> QED
  BY <1>1, PrefixCells

\* Of two prefixes of one sequence the shorter is a prefix of the longer.
LEMMA PrefixesNested ==
    ASSUME NEW S, NEW s \in Seq(S), NEW t \in Seq(S), NEW u \in Seq(S),
           IsPrefix(s, u), IsPrefix(t, u), Len(s) <= Len(t)
    PROVE  IsPrefix(s, t)
BY PrefixCells

\* Prefixes of equal length are the sequence itself.
LEMMA PrefixWhole ==
    ASSUME NEW S, NEW s \in Seq(S), NEW t \in Seq(S),
           IsPrefix(s, t), Len(s) = Len(t)
    PROVE  s = t
BY PrefixCells, SeqEqual

\* A prefix is a cut, and what follows it is the rest.
LEMMA PrefixIsCut ==
    ASSUME NEW S, NEW s \in Seq(S), NEW t \in Seq(S), IsPrefix(s, t)
    PROVE  /\ s = Cut(t, Len(s)) /\ Len(s) \in 0..Len(t)
           /\ t = s \o SubSeq(t, Len(s) + 1, Len(t))
<1>1. Len(s) \in 0..Len(t)
  BY PrefixCells
<1>2. s = Cut(t, Len(s))
  BY <1>1, CutCells, PrefixCells, SeqEqual
<1> QED BY <1>1, <1>2, CutAndDrop

\* The first n cells of a sequence that begins with a given one.
LEMMA CutOfConcat ==
    ASSUME NEW S, NEW s \in Seq(S), NEW t \in Seq(S)
    PROVE  /\ Cut(s \o t, Len(s)) = s
           /\ SubSeq(s \o t, Len(s) + 1, Len(s \o t)) = t
<1>1. /\ s \o t \in Seq(S) /\ Len(s \o t) = Len(s) + Len(t)
      /\ \A i \in 1..Len(s) + Len(t) : (s \o t)[i] = IF i <= Len(s) THEN s[i] ELSE t[i - Len(s)]
  BY ConcatProperties
<1>2. Len(s) \in 0..Len(s \o t)
  BY <1>1
<1>3. Cut(s \o t, Len(s)) = s
  <2> DEFINE c == Cut(s \o t, Len(s))
  <2>1. /\ c \in Seq(S) /\ Len(c) = Len(s)
        /\ \A i \in 1..Len(s) : c[i] = (s \o t)[i]
    BY <1>1, <1>2, CutCells
  <2> HIDE DEF c
  <2>2. \A i \in 1..Len(s) : c[i] = s[i]
    BY <1>1, <2>1
  <2>3. c = s
    BY <2>1, <2>2, SeqEqual
  <2> QED BY <2>3 DEF c
<1>4. SubSeq(s \o t, Len(s) + 1, Len(s \o t)) = t
  <2> DEFINE d == SubSeq(s \o t, Len(s) + 1, Len(s \o t))
  <2>1. /\ d \in Seq(S) /\ Len(d) = Len(t)
        /\ \A i \in 1..Len(t) : d[i] = (s \o t)[Len(s) + i]
    BY <1>1, <1>2, DropCells
  <2> HIDE DEF d
  <2>2. \A i \in 1..Len(t) : d[i] = t[i]
    BY <1>1, <2>1
  <2>3. d = t
    BY <2>1, <2>2, SeqEqual
  <2> QED BY <2>3 DEF d
<1> QED BY <1>3, <1>4

\* Two ways to split a sequence at the same place are one.
LEMMA ConcatCancel ==
    ASSUME NEW S, NEW s \in Seq(S), NEW t \in Seq(S), NEW u \in Seq(S), NEW v \in Seq(S),
           s \o t = u \o v, Len(s) = Len(u)
    PROVE  s = u /\ t = v
<1>1. /\ Cut(s \o t, Len(s)) = s /\ SubSeq(s \o t, Len(s) + 1, Len(s \o t)) = t
      /\ Cut(u \o v, Len(u)) = u /\ SubSeq(u \o v, Len(u) + 1, Len(u \o v)) = v
  BY CutOfConcat
<1> QED BY <1>1, Zenon

\* The same beginning can be put in front of both.
LEMMA PrefixBehind ==
    ASSUME NEW S, NEW r \in Seq(S), NEW s \in Seq(S), NEW t \in Seq(S), IsPrefix(s, t)
    PROVE  IsPrefix(r \o s, r \o t)
<1>1. Len(s) <= Len(t) /\ \A i \in 1..Len(s) : s[i] = t[i]
  BY PrefixCells
<1>2. /\ r \o s \in Seq(S) /\ Len(r \o s) = Len(r) + Len(s)
      /\ \A i \in 1..Len(r) + Len(s) : (r \o s)[i] = IF i <= Len(r) THEN r[i] ELSE s[i - Len(r)]
  BY ConcatProperties
<1>3. /\ r \o t \in Seq(S) /\ Len(r \o t) = Len(r) + Len(t)
      /\ \A i \in 1..Len(r) + Len(t) : (r \o t)[i] = IF i <= Len(r) THEN r[i] ELSE t[i - Len(r)]
  BY ConcatProperties
<1>4. Len(r \o s) <= Len(r \o t)
  BY <1>1, <1>2, <1>3
<1>5. ASSUME NEW i \in 1..Len(r) + Len(s) PROVE (r \o s)[i] = (r \o t)[i]
  <2>1. i \in 1..Len(r) + Len(t)
    BY <1>1
  <2>2. CASE i <= Len(r)
    BY <1>2, <1>3, <2>1, <2>2
  <2>3. CASE ~(i <= Len(r))
    <3>1. i - Len(r) \in 1..Len(s)
      BY <2>3
    <3> QED BY <1>1, <1>2, <1>3, <2>1, <2>3, <3>1
  <2> QED BY <2>2, <2>3
<1> QED BY <1>2, <1>3, <1>4, <1>5, PrefixCells

\* A sequence that is not empty is its head in front of its tail.
LEMMA HeadAndTail ==
    ASSUME NEW S, NEW s \in Seq(S), s # <<>>
    PROVE  /\ Head(s) \in S /\ Tail(s) \in Seq(S) /\ Len(Tail(s)) = Len(s) - 1
           /\ s = <<Head(s)>> \o Tail(s)
<1>1. Head(s) \in S /\ Tail(s) \in Seq(S) /\ Len(Tail(s)) = Len(s) - 1
      /\ \A i \in 1..Len(Tail(s)) : Tail(s)[i] = s[i + 1]
  BY HeadTailProperties
<1>2. <<Head(s)>> \in Seq(S) /\ Len(<<Head(s)>>) = 1 /\ <<Head(s)>>[1] = s[1] /\ Len(s) >= 1
  BY <1>1
<1>3. /\ <<Head(s)>> \o Tail(s) \in Seq(S)
      /\ Len(<<Head(s)>> \o Tail(s)) = Len(s)
      /\ \A i \in 1..Len(s) : (<<Head(s)>> \o Tail(s))[i] =
           IF i <= 1 THEN <<Head(s)>>[i] ELSE Tail(s)[i - 1]
  BY <1>1, <1>2, ConcatProperties
<1>4. \A i \in 1..Len(s) : (<<Head(s)>> \o Tail(s))[i] = s[i]
  BY <1>1, <1>2, <1>3
<1>5. s = <<Head(s)>> \o Tail(s)
  BY <1>3, <1>4, SeqEqual
<1> QED BY <1>1, <1>5

-----------------------------------------------------------------------------
(* Checksums.                                                              *)

\* The running checksums of p: c is the function Crc computes when it is
\* Running(p, c).
Running(p, c) == [i \in 0..Len(p) |-> IF i = 0 THEN 0 ELSE 10 * c[i - 1] + p[i] + 1]

LEMMA RunningExists ==
    ASSUME NEW p \in Bytes
    PROVE  \E c \in [0..Len(p) -> Nat] : c = Running(p, c) /\ Crc(p) = c[Len(p)]
<1> DEFINE S == 0..Len(p)
           next == [i \in S |-> i - 1]
           rank == [i \in S |-> i]
           base == [i \in S |-> 0]
           step == [i \in S |-> [v \in Nat |-> 10 * v + p[i] + 1]]
<1>0. Len(p) \in Nat
  BY DEF Bytes
<1>1. rank \in [S -> 0..Len(p)] /\ base \in [S -> Nat]
  OBVIOUS
<1>2. \A i \in S \ {0} : /\ next[i] \in S /\ rank[next[i]] < rank[i]
                         /\ \A v \in Nat : step[i][v] \in Nat
  BY DEF Bytes
<1>3. PICK d \in [S -> Nat] : d = Recursion(S, {0}, next, base, step, d)
  <2>1. Descends(S, Nat, {0}, next, Len(p), rank, base, step)
    BY <1>0, <1>1, <1>2 DEF Descends
  <2> HIDE DEF S, next, rank, base, step
  <2> QED BY <2>1, RecursionExists
<1>4. d = Running(p, d)
  <2> DEFINE r == Recursion(S, {0}, next, base, step, d)
  <2>1. ASSUME NEW i \in S
        PROVE  r[i] = IF i = 0 THEN 0 ELSE 10 * d[i - 1] + p[i] + 1
    <3>1. CASE i = 0
      BY <3>1 DEF Recursion
    <3>2. CASE i # 0
      <4>1. next[i] = i - 1 /\ d[i - 1] \in Nat
        BY <1>0, <3>2
      <4>2. r[i] = step[i][d[next[i]]]
        BY <3>2 DEF Recursion
      <4> QED BY <3>2, <4>1, <4>2
    <3> QED BY <3>1, <3>2
  <2>2. r = [i \in S |-> r[i]]
    BY DEF Recursion
  <2>3. d = r
    BY <1>3
  <2> HIDE DEF r
  <2>4. r = [i \in S |-> IF i = 0 THEN 0 ELSE 10 * d[i - 1] + p[i] + 1]
    BY <2>1, <2>2
  <2> QED BY <2>3, <2>4 DEF Running
<1> DEFINE c == CHOOSE c : c = Running(p, c)
<1>5. Crc(p) = c[Len(p)]
  BY DEF Crc, Running
<1>6. c = Running(p, c)
  BY <1>4, Zenon
<1> HIDE DEF c
<1>7. c[0] = 0 /\ \A i \in 1..Len(p) : c[i] = 10 * c[i - 1] + p[i] + 1
  <2>1. Running(p, c)[0] = 0 /\ \A i \in 1..Len(p) : Running(p, c)[i] = 10 * c[i - 1] + p[i] + 1
    BY <1>0 DEF Running
  <2> QED BY <1>6, <2>1, Zenon
<1>8. \A i \in 0..Len(p) : c[i] \in Nat
  <2> DEFINE Q == {i \in Nat : i <= Len(p) => c[i] \in Nat}
  <2>1. 0 \in Q
    BY <1>7
  <2>2. ASSUME NEW i \in Nat, i \in Q PROVE i + 1 \in Q
    <3> SUFFICES ASSUME i + 1 <= Len(p) PROVE c[i + 1] \in Nat
      OBVIOUS
    <3>1. i + 1 \in 1..Len(p) /\ (i + 1) - 1 = i /\ c[i] \in Nat /\ p[i + 1] \in Nat
      BY <1>0, <2>2 DEF Bytes
    <3> QED BY <1>7, <3>1
  <2> HIDE DEF Q
  <2>3. Nat \subseteq Q
    BY <2>1, <2>2, AllNaturals
  <2> QED BY <1>0, <2>3 DEF Q
<1>9. c \in [0..Len(p) -> Nat]
  <2>1. c = [i \in 0..Len(p) |-> c[i]]
    <3>1. Running(p, c) = [i \in 0..Len(p) |-> Running(p, c)[i]]
      BY DEF Running
    <3> QED BY <1>6, <3>1, Zenon
  <2> QED BY <1>8, <2>1
<1> QED BY <1>5, <1>6, <1>9

LEMMA CrcNat ==
    ASSUME NEW p \in Bytes
    PROVE  Crc(p) \in Nat
BY RunningExists DEF Bytes

\* The checksum of no bytes is zero, that of some bytes is not.
LEMMA CrcZero ==
    ASSUME NEW p \in Bytes
    PROVE  Crc(p) = 0 <=> p = <<>>
<1>1. PICK c \in [0..Len(p) -> Nat] : c = Running(p, c) /\ Crc(p) = c[Len(p)]
  BY RunningExists
<1>2. Len(p) \in Nat /\ (p = <<>> <=> Len(p) = 0)
  BY DEF Bytes
<1>3. c[Len(p)] = Running(p, c)[Len(p)]
  BY <1>1
<1>4. CASE Len(p) = 0
  <2>1. Running(p, c)[Len(p)] = 0
    BY <1>4 DEF Running
  <2> QED BY <1>1, <1>2, <1>3, <1>4, <2>1
<1>5. CASE Len(p) # 0
  <2>1. Len(p) \in 1..Len(p) /\ Len(p) - 1 \in 0..Len(p) /\ p[Len(p)] \in Nat
    BY <1>2, <1>5 DEF Bytes
  <2>2. Running(p, c)[Len(p)] = 10 * c[Len(p) - 1] + p[Len(p)] + 1
    BY <1>5, <2>1 DEF Running
  <2>3. c[Len(p) - 1] \in Nat
    BY <2>1
  <2>4. Running(p, c)[Len(p)] > 0
    BY <2>1, <2>2, <2>3
  <2> QED BY <1>1, <1>2, <1>3, <1>5, <2>4
<1> QED BY <1>4, <1>5
-----------------------------------------------------------------------------
(* Packing.                                                                *)

LEMMA FrameCells ==
    ASSUME NEW p \in Bytes
    PROVE  /\ PackFrame(p) \in Bytes /\ Len(PackFrame(p)) = HeaderSize + Len(p)
           /\ PackFrame(p)[1] = Len(p) /\ PackFrame(p)[2] = Crc(p)
           /\ \A i \in 1..Len(p) : PackFrame(p)[HeaderSize + i] = p[i]
<1>1. Len(p) \in Nat /\ Crc(p) \in Nat
  BY CrcNat DEF Bytes
<1> DEFINE head == <<Len(p), Crc(p)>>
<1>2. head \in Seq(Nat) /\ Len(head) = 2 /\ head[1] = Len(p) /\ head[2] = Crc(p)
  BY <1>1
<1> HIDE DEF head
<1>3. /\ head \o p \in Seq(Nat) /\ Len(head \o p) = 2 + Len(p)
      /\ \A i \in 1..2 + Len(p) : (head \o p)[i] = IF i <= 2 THEN head[i] ELSE p[i - 2]
  <2>1. p \in Seq(Nat)
    BY DEF Bytes
  <2>2. /\ head \o p \in Seq(Nat) /\ Len(head \o p) = Len(head) + Len(p)
        /\ \A i \in 1..Len(head) + Len(p) :
             (head \o p)[i] = IF i <= Len(head) THEN head[i] ELSE p[i - Len(head)]
    BY <1>2, <2>1, ConcatProperties
  <2> QED BY <1>2, <2>2
<1>4. PackFrame(p) = head \o p
  BY DEF PackFrame, head
<1>5. /\ (head \o p)[1] = Len(p) /\ (head \o p)[2] = Crc(p)
      /\ \A i \in 1..Len(p) : (head \o p)[2 + i] = p[i]
  BY <1>1, <1>2, <1>3
<1> QED BY <1>3, <1>4, <1>5 DEF Bytes, HeaderSize

\* The runs of s laid end to end: g is the function FlattenSeq computes when it
\* is Run(s, g).
Run(s, g) == [i \in 1..Len(s) |-> IF i = 1 THEN s[i] ELSE g[i - 1] \o s[i]]

LEMMA RunCells ==
    ASSUME NEW s, NEW g, g = Run(s, g)
    PROVE  /\ 1 \in 1..Len(s) => g[1] = s[1]
           /\ \A i \in 1..Len(s) : i # 1 => g[i] = g[i - 1] \o s[i]
<1>1. \A i \in 1..Len(s) : Run(s, g)[i] = IF i = 1 THEN s[i] ELSE g[i - 1] \o s[i]
  BY Zenon DEF Run
<1> QED BY <1>1, Zenon

LEMMA RunExists ==
    ASSUME NEW s \in Records, s # <<>>
    PROVE  \E g \in [1..Len(s) -> Bytes] : g = Run(s, g) /\ FlattenSeq(s) = g[Len(s)]
<1> DEFINE S == 1..Len(s)
           next == [i \in S |-> i - 1]
           rank == [i \in S |-> i]
           base == s
           step == [i \in S |-> [v \in Bytes |-> v \o s[i]]]
<1>0. Len(s) \in Nat /\ Len(s) >= 1 /\ \A i \in S : s[i] \in Bytes
  BY DEF Records
<1>1. rank \in [S -> 0..Len(s)] /\ base \in [S -> Bytes]
  BY <1>0 DEF Records
<1>2. \A i \in S \ {1} : /\ next[i] \in S /\ rank[next[i]] < rank[i]
                         /\ \A v \in Bytes : step[i][v] \in Bytes
  BY <1>0, ConcatProperties DEF Bytes
<1>3. PICK d \in [S -> Bytes] : d = Recursion(S, {1}, next, base, step, d)
  <2>1. Descends(S, Bytes, {1}, next, Len(s), rank, base, step)
    BY <1>0, <1>1, <1>2 DEF Descends
  <2> HIDE DEF S, next, rank, base, step
  <2> QED BY <2>1, RecursionExists
<1>4. d = Run(s, d)
  <2> DEFINE r == Recursion(S, {1}, next, base, step, d)
  <2>1. ASSUME NEW i \in S
        PROVE  r[i] = IF i = 1 THEN s[i] ELSE d[i - 1] \o s[i]
    <3>1. CASE i = 1
      BY <3>1 DEF Recursion
    <3>2. CASE i # 1
      <4>1. next[i] = i - 1 /\ d[i - 1] \in Bytes
        BY <1>0, <3>2
      <4>2. r[i] = step[i][d[next[i]]]
        BY <3>2 DEF Recursion
      <4> QED BY <3>2, <4>1, <4>2
    <3> QED BY <3>1, <3>2
  <2>2. r = [i \in S |-> r[i]]
    BY DEF Recursion
  <2>3. d = r
    BY <1>3
  <2> HIDE DEF r
  <2>4. r = [i \in S |-> IF i = 1 THEN s[i] ELSE d[i - 1] \o s[i]]
    BY <2>1, <2>2
  <2> QED BY <2>3, <2>4 DEF Run
<1> DEFINE g == CHOOSE g : g = Run(s, g)
<1>5. FlattenSeq(s) = g[Len(s)]
  BY <1>0 DEF FlattenSeq, Run
<1>6. g = Run(s, g)
  BY <1>4, Zenon
<1> HIDE DEF g
<1>7. g[1] = s[1] /\ \A i \in 1..Len(s) : i # 1 => g[i] = g[i - 1] \o s[i]
  <2>1. 1 \in 1..Len(s)
    BY <1>0
  <2> QED BY <1>6, <2>1, RunCells, Zenon
<1>8. \A i \in 1..Len(s) : g[i] \in Bytes
  <2> DEFINE Q == {i \in Nat : i + 1 <= Len(s) => g[i + 1] \in Bytes}
  <2>1. 0 \in Q
    BY <1>0, <1>7
  <2>2. ASSUME NEW i \in Nat, i \in Q PROVE i + 1 \in Q
    <3> SUFFICES ASSUME i + 2 <= Len(s) PROVE g[i + 2] \in Bytes
      OBVIOUS
    <3>1. i + 2 \in 1..Len(s) /\ i + 2 # 1 /\ (i + 2) - 1 = i + 1 /\ g[i + 1] \in Bytes /\ s[i + 2] \in Bytes
      BY <1>0, <2>2
    <3>2. g[i + 2] = g[i + 1] \o s[i + 2]
      BY <1>7, <3>1
    <3> QED BY <3>1, <3>2, ConcatProperties DEF Bytes
  <2> HIDE DEF Q
  <2>3. Nat \subseteq Q
    BY <2>1, <2>2, AllNaturals
  <2>4. ASSUME NEW i \in 1..Len(s) PROVE g[i] \in Bytes
    <3>1. i - 1 \in Q /\ (i - 1) + 1 = i
      BY <1>0, <2>3
    <3> QED BY <1>0, <3>1 DEF Q
  <2> QED BY <2>4
<1>9. g \in [1..Len(s) -> Bytes]
  <2>1. g = [i \in 1..Len(s) |-> g[i]]
    <3>1. Run(s, g) = [i \in 1..Len(s) |-> Run(s, g)[i]]
      BY DEF Run
    <3> QED BY <1>6, <3>1, Zenon
  <2> QED BY <1>8, <2>1
<1> QED BY <1>5, <1>6, <1>9

\* Flattening one sequence more puts it at the end.
LEMMA FlattenAppend ==
    ASSUME NEW s \in Records, NEW x \in Bytes
    PROVE  FlattenSeq(Append(s, x)) = FlattenSeq(s) \o x /\ FlattenSeq(s) \in Bytes
<1> DEFINE t == Append(s, x)
<1>1. /\ t \in Records /\ t # <<>> /\ Len(t) = Len(s) + 1 /\ Len(s) \in Nat
      /\ \A i \in 1..Len(s) : t[i] = s[i]
      /\ t[Len(s) + 1] = x
  BY AppendProperties DEF Records
<1> HIDE DEF t
<1>2. PICK h \in [1..Len(t) -> Bytes] : h = Run(t, h) /\ FlattenSeq(t) = h[Len(t)]
  BY <1>1, RunExists
<1>3. h[1] = t[1] /\ \A i \in 1..Len(t) : i # 1 => h[i] = h[i - 1] \o t[i]
  <2>1. 1 \in 1..Len(t)
    BY <1>1
  <2> QED BY <1>2, <2>1, RunCells, Zenon
<1>4. CASE s = <<>>
  <2>1. Len(s) = 0
    BY <1>4
  <2>2. FlattenSeq(t) = x
    BY <1>1, <1>2, <1>3, <2>1
  <2>3. FlattenSeq(s) = <<>>
    BY <1>4 DEF FlattenSeq
  <2> QED BY <2>2, <2>3, EmptySeq, ConcatEmptySeq DEF Bytes, t
<1>5. CASE s # <<>>
  <2>1. PICK g \in [1..Len(s) -> Bytes] : g = Run(s, g) /\ FlattenSeq(s) = g[Len(s)]
    BY <1>5, RunExists
  <2>2. g[1] = s[1] /\ \A i \in 1..Len(s) : i # 1 => g[i] = g[i - 1] \o s[i]
    <3>1. 1 \in 1..Len(s)
      BY <1>1, <1>5, EmptySeq DEF Records
    <3> QED BY <2>1, <3>1, RunCells, Zenon
  <2>3. Len(s) >= 1
    BY <1>1, <1>5, EmptySeq DEF Records
  <2> DEFINE Q == {i \in Nat : i + 1 <= Len(s) => g[i + 1] = h[i + 1]}
  <2>4. 0 \in Q
    BY <1>1, <1>3, <2>2, <2>3
  <2>5. ASSUME NEW i \in Nat, i \in Q PROVE i + 1 \in Q
    <3> SUFFICES ASSUME i + 2 <= Len(s) PROVE g[i + 2] = h[i + 2]
      OBVIOUS
    <3>1. /\ i + 2 \in 1..Len(s) /\ i + 2 \in 1..Len(t) /\ i + 2 # 1 /\ (i + 2) - 1 = i + 1
          /\ g[i + 1] = h[i + 1] /\ s[i + 2] = t[i + 2]
      BY <1>1, <2>5
    <3> QED BY <1>3, <2>2, <3>1
  <2> HIDE DEF Q
  <2>6. Nat \subseteq Q
    BY <2>4, <2>5, AllNaturals
  <2>7. g[Len(s)] = h[Len(s)]
    <3>1. Len(s) - 1 \in Q /\ (Len(s) - 1) + 1 = Len(s)
      BY <1>1, <2>3, <2>6
    <3> QED BY <1>1, <3>1 DEF Q
  <2>8. h[Len(t)] = h[Len(s)] \o x
    <3>1. Len(t) \in 1..Len(t) /\ Len(t) # 1 /\ Len(t) - 1 = Len(s) /\ t[Len(t)] = x
      BY <1>1, <2>3
    <3> QED BY <1>3, <3>1
  <2>9. g[Len(s)] \in Bytes
    BY <1>1, <2>3
  <2> QED BY <1>2, <2>1, <2>7, <2>8, <2>9 DEF t
<1> QED BY <1>4, <1>5

Regrouped(u, v, w) == (u \o v) \o w = u \o (v \o w)

LEMMA AnyAssociative ==
    ASSUME NEW S, NEW u \in Seq(S), NEW v \in Seq(S), NEW w \in Seq(S)
    PROVE  Regrouped(u, v, w)
BY ConcatAssociative DEF Regrouped

LEMMA BytesAssociative ==
    ASSUME NEW u \in Bytes, NEW v \in Bytes, NEW w \in Bytes
    PROVE  Regrouped(u, v, w)
<1>1. u \in Seq(Nat) /\ v \in Seq(Nat) /\ w \in Seq(Nat)
  BY DEF Bytes
<1> QED BY <1>1, AnyAssociative, Zenon

LEMMA PackedEmpty == Packed(<<>>) = <<>>
<1>1. DOMAIN <<>> = {}
  OBVIOUS
<1>2. [i \in DOMAIN <<>> |-> PackFrame(<<>>[i])] = <<>>
  BY <1>1
<1> QED BY <1>2 DEF Packed, FlattenSeq

LEMMA PackedAppend ==
    ASSUME NEW b \in Records, NEW p \in Bytes
    PROVE  Packed(b) \in Bytes /\ Packed(Append(b, p)) = Packed(b) \o PackFrame(p)
<1> DEFINE s == [i \in DOMAIN b |-> PackFrame(b[i])]
           t == [i \in DOMAIN Append(b, p) |-> PackFrame(Append(b, p)[i])]
           x == PackFrame(p)
<1>1. /\ Append(b, p) \in Records /\ Len(Append(b, p)) = Len(b) + 1 /\ Len(b) \in Nat
      /\ \A i \in 1..Len(b) : Append(b, p)[i] = b[i]
      /\ Append(b, p)[Len(b) + 1] = p
      /\ DOMAIN b = 1..Len(b) /\ DOMAIN Append(b, p) = 1..Len(b) + 1
  BY AppendProperties DEF Records
<1>2. x \in Bytes /\ \A i \in 1..Len(b) : PackFrame(b[i]) \in Bytes
  BY FrameCells DEF Records
<1>3. s \in Records /\ Len(s) = Len(b) /\ \A i \in 1..Len(b) : s[i] = PackFrame(b[i])
  BY <1>1, <1>2, RowIsSeq DEF Records
<1>4. t = [i \in 1..Len(b) + 1 |-> PackFrame(Append(b, p)[i])]
  BY <1>1
<1>5. \A i \in 1..Len(b) : t[i] = PackFrame(b[i])
  BY <1>1, <1>4
<1>6. t[Len(b) + 1] = x
  BY <1>1, <1>4
<1>7. t \in Records /\ Len(t) = Len(b) + 1
  <2>1. \A i \in 1..Len(b) + 1 : PackFrame(Append(b, p)[i]) \in Bytes
    BY <1>1, FrameCells DEF Records
  <2> QED BY <1>1, <1>4, <2>1, RowIsSeq DEF Records
<1> HIDE DEF s, t, x
<1>8. t = Append(s, x)
  <2>1. /\ Append(s, x) \in Records /\ Len(Append(s, x)) = Len(b) + 1
        /\ \A i \in 1..Len(b) : Append(s, x)[i] = s[i]
        /\ Append(s, x)[Len(b) + 1] = x
    BY <1>2, <1>3, AppendProperties DEF Records
  <2>2. \A i \in 1..Len(b) + 1 : t[i] = Append(s, x)[i]
    BY <1>1, <1>3, <1>5, <1>6, <2>1
  <2> QED BY <1>7, <2>1, <2>2, SeqEqual DEF Records
<1>9. FlattenSeq(t) = FlattenSeq(s) \o x /\ FlattenSeq(s) \in Bytes
  BY <1>2, <1>3, <1>8, FlattenAppend
<1> QED BY <1>9 DEF Packed, s, t, x

LEMMA PackedBytes ==
    ASSUME NEW b \in Records
    PROVE  Packed(b) \in Bytes
<1>1. <<>> \in Bytes
  BY EmptySeq DEF Bytes
<1> QED BY <1>1, PackedAppend

\* The frames of two runs of records follow each other.
LEMMA PackedConcat ==
    ASSUME NEW a \in Records, NEW b \in Records
    PROVE  a \o b \in Records /\ Packed(a \o b) = Packed(a) \o Packed(b)
<1>0. a \o b \in Records
  BY ConcatProperties DEF Records
<1> DEFINE Q == {n \in Nat : \A c \in Records : Len(c) = n => Packed(a \o c) = Packed(a) \o Packed(c)}
<1>1. 0 \in Q
  <2> SUFFICES ASSUME NEW c \in Records, Len(c) = 0 PROVE Packed(a \o c) = Packed(a) \o Packed(c)
    OBVIOUS
  <2>1. c = <<>>
    BY EmptySeq DEF Records
  <2>2. a \o <<>> = a /\ Packed(a) \o <<>> = Packed(a)
    BY PackedBytes, ConcatEmptySeq DEF Records, Bytes
  <2> QED BY <2>1, <2>2, PackedEmpty
<1>2. ASSUME NEW n \in Nat, n \in Q PROVE n + 1 \in Q
  <2> SUFFICES ASSUME NEW c \in Records, Len(c) = n + 1 PROVE Packed(a \o c) = Packed(a) \o Packed(c)
    OBVIOUS
  <2>0. c # <<>>
    BY EmptySeq DEF Records
  <2>1. PICK d \in Records, p \in Bytes : c = Append(d, p)
    BY <2>0, SequenceEmptyOrAppend DEF Records
  <2>2. Len(d) = n
    BY <2>1, AppendProperties DEF Records
  <2>3. Packed(a \o d) = Packed(a) \o Packed(d)
    BY <1>2, <2>2
  <2>4. a \o c = Append(a \o d, p)
    <3>1. c = d \o <<p>> /\ <<p>> \in Records /\ a \o d \in Records
      BY <2>1, AppendIsConcat, ConcatProperties DEF Records
    <3>2. a \o (d \o <<p>>) = (a \o d) \o <<p>>
      BY <3>1, ConcatAssociative DEF Records
    <3>3. Append(a \o d, p) = (a \o d) \o <<p>>
      BY <3>1, AppendIsConcat DEF Records
    <3> QED BY <3>1, <3>2, <3>3, Zenon
  <2>5. Packed(a \o c) = Packed(a \o d) \o PackFrame(p) /\ Packed(c) = Packed(d) \o PackFrame(p)
    <3>1. a \o d \in Records
      BY ConcatProperties DEF Records
    <3> QED BY <2>1, <2>4, <3>1, PackedAppend
  <2>6. (Packed(a) \o Packed(d)) \o PackFrame(p) = Packed(a) \o (Packed(d) \o PackFrame(p))
    <3>1. Packed(a) \in Bytes /\ Packed(d) \in Bytes /\ PackFrame(p) \in Bytes
      BY PackedBytes, FrameCells
    <3> QED BY <3>1, BytesAssociative, Zenon DEF Regrouped
  <2> QED BY <2>3, <2>5, <2>6, Zenon
<1> HIDE DEF Q
<1>3. Nat \subseteq Q
  BY <1>1, <1>2, AllNaturals
<1>4. Len(b) \in Q
  BY <1>3 DEF Records
<1> QED BY <1>0, <1>4 DEF Q

LEMMA PackedOne ==
    ASSUME NEW p \in Bytes
    PROVE  Packed(<<p>>) = PackFrame(p) /\ <<p>> \in Records /\ Len(<<p>>) = 1
<1>1. <<>> \in Records /\ Append(<<>>, p) = <<p>> /\ <<p>> \in Records /\ Len(<<p>>) = 1
  BY EmptySeq DEF Records
<1>2. Packed(<<p>>) = <<>> \o PackFrame(p)
  BY <1>1, PackedEmpty, PackedAppend
<1> QED BY <1>1, <1>2, FrameCells, ConcatEmptySeq DEF Bytes

\* Every record takes at least its header.
LEMMA PackedLength ==
    ASSUME NEW b \in Records
    PROVE  Len(Packed(b)) >= HeaderSize * Len(b) /\ Len(Packed(b)) \in Nat
<1> DEFINE Q == {n \in Nat : \A c \in Records : Len(c) = n => Len(Packed(c)) >= 2 * n}
<1>1. 0 \in Q
  BY PackedBytes DEF Bytes
<1>2. ASSUME NEW n \in Nat, n \in Q PROVE n + 1 \in Q
  <2> SUFFICES ASSUME NEW c \in Records, Len(c) = n + 1 PROVE Len(Packed(c)) >= 2 * (n + 1)
    OBVIOUS
  <2>0. c # <<>>
    BY EmptySeq DEF Records
  <2>1. PICK d \in Records, p \in Bytes : c = Append(d, p)
    BY <2>0, SequenceEmptyOrAppend DEF Records
  <2>2. Len(d) = n
    BY <2>1, AppendProperties DEF Records
  <2>3. Len(Packed(d)) >= 2 * n /\ Len(Packed(d)) \in Nat
    BY <1>2, <2>2, PackedBytes DEF Bytes
  <2>4. Len(Packed(c)) = Len(Packed(d)) + Len(PackFrame(p))
    <3>1. Packed(c) = Packed(d) \o PackFrame(p)
      BY <2>1, PackedAppend
    <3>2. Packed(d) \in Seq(Nat) /\ PackFrame(p) \in Seq(Nat)
      BY PackedBytes, FrameCells DEF Bytes
    <3> QED BY <3>1, <3>2, ConcatProperties
  <2>5. Len(PackFrame(p)) >= 2 /\ Len(PackFrame(p)) \in Nat
    BY FrameCells DEF Bytes, HeaderSize
  <2> QED BY <2>3, <2>4, <2>5
<1> HIDE DEF Q
<1>3. Nat \subseteq Q
  BY <1>1, <1>2, AllNaturals
<1>4. Len(b) \in Q
  BY <1>3 DEF Records
<1>5. Len(Packed(b)) \in Nat
  BY PackedBytes DEF Bytes
<1> QED BY <1>4, <1>5 DEF Q, HeaderSize
-----------------------------------------------------------------------------
(* Scanning.                                                               *)

\* x is what f holds after position i.
Spells(f, i, x) == \A k \in 1..Len(x) : f[i + k] = x[k]

\* The frames of rs are what the first m bytes of f hold after position i.
Lies(f, i, m, rs) == i + Len(Packed(rs)) <= m /\ Spells(f, i, Packed(rs))

\* rs are all the records that are there.
Found(f, i, m, rs) ==
    /\ Lies(f, i, m, rs)
    /\ \A qs \in Records : Lies(f, i, m, qs) => IsPrefix(qs, rs)

\* Where the frames of rs begin when the first one is at i, and where they end.
Positions(i, rs) == [k \in 1..Len(rs) + 1 |-> i + Len(Packed(Cut(rs, k - 1)))]

LEMMA SpellsConcat ==
    ASSUME NEW f, NEW i \in Nat, NEW x \in Bytes, NEW y \in Bytes
    PROVE  Spells(f, i, x \o y) <=> Spells(f, i, x) /\ Spells(f, i + Len(x), y)
<1>1. /\ x \o y \in Seq(Nat) /\ Len(x \o y) = Len(x) + Len(y)
      /\ \A k \in 1..Len(x) + Len(y) : (x \o y)[k] = IF k <= Len(x) THEN x[k] ELSE y[k - Len(x)]
      /\ Len(x) \in Nat /\ Len(y) \in Nat
  BY ConcatProperties DEF Bytes
<1>2. ASSUME Spells(f, i, x \o y) PROVE Spells(f, i, x) /\ Spells(f, i + Len(x), y)
  <2>1. ASSUME NEW k \in 1..Len(x) PROVE f[i + k] = x[k]
    <3>1. k \in 1..Len(x) + Len(y) /\ k <= Len(x)
      BY <1>1
    <3>2. (x \o y)[k] = x[k]
      BY <1>1, <3>1
    <3>3. k \in 1..Len(x \o y)
      BY <1>1, <3>1
    <3>4. f[i + k] = (x \o y)[k]
      BY <1>2, <3>3 DEF Spells
    <3> QED BY <3>2, <3>4
  <2>2. ASSUME NEW k \in 1..Len(y) PROVE f[(i + Len(x)) + k] = y[k]
    <3>1. /\ Len(x) + k \in 1..Len(x) + Len(y) /\ (Len(x) + k) - Len(x) = k
          /\ ~(Len(x) + k <= Len(x)) /\ i + (Len(x) + k) = (i + Len(x)) + k
      BY <1>1
    <3> QED BY <1>1, <1>2, <3>1 DEF Spells
  <2> QED BY <2>1, <2>2 DEF Spells
<1>3. ASSUME Spells(f, i, x), Spells(f, i + Len(x), y) PROVE Spells(f, i, x \o y)
  <2> SUFFICES ASSUME NEW k \in 1..Len(x) + Len(y) PROVE f[i + k] = (x \o y)[k]
    BY <1>1 DEF Spells
  <2>1. CASE k <= Len(x)
    BY <1>1, <1>3, <2>1 DEF Spells
  <2>2. CASE ~(k <= Len(x))
    <3>1. k - Len(x) \in 1..Len(y) /\ (i + Len(x)) + (k - Len(x)) = i + k
      BY <1>1, <2>2
    <3> QED BY <1>1, <1>3, <2>2, <3>1 DEF Spells
  <2> QED BY <2>1, <2>2
<1> QED BY <1>2, <1>3

LEMMA SpellsPrefix ==
    ASSUME NEW f \in Bytes, NEW x \in Bytes
    PROVE  IsPrefix(x, f) <=> Len(x) <= Len(f) /\ Spells(f, 0, x)
<1>1. IsPrefix(x, f) <=> Len(x) <= Len(f) /\ \A i \in 1..Len(x) : x[i] = f[i]
  BY PrefixCells DEF Bytes
<1>2. \A i \in 1..Len(x) : 0 + i = i
  BY DEF Bytes
<1> QED BY <1>1, <1>2 DEF Spells

LEMMA LiesPrefix ==
    ASSUME NEW f \in Bytes, NEW rs \in Records, NEW m \in 0..Len(f)
    PROVE  Lies(f, 0, m, rs) <=> IsPrefix(Packed(rs), f) /\ Len(Packed(rs)) <= m
<1>1. Packed(rs) \in Bytes /\ Len(Packed(rs)) \in Nat /\ Len(f) \in Nat
  BY PackedBytes, PackedLength DEF Bytes
<1>2. IsPrefix(Packed(rs), f) <=> Len(Packed(rs)) <= Len(f) /\ Spells(f, 0, Packed(rs))
  BY <1>1, SpellsPrefix
<1> QED BY <1>1, <1>2 DEF Lies

LEMMA LiesCons ==
    ASSUME NEW f, NEW i \in Nat, NEW m \in Nat, NEW p \in Bytes, NEW rs \in Records
    PROVE  Lies(f, i, m, <<p>> \o rs) <=>
             Spells(f, i, PackFrame(p)) /\ Lies(f, i + (HeaderSize + Len(p)), m, rs)
<1> DEFINE x == PackFrame(p)
           y == Packed(rs)
<1>1. x \in Bytes /\ y \in Bytes /\ Len(x) = HeaderSize + Len(p) /\ Packed(<<p>> \o rs) = x \o y
  <2>1. x \in Bytes /\ Len(x) = HeaderSize + Len(p) /\ y \in Bytes
    BY FrameCells, PackedBytes
  <2>2. Packed(<<p>> \o rs) = Packed(<<p>>) \o y /\ Packed(<<p>>) = x
    BY PackedConcat, PackedOne
  <2> QED BY <2>1, <2>2, Zenon
<1> HIDE DEF x, y
<1>2. Len(x \o y) = Len(x) + Len(y) /\ Len(x) \in Nat /\ Len(y) \in Nat
  <2>1. x \in Seq(Nat) /\ y \in Seq(Nat)
    BY <1>1 DEF Bytes
  <2> QED BY <2>1, ConcatProperties
<1>3. Spells(f, i, x \o y) <=> Spells(f, i, x) /\ Spells(f, i + Len(x), y)
  BY <1>1, SpellsConcat
<1>4. i + (Len(x) + Len(y)) <= m <=> (i + Len(x)) + Len(y) <= m
  BY <1>2
<1>5. Lies(f, i, m, <<p>> \o rs) <=> i + (Len(x) + Len(y)) <= m /\ Spells(f, i, x \o y)
  BY <1>1, <1>2 DEF Lies
<1>6. Lies(f, i + Len(x), m, rs) <=> (i + Len(x)) + Len(y) <= m /\ Spells(f, i + Len(x), y)
  BY DEF Lies, y
<1>7. Lies(f, i, m, <<p>> \o rs) <=> Spells(f, i, x) /\ Lies(f, i + Len(x), m, rs)
  BY <1>3, <1>4, <1>5, <1>6, Zenon
<1> QED BY <1>1, <1>7 DEF x

\* A frame that lies at i is found there, and a frame found there lies there.
LEMMA FrameFound ==
    ASSUME NEW f \in Bytes, NEW m \in 0..Len(f), NEW i \in Nat, NEW p \in Bytes,
           i + (HeaderSize + Len(p)) <= m, Spells(f, i, PackFrame(p))
    PROVE  /\ FrameEnd(f, i) = i + (HeaderSize + Len(p))
           /\ PayloadAt(f, i) = p /\ Intact(f, i, m)
<1>1. /\ PackFrame(p) \in Bytes /\ Len(PackFrame(p)) = 2 + Len(p) /\ Len(p) \in Nat
      /\ PackFrame(p)[1] = Len(p) /\ PackFrame(p)[2] = Crc(p)
      /\ \A k \in 1..Len(p) : PackFrame(p)[2 + k] = p[k]
      /\ Len(f) \in Nat
  <2>1. Len(p) \in Nat /\ Len(f) \in Nat
    BY DEF Bytes
  <2> QED BY <2>1, FrameCells DEF HeaderSize
<1>2. \A k \in 1..2 + Len(p) : f[i + k] = PackFrame(p)[k]
  BY <1>1 DEF Spells
<1>3. f[i + 1] = Len(p) /\ f[i + 2] = Crc(p)
  BY <1>1, <1>2
<1>4. FrameEnd(f, i) = i + 2 + Len(p) /\ i + 2 + Len(p) <= m
  BY <1>3, <1>1 DEF FrameEnd, HeaderSize
<1> DEFINE q == SubSeq(f, i + 3, i + 2 + Len(p))
<1>5. q \in Seq(Nat) /\ Len(q) = Len(p) /\ \A k \in 1..Len(p) : q[k] = f[(i + 2) + k]
  <2>1. (i + 2) + Len(p) <= Len(f) /\ (i + 2) + 1 = i + 3 /\ i + 2 \in Nat
    BY <1>1, <1>4
  <2>2. q = SubSeq(f, (i + 2) + 1, (i + 2) + Len(p)) /\ Len(p) \in Nat /\ f \in Seq(Nat)
    BY <1>1, <2>1 DEF Bytes
  <2> HIDE DEF q
  <2> QED BY <2>1, <2>2, SpanCells
<1> HIDE DEF q
<1>6. \A k \in 1..Len(p) : q[k] = p[k]
  <2> TAKE k \in 1..Len(p)
  <2>1. 2 + k \in 1..2 + Len(p) /\ i + (2 + k) = (i + 2) + k
    BY <1>1
  <2> QED BY <1>1, <1>2, <1>5, <2>1
<1>7. q = p
  BY <1>5, <1>6, SeqEqual DEF Bytes
<1>8. PayloadAt(f, i) = p
  <2>1. i + HeaderSize + 1 = i + 3
    BY DEF HeaderSize
  <2> QED BY <1>4, <1>7, <2>1 DEF PayloadAt, q
<1> QED BY <1>1, <1>3, <1>4, <1>8 DEF Intact, HeaderSize

LEMMA IntactFrame ==
    ASSUME NEW f \in Bytes, NEW m \in 0..Len(f), NEW i \in Nat, Intact(f, i, m)
    PROVE  LET p == PayloadAt(f, i)
           IN  /\ p \in Bytes /\ Spells(f, i, PackFrame(p))
               /\ FrameEnd(f, i) = i + (HeaderSize + Len(p))
               /\ FrameEnd(f, i) <= m /\ Len(p) \in Nat
<1>1. /\ i + 2 <= m /\ FrameEnd(f, i) = i + 2 + f[i + 1] /\ i + 2 + f[i + 1] <= m
      /\ Crc(PayloadAt(f, i)) = f[i + 2] /\ Len(f) \in Nat /\ i + 1 \in 1..Len(f)
  BY DEF Intact, FrameEnd, HeaderSize, Bytes
<1>2. f[i + 1] \in Nat
  BY <1>1 DEF Bytes
<1>3. PICK n \in Nat : n = f[i + 1]
  BY <1>2
<1> DEFINE p == SubSeq(f, i + 3, i + 2 + n)
<1>4. p \in Seq(Nat) /\ Len(p) = n /\ \A k \in 1..n : p[k] = f[(i + 2) + k]
  <2>1. (i + 2) + n <= Len(f) /\ (i + 2) + 1 = i + 3 /\ i + 2 \in Nat
    BY <1>1, <1>3
  <2> QED BY <2>1, SpanCells DEF Bytes
<1>5. PayloadAt(f, i) = p
  <2>1. i + HeaderSize + 1 = i + 3
    BY DEF HeaderSize
  <2>2. FrameEnd(f, i) = i + 2 + n
    BY <1>1, <1>3
  <2> QED BY <2>1, <2>2, Zenon DEF PayloadAt
<1> HIDE DEF p
<1>6. /\ Len(PackFrame(p)) = 2 + n /\ PackFrame(p)[1] = n /\ PackFrame(p)[2] = Crc(p)
      /\ \A k \in 1..n : PackFrame(p)[2 + k] = p[k]
  BY <1>4, FrameCells DEF Bytes, HeaderSize
<1>7. ASSUME NEW k \in 1..2 + n PROVE f[i + k] = PackFrame(p)[k]
  <2>1. CASE k = 1
    BY <1>3, <1>6, <2>1
  <2>2. CASE k = 2
    BY <1>1, <1>5, <1>6, <2>2
  <2>3. CASE k # 1 /\ k # 2
    <3>1. k - 2 \in 1..n /\ 2 + (k - 2) = k /\ (i + 2) + (k - 2) = i + k
      BY <2>3
    <3> QED BY <1>4, <1>6, <3>1
  <2> QED BY <2>1, <2>2, <2>3
<1>8. Spells(f, i, PackFrame(p))
  BY <1>6, <1>7 DEF Spells
<1>9. FrameEnd(f, i) = i + (HeaderSize + Len(p)) /\ FrameEnd(f, i) <= m /\ Len(p) \in Nat
  BY <1>1, <1>3, <1>4 DEF HeaderSize
<1> QED BY <1>4, <1>5, <1>8, <1>9 DEF Bytes

\* The function Scan computes is the g that is Scanning(f, m, g).
Scanning(f, m, g) ==
    [i \in 0..m |-> IF Intact(f, i, m) THEN <<i>> \o g[FrameEnd(f, i)] ELSE <<i>>]

LEMMA ScanningExists ==
    ASSUME NEW f \in Bytes, NEW m \in 0..Len(f)
    PROVE  \E g \in [0..m -> Seq(Nat)] : g = Scanning(f, m, g)
<1> DEFINE S == 0..m
           stop == {i \in S : ~Intact(f, i, m)}
           next == [i \in S |-> FrameEnd(f, i)]
           rank == [i \in S |-> m - i]
           base == [i \in S |-> <<i>>]
           step == [i \in S |-> [v \in Seq(Nat) |-> <<i>> \o v]]
<1>0. m \in Nat
  BY DEF Bytes
<1>1. rank \in [S -> 0..m] /\ base \in [S -> Seq(Nat)]
  BY <1>0
<1>2. ASSUME NEW i \in S \ stop
      PROVE  /\ next[i] \in S /\ rank[next[i]] < rank[i]
             /\ \A v \in Seq(Nat) : step[i][v] \in Seq(Nat)
  <2>1. i \in Nat /\ i \in S /\ Intact(f, i, m)
    BY <1>0
  <2>2. PICK l \in Nat : FrameEnd(f, i) = i + (HeaderSize + l) /\ FrameEnd(f, i) <= m
    BY <2>1, IntactFrame
  <2>3. next[i] = FrameEnd(f, i) /\ FrameEnd(f, i) \in S /\ FrameEnd(f, i) > i
    BY <1>0, <2>1, <2>2 DEF HeaderSize
  <2>4. rank[FrameEnd(f, i)] = m - FrameEnd(f, i) /\ rank[i] = m - i
    BY <2>1, <2>3
  <2>5. m - FrameEnd(f, i) < m - i
    BY <1>0, <2>1, <2>3
  <2>6. \A v \in Seq(Nat) : step[i][v] \in Seq(Nat)
    <3> TAKE v \in Seq(Nat)
    <3>1. step[i][v] = <<i>> \o v /\ <<i>> \in Seq(Nat)
      BY <2>1
    <3> QED BY <3>1, ConcatProperties
  <2> QED BY <2>3, <2>4, <2>5, <2>6
<1>3. PICK d \in [S -> Seq(Nat)] : d = Recursion(S, stop, next, base, step, d)
  <2>1. Descends(S, Seq(Nat), stop, next, m, rank, base, step)
    BY <1>0, <1>1, <1>2 DEF Descends
  <2> HIDE DEF S, stop, next, rank, base, step
  <2> QED BY <2>1, RecursionExists
<1>4. d = Scanning(f, m, d)
  <2> DEFINE r == Recursion(S, stop, next, base, step, d)
  <2>1. ASSUME NEW i \in S
        PROVE  r[i] = IF Intact(f, i, m) THEN <<i>> \o d[FrameEnd(f, i)] ELSE <<i>>
    <3>1. CASE i \in stop
      BY <3>1 DEF Recursion
    <3>2. CASE i \notin stop
      <4>1. next[i] = FrameEnd(f, i) /\ FrameEnd(f, i) \in S
        BY <1>2, <3>2
      <4>2. d[FrameEnd(f, i)] \in Seq(Nat)
        BY <4>1
      <4>3. r[i] = step[i][d[next[i]]]
        BY <3>2 DEF Recursion
      <4> QED BY <3>2, <4>1, <4>2, <4>3
    <3> QED BY <3>1, <3>2
  <2>2. r = [i \in S |-> r[i]]
    BY DEF Recursion
  <2>3. d = r
    BY <1>3
  <2> HIDE DEF r
  <2>4. r = [i \in S |-> IF Intact(f, i, m) THEN <<i>> \o d[FrameEnd(f, i)] ELSE <<i>>]
    BY <2>1, <2>2
  <2> QED BY <2>3, <2>4 DEF Scanning
<1> QED BY <1>4

LEMMA PositionsCells ==
    ASSUME NEW i \in Nat, NEW rs \in Records
    PROVE  /\ Positions(i, rs) \in Seq(Nat) /\ Len(Positions(i, rs)) = Len(rs) + 1
           /\ Len(rs) \in Nat
           /\ \A k \in 0..Len(rs) : /\ Cut(rs, k) \in Records
                                    /\ Positions(i, rs)[k + 1] = i + Len(Packed(Cut(rs, k)))
           /\ Positions(i, rs)[1] = i
           /\ Last(Positions(i, rs)) = i + Len(Packed(rs))
<1>1. Len(rs) \in Nat
  BY DEF Records
<1>2. \A k \in 0..Len(rs) : Cut(rs, k) \in Records /\ Len(Packed(Cut(rs, k))) \in Nat
  BY CutCells, PackedLength DEF Records
<1>3. ASSUME NEW k \in 1..Len(rs) + 1 PROVE i + Len(Packed(Cut(rs, k - 1))) \in Nat
  BY <1>1, <1>2
<1>4. Positions(i, rs) \in Seq(Nat) /\ Len(Positions(i, rs)) = Len(rs) + 1
  BY <1>1, <1>3, RowIsSeq DEF Positions
<1>5. ASSUME NEW k \in 0..Len(rs) PROVE Positions(i, rs)[k + 1] = i + Len(Packed(Cut(rs, k)))
  <2>1. k + 1 \in 1..Len(rs) + 1 /\ (k + 1) - 1 = k
    BY <1>1
  <2> QED BY <2>1 DEF Positions
<1>6. Positions(i, rs)[1] = i
  <2>1. Cut(rs, 0) = <<>> /\ 0 \in 0..Len(rs)
    BY <1>1, CutCells, EmptySeq DEF Records
  <2>2. Positions(i, rs)[0 + 1] = i + Len(Packed(Cut(rs, 0)))
    BY <1>5, <2>1, Zenon
  <2>3. Len(Packed(Cut(rs, 0))) = 0
    BY <2>1, PackedEmpty, EmptySeq
  <2> QED BY <2>2, <2>3
<1>7. Last(Positions(i, rs)) = i + Len(Packed(rs))
  <2>1. Cut(rs, Len(rs)) = rs /\ Len(rs) \in 0..Len(rs)
    BY <1>1, SubSeqFull DEF Cut, Records
  <2>2. Positions(i, rs)[Len(rs) + 1] = i + Len(Packed(Cut(rs, Len(rs))))
    BY <1>5, <2>1, Zenon
  <2> QED BY <1>4, <2>1, <2>2, Zenon DEF Last
<1> QED BY <1>1, <1>2, <1>4, <1>5, <1>6, <1>7

LEMMA PositionsCons ==
    ASSUME NEW i \in Nat, NEW p \in Bytes, NEW rs \in Records
    PROVE  Positions(i, <<p>> \o rs) = <<i>> \o Positions(i + (HeaderSize + Len(p)), rs)
<1> DEFINE j == i + (HeaderSize + Len(p))
           all == <<p>> \o rs
           x == Positions(i, all)
           y == Positions(j, rs)
<1>0. Len(rs) \in Nat /\ Len(p) \in Nat /\ j \in Nat
  BY DEF Records, Bytes, HeaderSize
<1>1. all \in Records /\ Len(all) = Len(rs) + 1
  BY PackedOne, ConcatProperties DEF Records
<1>2. /\ x \in Seq(Nat) /\ Len(x) = Len(rs) + 2 /\ x[1] = i
      /\ \A k \in 0..Len(rs) + 1 : x[k + 1] = i + Len(Packed(Cut(all, k)))
  <2> HIDE DEF all
  <2>1. /\ x \in Seq(Nat) /\ Len(x) = Len(all) + 1 /\ x[1] = i
        /\ \A k \in 0..Len(all) : x[k + 1] = i + Len(Packed(Cut(all, k)))
    BY <1>1, PositionsCells
  <2> HIDE DEF x
  <2> QED BY <1>0, <1>1, <2>1
<1>3. /\ y \in Seq(Nat) /\ Len(y) = Len(rs) + 1
      /\ \A k \in 0..Len(rs) : y[k + 1] = j + Len(Packed(Cut(rs, k)))
  BY <1>0, PositionsCells
<1>4. ASSUME NEW k \in 0..Len(rs) PROVE x[k + 2] = y[k + 1]
  <2>1. Cut(rs, k) \in Records
    BY CutCells DEF Records
  <2>2. Cut(all, k + 1) = <<p>> \o Cut(rs, k)
    <3> DEFINE a == Cut(all, k + 1)
               b == <<p>> \o Cut(rs, k)
    <3>1. /\ a \in Records /\ Len(a) = k + 1 /\ \A l \in 1..k + 1 : a[l] = all[l]
      <4> HIDE DEF all
      <4>1. k + 1 \in 0..Len(all)
        BY <1>0, <1>1
      <4> QED BY <1>1, <4>1, CutCells DEF Records
    <3>2. /\ \A l \in 1..Len(rs) + 1 : all[l] = IF l <= 1 THEN <<p>>[l] ELSE rs[l - 1]
      BY <1>0, PackedOne, ConcatProperties DEF Records
    <3>3. /\ b \in Records /\ Len(b) = k + 1
          /\ \A l \in 1..k + 1 : b[l] = IF l <= 1 THEN <<p>>[l] ELSE Cut(rs, k)[l - 1]
      <4>1. Len(Cut(rs, k)) = k /\ <<p>> \in Seq(Bytes) /\ Cut(rs, k) \in Seq(Bytes) /\ Len(<<p>>) = 1
        BY <2>1, CutCells, PackedOne DEF Records
      <4>2. /\ b \in Seq(Bytes) /\ Len(b) = 1 + k
            /\ \A l \in 1..1 + k : b[l] = IF l <= 1 THEN <<p>>[l] ELSE Cut(rs, k)[l - 1]
        BY <4>1, ConcatProperties
      <4>3. 1 + k = k + 1
        OBVIOUS
      <4> QED BY <4>2, <4>3 DEF Records
    <3>4. \A l \in 1..k : Cut(rs, k)[l] = rs[l]
      BY CutCells DEF Records
    <3> HIDE DEF a, b, all
    <3>5. \A l \in 1..k + 1 : a[l] = b[l]
      <4> TAKE l \in 1..k + 1
      <4>1. CASE l = 1
        BY <1>0, <3>1, <3>2, <3>3, <4>1
      <4>2. CASE l # 1
        <5>1. l - 1 \in 1..k /\ l \in 1..Len(rs) + 1 /\ ~(l <= 1)
          BY <1>0, <4>2
        <5> QED BY <3>1, <3>2, <3>3, <3>4, <5>1
      <4> QED BY <4>1, <4>2
    <3>6. a = b
      BY <3>1, <3>3, <3>5, SeqEqual DEF Records
    <3> QED BY <3>6 DEF a, b
  <2>3. Packed(Cut(all, k + 1)) = PackFrame(p) \o Packed(Cut(rs, k))
    <3>1. Packed(<<p>> \o Cut(rs, k)) = Packed(<<p>>) \o Packed(Cut(rs, k))
      BY <2>1, PackedConcat, PackedOne
    <3> QED BY <2>2, <3>1, PackedOne, Zenon
  <2>4. Len(Packed(Cut(all, k + 1))) = (HeaderSize + Len(p)) + Len(Packed(Cut(rs, k)))
    <3>1. /\ PackFrame(p) \in Seq(Nat) /\ Len(PackFrame(p)) = HeaderSize + Len(p)
          /\ Packed(Cut(rs, k)) \in Seq(Nat)
      BY <2>1, FrameCells, PackedBytes DEF Bytes
    <3> QED BY <2>3, <3>1, ConcatProperties
  <2>5. x[(k + 1) + 1] = i + Len(Packed(Cut(all, k + 1)))
    <3>1. k + 1 \in 0..Len(rs) + 1
      BY <1>0
    <3> QED BY <1>2, <3>1, Zenon
  <2>6. Len(Packed(Cut(rs, k))) \in Nat
    BY <2>1, PackedLength
  <2> HIDE DEF x, y, all
  <2>7. x[k + 2] = i + ((HeaderSize + Len(p)) + Len(Packed(Cut(rs, k))))
    <3>1. (k + 1) + 1 = k + 2
      OBVIOUS
    <3> QED BY <2>4, <2>5, <3>1
  <2> QED BY <1>0, <1>3, <2>6, <2>7 DEF HeaderSize
<1> HIDE DEF x, y, j, all
<1>5. /\ <<i>> \o y \in Seq(Nat) /\ Len(<<i>> \o y) = Len(rs) + 2
      /\ \A l \in 1..Len(rs) + 2 : (<<i>> \o y)[l] = IF l <= 1 THEN i ELSE y[l - 1]
  <2>1. <<i>> \in Seq(Nat) /\ Len(<<i>>) = 1 /\ <<i>>[1] = i
    OBVIOUS
  <2>2. /\ <<i>> \o y \in Seq(Nat) /\ Len(<<i>> \o y) = 1 + (Len(rs) + 1)
        /\ \A l \in 1..1 + (Len(rs) + 1) : (<<i>> \o y)[l] = IF l <= 1 THEN <<i>>[l] ELSE y[l - 1]
    BY <1>3, <2>1, ConcatProperties
  <2> QED BY <1>0, <2>1, <2>2
<1>6. ASSUME NEW l \in 1..Len(rs) + 2 PROVE x[l] = (<<i>> \o y)[l]
  <2>1. CASE l = 1
    BY <1>0, <1>2, <1>5, <2>1
  <2>2. CASE l # 1
    <3>1. l - 2 \in 0..Len(rs) /\ (l - 2) + 2 = l /\ (l - 2) + 1 = l - 1 /\ ~(l <= 1)
      BY <1>0, <2>2
    <3>2. x[l] = y[l - 1]
      BY <1>4, <3>1
    <3> QED BY <1>5, <3>1, <3>2
  <2> QED BY <2>1, <2>2
<1>7. x = <<i>> \o y
  BY <1>2, <1>5, <1>6, SeqEqual
<1> QED BY <1>7 DEF x, y, j, all
\* A scan that starts at i finds all the records that are there, given that one
\* started at the end of the frame at i does.
LEMMA ScanFindsNext ==
    ASSUME NEW f \in Bytes, NEW m \in 0..Len(f), NEW i \in 0..m,
           NEW g, g = Scanning(f, m, g),
           Intact(f, i, m) =>
             \E rs \in Records : /\ g[FrameEnd(f, i)] = Positions(FrameEnd(f, i), rs)
                                 /\ Found(f, FrameEnd(f, i), m, rs)
    PROVE  \E rs \in Records : g[i] = Positions(i, rs) /\ Found(f, i, m, rs)
<1>0. m \in Nat /\ i \in Nat /\ Len(f) \in Nat
  BY DEF Bytes
<1>1. g[i] = IF Intact(f, i, m) THEN <<i>> \o g[FrameEnd(f, i)] ELSE <<i>>
  <2>1. Scanning(f, m, g)[i] = IF Intact(f, i, m) THEN <<i>> \o g[FrameEnd(f, i)] ELSE <<i>>
    BY Zenon DEF Scanning
  <2> QED BY <2>1, Zenon
\* What lies at i, if it is anything, begins with a frame.
<1>2. ASSUME NEW qs \in Records, qs # <<>>, Lies(f, i, m, qs)
      PROVE  /\ Intact(f, i, m) /\ Head(qs) = PayloadAt(f, i) /\ Tail(qs) \in Records
             /\ qs = <<Head(qs)>> \o Tail(qs) /\ Lies(f, FrameEnd(f, i), m, Tail(qs))
  <2>1. Head(qs) \in Bytes /\ Tail(qs) \in Records /\ qs = <<Head(qs)>> \o Tail(qs)
    BY <1>2, HeadAndTail DEF Records
  <2>2. PICK q, ts : q = Head(qs) /\ ts = Tail(qs)
    OBVIOUS
  <2>3. q \in Bytes /\ ts \in Records /\ Lies(f, i, m, <<q>> \o ts)
    BY <1>2, <2>1, <2>2, Zenon
  <2>4. Spells(f, i, PackFrame(q)) /\ Lies(f, i + (HeaderSize + Len(q)), m, ts)
    BY <1>0, <2>3, LiesCons
  <2>5. i + (HeaderSize + Len(q)) <= m
    <3>1. (i + (HeaderSize + Len(q))) + Len(Packed(ts)) <= m
      BY <2>4 DEF Lies
    <3>2. Len(Packed(ts)) \in Nat /\ Len(q) \in Nat
      BY <2>3, PackedLength DEF Bytes
    <3> QED BY <1>0, <3>1, <3>2 DEF HeaderSize
  <2>6. FrameEnd(f, i) = i + (HeaderSize + Len(q)) /\ PayloadAt(f, i) = q /\ Intact(f, i, m)
    BY <1>0, <2>3, <2>4, <2>5, FrameFound
  <2> QED BY <2>1, <2>2, <2>4, <2>6, Zenon
<1>3. CASE ~Intact(f, i, m)
  <2>1. <<>> \in Records /\ Len(Packed(<<>>)) = 0 /\ Packed(<<>>) = <<>>
    BY PackedEmpty, EmptySeq DEF Records
  <2>2. Positions(i, <<>>) = <<i>>
    <3>1. /\ Positions(i, <<>>) \in Seq(Nat) /\ Len(Positions(i, <<>>)) = Len(<<>>) + 1
          /\ Positions(i, <<>>)[1] = i
      BY <1>0, <2>1, PositionsCells
    <3>2. <<i>> \in Seq(Nat) /\ Len(<<i>>) = 1 /\ <<i>>[1] = i /\ Len(<<>>) = 0
      BY <1>0, EmptySeq
    <3>3. \A k \in 1..1 : Positions(i, <<>>)[k] = <<i>>[k]
      BY <3>1, <3>2
    <3> QED BY <3>1, <3>2, <3>3, SeqEqual
  <2>3. Lies(f, i, m, <<>>)
    BY <1>0, <2>1 DEF Lies, Spells
  <2>4. ASSUME NEW qs \in Records, Lies(f, i, m, qs) PROVE IsPrefix(qs, <<>>)
    <3>1. qs = <<>>
      BY <1>2, <1>3, <2>4
    <3> QED BY <2>1, <3>1, PrefixReflexive DEF Records
  <2>5. g[i] = <<i>>
    BY <1>1, <1>3, Zenon
  <2>6. Found(f, i, m, <<>>)
    BY <2>3, <2>4, Zenon DEF Found
  <2> QED BY <2>1, <2>2, <2>5, <2>6, Zenon
<1>4. CASE Intact(f, i, m)
  <2>1. PICK j, p : j = FrameEnd(f, i) /\ p = PayloadAt(f, i)
    OBVIOUS
  <2>2. /\ p \in Bytes /\ Spells(f, i, PackFrame(p)) /\ j = i + (HeaderSize + Len(p)) /\ j <= m
        /\ Len(p) \in Nat
    BY <1>0, <1>4, <2>1, IntactFrame
  <2>3. PICK rs \in Records : g[j] = Positions(j, rs) /\ Found(f, j, m, rs)
    BY <1>4, <2>1
  <2> DEFINE all == <<p>> \o rs
  <2>4. all \in Records /\ <<p>> \in Records
    BY <2>2, PackedOne, ConcatProperties DEF Records
  <2>5. g[i] = Positions(i, all)
    <3>1. Positions(i, all) = <<i>> \o Positions(j, rs)
      BY <1>0, <2>2, <2>3, PositionsCons
    <3>2. g[i] = <<i>> \o g[j]
      BY <1>1, <1>4, <2>1, Zenon
    <3> QED BY <2>3, <3>1, <3>2, Zenon
  <2>6. Lies(f, i, m, all)
    <3>1. Lies(f, j, m, rs)
      BY <2>3 DEF Found
    <3> QED BY <1>0, <2>2, <2>3, <3>1, LiesCons
  <2>7. ASSUME NEW qs \in Records, Lies(f, i, m, qs) PROVE IsPrefix(qs, all)
    <3>1. CASE qs = <<>>
      BY <2>4, <3>1, PrefixEmpty DEF Records
    <3>2. CASE qs # <<>>
      <4>1. PICK ts : ts = Tail(qs)
        OBVIOUS
      <4>2. ts \in Records /\ qs = <<p>> \o ts /\ Lies(f, j, m, ts)
        BY <1>2, <2>1, <2>7, <3>2, <4>1
      <4>3. IsPrefix(ts, rs)
        BY <2>3, <4>2 DEF Found
      <4>4. IsPrefix(<<p>> \o ts, <<p>> \o rs)
        BY <2>3, <2>4, <4>2, <4>3, PrefixBehind DEF Records
      <4> QED BY <4>2, <4>4
    <3> QED BY <3>1, <3>2
  <2> HIDE DEF all
  <2>8. Found(f, i, m, all)
    BY <2>6, <2>7, Zenon DEF Found
  <2> QED BY <2>4, <2>5, <2>8, Zenon
<1> QED BY <1>3, <1>4

\* The scan of the first n bytes, or of all there are, finds the records there.
LEMMA ScanFinds ==
    ASSUME NEW f \in Bytes, NEW n \in Nat, NEW m, m = IF n < Len(f) THEN n ELSE Len(f)
    PROVE  m \in 0..Len(f) /\
           \E rs \in Records : Scan(f, n) = Positions(0, rs) /\ Found(f, 0, m, rs)
<1>0. m \in 0..Len(f) /\ m \in Nat
  BY DEF Bytes
<1> DEFINE g == CHOOSE g : g = Scanning(f, m, g)
<1>1. Scan(f, n) = g[0]
  BY DEF Scan, Scanning
<1>2. PICK h \in [0..m -> Seq(Nat)] : h = Scanning(f, m, h)
  BY <1>0, ScanningExists
<1>3. g = Scanning(f, m, g)
  BY <1>2, Zenon
<1> HIDE DEF g
<1> DEFINE Fine(i) == \E rs \in Records : g[i] = Positions(i, rs) /\ Found(f, i, m, rs)
           Q == {k \in Nat : \A i \in 0..m : m - i <= k => Fine(i)}
<1>4. ASSUME NEW i \in 0..m, Intact(f, i, m)
      PROVE  FrameEnd(f, i) \in 0..m /\ m - FrameEnd(f, i) <= (m - i) - 1
  <2>1. PICK l \in Nat : FrameEnd(f, i) = i + (HeaderSize + l) /\ FrameEnd(f, i) <= m
    BY <1>0, <1>4, IntactFrame
  <2> QED BY <1>0, <2>1 DEF HeaderSize
<1>5. ASSUME NEW i \in 0..m, Intact(f, i, m) => Fine(FrameEnd(f, i)) PROVE Fine(i)
  BY <1>0, <1>3, <1>5, ScanFindsNext
<1> HIDE DEF Fine
<1>6. 0 \in Q
  <2> SUFFICES ASSUME NEW i \in 0..m, m - i <= 0 PROVE Fine(i)
    BY DEF Q
  <2>1. ~Intact(f, i, m)
    BY <1>0, <1>4
  <2> QED BY <1>5, <2>1
<1>7. ASSUME NEW k \in Nat, k \in Q PROVE k + 1 \in Q
  <2> SUFFICES ASSUME NEW i \in 0..m, m - i <= k + 1 PROVE Fine(i)
    BY DEF Q
  <2>1. Intact(f, i, m) => FrameEnd(f, i) \in 0..m /\ m - FrameEnd(f, i) <= k
    BY <1>0, <1>4
  <2>2. Intact(f, i, m) => Fine(FrameEnd(f, i))
    BY <1>7, <2>1 DEF Q
  <2> QED BY <1>5, <2>2
<1> HIDE DEF Q
<1>8. Nat \subseteq Q
  BY <1>6, <1>7, AllNaturals
<1>9. Fine(0)
  <2>1. 0 \in 0..m /\ m - 0 <= m /\ m \in Q
    BY <1>0, <1>8
  <2> QED BY <2>1 DEF Q
<1> QED BY <1>0, <1>1, <1>9, Zenon DEF Fine
\* The payloads at the positions of records that f begins with are the records.
LEMMA PayloadsFound ==
    ASSUME NEW f \in Bytes, NEW rs \in Records, IsPrefix(Packed(rs), f),
           NEW ends, ends = Positions(0, rs)
    PROVE  [k \in 1..Len(ends) - 1 |-> PayloadAt(f, ends[k])] = rs
<1>1. /\ Len(ends) - 1 = Len(rs) /\ Len(rs) \in Nat
      /\ \A k \in 0..Len(rs) : Cut(rs, k) \in Records /\ ends[k + 1] = Len(Packed(Cut(rs, k)))
  <2>1. /\ Len(ends) = Len(rs) + 1 /\ Len(rs) \in Nat
        /\ \A k \in 0..Len(rs) : Cut(rs, k) \in Records /\ ends[k + 1] = 0 + Len(Packed(Cut(rs, k)))
    BY PositionsCells
  <2>2. \A k \in 0..Len(rs) : 0 + Len(Packed(Cut(rs, k))) = Len(Packed(Cut(rs, k)))
    BY <2>1, PackedLength
  <2> QED BY <2>1, <2>2
<1>2. Spells(f, 0, Packed(rs)) /\ Len(Packed(rs)) <= Len(f)
  BY PackedBytes, SpellsPrefix
<1>3. ASSUME NEW k \in 1..Len(rs) PROVE PayloadAt(f, ends[k]) = rs[k]
  <2>1. k - 1 \in 0..Len(rs) /\ (k - 1) + 1 = k
    BY <1>1
  <2> DEFINE a == Cut(rs, k - 1)
             p == rs[k]
             b == SubSeq(rs, k + 1, Len(rs))
  <2>2. a \in Records /\ p \in Bytes /\ b \in Records /\ ends[k] = Len(Packed(a))
    <3>1. a \in Records /\ ends[(k - 1) + 1] = Len(Packed(a))
      BY <1>1, <2>1
    <3>2. p \in Bytes
      BY DEF Records
    <3>3. b \in Records
      <4>1. k \in 0..Len(rs)
        BY <1>1
      <4> QED BY <4>1, DropCells DEF Records
    <3> QED BY <2>1, <3>1, <3>2, <3>3
  <2>3. rs = a \o (<<p>> \o b)
    <3>1. rs = a \o SubSeq(rs, k, Len(rs))
      BY <2>1, CutAndDrop DEF Records
    <3>2. SubSeq(rs, k, Len(rs)) = <<p>> \o b
      <4>1. Len(rs) \in k..Len(rs)
        BY <1>1
      <4> QED BY <4>1, SubSeqRecursiveFirst DEF Records
    <3> QED BY <3>1, <3>2, Zenon
  <2> HIDE DEF a, p, b
  <2>4. <<p>> \in Records /\ <<p>> \o b \in Records /\ Packed(<<p>> \o b) = PackFrame(p) \o Packed(b)
    <3>1. <<p>> \in Records /\ Packed(<<p>>) = PackFrame(p)
      BY <2>2, PackedOne
    <3> QED BY <2>2, <3>1, PackedConcat
  <2>5. Packed(rs) = Packed(a) \o (PackFrame(p) \o Packed(b))
    <3>1. Packed(a \o (<<p>> \o b)) = Packed(a) \o Packed(<<p>> \o b)
      BY <2>2, <2>4, PackedConcat
    <3> QED BY <2>3, <2>4, <3>1, Zenon
  <2>6. PICK x, y, z : x = Packed(a) /\ y = PackFrame(p) /\ z = Packed(b)
    OBVIOUS
  <2>7. /\ x \in Bytes /\ y \in Bytes /\ z \in Bytes /\ y \o z \in Bytes
        /\ Len(x) \in Nat /\ Len(z) \in Nat /\ Len(y) = HeaderSize + Len(p) /\ Len(p) \in Nat
    <3>1. x \in Bytes /\ y \in Bytes /\ z \in Bytes /\ Len(y) = HeaderSize + Len(p)
      BY <2>2, <2>6, PackedBytes, FrameCells
    <3>2. y \o z \in Bytes
      BY <3>1, ConcatProperties DEF Bytes
    <3> QED BY <2>2, <3>1, <3>2 DEF Bytes
  <2>8. Spells(f, 0, x \o (y \o z)) /\ Len(x \o (y \o z)) <= Len(f)
    BY <1>2, <2>5, <2>6, Zenon
  <2>9. Spells(f, 0 + Len(x), y \o z)
    BY <2>7, <2>8, SpellsConcat
  <2>10. Spells(f, 0 + Len(x), y)
    <3>1. 0 + Len(x) \in Nat
      BY <2>7
    <3> QED BY <2>7, <2>9, <3>1, SpellsConcat
  <2>11. Len(x) + Len(y) <= Len(f) /\ 0 + Len(x) = Len(x) /\ Len(f) \in Nat
    <3>1. Len(x \o (y \o z)) = Len(x) + (Len(y) + Len(z))
      <4>1. Len(y \o z) = Len(y) + Len(z)
        BY <2>7, ConcatProperties DEF Bytes
      <4>2. Len(x \o (y \o z)) = Len(x) + Len(y \o z)
        BY <2>7, ConcatProperties DEF Bytes
      <4> QED BY <4>1, <4>2
    <3>2. Len(f) \in Nat
      BY DEF Bytes
    <3> QED BY <2>7, <2>8, <3>1, <3>2 DEF HeaderSize
  <2>12. PayloadAt(f, Len(x)) = p
    <3>1. Len(f) \in 0..Len(f)
      BY <2>11
    <3>2. Spells(f, Len(x), PackFrame(p)) /\ Len(x) + (HeaderSize + Len(p)) <= Len(f)
      BY <2>6, <2>7, <2>10, <2>11
    <3> QED BY <2>2, <2>7, <3>1, <3>2, FrameFound
  <2> QED BY <2>2, <2>6, <2>12 DEF p
<1>4. rs = [k \in 1..Len(rs) |-> rs[k]]
  BY DEF Records
<1> QED BY <1>1, <1>3, <1>4

\* Frames finds all the records a file begins with.
LEMMA FramesFound ==
    ASSUME NEW f \in Bytes
    PROVE  /\ Frames(f) \in Records /\ IsPrefix(Packed(Frames(f)), f)
           /\ Scan(f, Len(f)) = Positions(0, Frames(f))
           /\ \A qs \in Records : IsPrefix(Packed(qs), f) => IsPrefix(qs, Frames(f))
<1>0. Len(f) \in Nat /\ Len(f) \in 0..Len(f) /\ Len(f) = IF Len(f) < Len(f) THEN Len(f) ELSE Len(f)
  BY DEF Bytes
<1>1. PICK rs \in Records : Scan(f, Len(f)) = Positions(0, rs) /\ Found(f, 0, Len(f), rs)
  BY <1>0, ScanFinds
<1>2. \A qs \in Records : Lies(f, 0, Len(f), qs) <=> IsPrefix(Packed(qs), f)
  <2> TAKE qs \in Records
  <2>1. Lies(f, 0, Len(f), qs) <=> IsPrefix(Packed(qs), f) /\ Len(Packed(qs)) <= Len(f)
    BY <1>0, LiesPrefix
  <2>2. IsPrefix(Packed(qs), f) => Len(Packed(qs)) <= Len(f)
    BY DEF IsPrefix
  <2> QED BY <2>1, <2>2
<1>3. IsPrefix(Packed(rs), f)
  BY <1>1, <1>2 DEF Found
<1>4. Frames(f) = rs
  <2>1. PICK ends : ends = Scan(f, Len(f))
    OBVIOUS
  <2>2. [k \in 1..Len(ends) - 1 |-> PayloadAt(f, ends[k])] = rs
    BY <1>1, <1>3, <2>1, PayloadsFound
  <2> QED BY <2>1, <2>2 DEF Frames
<1> QED BY <1>1, <1>2, <1>3, <1>4 DEF Found

\* Records that pack into the beginning of what other records pack into are the
\* beginning of those records.
LEMMA PackedPrefix ==
    ASSUME NEW a \in Records, NEW b \in Records
    PROVE  IsPrefix(Packed(a), Packed(b)) <=> IsPrefix(a, b)
<1>1. ASSUME NEW c \in Records, NEW d \in Records, IsPrefix(c, d)
      PROVE  IsPrefix(Packed(c), Packed(d))
  <2>1. PICK e : e = SubSeq(d, Len(c) + 1, Len(d))
    OBVIOUS
  <2>2. d = c \o e /\ Len(c) \in 0..Len(d)
    BY <1>1, <2>1, PrefixIsCut DEF Records
  <2>3. e \in Records
    BY <2>1, <2>2, DropCells DEF Records
  <2>4. Packed(d) = Packed(c) \o Packed(e)
    BY <2>2, <2>3, PackedConcat
  <2> QED BY <2>3, <2>4, PackedBytes, PrefixConcat DEF Bytes
<1>2. ASSUME IsPrefix(Packed(a), Packed(b)) PROVE IsPrefix(a, b)
  <2>1. PICK f, rs : f = Packed(b) /\ rs = Frames(f)
    OBVIOUS
  <2>2. f \in Bytes /\ IsPrefix(f, f) /\ Len(f) \in Nat
    BY <2>1, PackedBytes, PrefixReflexive DEF Bytes
  <2>3. rs \in Records /\ IsPrefix(Packed(rs), f) /\ IsPrefix(b, rs) /\ IsPrefix(a, rs)
    BY <1>2, <2>1, <2>2, FramesFound
  <2>4. Len(b) = Len(rs)
    <3>1. PICK e : e = SubSeq(rs, Len(b) + 1, Len(rs))
      OBVIOUS
    <3>2. rs = b \o e /\ Len(b) \in 0..Len(rs) /\ Len(rs) \in Nat
      BY <2>3, <3>1, PrefixIsCut DEF Records
    <3>3. e \in Records /\ Len(e) = Len(rs) - Len(b)
      BY <2>3, <3>1, <3>2, DropCells DEF Records
    <3>4. Packed(rs) = f \o Packed(e)
      BY <2>1, <3>2, <3>3, PackedConcat
    <3>5. Packed(e) \in Seq(Nat) /\ f \in Seq(Nat)
      BY <2>2, <3>3, PackedBytes DEF Bytes
    <3>6. Len(Packed(rs)) = Len(f) + Len(Packed(e))
      BY <3>4, <3>5, ConcatProperties
    <3>7. Len(Packed(rs)) <= Len(f)
      BY <2>3 DEF IsPrefix
    <3>8. Len(Packed(e)) >= HeaderSize * Len(e) /\ Len(Packed(e)) \in Nat /\ Len(e) \in Nat
      BY <2>3, <3>2, <3>3, PackedLength
    <3> QED BY <2>2, <3>2, <3>3, <3>6, <3>7, <3>8 DEF HeaderSize
  <2>5. rs = b
    BY <2>3, <2>4, PrefixWhole DEF Records
  <2> QED BY <2>3, <2>5
<1> QED BY <1>1, <1>2

\* What was packed is what is found.
LEMMA FramesOfPacked ==
    ASSUME NEW b \in Records
    PROVE  Frames(Packed(b)) = b /\ Scan(Packed(b), Len(Packed(b))) = Positions(0, b)
<1>1. PICK f, rs : f = Packed(b) /\ rs = Frames(f)
  OBVIOUS
<1>2. f \in Bytes /\ IsPrefix(f, f)
  BY <1>1, PackedBytes, PrefixReflexive DEF Bytes
<1>3. rs \in Records /\ IsPrefix(Packed(rs), f) /\ IsPrefix(b, rs) /\ Scan(f, Len(f)) = Positions(0, rs)
  BY <1>1, <1>2, FramesFound
<1>4. IsPrefix(rs, b)
  BY <1>1, <1>3, PackedPrefix
<1>5. rs = b
  <2>1. Len(rs) = Len(b)
    BY <1>3, <1>4, PrefixCells DEF Records
  <2> QED BY <1>3, <1>4, <2>1, PrefixWhole DEF Records
<1> QED BY <1>1, <1>3, <1>5

-----------------------------------------------------------------------------
(* The index of an append.                                                 *)

LEMMA AppendBehind ==
    ASSUME NEW S, NEW s \in Seq(S), NEW t \in Seq(S), NEW e \in S
    PROVE  s \o Append(t, e) = Append(s \o t, e)
<1>1. Append(t, e) = t \o <<e>> /\ <<e>> \in Seq(S) /\ s \o t \in Seq(S)
  BY AppendIsConcat, ConcatProperties
<1>2. s \o (t \o <<e>>) = (s \o t) \o <<e>>
  BY <1>1, ConcatAssociative
<1>3. Append(s \o t, e) = (s \o t) \o <<e>>
  BY <1>1, AppendIsConcat
<1> QED BY <1>1, <1>2, <1>3, Zenon

LEMMA CutNext ==
    ASSUME NEW S, NEW s \in Seq(S), NEW n \in Nat, n + 1 <= Len(s)
    PROVE  Cut(s, n + 1) = Append(Cut(s, n), s[n + 1]) /\ Cut(s, n) \in Seq(S) /\ s[n + 1] \in S
<1>1. n \in 0..Len(s) /\ n + 1 \in 0..Len(s) /\ n + 1 \in 1..Len(s)
  OBVIOUS
<1>2. s[n + 1] \in S
  BY <1>1
<1>3. /\ Cut(s, n) \in Seq(S) /\ Len(Cut(s, n)) = n /\ \A i \in 1..n : Cut(s, n)[i] = s[i]
  BY <1>1, CutCells
<1>4. /\ Cut(s, n + 1) \in Seq(S) /\ Len(Cut(s, n + 1)) = n + 1
      /\ \A i \in 1..n + 1 : Cut(s, n + 1)[i] = s[i]
  BY <1>1, CutCells
<1> DEFINE a == Append(Cut(s, n), s[n + 1])
<1>5. /\ a \in Seq(S) /\ Len(a) = n + 1 /\ a[n + 1] = s[n + 1]
      /\ \A i \in 1..n : a[i] = Cut(s, n)[i]
  BY <1>2, <1>3, AppendProperties
<1> HIDE DEF a
<1>6. \A i \in 1..n + 1 : a[i] = Cut(s, n + 1)[i]
  BY <1>3, <1>4, <1>5
<1>7. a = Cut(s, n + 1)
  BY <1>4, <1>5, <1>6, SeqEqual
<1> QED BY <1>2, <1>3, <1>7 DEF a

LEMMA PositionsAppend ==
    ASSUME NEW rs \in Records, NEW p \in Bytes
    PROVE  Positions(0, Append(rs, p)) =
             Append(Positions(0, rs), Last(Positions(0, rs)) + Len(PackFrame(p)))
<1> DEFINE all == Append(rs, p)
           x == Positions(0, all)
           y == Positions(0, rs)
           e == Last(y) + Len(PackFrame(p))
<1>1. all \in Records /\ Len(all) = Len(rs) + 1 /\ Len(rs) \in Nat
      /\ \A k \in 0..Len(rs) : Cut(all, k) = Cut(rs, k)
  <2>1. /\ all \in Records /\ Len(all) = Len(rs) + 1 /\ Len(rs) \in Nat
        /\ \A k \in 1..Len(rs) : all[k] = rs[k]
    BY AppendProperties DEF Records
  <2> HIDE DEF all
  <2>2. ASSUME NEW k \in 0..Len(rs) PROVE Cut(all, k) = Cut(rs, k)
    <3>1. /\ Cut(rs, k) \in Records /\ Len(Cut(rs, k)) = k
          /\ \A l \in 1..k : Cut(rs, k)[l] = rs[l]
      BY CutCells DEF Records
    <3>2. /\ Cut(all, k) \in Records /\ Len(Cut(all, k)) = k
          /\ \A l \in 1..k : Cut(all, k)[l] = all[l]
      <4>1. k \in 0..Len(all)
        BY <2>1
      <4> QED BY <2>1, <4>1, CutCells DEF Records
    <3>3. \A l \in 1..k : Cut(all, k)[l] = Cut(rs, k)[l]
      BY <2>1, <3>1, <3>2
    <3> QED BY <3>1, <3>2, <3>3, SeqEqual DEF Records
  <2> QED BY <2>1, <2>2
<1>2. Len(Packed(all)) = Len(Packed(rs)) + Len(PackFrame(p)) /\ Len(Packed(all)) \in Nat
  <2>1. Packed(rs) \in Seq(Nat) /\ PackFrame(p) \in Seq(Nat)
    BY PackedBytes, FrameCells DEF Bytes
  <2>2. Packed(all) = Packed(rs) \o PackFrame(p)
    BY PackedAppend
  <2> HIDE DEF all
  <2> QED BY <1>1, <2>1, <2>2, ConcatProperties, PackedLength
<1>3. /\ y \in Seq(Nat) /\ Len(y) = Len(rs) + 1 /\ Last(y) = Len(Packed(rs))
      /\ \A k \in 0..Len(rs) : y[k + 1] = 0 + Len(Packed(Cut(rs, k)))
  <2>1. /\ y \in Seq(Nat) /\ Len(y) = Len(rs) + 1 /\ Last(y) = 0 + Len(Packed(rs))
        /\ \A k \in 0..Len(rs) : y[k + 1] = 0 + Len(Packed(Cut(rs, k)))
    BY PositionsCells
  <2> HIDE DEF y
  <2>2. Len(Packed(rs)) \in Nat
    BY PackedLength
  <2> QED BY <2>1, <2>2
<1> HIDE DEF all
<1>4. /\ x \in Seq(Nat) /\ Len(x) = Len(rs) + 2 /\ Last(x) = Len(Packed(all))
      /\ \A k \in 0..Len(rs) + 1 : x[k + 1] = 0 + Len(Packed(Cut(all, k)))
  <2>1. /\ x \in Seq(Nat) /\ Len(x) = Len(all) + 1 /\ Last(x) = 0 + Len(Packed(all))
        /\ \A k \in 0..Len(all) : x[k + 1] = 0 + Len(Packed(Cut(all, k)))
    BY <1>1, PositionsCells
  <2> HIDE DEF x
  <2> QED BY <1>1, <1>2, <2>1
<1> HIDE DEF x, y
<1>5. e = Last(x) /\ e \in Nat
  BY <1>2, <1>3, <1>4
<1> HIDE DEF e
<1>6. /\ Append(y, e) \in Seq(Nat) /\ Len(Append(y, e)) = Len(rs) + 2
      /\ \A k \in 1..Len(rs) + 1 : Append(y, e)[k] = y[k]
      /\ Append(y, e)[Len(rs) + 2] = e
  <2>1. /\ Append(y, e) \in Seq(Nat) /\ Len(Append(y, e)) = Len(y) + 1
        /\ \A k \in 1..Len(y) : Append(y, e)[k] = y[k]
        /\ Append(y, e)[Len(y) + 1] = e
    BY <1>3, <1>5, AppendProperties
  <2>2. Len(y) + 1 = Len(rs) + 2
    BY <1>1, <1>3
  <2> QED BY <1>3, <2>1, <2>2
<1>7. ASSUME NEW k \in 1..Len(rs) + 2 PROVE x[k] = Append(y, e)[k]
  <2>1. CASE k = Len(rs) + 2
    BY <1>4, <1>5, <1>6, <2>1 DEF Last
  <2>2. CASE k # Len(rs) + 2
    <3>1. /\ k - 1 \in 0..Len(rs) /\ k - 1 \in 0..Len(rs) + 1 /\ (k - 1) + 1 = k
          /\ k \in 1..Len(rs) + 1
      BY <1>1, <2>2
    <3>2. x[(k - 1) + 1] = y[(k - 1) + 1]
      BY <1>1, <1>3, <1>4, <3>1
    <3> QED BY <1>6, <3>1, <3>2
  <2> QED BY <2>1, <2>2
<1>8. x = Append(y, e)
  BY <1>4, <1>6, <1>7, SeqEqual
<1> QED BY <1>8 DEF x, y, e, all

\* Some naturals up to n have a greatest.
LEMMA GreatestBelow ==
    ASSUME NEW n \in Nat, NEW s, s \subseteq 0..n, s # {}
    PROVE  \E x \in s : \A y \in s : y <= x
<1> DEFINE T == {n - x : x \in s}
<1>1. T \subseteq Nat /\ T # {}
  <2>1. PICK x \in s : TRUE
    OBVIOUS
  <2>2. n - x \in T
    OBVIOUS
  <2>3. \A y \in s : n - y \in Nat
    OBVIOUS
  <2> QED BY <2>2, <2>3
<1>2. PICK z \in T : \A y \in T : z <= y
  BY <1>1, LeastNatural, Zenon
<1>3. PICK x \in s : z = n - x
  BY <1>2
<1>4. \A y \in s : y <= x
  <2> TAKE y \in s
  <2>1. n - y \in T
    OBVIOUS
  <2>2. n - x <= n - y
    BY <1>2, <1>3, <2>1
  <2>3. x \in Nat /\ y \in Nat
    OBVIOUS
  <2> QED BY <2>2, <2>3
<1> QED BY <1>4, Zenon

LEMMA MaxOfSome ==
    ASSUME NEW n \in Nat, NEW s, s \subseteq 1..n, s # {}
    PROVE  Max(s) \in s /\ \A y \in s : Max(s) >= y
<1>1. s \subseteq 0..n
  OBVIOUS
<1>2. PICK x \in s : \A y \in s : y <= x
  BY <1>1, GreatestBelow
<1>3. \A y \in s : x >= y
  BY <1>1, <1>2
<1> QED BY <1>3, Zenon DEF Max

\* The function by which the positions of an append are folded is the g that is
\* Advancing(b, base, g).
Advancing(b, base, g) ==
    [s \in SUBSET (DOMAIN b) |->
        IF s = {} THEN base
        ELSE Append(g[s \ {Max(s)}], Last(g[s \ {Max(s)}]) + Len(PackFrame(b[Max(s)])))]

LEMMA AdvancingExists ==
    ASSUME NEW b \in Records, NEW base \in Seq(Nat), base # <<>>
    PROVE  \E g : g = Advancing(b, base, g)
<1> DEFINE S == SUBSET (DOMAIN b)
           V == {v \in Seq(Nat) : v # <<>>}
           stop == {{}}
           next == [s \in S |-> s \ {Max(s)}]
           rank == [s \in S |-> Cardinality(s)]
           first == [s \in S |-> base]
           step == [s \in S |-> [v \in V |-> Append(v, Last(v) + Len(PackFrame(b[Max(s)])))]]
<1>0. Len(b) \in Nat /\ DOMAIN b = 1..Len(b)
  BY DEF Records
<1>1. ASSUME NEW s \in S PROVE IsFiniteSet(s) /\ Cardinality(s) \in 0..Len(b)
  <2>1. IsFiniteSet(1..Len(b)) /\ Cardinality(1..Len(b)) = Len(b)
    <3>1. IsFiniteSet(1..Len(b)) /\ Cardinality(1..Len(b)) = IF 1 > Len(b) THEN 0 ELSE Len(b) - 1 + 1
      <4>1. 1 \in Int /\ Len(b) \in Int
        BY <1>0
      <4> QED BY <4>1, FS_Interval, Zenon
    <3> QED BY <1>0, <3>1
  <2>2. IsFiniteSet(s) /\ Cardinality(s) <= Cardinality(1..Len(b))
    BY <1>0, <2>1, FS_Subset
  <2> QED BY <1>0, <2>1, <2>2, FS_CardinalityType
<1>2. rank \in [S -> 0..Len(b)] /\ first \in [S -> V]
  BY <1>1
<1>3. ASSUME NEW s \in S \ stop
      PROVE  /\ next[s] \in S /\ rank[next[s]] < rank[s]
             /\ \A v \in V : step[s][v] \in V
  <2>1. Max(s) \in s /\ s \subseteq 1..Len(b)
    BY <1>0, <1>3, MaxOfSome
  <2>2. next[s] = s \ {Max(s)} /\ next[s] \in S
    OBVIOUS
  <2>3. rank[next[s]] = Cardinality(s \ {Max(s)}) /\ rank[s] = Cardinality(s)
    BY <2>2
  <2>4. Cardinality(s \ {Max(s)}) = Cardinality(s) - 1 /\ Cardinality(s) \in Nat
    <3>1. IsFiniteSet(s) /\ Max(s) \in s
      BY <1>1, <2>1
    <3>2. PICK top : top = Max(s)
      OBVIOUS
    <3>3. Cardinality(s \ {top}) = Cardinality(s) - 1
      BY <3>1, <3>2, FS_RemoveElement
    <3>4. Cardinality(s) \in Nat
      BY <3>1, FS_CardinalityType
    <3> QED BY <3>2, <3>3, <3>4
  <2>5. ASSUME NEW v \in V PROVE step[s][v] \in V
    <3>1. Last(v) \in Nat
      BY EmptySeq DEF Last
    <3>2. Len(PackFrame(b[Max(s)])) \in Nat
      <4>1. b[Max(s)] \in Bytes
        BY <1>0, <2>1 DEF Records
      <4> QED BY <4>1, FrameCells DEF Bytes
    <3>3. PICK e \in Nat : e = Last(v) + Len(PackFrame(b[Max(s)]))
      BY <3>1, <3>2
    <3>4. step[s][v] = Append(v, e)
      BY <3>3
    <3> HIDE DEF step
    <3>5. v \in Seq(Nat) /\ e \in Nat /\ v # <<>>
      BY <3>3
    <3>6. Append(v, e) \in Seq(Nat) /\ Append(v, e) # <<>>
      <4>1. Append(v, e) \in Seq(Nat) /\ Len(Append(v, e)) = Len(v) + 1 /\ Len(v) \in Nat
        BY <3>5, AppendProperties
      <4>2. Len(<<>>) = 0
        BY EmptySeq
      <4> QED BY <4>1, <4>2
    <3> QED BY <3>4, <3>6
  <2>6. rank[next[s]] < rank[s]
    BY <2>3, <2>4
  <2> HIDE DEF next, rank, step
  <2> QED BY <2>2, <2>5, <2>6
<1>4. PICK d \in [S -> V] : d = Recursion(S, stop, next, first, step, d)
  <2>1. Descends(S, V, stop, next, Len(b), rank, first, step)
    BY <1>0, <1>2, <1>3 DEF Descends
  <2> HIDE DEF S, V, stop, next, rank, first, step
  <2> QED BY <2>1, RecursionExists
<1>5. d = Advancing(b, base, d)
  <2> DEFINE r == Recursion(S, stop, next, first, step, d)
             t(s) == IF s = {} THEN base
                     ELSE Append(d[s \ {Max(s)}], Last(d[s \ {Max(s)}]) + Len(PackFrame(b[Max(s)])))
  <2>1. ASSUME NEW s \in S PROVE r[s] = t(s)
    <3>1. CASE s \in stop
      BY <3>1 DEF Recursion
    <3>2. CASE s \notin stop
      <4>1. next[s] = s \ {Max(s)} /\ next[s] \in S /\ s # {}
        BY <3>2
      <4>2. d[next[s]] \in V
        BY <4>1
      <4>3. r[s] = step[s][d[next[s]]]
        BY <3>2 DEF Recursion
      <4>4. r[s] = Append(d[next[s]], Last(d[next[s]]) + Len(PackFrame(b[Max(s)])))
        BY <4>2, <4>3
      <4> QED BY <4>1, <4>4
    <3> QED BY <3>1, <3>2
  <2>2. r = [s \in S |-> r[s]]
    BY DEF Recursion
  <2>3. d = r
    BY <1>4
  <2> HIDE DEF r, t
  <2>4. r = [s \in S |-> t(s)]
    BY <2>1, <2>2
  <2> QED BY <2>3, <2>4 DEF Advancing, t
<1> QED BY <1>5

\* The index after an append: the positions of what it had and what was added.
LEMMA AppendedPositions ==
    ASSUME NEW rs \in Records, NEW b \in Records, NEW base, base = Positions(0, rs)
    PROVE  FoldLeft(LAMBDA ends, p : Append(ends, Last(ends) + Len(PackFrame(p))), base, b)
             = Positions(0, rs \o b)
<1>0. Len(b) \in Nat /\ DOMAIN b = 1..Len(b) /\ base \in Seq(Nat) /\ base # <<>>
  <2>1. Len(base) = Len(rs) + 1 /\ Len(rs) \in Nat /\ base \in Seq(Nat)
    BY PositionsCells
  <2> QED BY <2>1, EmptySeq DEF Records
<1> DEFINE c == CHOOSE g : g = Advancing(b, base, g)
<1>1. FoldLeft(LAMBDA ends, p : Append(ends, Last(ends) + Len(PackFrame(p))), base, b) = c[DOMAIN b]
  BY DEF FoldLeft, MapThenFoldSet, Advancing
<1>2. c = Advancing(b, base, c)
  <2>1. \E g : g = Advancing(b, base, g)
    BY <1>0, AdvancingExists
  <2> QED BY <2>1, Zenon
<1> HIDE DEF c
<1>3. c[{}] = base
  <2>1. Advancing(b, base, c)[{}] = base
    BY DEF Advancing
  <2> QED BY <1>2, <2>1, Zenon
<1>4. ASSUME NEW j \in Nat, j + 1 <= Len(b)
      PROVE  c[1..j + 1] = Append(c[1..j], Last(c[1..j]) + Len(PackFrame(b[j + 1])))
  <2>1. 1..j + 1 \subseteq 1..Len(b) /\ 1..j + 1 # {} /\ j + 1 \in 1..j + 1
    <3>1. j + 1 \in 1..j + 1
      OBVIOUS
    <3>2. \A i \in 1..j + 1 : i \in 1..Len(b)
      BY <1>0, <1>4
    <3> QED BY <3>1, <3>2
  <2>2. Max(1..j + 1) = j + 1
    <3>1. Max(1..j + 1) \in 1..j + 1 /\ \A y \in 1..j + 1 : Max(1..j + 1) >= y
      BY <1>0, <2>1, MaxOfSome
    <3>2. Max(1..j + 1) >= j + 1
      BY <2>1, <3>1, Zenon
    <3> QED BY <3>1, <3>2
  <2>3. (1..j + 1) \ {j + 1} = 1..j
    OBVIOUS
  <2>4. PICK s : s = 1..j + 1
    OBVIOUS
  <2>5. s \in SUBSET (DOMAIN b) /\ s # {} /\ Max(s) = j + 1 /\ s \ {j + 1} = 1..j
    BY <1>0, <2>1, <2>2, <2>3, <2>4
  <2>6. Advancing(b, base, c)[s] =
          Append(c[s \ {Max(s)}], Last(c[s \ {Max(s)}]) + Len(PackFrame(b[Max(s)])))
    BY <2>5, Zenon DEF Advancing
  <2>7. c[s] = Advancing(b, base, c)[s]
    BY <1>2, Zenon
  <2> QED BY <2>4, <2>5, <2>6, <2>7, Zenon
<1> DEFINE Q == {j \in Nat : j <= Len(b) => c[1..j] = Positions(0, rs \o Cut(b, j))}
<1>5. 0 \in Q
  <2>1. 1..0 = {}
    OBVIOUS
  <2>2. Cut(b, 0) = <<>>
    BY DEF Cut
  <2>3. rs \o <<>> = rs
    BY ConcatEmptySeq DEF Records
  <2>4. c[1..0] = Positions(0, rs \o Cut(b, 0))
    BY <1>3, <2>1, <2>2, <2>3, Zenon
  <2> QED BY <2>4
<1>6. ASSUME NEW j \in Nat, j \in Q PROVE j + 1 \in Q
  <2> SUFFICES ASSUME j + 1 <= Len(b) PROVE c[1..j + 1] = Positions(0, rs \o Cut(b, j + 1))
    OBVIOUS
  <2>1. j <= Len(b)
    BY <1>0
  <2>2. c[1..j] = Positions(0, rs \o Cut(b, j))
    BY <1>6, <2>1
  <2>3. Cut(b, j + 1) = Append(Cut(b, j), b[j + 1]) /\ Cut(b, j) \in Records /\ b[j + 1] \in Bytes
    BY CutNext DEF Records
  <2>4. PICK q, p : q = rs \o Cut(b, j) /\ p = b[j + 1]
    OBVIOUS
  <2>5. q \in Records /\ p \in Bytes /\ rs \o Cut(b, j + 1) = Append(q, p)
    <3>1. q \in Records /\ p \in Bytes
      BY <2>3, <2>4, ConcatProperties DEF Records
    <3>2. rs \o Append(Cut(b, j), p) = Append(rs \o Cut(b, j), p)
      <4>1. rs \in Seq(Bytes) /\ Cut(b, j) \in Seq(Bytes) /\ p \in Bytes
        BY <2>3, <3>1 DEF Records
      <4> QED BY <4>1, AppendBehind
    <3> QED BY <2>3, <2>4, <3>1, <3>2, Zenon
  <2>6. Positions(0, Append(q, p)) =
          Append(Positions(0, q), Last(Positions(0, q)) + Len(PackFrame(p)))
    BY <2>5, PositionsAppend
  <2>7. c[1..j + 1] = Append(c[1..j], Last(c[1..j]) + Len(PackFrame(b[j + 1])))
    BY <1>4
  <2> QED BY <2>2, <2>4, <2>5, <2>6, <2>7, Zenon
<1> HIDE DEF Q
<1>7. Nat \subseteq Q
  BY <1>5, <1>6, AllNaturals
<1>8. c[1..Len(b)] = Positions(0, rs \o Cut(b, Len(b)))
  <2>1. Len(b) \in Q /\ Len(b) <= Len(b)
    BY <1>0, <1>7
  <2> QED BY <2>1 DEF Q
<1>9. Cut(b, Len(b)) = b
  BY SubSeqFull DEF Cut, Records
<1> QED BY <1>0, <1>1, <1>8, <1>9, Zenon

-----------------------------------------------------------------------------
(* Torn writes.                                                            *)

LEMMA ZerosAre ==
    /\ Zeros(0) = <<>>
    /\ \A n \in Nat : Zeros(n) \in Bytes /\ Len(Zeros(n)) = n /\ \A i \in 1..n : Zeros(n)[i] = 0
<1>1. \A n \in Nat : Zeros(n) \in Bytes /\ Len(Zeros(n)) = n /\ \A i \in 1..n : Zeros(n)[i] = 0
  BY DEF Zeros, Bytes
<1>2. Zeros(0) = <<>>
  BY <1>1, EmptySeq DEF Bytes
<1> QED BY <1>1, <1>2

LEMMA ZerosConcat ==
    ASSUME NEW a \in Nat, NEW b \in Nat
    PROVE  Zeros(a) \o Zeros(b) = Zeros(a + b)
<1> DEFINE x == Zeros(a)
           y == Zeros(b)
           z == Zeros(a + b)
<1>1. /\ x \in Seq(Nat) /\ Len(x) = a /\ \A i \in 1..a : x[i] = 0
      /\ y \in Seq(Nat) /\ Len(y) = b /\ \A i \in 1..b : y[i] = 0
      /\ z \in Seq(Nat) /\ Len(z) = a + b /\ \A i \in 1..a + b : z[i] = 0
  BY ZerosAre DEF Bytes
<1> HIDE DEF x, y, z
<1>2. /\ x \o y \in Seq(Nat) /\ Len(x \o y) = a + b
      /\ \A i \in 1..a + b : (x \o y)[i] = IF i <= a THEN x[i] ELSE y[i - a]
  BY <1>1, ConcatProperties
<1>3. ASSUME NEW i \in 1..a + b PROVE (x \o y)[i] = z[i]
  <2>1. CASE i <= a
    BY <1>1, <1>2, <2>1
  <2>2. CASE ~(i <= a)
    <3>1. i - a \in 1..b
      BY <2>2
    <3> QED BY <1>1, <1>2, <2>2, <3>1
  <2> QED BY <2>1, <2>2
<1>4. x \o y = z
  BY <1>1, <1>2, <1>3, SeqEqual
<1> QED BY <1>4 DEF x, y, z

LEMMA CutOfCut ==
    ASSUME NEW S, NEW t \in Seq(S), NEW n \in 0..Len(t), NEW k \in 0..n
    PROVE  Cut(Cut(t, n), k) = Cut(t, k)
<1>1. /\ Cut(t, n) \in Seq(S) /\ Len(Cut(t, n)) = n /\ \A i \in 1..n : Cut(t, n)[i] = t[i]
      /\ k \in 0..Len(t)
  BY CutCells
<1>2. /\ Cut(t, k) \in Seq(S) /\ Len(Cut(t, k)) = k /\ \A i \in 1..k : Cut(t, k)[i] = t[i]
  BY <1>1, CutCells
<1> DEFINE u == Cut(t, n)
           v == Cut(t, k)
           w == Cut(u, k)
<1> HIDE DEF u, v
<1>3. /\ w \in Seq(S) /\ Len(w) = k /\ \A i \in 1..k : w[i] = u[i]
  BY <1>1, CutCells DEF u
<1> HIDE DEF w
<1>4. \A i \in 1..k : w[i] = v[i]
  BY <1>1, <1>2, <1>3 DEF u, v
<1>5. w = v
  BY <1>2, <1>3, <1>4, SeqEqual DEF v
<1> QED BY <1>5 DEF w, u, v

\* A cut in the second of two parts.
LEMMA CutInConcat ==
    ASSUME NEW S, NEW a \in Seq(S), NEW b \in Seq(S), NEW n \in Len(a)..Len(a) + Len(b)
    PROVE  Cut(a \o b, n) = a \o Cut(b, n - Len(a)) /\ n - Len(a) \in 0..Len(b)
<1>0. n - Len(a) \in 0..Len(b) /\ Len(a) \in Nat /\ Len(b) \in Nat /\ n \in Nat
  OBVIOUS
<1>1. /\ a \o b \in Seq(S) /\ Len(a \o b) = Len(a) + Len(b)
      /\ \A i \in 1..Len(a) + Len(b) : (a \o b)[i] = IF i <= Len(a) THEN a[i] ELSE b[i - Len(a)]
  BY ConcatProperties
<1> DEFINE w == Cut(a \o b, n)
           c == Cut(b, n - Len(a))
<1>2. /\ w \in Seq(S) /\ Len(w) = n /\ \A i \in 1..n : w[i] = (a \o b)[i]
  <2>1. n \in 0..Len(a \o b)
    BY <1>0, <1>1
  <2> QED BY <1>1, <2>1, CutCells
<1>3. /\ c \in Seq(S) /\ Len(c) = n - Len(a) /\ \A i \in 1..n - Len(a) : c[i] = b[i]
  BY <1>0, CutCells
<1> HIDE DEF w, c
<1>4. /\ a \o c \in Seq(S) /\ Len(a \o c) = n
      /\ \A i \in 1..n : (a \o c)[i] = IF i <= Len(a) THEN a[i] ELSE c[i - Len(a)]
  <2>1. /\ a \o c \in Seq(S) /\ Len(a \o c) = Len(a) + Len(c)
        /\ \A i \in 1..Len(a) + Len(c) : (a \o c)[i] = IF i <= Len(a) THEN a[i] ELSE c[i - Len(a)]
    BY <1>3, ConcatProperties
  <2>2. Len(a) + Len(c) = n
    BY <1>0, <1>3
  <2> QED BY <2>1, <2>2
<1>5. ASSUME NEW i \in 1..n PROVE w[i] = (a \o c)[i]
  <2>0. i \in 1..Len(a) + Len(b)
    BY <1>0
  <2>1. CASE i <= Len(a)
    BY <1>1, <1>2, <1>4, <2>0, <2>1
  <2>2. CASE ~(i <= Len(a))
    <3>1. i - Len(a) \in 1..n - Len(a)
      BY <1>0, <2>2
    <3> QED BY <1>1, <1>2, <1>3, <1>4, <2>0, <2>2, <3>1
  <2> QED BY <2>1, <2>2
<1>6. w = a \o c
  BY <1>2, <1>4, <1>5, SeqEqual
<1> QED BY <1>0, <1>6 DEF w, c

\* All of a, then the first j bytes of x, then z zeros.
Torn(a, x, j, z) == a \o (Cut(x, j) \o Zeros(z))
Begun(a, x, f) == \E j \in 0..Len(x), z \in Nat : f = Torn(a, x, j, z)

\* A torn file cut short is a torn file, and so is one filled up with zeros.
LEMMA TornCut ==
    ASSUME NEW a \in Bytes, NEW x \in Bytes, NEW f, Begun(a, x, f),
           NEW n \in Len(a)..Len(f), NEW k \in Nat
    PROVE  Begun(a, x, Cut(f, n)) /\ Begun(a, x, Cut(f, n) \o Zeros(k))
<1>0. PICK j \in 0..Len(x), z \in Nat : f = Torn(a, x, j, z)
  BY Zenon DEF Begun
<1> DEFINE c == Cut(x, j)
           b == c \o Zeros(z)
<1>1. /\ a \in Seq(Nat) /\ x \in Seq(Nat) /\ Len(a) \in Nat /\ Len(x) \in Nat
      /\ c \in Seq(Nat) /\ Len(c) = j /\ Zeros(z) \in Seq(Nat) /\ Len(Zeros(z)) = z
      /\ Zeros(k) \in Seq(Nat)
  <2>1. a \in Seq(Nat) /\ x \in Seq(Nat) /\ Len(a) \in Nat /\ Len(x) \in Nat
    BY DEF Bytes
  <2>2. c \in Seq(Nat) /\ Len(c) = j
    BY <2>1, CutCells
  <2> QED BY <2>1, <2>2, ZerosAre DEF Bytes
<1> HIDE DEF c
<1>2. b \in Seq(Nat) /\ Len(b) = j + z
  BY <1>1, ConcatProperties
<1>3. f = a \o b
  BY <1>0 DEF Torn, c
<1> HIDE DEF b
<1>4. Len(f) = Len(a) + Len(b)
  BY <1>1, <1>2, <1>3, ConcatProperties
<1>5. PICK m \in 0..Len(b) : m = n - Len(a)
  <2>1. Len(b) \in Nat /\ n \in Len(a)..Len(a) + Len(b)
    BY <1>2, <1>4
  <2>2. n - Len(a) \in 0..Len(b)
    BY <1>1, <2>1
  <2> QED BY <2>2
<1>6. Cut(f, n) = a \o Cut(b, m)
  BY <1>1, <1>2, <1>3, <1>4, <1>5, CutInConcat
<1>7. \E i \in 0..Len(x), y \in Nat : Cut(b, m) = Cut(x, i) \o Zeros(y)
  <2>1. CASE m <= j
    <3>1. m \in 0..Len(c) /\ m \in 0..Len(x) /\ m \in 0..j
      BY <1>1, <1>5, <2>1
    <3>2. Cut(x, m) \in Seq(Nat) /\ Cut(x, m) \o <<>> = Cut(x, m)
      BY <1>1, <3>1, CutCells, ConcatEmptySeq
    <3>3. IsPrefix(Cut(x, m), b) /\ Len(Cut(x, m)) = m
      <4>1. Cut(c, m) = Cut(x, m)
        BY <1>1, <3>1, CutOfCut DEF c
      <4>2. IsPrefix(Cut(c, m), c) /\ Len(Cut(c, m)) = m /\ IsPrefix(c, b)
        BY <1>1, <3>1, CutCells, PrefixConcat DEF b
      <4> QED BY <1>1, <1>2, <3>2, <4>1, <4>2, PrefixTransitive
    <3>4. Cut(b, m) = Cut(x, m)
      BY <1>2, <3>2, <3>3, PrefixIsCut
    <3> QED BY <3>1, <3>2, <3>4, ZerosAre
  <2>2. CASE ~(m <= j)
    <3>1. m \in Len(c)..Len(c) + Len(Zeros(z)) /\ m - j \in 0..z
      BY <1>1, <1>2, <1>5, <2>2
    <3>2. Cut(b, m) = c \o Cut(Zeros(z), m - j)
      BY <1>1, <3>1, CutInConcat DEF b
    <3>3. Cut(Zeros(z), m - j) = Zeros(m - j)
      <4> DEFINE u == Cut(Zeros(z), m - j)
                 v == Zeros(m - j)
      <4>1. u \in Seq(Nat) /\ Len(u) = m - j /\ \A l \in 1..m - j : u[l] = Zeros(z)[l]
        <5>1. m - j \in 0..Len(Zeros(z))
          BY <1>1, <3>1
        <5> QED BY <1>1, <5>1, CutCells
      <4>2. v \in Seq(Nat) /\ Len(v) = m - j /\ \A l \in 1..m - j : v[l] = 0
        <5>1. m - j \in Nat
          BY <3>1
        <5> QED BY <5>1, ZerosAre DEF Bytes
      <4>3. \A l \in 1..m - j : Zeros(z)[l] = 0
        BY <3>1, ZerosAre
      <4> HIDE DEF u, v
      <4>4. \A l \in 1..m - j : u[l] = v[l]
        BY <4>1, <4>2, <4>3
      <4>5. u = v
        BY <4>1, <4>2, <4>4, SeqEqual
      <4> QED BY <4>5 DEF u, v
    <3>4. m - j \in Nat /\ Cut(b, m) = Cut(x, j) \o Zeros(m - j)
      <4>1. c = Cut(x, j)
        BY DEF c
      <4>2. m - j \in Nat
        BY <3>1
      <4> QED BY <3>2, <3>3, <4>1, <4>2, Zenon
    <3> QED BY <3>4, Zenon
  <2> QED BY <2>1, <2>2
<1>8. PICK i \in 0..Len(x), y \in Nat : Cut(b, m) = Cut(x, i) \o Zeros(y)
  BY <1>7
<1>9. Cut(f, n) = Torn(a, x, i, y)
  BY <1>6, <1>8 DEF Torn
<1>10. Cut(f, n) \o Zeros(k) = Torn(a, x, i, y + k)
  <2>1. PICK u, v, w : u = Cut(x, i) /\ v = Zeros(y) /\ w = Zeros(k)
    OBVIOUS
  <2>2. u \in Bytes /\ v \in Bytes /\ w \in Bytes /\ a \in Bytes
    BY <1>1, <2>1, CutCells, ZerosAre DEF Bytes
  <2>3. v \o w = Zeros(y + k)
    BY <2>1, ZerosConcat
  <2>4. u \o v \in Bytes
    BY <2>2, ConcatProperties DEF Bytes
  <2>5. (a \o (u \o v)) \o w = a \o ((u \o v) \o w) /\ (u \o v) \o w = u \o (v \o w)
    <3>1. PICK s : s = u \o v
      OBVIOUS
    <3>2. s \in Bytes
      BY <2>4, <3>1
    <3>3. Regrouped(u, v, w)
      BY <2>2, BytesAssociative, Zenon
    <3>4. Regrouped(a, s, w)
      BY <2>2, <3>2, BytesAssociative, Zenon
    <3> QED BY <3>1, <3>3, <3>4 DEF Regrouped
  <2> QED BY <1>6, <1>8, <2>1, <2>3, <2>5, Zenon DEF Torn
<1>11. y + k \in Nat
  BY <1>8
<1> QED BY <1>8, <1>9, <1>10, <1>11, Zenon DEF Begun

\* What a power loss may leave of a file keeps what both of its contents have
\* at the beginning.
LEMMA ImagesKeep ==
    ASSUME NEW d \in Bytes, NEW c \in Bytes, NEW p \in Bytes, IsPrefix(p, d), IsPrefix(p, c),
           NEW f \in Images(d, c)
    PROVE  \/ f = d
           \/ \E n \in Len(p)..Len(c) : \/ f = Cut(c, n)
                                        \/ f = Cut(c, n) \o Zeros(Len(c) - n)
<1> DEFINE common == {n \in 0..Len(c) : n <= Len(d) /\ Cut(c, n) = Cut(d, n)}
           least == CHOOSE n \in common : \A k \in common : k <= n
<1>1. Len(p) \in common
  BY PrefixIsCut, PrefixCells DEF Bytes
<1>2. least \in common /\ \A k \in common : k <= least
  <2>1. Len(c) \in Nat /\ common \subseteq 0..Len(c) /\ common # {}
    BY <1>1 DEF Bytes
  <2> HIDE DEF common
  <2>2. \E n \in common : \A k \in common : k <= n
    BY <2>1, GreatestBelow
  <2> QED BY <2>2, Zenon
<1>3. Images(d, c) = {d} \cup UNION {{Cut(c, n), Cut(c, n) \o Zeros(Len(c) - n)} : n \in least..Len(c)}
  BY Zenon DEF Images
<1> HIDE DEF common, least
<1>4. Len(p) <= least /\ least \in 0..Len(c) /\ Len(p) \in Nat /\ Len(c) \in Nat
  BY <1>1, <1>2 DEF common, Bytes
<1>5. ASSUME NEW n \in least..Len(c) PROVE n \in Len(p)..Len(c)
  BY <1>4
<1> QED BY <1>3, <1>5

\* f begins with the records a, and what it holds beyond them is the beginning
\* of something that was tried, and zeros.
Sound(a, T, f) ==
    /\ f \in Bytes /\ IsPrefix(Packed(a), f)
    /\ \E t \in T \cup {<<>>} : Begun(Packed(a), Packed(t), f)

LEMMA SoundMore ==
    ASSUME NEW a, NEW T, NEW U, T \subseteq U, NEW f, Sound(a, T, f)
    PROVE  Sound(a, U, f)
<1>1. PICK t \in T \cup {<<>>} : Begun(Packed(a), Packed(t), f)
  BY Zenon DEF Sound
<1>2. t \in U \cup {<<>>}
  OBVIOUS
<1>3. f \in Bytes /\ IsPrefix(Packed(a), f)
  BY Zenon DEF Sound
<1> QED BY <1>1, <1>2, <1>3, Zenon DEF Sound

\* A part of what was tried is sound.
LEMMA SoundPart ==
    ASSUME NEW a \in Records, NEW T, NEW t \in T \cup {<<>>}, t \in Records, NEW f \in Bytes,
           IsPrefix(Packed(a), f), IsPrefix(f, Packed(a \o t))
    PROVE  Sound(a, T, f)
<1>1. PICK p, x : p = Packed(a) /\ x = Packed(t)
  OBVIOUS
<1>2. p \in Seq(Nat) /\ x \in Seq(Nat) /\ Packed(a \o t) = p \o x /\ Len(p) \in Nat /\ Len(x) \in Nat
  <2>1. p \in Bytes /\ x \in Bytes /\ Packed(a \o t) = p \o x
    BY <1>1, PackedBytes, PackedConcat
  <2> QED BY <2>1 DEF Bytes
<1>3. p \o x \in Seq(Nat) /\ Len(p \o x) = Len(p) + Len(x)
  BY <1>2, ConcatProperties
<1>4. f = Cut(p \o x, Len(f)) /\ Len(p) <= Len(f) /\ Len(f) <= Len(p \o x) /\ Len(f) \in Nat
  <2>1. IsPrefix(p, f) /\ IsPrefix(f, p \o x) /\ f \in Seq(Nat)
    BY <1>1, <1>2 DEF Bytes
  <2>2. PICK y : y = p \o x
    OBVIOUS
  <2>3. y \in Seq(Nat) /\ IsPrefix(f, y) /\ p \in Seq(Nat) /\ IsPrefix(p, f)
    BY <1>2, <1>3, <2>1, <2>2
  <2>4. f = Cut(y, Len(f)) /\ Len(f) <= Len(y) /\ Len(f) \in Nat
    BY <2>1, <2>3, PrefixIsCut
  <2>5. Len(p) <= Len(f)
    BY <2>1, <2>3, PrefixIsCut
  <2> QED BY <2>2, <2>4, <2>5, Zenon
<1>5. PICK j : j = Len(f) - Len(p)
  OBVIOUS
<1>6. j \in 0..Len(x) /\ f = p \o Cut(x, j)
  <2>1. Len(f) \in Len(p)..Len(p) + Len(x)
    BY <1>2, <1>3, <1>4
  <2> QED BY <1>2, <1>4, <1>5, <2>1, CutInConcat
<1>7. Cut(x, j) \o Zeros(0) = Cut(x, j)
  <2>1. Cut(x, j) \in Seq(Nat)
    BY <1>2, <1>6, CutCells
  <2> QED BY <2>1, ZerosAre, ConcatEmptySeq
<1>8. f = Torn(p, x, j, 0) /\ 0 \in Nat
  BY <1>6, <1>7, Zenon DEF Torn
<1>9. Begun(p, x, f)
  BY <1>6, <1>8, Zenon DEF Begun
<1> QED BY <1>1, <1>9, Zenon DEF Sound

\* A sound file that is cut no shorter than the records a is sound, and also
\* when it is filled up with zeros.
LEMMA SoundCut ==
    ASSUME NEW a \in Records, NEW T, T \subseteq Records, NEW f, Sound(a, T, f),
           NEW n \in Len(Packed(a))..Len(f), NEW k \in Nat
    PROVE  Sound(a, T, Cut(f, n)) /\ Sound(a, T, Cut(f, n) \o Zeros(k))
<1>1. PICK t \in T \cup {<<>>} : Begun(Packed(a), Packed(t), f)
  BY Zenon DEF Sound
<1>2. PICK p, x : p = Packed(a) /\ x = Packed(t)
  OBVIOUS
<1>3. p \in Bytes /\ x \in Bytes /\ f \in Bytes /\ IsPrefix(p, f) /\ n \in Len(p)..Len(f)
  <2>1. t \in Records
    BY EmptySeq DEF Records
  <2> QED BY <1>2, <2>1, PackedBytes DEF Sound
<1>4. Begun(p, x, Cut(f, n)) /\ Begun(p, x, Cut(f, n) \o Zeros(k))
  <2>1. Begun(p, x, f) /\ n \in Len(p)..Len(f)
    BY <1>1, <1>2, <1>3
  <2> QED BY <1>3, <2>1, TornCut
<1>5. Cut(f, n) \in Bytes /\ IsPrefix(p, Cut(f, n))
  <2>1. n \in 0..Len(f) /\ Len(p) \in Nat
    BY <1>3 DEF Bytes
  <2>2. Cut(f, n) \in Seq(Nat) /\ Len(Cut(f, n)) = n /\ IsPrefix(Cut(f, n), f)
    BY <1>3, <2>1, CutCells DEF Bytes
  <2>3. Len(p) <= Len(Cut(f, n)) /\ p \in Seq(Nat) /\ f \in Seq(Nat)
    BY <1>3, <2>1, <2>2 DEF Bytes
  <2>4. IsPrefix(p, Cut(f, n))
    BY <1>3, <2>2, <2>3, PrefixesNested
  <2> QED BY <2>2, <2>4 DEF Bytes
<1>6. Cut(f, n) \o Zeros(k) \in Bytes /\ IsPrefix(p, Cut(f, n) \o Zeros(k))
  <2>1. PICK u, v : u = Cut(f, n) /\ v = Zeros(k)
    OBVIOUS
  <2>2. u \in Seq(Nat) /\ v \in Seq(Nat) /\ IsPrefix(p, u) /\ p \in Seq(Nat)
    BY <1>3, <1>5, <2>1, ZerosAre DEF Bytes
  <2>3. u \o v \in Seq(Nat) /\ IsPrefix(u, u \o v)
    BY <2>2, ConcatProperties, PrefixConcat
  <2>4. IsPrefix(p, u \o v)
    BY <2>2, <2>3, PrefixTransitive
  <2> QED BY <2>1, <2>3, <2>4 DEF Bytes
<1> QED BY <1>2, <1>4, <1>5, <1>6, Zenon DEF Sound

\* Cutting a sound file back to records that include a leaves these records.
LEMMA SoundCutBack ==
    ASSUME NEW a \in Records, NEW T, T \subseteq Records, NEW f, Sound(a, T, f),
           NEW rs \in Records, IsPrefix(a, rs), IsPrefix(Packed(rs), f)
    PROVE  Cut(f, Len(Packed(rs))) = Packed(rs) /\ Sound(a, T, Packed(rs))
<1>1. PICK x : x = Packed(rs)
  OBVIOUS
<1>2. x \in Seq(Nat) /\ f \in Seq(Nat) /\ IsPrefix(x, f)
  BY <1>1, PackedBytes DEF Sound, Bytes
<1>3. x = Cut(f, Len(x)) /\ Len(x) <= Len(f) /\ Len(x) \in Nat
  BY <1>2, PrefixIsCut
<1>4. IsPrefix(Packed(a), x)
  BY <1>1, PackedPrefix
<1>5. Len(x) \in Len(Packed(a))..Len(f)
  <2>1. Len(Packed(a)) <= Len(x) /\ Len(Packed(a)) \in Nat
    BY <1>4, PackedLength DEF IsPrefix
  <2>2. Len(f) \in Nat
    BY <1>2
  <2> QED BY <1>3, <2>1, <2>2
<1>6. Sound(a, T, Cut(f, Len(x)))
  BY <1>5, SoundCut
<1> QED BY <1>1, <1>3, <1>6

\* What a power loss leaves is sound if both contents of the file were.
LEMMA SoundImages ==
    ASSUME NEW a \in Records, NEW T, T \subseteq Records, NEW d, NEW c,
           Sound(a, T, d), Sound(a, T, c), NEW f \in Images(d, c)
    PROVE  Sound(a, T, f)
<1>1. PICK p : p = Packed(a)
  OBVIOUS
<1>2. /\ p \in Bytes /\ d \in Bytes /\ c \in Bytes /\ IsPrefix(p, d) /\ IsPrefix(p, c)
      /\ Len(p) \in Nat /\ Len(c) \in Nat
  <2>1. p \in Bytes /\ d \in Bytes /\ c \in Bytes /\ IsPrefix(p, d) /\ IsPrefix(p, c)
    BY <1>1, PackedBytes DEF Sound
  <2> QED BY <2>1 DEF Bytes
<1>3. CASE f = d
  BY <1>3
<1>4. ASSUME NEW n \in Len(p)..Len(c), f = Cut(c, n) \/ f = Cut(c, n) \o Zeros(Len(c) - n)
      PROVE  Sound(a, T, f)
  <2>1. Len(c) - n \in Nat
    BY <1>2
  <2>2. PICK k \in Nat : k = Len(c) - n
    BY <2>1, Zenon
  <2>3. Sound(a, T, Cut(c, n)) /\ Sound(a, T, Cut(c, n) \o Zeros(k))
    BY <1>1, SoundCut
  <2> QED BY <1>4, <2>2, <2>3, Zenon
<1> QED BY <1>2, <1>3, <1>4, ImagesKeep

-----------------------------------------------------------------------------
(* The inductive invariant.                                                *)

Types ==
    /\ owner \in Handle \cup {NoHandle}
    /\ pc \in [Handle -> {"gone", "scan", "ready", "write"}]
    /\ size \in [Handle -> Nat] /\ index \in [Handle -> Seq(Nat)]
    /\ closed \in [Handle -> BOOLEAN] /\ snap \in [Handle -> Nat]
    /\ rest \in Bytes /\ batch \in Records
    /\ acked \in Records /\ tried \subseteq Records

\* The file, as processes see it and as a power loss would leave it, begins
\* with what was acknowledged.
Files == Sound(acked, tried, cache) /\ Sound(acked, tried, disk)

\* Only the owner writes, and what it has still to scan is the whole file.
Role(h) ==
    /\ pc[h] = "write" => owner = h
    /\ owner = h => pc[h] # "gone"
    /\ owner = h /\ pc[h] = "scan" => size[h] = Len(cache)

\* A handle sees the records that were acknowledged when it was opened.
Viewed(h) ==
    /\ snap[h] <= Len(acked)
    /\ pc[h] = "scan" => Len(Packed(Cut(acked, snap[h]))) <= size[h]
    /\ pc[h] \in {"ready", "write"} =>
         \E rs \in Records : index[h] = Positions(0, rs) /\ IsPrefix(Cut(acked, snap[h]), rs)

\* The owner's index has all that was acknowledged; it is the whole file when
\* an append may begin, and the file with the bytes to come is what it will be.
Owned(h) ==
    owner = h /\ pc[h] \in {"ready", "write"} =>
        \E rs \in Records :
            /\ index[h] = Positions(0, rs) /\ IsPrefix(acked, rs)
            /\ pc[h] = "ready" /\ ~closed[h] => cache = Packed(rs)
            /\ pc[h] = "write" => /\ IsPrefix(Packed(rs), cache)
                                  /\ cache \o rest = Packed(rs \o batch)
                                  /\ \E t \in tried : rs \o batch = acked \o t

IInv == Types /\ Files /\ \A h \in Handle : Role(h) /\ Viewed(h) /\ Owned(h)

-----------------------------------------------------------------------------
(* What a step leaves alone.                                               *)

Same(u) ==
    /\ pc'[u] = pc[u] /\ size'[u] = size[u] /\ index'[u] = index[u]
    /\ closed'[u] = closed[u] /\ snap'[u] = snap[u]

LEMMA CutOfPrefix ==
    ASSUME NEW S, NEW a \in Seq(S), NEW b \in Seq(S), IsPrefix(a, b), NEW n \in 0..Len(a)
    PROVE  Cut(b, n) = Cut(a, n)
<1>1. a = Cut(b, Len(a)) /\ Len(a) \in 0..Len(b)
  BY PrefixIsCut
<1>2. Cut(Cut(b, Len(a)), n) = Cut(b, n)
  BY <1>1, CutOfCut
<1> QED BY <1>1, <1>2

LEMMA OtherViewed ==
    ASSUME IInv, NEW u \in Handle, Same(u), acked' \in Records, IsPrefix(acked, acked')
    PROVE  Viewed(u)'
<1>1. snap[u] \in Nat /\ acked \in Records /\ Viewed(u) /\ Len(acked) \in Nat
  BY DEF IInv, Types, Records
<1>2. snap[u] \in 0..Len(acked)
  BY <1>1 DEF Viewed
<1>3. PICK b, s : b = acked' /\ s = snap[u]
  OBVIOUS
<1>4. Cut(b, s) = Cut(acked, s) /\ Len(acked) <= Len(b) /\ Len(b) \in Nat
  <2>1. b \in Seq(Bytes) /\ acked \in Seq(Bytes) /\ IsPrefix(acked, b) /\ s \in 0..Len(acked)
    BY <1>1, <1>2, <1>3 DEF Records
  <2> QED BY <2>1, CutOfPrefix, PrefixIsCut
<1>5. snap'[u] <= Len(acked')
  BY <1>2, <1>3, <1>4 DEF Same
<1>6. Cut(acked', snap'[u]) = Cut(acked, snap[u])
  BY <1>3, <1>4, Zenon DEF Same
<1> QED BY <1>1, <1>5, <1>6, Zenon DEF Viewed, Same

LEMMA NotOwner ==
    ASSUME IInv, NEW u \in Handle, Same(u), owner # u, owner' # u
    PROVE  Role(u)' /\ Owned(u)'
BY Zenon DEF IInv, Role, Owned, Same

LEMMA OwnerAlone ==
    ASSUME IInv, NEW u \in Handle, Same(u), owner' = owner,
           UNCHANGED <<cache, rest, batch, acked, tried>>
    PROVE  Role(u)' /\ Owned(u)'
BY Zenon DEF IInv, Role, Owned, Same

LEMMA GoneHandle ==
    ASSUME NEW u \in Handle, pc'[u] = "gone", snap'[u] = 0, owner' # u, acked' \in Records
    PROVE  Role(u)' /\ Viewed(u)' /\ Owned(u)'
<1>1. 0 <= Len(acked')
  BY DEF Records
<1> QED BY <1>1 DEF Role, Viewed, Owned

LEMMA Initially == Init => IInv
<1> SUFFICES ASSUME Init PROVE IInv
  OBVIOUS
<1> USE DEF Init
<1>0. <<>> \in Bytes /\ <<>> \in Records /\ Len(<<>>) = 0
  BY EmptySeq DEF Bytes, Records
<1>1. Types
  BY <1>0 DEF Types
<1>2. Files
  <2>1. IsPrefix(<<>>, <<>>) /\ <<>> \o <<>> = <<>> /\ Packed(<<>>) = <<>>
    BY <1>0, PrefixEmpty, ConcatEmptySeq, PackedEmpty DEF Bytes
  <2>2. <<>> \in {} \cup {<<>>}
    OBVIOUS
  <2>3. IsPrefix(Packed(<<>>), <<>>) /\ IsPrefix(<<>>, Packed(<<>> \o <<>>))
    BY <2>1
  <2>4. Sound(<<>>, {}, <<>>)
    BY <1>0, <2>2, <2>3, SoundPart
  <2> QED BY <2>4 DEF Files
<1>3. ASSUME NEW h \in Handle PROVE Role(h) /\ Viewed(h) /\ Owned(h)
  <2>1. pc[h] = "gone" /\ owner # h /\ snap[h] = 0
    BY FrameAssumption
  <2> QED BY <1>0, <2>1 DEF Role, Viewed, Owned
<1> QED BY <1>1, <1>2, <1>3 DEF IInv

LEMMA CutWhole ==
    ASSUME NEW S, NEW s \in Seq(S)
    PROVE  Cut(s, Len(s)) = s
BY PrefixReflexive, PrefixIsCut

LEMMA KnownFile ==
    ASSUME IInv
    PROVE  /\ acked \in Records /\ tried \subseteq Records
           /\ cache \in Bytes /\ disk \in Bytes /\ Packed(acked) \in Bytes
           /\ IsPrefix(Packed(acked), cache) /\ IsPrefix(Packed(acked), disk)
           /\ Sound(acked, tried, cache) /\ Sound(acked, tried, disk)
           /\ Len(acked) \in Nat /\ Len(cache) \in Nat
           /\ Len(Packed(acked)) \in Nat /\ Len(Packed(acked)) <= Len(cache)
<1>1. acked \in Records /\ tried \subseteq Records
  BY DEF IInv, Types
<1>2. Sound(acked, tried, cache) /\ Sound(acked, tried, disk)
  BY DEF IInv, Files
<1>3. /\ cache \in Bytes /\ disk \in Bytes /\ Packed(acked) \in Bytes
      /\ IsPrefix(Packed(acked), cache) /\ IsPrefix(Packed(acked), disk)
  BY <1>1, <1>2, PackedBytes DEF Sound
<1>4. Len(acked) \in Nat /\ Len(cache) \in Nat /\ Len(Packed(acked)) \in Nat
  BY <1>1, <1>3 DEF Bytes, Records
<1>5. Len(Packed(acked)) <= Len(cache)
  <2>1. PICK p : p = Packed(acked)
    OBVIOUS
  <2>2. p \in Seq(Nat) /\ cache \in Seq(Nat) /\ IsPrefix(p, cache)
    BY <1>3, <2>1 DEF Bytes
  <2>3. Len(p) \in 0..Len(cache)
    BY <2>2, PrefixIsCut
  <2> QED BY <1>4, <2>1, <2>3
<1> QED BY <1>1, <1>2, <1>3, <1>4, <1>5

-----------------------------------------------------------------------------
(* Every step keeps the invariant.                                         *)

LEMMA OpenStep ==
    ASSUME IInv, NEW h \in Handle, Open(h)
    PROVE  IInv'
<1>1. /\ UNCHANGED <<cache, disk, index, closed, rest, batch, acked, tried>>
      /\ size' = [size EXCEPT ![h] = Len(cache)] /\ snap' = [snap EXCEPT ![h] = Len(acked)]
      /\ pc' = [pc EXCEPT ![h] = "scan"]
      /\ (owner = NoHandle /\ owner' = h) \/ (owner # NoHandle /\ owner' = owner)
  BY DEF Open, Goto, file, append
<1>2. Types'
  BY <1>1, KnownFile DEF IInv, Types
<1>3. Files'
  BY <1>1 DEF IInv, Files
<1>4. ASSUME NEW u \in Handle, u # h PROVE Role(u)' /\ Viewed(u)' /\ Owned(u)'
  <2>1. Same(u)
    BY <1>1, <1>4 DEF Same, IInv, Types
  <2>2. Viewed(u)'
    <3>1. acked' \in Records /\ IsPrefix(acked, acked')
      BY <1>1, KnownFile, PrefixReflexive DEF Records
    <3> QED BY <2>1, <3>1, OtherViewed
  <2>3. CASE owner' = owner
    BY <1>1, <2>1, <2>2, <2>3, OwnerAlone
  <2>4. CASE owner = NoHandle /\ owner' = h
    <3>1. owner # u /\ owner' # u
      BY <1>4, <2>4, FrameAssumption
    <3> QED BY <2>1, <2>2, <3>1, NotOwner
  <2> QED BY <1>1, <2>3, <2>4
<1>5. Role(h)' /\ Viewed(h)' /\ Owned(h)'
  <2>1. pc'[h] = "scan" /\ size'[h] = Len(cache) /\ snap'[h] = Len(acked)
    BY <1>1 DEF IInv, Types
  <2>2. Cut(acked, Len(acked)) = acked
    BY KnownFile, CutWhole DEF Records
  <2>3. Len(Packed(Cut(acked', snap'[h]))) <= size'[h]
    <3>1. Cut(acked', snap'[h]) = acked
      BY <1>1, <2>1, <2>2, Zenon
    <3> QED BY <2>1, <3>1, KnownFile
  <2> QED BY <1>1, <2>1, <2>3, KnownFile DEF Role, Viewed, Owned
<1> QED BY <1>2, <1>3, <1>4, <1>5 DEF IInv

\* What a scan of the first n bytes of a file returns.
ScanResult(f, n, rs) ==
    /\ Scan(f, n) = Positions(0, rs) /\ Last(Scan(f, n)) = Len(Packed(rs))
    /\ IsPrefix(Packed(rs), f) /\ Len(Packed(rs)) <= n
    /\ \A qs \in Records : IsPrefix(Packed(qs), f) /\ Len(Packed(qs)) <= n => IsPrefix(qs, rs)

LEMMA ScanResults ==
    ASSUME NEW f \in Bytes, NEW n \in Nat
    PROVE  \E rs \in Records : ScanResult(f, n, rs)
<1>1. PICK m : m = IF n < Len(f) THEN n ELSE Len(f)
  OBVIOUS
<1>2. m \in 0..Len(f) /\ \E rs \in Records : Scan(f, n) = Positions(0, rs) /\ Found(f, 0, m, rs)
  BY <1>1, ScanFinds
<1>3. PICK rs \in Records : Scan(f, n) = Positions(0, rs) /\ Found(f, 0, m, rs)
  BY <1>2
<1>4. Len(f) \in Nat /\ f \in Seq(Nat)
  BY DEF Bytes
<1>5. IsPrefix(Packed(rs), f) /\ Len(Packed(rs)) <= m
  <2>1. Lies(f, 0, m, rs)
    BY <1>3 DEF Found
  <2> QED BY <1>2, <2>1, LiesPrefix
<1>6. Len(Packed(rs)) <= n
  BY <1>1, <1>4, <1>5, PackedLength
<1>7. ASSUME NEW qs \in Records, IsPrefix(Packed(qs), f), Len(Packed(qs)) <= n
      PROVE  IsPrefix(qs, rs)
  <2>1. Len(Packed(qs)) <= Len(f)
    <3>1. PICK q : q = Packed(qs)
      OBVIOUS
    <3>2. q \in Seq(Nat) /\ IsPrefix(q, f)
      BY <1>7, <3>1, PackedBytes DEF Bytes
    <3>3. Len(q) \in 0..Len(f)
      BY <1>4, <3>2, PrefixIsCut
    <3> QED BY <1>4, <3>1, <3>3
  <2>2. Len(Packed(qs)) <= m
    BY <1>1, <1>7, <2>1
  <2>3. Lies(f, 0, m, qs)
    BY <1>2, <1>7, <2>2, LiesPrefix
  <2> QED BY <1>3, <2>3 DEF Found
<1>8. Last(Scan(f, n)) = Len(Packed(rs))
  <2>1. Last(Positions(0, rs)) = 0 + Len(Packed(rs)) /\ Len(Packed(rs)) \in Nat
    BY PositionsCells, PackedLength
  <2> QED BY <1>3, <2>1
<1> QED BY <1>3, <1>5, <1>6, <1>7, <1>8 DEF ScanResult

\* The owner's scan covers the whole file, and what it cuts off was not acknowledged.
LEMMA OwnerScanned ==
    ASSUME IInv, NEW h \in Handle, pc[h] = "scan", owner = h,
           NEW rs \in Records, ScanResult(cache, size[h], rs)
    PROVE  /\ IsPrefix(acked, rs) /\ Sound(acked, tried, Packed(rs))
           /\ Cut(cache, Len(Packed(rs))) = Packed(rs)
           /\ Len(Packed(rs)) = size[h] => cache = Packed(rs)
<1>1. size[h] = Len(cache)
  BY DEF IInv, Role
<1>2. IsPrefix(acked, rs)
  BY <1>1, KnownFile DEF ScanResult
<1>3. IsPrefix(Packed(rs), cache)
  BY DEF ScanResult
<1>4. Cut(cache, Len(Packed(rs))) = Packed(rs) /\ Sound(acked, tried, Packed(rs))
  BY <1>2, <1>3, KnownFile, SoundCutBack
<1>5. ASSUME Len(Packed(rs)) = size[h] PROVE cache = Packed(rs)
  <2>1. PICK x : x = Packed(rs)
    OBVIOUS
  <2>2. x \in Seq(Nat) /\ cache \in Seq(Nat) /\ IsPrefix(x, cache) /\ Len(x) = Len(cache)
    BY <1>1, <1>3, <1>5, <2>1, PackedBytes, KnownFile DEF Bytes
  <2>3. x = cache
    BY <2>2, PrefixWhole
  <2> QED BY <2>1, <2>3
<1> QED BY <1>2, <1>4, <1>5

LEMMA RecoverStep ==
    ASSUME IInv, NEW h \in Handle, Recover(h)
    PROVE  IInv'
<1>1. /\ pc[h] = "scan"
      /\ UNCHANGED <<owner, size, closed, rest, batch, acked, snap, tried>>
      /\ index' = [index EXCEPT ![h] = Scan(cache, size[h])]
      /\ pc' = [pc EXCEPT ![h] = "ready"]
      /\ IF owner = h /\ Last(index'[h]) # size[h]
         THEN cache' = Cut(cache, Last(index'[h])) /\ disk' = cache'
         ELSE cache' = cache /\ disk' = disk
  BY DEF Recover, Goto, append, history, file
<1>2. size[h] \in Nat /\ cache \in Bytes
  BY KnownFile DEF IInv, Types
<1>3. PICK rs \in Records : ScanResult(cache, size[h], rs)
  BY <1>2, ScanResults
<1>4. Positions(0, rs) \in Seq(Nat)
  BY PositionsCells
<1>5. Types'
  BY <1>1, <1>3, <1>4 DEF IInv, Types, ScanResult
<1>6. index'[h] = Positions(0, rs) /\ Last(index'[h]) = Len(Packed(rs)) /\ pc'[h] = "ready"
  BY <1>1, <1>3 DEF IInv, Types, ScanResult
<1>7. ASSUME owner = h PROVE Files' /\ \A u \in Handle : Role(u)' /\ Owned(u)'
  <2>1. /\ IsPrefix(acked, rs) /\ Sound(acked, tried, Packed(rs))
        /\ Cut(cache, Len(Packed(rs))) = Packed(rs)
        /\ Len(Packed(rs)) = size[h] => cache = Packed(rs)
    BY <1>1, <1>3, <1>7, OwnerScanned
  <2>2. cache' = Packed(rs) /\ (disk' = cache' \/ disk' = disk)
    BY <1>1, <1>6, <1>7, <2>1, Zenon
  <2>3. Files'
    BY <1>1, <2>1, <2>2, KnownFile DEF Files
  <2>4. Role(h)' /\ Owned(h)'
    BY <1>1, <1>6, <1>7, <2>1, <2>2 DEF Role, Owned
  <2>5. ASSUME NEW u \in Handle, u # h PROVE Role(u)' /\ Owned(u)'
    <3>1. Same(u)
      BY <1>1, <2>5 DEF Same, IInv, Types
    <3> QED BY <1>1, <1>7, <2>5, <3>1, NotOwner
  <2> QED BY <2>3, <2>4, <2>5
<1>8. ASSUME owner # h PROVE Files' /\ \A u \in Handle : Role(u)' /\ Owned(u)'
  <2>1. UNCHANGED <<owner, cache, disk, rest, batch, acked, tried>>
    BY <1>1, <1>8
  <2>2. Files'
    BY <2>1 DEF IInv, Files
  <2>3. Role(h)' /\ Owned(h)'
    BY <1>6, <1>8, <2>1 DEF Role, Owned
  <2>4. ASSUME NEW u \in Handle, u # h PROVE Role(u)' /\ Owned(u)'
    <3>1. Same(u)
      BY <1>1, <2>4 DEF Same, IInv, Types
    <3> QED BY <2>1, <3>1, OwnerAlone
  <2> QED BY <2>2, <2>3, <2>4
<1>9. Viewed(h)'
  <2>1. PICK q : q = Cut(acked, snap[h])
    OBVIOUS
  <2>2. Len(Packed(q)) <= size[h] /\ snap[h] <= Len(acked) /\ snap[h] \in Nat
    BY <1>1, <2>1 DEF IInv, Viewed, Types
  <2>3. q \in Records /\ IsPrefix(q, acked)
    <3>1. snap[h] \in 0..Len(acked)
      BY <2>2, KnownFile
    <3> QED BY <2>1, <3>1, KnownFile, CutCells DEF Records
  <2>4. IsPrefix(Packed(q), cache)
    <3>1. IsPrefix(Packed(q), Packed(acked))
      BY <2>3, KnownFile, PackedPrefix
    <3>2. PICK x, y : x = Packed(q) /\ y = Packed(acked)
      OBVIOUS
    <3>3. /\ x \in Seq(Nat) /\ y \in Seq(Nat) /\ cache \in Seq(Nat)
          /\ IsPrefix(x, y) /\ IsPrefix(y, cache)
      BY <2>3, <3>1, <3>2, KnownFile, PackedBytes DEF Bytes
    <3> QED BY <3>2, <3>3, PrefixTransitive
  <2>5. IsPrefix(q, rs)
    BY <1>3, <2>2, <2>3, <2>4 DEF ScanResult
  <2>6. IsPrefix(Cut(acked', snap'[h]), rs)
    BY <1>1, <2>1, <2>5, Zenon
  <2> QED BY <1>1, <1>6, <2>2, <2>6 DEF Viewed
<1>10. ASSUME NEW u \in Handle, u # h PROVE Viewed(u)'
  <2>1. Same(u) /\ acked' \in Records /\ IsPrefix(acked, acked')
    BY <1>1, <1>10, KnownFile, PrefixReflexive DEF Same, IInv, Types, Records
  <2> QED BY <2>1, OtherViewed
<1> QED BY <1>5, <1>7, <1>8, <1>9, <1>10 DEF IInv

\* What an owner's index delimits are the records it stands for.
LEMMA IndexedRecords ==
    ASSUME NEW h, cache \in Bytes, NEW rs \in Records, IsPrefix(Packed(rs), cache),
           index[h] = Positions(0, rs)
    PROVE  Indexed(h) = rs /\ Last(index[h]) = Len(Packed(rs))
<1>1. PICK ends : ends = index[h]
  OBVIOUS
<1>2. [k \in 1..Len(ends) - 1 |-> PayloadAt(cache, ends[k])] = rs
  BY <1>1, PayloadsFound
<1>3. Indexed(h) = rs
  BY <1>1, <1>2, Zenon DEF Indexed
<1>4. Last(Positions(0, rs)) = 0 + Len(Packed(rs)) /\ Len(Packed(rs)) \in Nat
  BY PositionsCells, PackedLength
<1> QED BY <1>3, <1>4

LEMMA AppendBeginStep ==
    ASSUME IInv, NEW h \in Handle, NEW b \in BoundedSeq(Payload, MaxBatch), AppendBegin(h, b)
    PROVE  IInv'
<1>1. /\ pc[h] = "ready" /\ owner = h /\ ~closed[h]
      /\ UNCHANGED <<cache, disk, owner, size, index, closed, acked, snap>>
      /\ batch' = b /\ rest' = Packed(b) /\ pc' = [pc EXCEPT ![h] = "write"]
      /\ tried' = (IF disk = cache THEN {} ELSE tried)
                    \cup {SubSeq(Indexed(h), Len(acked) + 1, Len(Indexed(h))) \o b}
  BY DEF AppendBegin, Goto, file, handles
<1>2. b \in Records
  <2>1. PICK n \in Nat : b \in [1..n -> Payload]
    BY FrameAssumption DEF BoundedSeq, SeqOf
  <2>2. b \in [1..n -> Bytes]
    BY <2>1, FrameAssumption DEF Bytes
  <2> QED BY <2>2, RowIsSeq DEF Records
<1>3. PICK rs \in Records :
        index[h] = Positions(0, rs) /\ IsPrefix(acked, rs) /\ cache = Packed(rs)
  <2>1. Owned(h)
    BY DEF IInv
  <2> QED BY <1>1, <2>1 DEF Owned
<1>4. IsPrefix(Packed(rs), cache) /\ IsPrefix(cache, Packed(rs))
  BY <1>3, KnownFile, PrefixReflexive DEF Bytes
<1>5. Indexed(h) = rs
  BY <1>3, <1>4, KnownFile, IndexedRecords
<1>6. PICK e, t : e = SubSeq(rs, Len(acked) + 1, Len(rs)) /\ t = e \o b
  OBVIOUS
<1>7. /\ acked \in Seq(Bytes) /\ rs \in Seq(Bytes) /\ b \in Seq(Bytes)
      /\ e \in Seq(Bytes) /\ rs = acked \o e
  <2>1. acked \in Seq(Bytes) /\ rs \in Seq(Bytes) /\ b \in Seq(Bytes)
    BY <1>2, KnownFile DEF Records
  <2>2. rs = acked \o e /\ Len(acked) \in 0..Len(rs)
    BY <1>3, <1>6, <2>1, PrefixIsCut
  <2> QED BY <1>6, <2>1, <2>2, DropCells
<1>8. t \in Records /\ rs \o b = acked \o t
  <2>1. t \in Records
    BY <1>6, <1>7, ConcatProperties DEF Records
  <2>2. (acked \o e) \o b = acked \o (e \o b)
    BY <1>7, ConcatAssociative
  <2> QED BY <1>6, <1>7, <2>1, <2>2
<1>9. tried' = (IF disk = cache THEN {} ELSE tried) \cup {t}
  BY <1>1, <1>5, <1>6, Zenon
<1>10. tried' \subseteq Records /\ t \in tried'
  BY <1>8, <1>9, KnownFile
<1>11. Packed(b) \in Bytes /\ Packed(rs \o b) = Packed(rs) \o Packed(b)
  BY <1>2, PackedBytes, PackedConcat
<1>12. Types'
  BY <1>1, <1>2, <1>10, <1>11 DEF IInv, Types
<1>13. Files'
  <2>1. CASE disk = cache
    <3>1. IsPrefix(cache, Packed(acked \o t))
      <4>1. PICK x, y : x = Packed(rs) /\ y = Packed(b)
        OBVIOUS
      <4>2. IsPrefix(x, x \o y)
        BY <1>11, <4>1, PackedBytes, PrefixConcat DEF Bytes
      <4> QED BY <1>3, <1>8, <1>11, <4>1, <4>2
    <3>2. PICK T : T = tried'
      OBVIOUS
    <3>3. t \in T \cup {<<>>} /\ IsPrefix(Packed(acked), cache)
      BY <1>10, <3>2, KnownFile
    <3>4. Sound(acked, T, cache)
      BY <1>8, <3>1, <3>3, KnownFile, SoundPart
    <3> QED BY <1>1, <2>1, <3>2, <3>4, Zenon DEF Files
  <2>2. CASE disk # cache
    <3>1. PICK T : T = tried'
      OBVIOUS
    <3>2. tried \subseteq T
      BY <1>9, <2>2, <3>1
    <3>3. Sound(acked, T, cache) /\ Sound(acked, T, disk)
      BY <3>2, KnownFile, SoundMore
    <3> QED BY <1>1, <3>1, <3>3, Zenon DEF Files
  <2> QED BY <2>1, <2>2
<1>14. Role(h)' /\ Viewed(h)' /\ Owned(h)'
  <2>1. pc'[h] = "write"
    BY <1>1 DEF IInv, Types
  <2>2. Role(h)'
    BY <1>1, <2>1 DEF Role
  <2>3. Viewed(h)'
    <3>1. Viewed(h)
      BY DEF IInv
    <3> QED BY <1>1, <2>1, <3>1 DEF Viewed
  <2>4. cache' \o rest' = Packed(rs \o batch')
    BY <1>1, <1>3, <1>11
  <2>5. IsPrefix(Packed(rs), cache') /\ rs \o batch' = acked' \o t
    BY <1>1, <1>4, <1>8
  <2> QED BY <1>1, <1>3, <1>10, <2>1, <2>2, <2>3, <2>4, <2>5 DEF Owned
<1>15. ASSUME NEW u \in Handle, u # h PROVE Role(u)' /\ Viewed(u)' /\ Owned(u)'
  <2>1. Same(u) /\ acked' \in Records /\ IsPrefix(acked, acked')
    BY <1>1, <1>15, KnownFile, PrefixReflexive DEF Same, IInv, Types, Records
  <2> QED BY <1>1, <1>15, <2>1, OtherViewed, NotOwner
<1> QED BY <1>12, <1>13, <1>14, <1>15 DEF IInv

\* The records an append in progress starts from.
LEMMA Appending ==
    ASSUME IInv, NEW h \in Handle, pc[h] = "write"
    PROVE  /\ owner = h
           /\ \E rs \in Records :
                /\ index[h] = Positions(0, rs) /\ IsPrefix(acked, rs)
                /\ IsPrefix(Packed(rs), cache) /\ cache \o rest = Packed(rs \o batch)
                /\ \E t \in tried : rs \o batch = acked \o t
                /\ Indexed(h) = rs /\ Last(index[h]) = Len(Packed(rs))
<1>1. Role(h) /\ Owned(h) /\ cache \in Bytes
  BY KnownFile DEF IInv
<1>2. owner = h
  BY <1>1 DEF Role
<1>3. PICK rs \in Records :
         /\ index[h] = Positions(0, rs) /\ IsPrefix(acked, rs)
         /\ IsPrefix(Packed(rs), cache) /\ cache \o rest = Packed(rs \o batch)
         /\ \E t \in tried : rs \o batch = acked \o t
  BY <1>1, <1>2 DEF Owned
<1>4. Indexed(h) = rs /\ Last(index[h]) = Len(Packed(rs))
  BY <1>1, <1>3, IndexedRecords
<1> QED BY <1>2, <1>3, <1>4

LEMMA WriteStep ==
    ASSUME IInv, NEW h \in Handle, NEW n \in 1..MaxBytes, Write(h, n)
    PROVE  IInv'
<1>1. /\ pc[h] = "write" /\ n <= Len(rest)
      /\ cache' = cache \o Cut(rest, n) /\ rest' = SubSeq(rest, n + 1, Len(rest))
      /\ UNCHANGED <<disk, owner, pc, size, index, closed, batch, acked, snap, tried>>
  BY DEF Write, handles, history
<1>2. /\ owner = h
      /\ \E rs \in Records :
           /\ index[h] = Positions(0, rs) /\ IsPrefix(acked, rs)
           /\ IsPrefix(Packed(rs), cache) /\ cache \o rest = Packed(rs \o batch)
           /\ \E t \in tried : rs \o batch = acked \o t
  BY <1>1, Appending
<1>3. PICK rs \in Records :
        /\ index[h] = Positions(0, rs) /\ IsPrefix(acked, rs)
        /\ IsPrefix(Packed(rs), cache) /\ cache \o rest = Packed(rs \o batch)
        /\ \E t \in tried : rs \o batch = acked \o t
  BY <1>2
<1>4. PICK t \in tried : rs \o batch = acked \o t
  BY <1>3
<1>5. PICK c, r : c = cache \o Cut(rest, n) /\ r = SubSeq(rest, n + 1, Len(rest))
  OBVIOUS
<1>6. /\ rest \in Seq(Nat) /\ cache \in Seq(Nat) /\ Cut(rest, n) \in Seq(Nat)
      /\ r \in Seq(Nat) /\ rest = Cut(rest, n) \o r
  <2>1. rest \in Seq(Nat) /\ cache \in Seq(Nat)
    BY KnownFile DEF IInv, Types, Bytes
  <2>2. n \in 0..Len(rest)
    BY <1>1, <2>1, FrameAssumption
  <2> QED BY <1>5, <2>1, <2>2, CutCells, DropCells, CutAndDrop
<1>7. c \in Seq(Nat) /\ c \o r = cache \o rest /\ IsPrefix(cache, c) /\ IsPrefix(c, c \o r)
  <2>1. c \in Seq(Nat) /\ IsPrefix(cache, c)
    BY <1>5, <1>6, ConcatProperties, PrefixConcat
  <2>2. (cache \o Cut(rest, n)) \o r = cache \o (Cut(rest, n) \o r)
    <3>1. Cut(rest, n) \in Bytes /\ r \in Bytes /\ cache \in Bytes
      BY <1>6 DEF Bytes
    <3>2. PICK w : w = Cut(rest, n)
      OBVIOUS
    <3>3. (cache \o w) \o r = cache \o (w \o r)
      BY <3>1, <3>2, BytesAssociative, Zenon DEF Regrouped
    <3> QED BY <3>2, <3>3
  <2>3. IsPrefix(c, c \o r)
    BY <1>6, <2>1, PrefixConcat
  <2> QED BY <1>5, <1>6, <2>1, <2>2, <2>3
<1>8. Types'
  BY <1>1, <1>5, <1>6 DEF IInv, Types, Bytes
<1>9. IsPrefix(Packed(acked), c) /\ IsPrefix(Packed(rs), c)
  <2>1. PICK x, y : x = Packed(acked) /\ y = Packed(rs)
    OBVIOUS
  <2>2. x \in Seq(Nat) /\ y \in Seq(Nat) /\ IsPrefix(x, cache) /\ IsPrefix(y, cache)
    BY <1>3, <2>1, KnownFile, PackedBytes DEF Bytes
  <2>3. IsPrefix(x, c) /\ IsPrefix(y, c)
    BY <1>6, <1>7, <2>2, PrefixTransitive
  <2> QED BY <2>1, <2>3
<1>10. Sound(acked, tried, c)
  <2>1. IsPrefix(c, Packed(acked \o t)) /\ c \in Bytes /\ t \in Records
    BY <1>3, <1>4, <1>7, KnownFile DEF Bytes
  <2> QED BY <1>9, <2>1, KnownFile, SoundPart
<1>11. Files'
  BY <1>1, <1>5, <1>10, KnownFile, Zenon DEF Files
<1>12. Role(h)' /\ Viewed(h)' /\ Owned(h)'
  <2>1. Role(h)'
    BY <1>1, <1>2 DEF Role
  <2>2. Viewed(h) => Viewed(h)'
    BY <1>1 DEF Viewed
  <2>3. cache' \o rest' = Packed(rs \o batch) /\ IsPrefix(Packed(rs), cache')
    BY <1>1, <1>3, <1>5, <1>7, <1>9
  <2>4. Owned(h)'
    BY <1>1, <1>3, <2>3 DEF Owned
  <2> QED BY <2>1, <2>2, <2>4 DEF IInv
<1>13. ASSUME NEW u \in Handle, u # h PROVE Role(u)' /\ Viewed(u)' /\ Owned(u)'
  <2>1. Same(u) /\ acked' \in Records /\ IsPrefix(acked, acked')
    BY <1>1, KnownFile, PrefixReflexive DEF Same, Records
  <2> QED BY <1>1, <1>2, <1>13, <2>1, OtherViewed, NotOwner
<1> QED BY <1>8, <1>11, <1>12, <1>13 DEF IInv

LEMMA PublishStep ==
    ASSUME IInv, NEW h \in Handle, Publish(h)
    PROVE  IInv'
<1>1. /\ pc[h] = "write" /\ rest = <<>>
      /\ index' = [index EXCEPT ![h] =
           FoldLeft(LAMBDA ends, p : Append(ends, Last(ends) + Len(PackFrame(p))), @, batch)]
      /\ acked' = Indexed(h) \o batch /\ snap' = [snap EXCEPT ![h] = Len(acked')]
      /\ tried' = {} /\ batch' = <<>> /\ disk' = cache
      /\ pc' = [pc EXCEPT ![h] = "ready"]
      /\ UNCHANGED <<cache, owner, size, closed, rest>>
  BY DEF Publish, Goto
<1>2. PICK rs \in Records :
        /\ owner = h /\ index[h] = Positions(0, rs) /\ IsPrefix(acked, rs)
        /\ cache \o rest = Packed(rs \o batch) /\ Indexed(h) = rs
  BY <1>1, Appending
<1>3. PICK a : a = rs \o batch
  OBVIOUS
<1>4. a \in Records /\ a \in Seq(Bytes) /\ acked \in Seq(Bytes) /\ IsPrefix(acked, a)
  <2>1. rs \in Seq(Bytes) /\ batch \in Seq(Bytes) /\ acked \in Seq(Bytes)
    BY DEF IInv, Types, Records
  <2>2. a \in Seq(Bytes) /\ IsPrefix(rs, a)
    BY <1>3, <2>1, ConcatProperties, PrefixConcat
  <2>3. IsPrefix(acked, a)
    BY <1>2, <2>1, <2>2, PrefixTransitive
  <2> QED BY <2>1, <2>2, <2>3 DEF Records
<1>5. acked' = a /\ cache = Packed(a)
  <2>1. cache \o <<>> = cache
    BY KnownFile, ConcatEmptySeq DEF Bytes
  <2> QED BY <1>1, <1>2, <1>3, <2>1
<1>6. index'[h] = Positions(0, a) /\ Positions(0, a) \in Seq(Nat)
  <2>1. PICK base, b : base = index[h] /\ b = batch
    OBVIOUS
  <2>2. b \in Records
    BY <2>1 DEF IInv, Types
  <2>3. FoldLeft(LAMBDA ends, p : Append(ends, Last(ends) + Len(PackFrame(p))), base, b)
          = Positions(0, rs \o b)
    BY <1>2, <2>1, <2>2, AppendedPositions
  <2>4. index'[h] =
          FoldLeft(LAMBDA ends, p : Append(ends, Last(ends) + Len(PackFrame(p))), base, b)
    BY <1>1, <2>1 DEF IInv, Types
  <2> QED BY <1>3, <1>4, <2>1, <2>3, <2>4, PositionsCells
<1>7. index' \in [Handle -> Seq(Nat)]
  BY <1>1, <1>6 DEF IInv, Types
<1>8. Types'
  <2>1. <<>> \in Records /\ Len(a) \in Nat
    BY <1>4, EmptySeq DEF Records
  <2> QED BY <1>1, <1>4, <1>5, <1>7, <2>1 DEF IInv, Types
<1>9. Files'
  <2>1. <<>> \in {} \cup {<<>>} /\ <<>> \in Records /\ a \o <<>> = a
    BY <1>4, EmptySeq, ConcatEmptySeq DEF Records
  <2>2. IsPrefix(Packed(a), cache) /\ IsPrefix(cache, Packed(a \o <<>>))
    BY <1>5, <2>1, KnownFile, PrefixReflexive DEF Bytes
  <2>3. Sound(a, {}, cache)
    BY <1>4, <2>1, <2>2, KnownFile, SoundPart
  <2> QED BY <1>1, <1>5, <2>3, Zenon DEF Files
<1>10. Role(h)' /\ Viewed(h)' /\ Owned(h)'
  <2>1. pc'[h] = "ready" /\ snap'[h] = Len(a)
    BY <1>1, <1>5 DEF IInv, Types
  <2>2. Cut(a, Len(a)) = a /\ IsPrefix(a, a) /\ Len(a) \in Nat
    BY <1>4, CutWhole, PrefixReflexive
  <2>3. Role(h)'
    BY <1>2, <2>1 DEF Role
  <2>4. Viewed(h)'
    <3>1. IsPrefix(Cut(acked', snap'[h]), a) /\ snap'[h] <= Len(acked')
      BY <1>5, <2>1, <2>2
    <3> QED BY <1>4, <1>6, <2>1, <3>1 DEF Viewed
  <2>5. Owned(h)'
    <3>1. IsPrefix(acked', a) /\ cache' = Packed(a)
      BY <1>1, <1>5, <2>2
    <3> QED BY <1>4, <1>6, <2>1, <3>1 DEF Owned
  <2> QED BY <2>3, <2>4, <2>5
<1>11. ASSUME NEW u \in Handle, u # h PROVE Role(u)' /\ Viewed(u)' /\ Owned(u)'
  <2>1. Same(u)
    BY <1>1, <1>11 DEF Same, IInv, Types
  <2>2. acked' \in Records /\ IsPrefix(acked, acked')
    BY <1>4, <1>5
  <2> QED BY <1>1, <1>2, <1>11, <2>1, <2>2, OtherViewed, NotOwner
<1> QED BY <1>8, <1>9, <1>10, <1>11 DEF IInv

LEMMA FailStep ==
    ASSUME IInv, NEW h \in Handle, Fail(h)
    PROVE  IInv'
<1>1. /\ pc[h] = "write" /\ rest' = <<>> /\ batch' = <<>>
      /\ pc' = [pc EXCEPT ![h] = "ready"]
      /\ UNCHANGED <<owner, size, index, acked, snap, tried>>
  BY DEF Fail, Goto, history
<1>2. PICK rs \in Records :
        /\ owner = h /\ index[h] = Positions(0, rs) /\ IsPrefix(acked, rs)
        /\ IsPrefix(Packed(rs), cache) /\ Last(index[h]) = Len(Packed(rs))
  BY <1>1, Appending
<1>3. Cut(cache, Last(index[h])) = Packed(rs) /\ Sound(acked, tried, Packed(rs))
  BY <1>2, KnownFile, SoundCutBack
<1>4. \/ cache' = Packed(rs) /\ disk' = cache' /\ closed' = closed
      \/ /\ cache' \in {cache, Packed(rs)} /\ closed' = [closed EXCEPT ![h] = TRUE]
         /\ disk' = disk \/ disk' \in Images(disk, cache)
  BY <1>3 DEF Fail
<1>5. pc'[h] = "ready"
  BY <1>1 DEF IInv, Types
<1>6. Types'
  <2>1. <<>> \in Records /\ <<>> \in Bytes
    BY EmptySeq DEF Records, Bytes
  <2> QED BY <1>1, <1>4, <2>1 DEF IInv, Types
<1>7. Files'
  <2>1. Sound(acked, tried, cache')
    BY <1>3, <1>4, KnownFile
  <2>2. Sound(acked, tried, disk')
    <3>1. PICK d : d = disk'
      OBVIOUS
    <3>2. ASSUME d \in Images(disk, cache) PROVE Sound(acked, tried, d)
      BY <3>2, KnownFile, SoundImages
    <3> QED BY <1>3, <1>4, <3>1, <3>2, KnownFile
  <2> QED BY <1>1, <2>1, <2>2, Zenon DEF Files
<1>8. Role(h)' /\ Viewed(h)' /\ Owned(h)'
  <2>1. Role(h)'
    BY <1>1, <1>2, <1>5 DEF Role
  <2>2. Viewed(h)'
    <3>1. Viewed(h)
      BY DEF IInv
    <3> QED BY <1>1, <1>5, <3>1 DEF Viewed
  <2>3. closed'[h] \/ cache' = Packed(rs)
    BY <1>4 DEF IInv, Types
  <2> QED BY <1>1, <1>2, <1>5, <2>1, <2>2, <2>3 DEF Owned
<1>9. ASSUME NEW u \in Handle, u # h PROVE Role(u)' /\ Viewed(u)' /\ Owned(u)'
  <2>1. Same(u) /\ acked' \in Records /\ IsPrefix(acked, acked')
    <3>1. closed'[u] = closed[u]
      BY <1>4, <1>9 DEF IInv, Types
    <3> QED BY <1>1, <1>9, <3>1, KnownFile, PrefixReflexive DEF Same, IInv, Types, Records
  <2> QED BY <1>1, <1>2, <1>9, <2>1, OtherViewed, NotOwner
<1> QED BY <1>6, <1>7, <1>8, <1>9 DEF IInv

LEMMA ExitStep ==
    ASSUME IInv, NEW h \in Handle, Exit(h)
    PROVE  IInv'
<1>1. /\ UNCHANGED <<cache, disk, acked, tried>>
      /\ IF owner = h THEN owner' = NoHandle /\ rest' = <<>> /\ batch' = <<>>
                      ELSE owner' = owner /\ rest' = rest /\ batch' = batch
  BY DEF Exit, file
<1>2. /\ pc' = [u \in Handle |-> IF u \in {h} THEN "gone" ELSE pc[u]]
      /\ size' = [u \in Handle |-> IF u \in {h} THEN 0 ELSE size[u]]
      /\ index' = [u \in Handle |-> IF u \in {h} THEN <<0>> ELSE index[u]]
      /\ closed' = [u \in Handle |-> u \notin {h} /\ closed[u]]
      /\ snap' = [u \in Handle |-> IF u \in {h} THEN 0 ELSE snap[u]]
  BY DEF Exit, Forget
<1>3. Types'
  <2>1. <<>> \in Records /\ <<>> \in Bytes
    BY EmptySeq DEF Records, Bytes
  <2>2. rest' \in Bytes /\ batch' \in Records /\ owner' \in Handle \cup {NoHandle}
    BY <1>1, <2>1 DEF IInv, Types
  <2> QED BY <1>1, <1>2, <2>2 DEF IInv, Types
<1>4. Files'
  BY <1>1 DEF IInv, Files
<1>5. Role(h)' /\ Viewed(h)' /\ Owned(h)'
  <2>1. pc'[h] = "gone" /\ snap'[h] = 0 /\ acked' \in Records
    BY <1>1, <1>2, KnownFile
  <2>2. owner' # h
    BY <1>1, FrameAssumption
  <2> QED BY <2>1, <2>2, GoneHandle
<1>6. ASSUME NEW u \in Handle, u # h PROVE Role(u)' /\ Viewed(u)' /\ Owned(u)'
  <2>1. Same(u) /\ acked' \in Records /\ IsPrefix(acked, acked')
    <3>1. closed'[u] = closed[u]
      BY <1>2, <1>6 DEF IInv, Types
    <3> QED BY <1>1, <1>2, <1>6, <3>1, KnownFile, PrefixReflexive DEF Same, Records
  <2>2. CASE owner = h
    <3>1. owner # u /\ owner' # u
      BY <1>1, <1>6, <2>2, FrameAssumption
    <3> QED BY <2>1, <3>1, OtherViewed, NotOwner
  <2>3. CASE owner # h
    BY <1>1, <2>1, <2>3, OtherViewed, OwnerAlone
  <2> QED BY <2>2, <2>3
<1> QED BY <1>3, <1>4, <1>5, <1>6 DEF IInv

LEMMA PowerLossStep ==
    ASSUME IInv, PowerLoss
    PROVE  IInv'
<1>1. /\ cache' \in Images(disk, cache) /\ disk' = cache'
      /\ owner' = NoHandle /\ rest' = <<>> /\ batch' = <<>>
      /\ UNCHANGED <<acked, tried>>
      /\ pc' = [u \in Handle |-> IF u \in Handle THEN "gone" ELSE pc[u]]
      /\ size' = [u \in Handle |-> IF u \in Handle THEN 0 ELSE size[u]]
      /\ index' = [u \in Handle |-> IF u \in Handle THEN <<0>> ELSE index[u]]
      /\ closed' = [u \in Handle |-> u \notin Handle /\ closed[u]]
      /\ snap' = [u \in Handle |-> IF u \in Handle THEN 0 ELSE snap[u]]
  BY DEF PowerLoss, Forget
<1>2. Types'
  <2>1. <<>> \in Records /\ <<>> \in Bytes
    BY EmptySeq DEF Records, Bytes
  <2> QED BY <1>1, <2>1, KnownFile DEF Types
<1>3. Files'
  <2>1. PICK c : c = cache'
    OBVIOUS
  <2>2. Sound(acked, tried, c)
    BY <1>1, <2>1, KnownFile, SoundImages
  <2> QED BY <1>1, <2>1, <2>2, Zenon DEF Files
<1>4. ASSUME NEW u \in Handle PROVE Role(u)' /\ Viewed(u)' /\ Owned(u)'
  <2>1. pc'[u] = "gone" /\ snap'[u] = 0 /\ owner' # u /\ acked' \in Records
    BY <1>1, KnownFile, FrameAssumption
  <2> QED BY <2>1, GoneHandle
<1> QED BY <1>2, <1>3, <1>4 DEF IInv

LEMMA Inductive == IInv /\ [Next]_vars => IInv'
<1> SUFFICES ASSUME IInv, [Next]_vars PROVE IInv'
  OBVIOUS
<1>1. CASE UNCHANGED vars
  BY <1>1 DEF vars, IInv, Types, Files, Role, Viewed, Owned
<1>2. ASSUME NEW h \in Handle, Open(h) PROVE IInv'
  BY <1>2, OpenStep
<1>3. ASSUME NEW h \in Handle, Recover(h) PROVE IInv'
  BY <1>3, RecoverStep
<1>4. ASSUME NEW h \in Handle, Publish(h) PROVE IInv'
  BY <1>4, PublishStep
<1>5. ASSUME NEW h \in Handle, Fail(h) PROVE IInv'
  BY <1>5, FailStep
<1>6. ASSUME NEW h \in Handle, Exit(h) PROVE IInv'
  BY <1>6, ExitStep
<1>7. ASSUME NEW h \in Handle, NEW b \in BoundedSeq(Payload, MaxBatch), AppendBegin(h, b)
      PROVE  IInv'
  BY <1>7, AppendBeginStep
<1>8. ASSUME NEW h \in Handle, NEW n \in 1..MaxBytes, Write(h, n) PROVE IInv'
  BY <1>8, WriteStep
<1>9. CASE PowerLoss
  BY <1>9, PowerLossStep
<1> QED BY <1>1, <1>2, <1>3, <1>4, <1>5, <1>6, <1>7, <1>8, <1>9 DEF Next

LEMMA Invariance == Spec => []IInv
<1>1. Init => IInv
  BY Initially
<1>2. IInv /\ [Next]_vars => IInv'
  BY Inductive
<1> QED BY <1>1, <1>2, PTL DEF Spec

-----------------------------------------------------------------------------
(* The scan, the owner's index and the snapshots of the other handles.     *)

\* A scan finds the frames that the bytes begin with, and misses none.
THEOREM ScanFindsFrames == Spec => []ScanIsReference
<1>1. IInv => ScanIsReference
  <2> SUFFICES ASSUME IInv PROVE ScanIsReference
    OBVIOUS
  <2>1. /\ Frames(cache) \in Records /\ IsPrefix(Packed(Frames(cache)), cache)
        /\ \A qs \in Records : IsPrefix(Packed(qs), cache) => IsPrefix(qs, Frames(cache))
    BY KnownFile, FramesFound
  <2>2. ASSUME NEW i \in 1..Len(cache) + 1, NEW j \in 0..Len(cache)
        PROVE  ~IsPrefix(Packed(Append(Frames(cache), SubSeq(cache, i, j))), cache)
    <3>1. PICK found, p : found = Frames(cache) /\ p = SubSeq(cache, i, j)
      OBVIOUS
    <3>2. p \in Bytes
      <4>1. cache \in Seq(Nat)
        BY KnownFile DEF Bytes
      <4>2. SubSeq(cache, i, j) \in Seq(Nat)
        BY <4>1, SubSeqProperties
      <4> QED BY <3>1, <4>2 DEF Bytes
    <3>3. Append(found, p) \in Records /\ ~IsPrefix(Append(found, p), found)
      <4>1. /\ found \in Seq(Bytes) /\ Append(found, p) \in Seq(Bytes)
            /\ Len(Append(found, p)) = Len(found) + 1 /\ Len(found) \in Nat
        BY <2>1, <3>1, <3>2, AppendProperties DEF Records
      <4>2. ASSUME IsPrefix(Append(found, p), found) PROVE FALSE
        <5>1. Len(Append(found, p)) \in 0..Len(found)
          BY <4>1, <4>2, PrefixIsCut
        <5> QED BY <4>1, <5>1
      <4> QED BY <4>1, <4>2 DEF Records
    <3> QED BY <2>1, <3>1, <3>3
  <2> DEFINE found == Frames(cache)
             parts == {SubSeq(cache, i, j) : i \in 1..Len(cache) + 1, j \in 0..Len(cache)}
  <2>3. ASSUME NEW p \in parts
        PROVE  ~IsPrefix(Packed(Append(found, p)), cache)
    <3>1. PICK i \in 1..Len(cache) + 1, j \in 0..Len(cache) : p = SubSeq(cache, i, j)
      OBVIOUS
    <3> QED BY <2>2, <3>1
  <2>4. ScanIsReference <=>
          IsPrefix(Packed(found), cache)
            /\ \A p \in parts : ~IsPrefix(Packed(Append(found, p)), cache)
    BY DEF ScanIsReference
  <2> HIDE DEF parts
  <2> QED BY <2>1, <2>3, <2>4
<1> QED BY <1>1, Invariance, PTL

\* The index of an owner that accepts appends is what a new scan would build.
THEOREM OwnersIndexIsExact == Spec => []OwnerIndexExact
<1>1. IInv => OwnerIndexExact
  <2> SUFFICES ASSUME IInv, NEW h \in Handle, owner = h, pc[h] = "ready", ~closed[h]
               PROVE  index[h] = Scan(cache, Len(cache)) /\ Last(index[h]) = Len(cache)
    BY DEF OwnerIndexExact
  <2>1. PICK rs \in Records : index[h] = Positions(0, rs) /\ cache = Packed(rs)
    BY DEF IInv, Owned
  <2>2. Scan(Packed(rs), Len(Packed(rs))) = Positions(0, rs)
    BY FramesOfPacked
  <2>3. Last(Positions(0, rs)) = 0 + Len(Packed(rs)) /\ Len(Packed(rs)) \in Nat
    BY PositionsCells, PackedLength
  <2> QED BY <2>1, <2>2, <2>3
<1> QED BY <1>1, Invariance, PTL

\* Between the ends of two prefixes lies what the longer one has more.
LEMMA MiddleOfPrefix ==
    ASSUME NEW S, NEW p \in Seq(S), NEW m \in Seq(S), NEW f \in Seq(S), IsPrefix(p \o m, f)
    PROVE  SubSeq(f, Len(p) + 1, Len(p) + Len(m)) = m /\ Len(p) + Len(m) <= Len(f)
<1>1. /\ p \o m \in Seq(S) /\ Len(p \o m) = Len(p) + Len(m)
      /\ Len(p) \in Nat /\ Len(m) \in Nat /\ Len(f) \in Nat
  BY ConcatProperties
<1>2. \A i \in 1..Len(m) : (p \o m)[Len(p) + i] = m[i]
  <2> SUFFICES ASSUME NEW i \in 1..Len(m) PROVE (p \o m)[Len(p) + i] = m[i]
    OBVIOUS
  <2>1. Len(p) + i \in 1..Len(p) + Len(m) /\ ~(Len(p) + i <= Len(p)) /\ Len(p) + i - Len(p) = i
    BY <1>1
  <2> QED BY <2>1, ConcatProperties
<1>3. PICK w : w = p \o m
  OBVIOUS
<1>4. Len(w) <= Len(f) /\ \A i \in 1..Len(w) : w[i] = f[i]
  <2>1. w \in Seq(S) /\ IsPrefix(w, f)
    BY <1>1, <1>3
  <2> QED BY <2>1, PrefixCells
<1>5. PICK u : u = SubSeq(f, Len(p) + 1, Len(p) + Len(m))
  OBVIOUS
<1>6. u \in Seq(S) /\ Len(u) = Len(m) /\ \A i \in 1..Len(m) : u[i] = f[Len(p) + i]
  <2>1. Len(p) + Len(m) <= Len(f)
    BY <1>1, <1>3, <1>4
  <2> QED BY <1>1, <1>5, <2>1, SpanCells
<1>7. \A i \in 1..Len(m) : u[i] = m[i]
  <2> SUFFICES ASSUME NEW i \in 1..Len(m) PROVE u[i] = m[i]
    OBVIOUS
  <2>1. Len(p) + i \in 1..Len(w)
    BY <1>1, <1>3
  <2> QED BY <1>2, <1>3, <1>4, <1>6, <2>1
<1>8. u = m
  BY <1>6, <1>7, SeqEqual
<1> QED BY <1>1, <1>3, <1>4, <1>5, <1>8

LEMMA CutMiddle ==
    ASSUME NEW S, NEW t \in Seq(S), NEW o \in Nat, NEW e \in Nat, o <= e, e <= Len(t)
    PROVE  /\ Cut(t, e) = Cut(t, o) \o SubSeq(t, o + 1, e)
           /\ SubSeq(t, o + 1, e) \in Seq(S) /\ Len(SubSeq(t, o + 1, e)) = e - o
<1>1. Len(t) \in Nat /\ o \in 0..Len(t) /\ e \in 0..Len(t)
  OBVIOUS
<1>2. PICK n \in Nat : n = e - o /\ e = o + n
  OBVIOUS
<1>3. PICK a, m, b : a = Cut(t, o) /\ m = SubSeq(t, o + 1, e) /\ b = Cut(t, e)
  OBVIOUS
<1>4. a \in Seq(S) /\ Len(a) = o /\ \A i \in 1..o : a[i] = t[i]
  BY <1>1, <1>3, CutCells
<1>5. m \in Seq(S) /\ Len(m) = n /\ \A i \in 1..n : m[i] = t[o + i]
  BY <1>1, <1>2, <1>3, SpanCells
<1>6. b \in Seq(S) /\ Len(b) = o + n /\ \A i \in 1..o + n : b[i] = t[i]
  BY <1>1, <1>2, <1>3, CutCells
<1>7. /\ a \o m \in Seq(S) /\ Len(a \o m) = o + n
      /\ \A i \in 1..o + n : (a \o m)[i] = IF i <= o THEN a[i] ELSE m[i - o]
  BY <1>4, <1>5, ConcatProperties
<1>8. \A i \in 1..o + n : (a \o m)[i] = b[i]
  <2> SUFFICES ASSUME NEW i \in 1..o + n PROVE (a \o m)[i] = b[i]
    OBVIOUS
  <2>1. CASE i <= o
    <3>1. i \in 1..o
      BY <2>1
    <3> QED BY <1>4, <1>6, <1>7, <2>1, <3>1
  <2>2. CASE ~(i <= o)
    <3>1. i - o \in 1..n /\ o + (i - o) = i
      BY <2>2
    <3> QED BY <1>5, <1>6, <1>7, <2>2, <3>1
  <2> QED BY <2>1, <2>2
<1>9. a \o m = b
  BY <1>6, <1>7, <1>8, SeqEqual
<1> QED BY <1>2, <1>3, <1>5, <1>9

\* A handle reads back, for any range, the records acknowledged when it opened.
THEOREM SnapshotsAreReadable == Spec => []SnapshotReadable
<1>1. IInv => SnapshotReadable
  <2> SUFFICES ASSUME IInv, NEW h \in Handle, NEW o \in 0..snap[h], NEW e \in 0..snap[h],
                      pc[h] \in {"ready", "write"}, o < e
               PROVE  Read(h, o, e) = [ok |-> TRUE, records |-> SubSeq(acked, o + 1, e)]
    BY Zenon DEF SnapshotReadable
  <2>1. snap[h] <= Len(acked) /\ snap[h] \in Nat /\ Len(acked) \in Nat
    BY KnownFile DEF IInv, Viewed, Types
  <2>2. PICK rs \in Records : index[h] = Positions(0, rs) /\ IsPrefix(Cut(acked, snap[h]), rs)
    BY DEF IInv, Viewed
  <2>3. o \in Nat /\ e \in Nat /\ o <= e /\ e <= Len(acked) /\ snap[h] \in 0..Len(acked)
    BY <2>1
  <2>4. ASSUME NEW k \in 0..snap[h]
        PROVE  index[h][k + 1] = Len(Packed(Cut(acked, k)))
    <3>1. PICK q : q = Cut(acked, snap[h])
      OBVIOUS
    <3>2. q \in Seq(Bytes) /\ Len(q) = snap[h] /\ IsPrefix(q, rs) /\ rs \in Seq(Bytes)
      BY <2>2, <2>3, <3>1, KnownFile, CutCells DEF Records
    <3>3. Cut(rs, k) = Cut(q, k)
      BY <3>2, CutOfPrefix
    <3>4. Cut(q, k) = Cut(acked, k)
      BY <2>3, <3>1, KnownFile, CutOfCut DEF Records
    <3>5. k \in 0..Len(rs)
      <4>1. Len(q) \in 0..Len(rs) /\ Len(rs) \in Nat
        BY <3>2, PrefixIsCut
      <4> QED BY <2>1, <3>2, <4>1
    <3>6. Positions(0, rs)[k + 1] = 0 + Len(Packed(Cut(rs, k))) /\ Cut(rs, k) \in Records
      BY <3>5, PositionsCells
    <3>7. Len(Packed(Cut(rs, k))) \in Nat
      BY <3>6, PackedLength
    <3> QED BY <2>2, <3>3, <3>4, <3>6, <3>7
  <2>5. PICK low, mid, high : low = Cut(acked, o) /\ mid = SubSeq(acked, o + 1, e)
                              /\ high = Cut(acked, e)
    OBVIOUS
  <2>6. /\ low \in Records /\ mid \in Records /\ high \in Records
        /\ high = low \o mid /\ Len(mid) = e - o /\ IsPrefix(high, acked)
    <3>1. o \in 0..Len(acked) /\ e \in 0..Len(acked) /\ acked \in Seq(Bytes)
      BY <2>1, <2>3, KnownFile DEF Records
    <3>2. low \in Seq(Bytes) /\ high \in Seq(Bytes) /\ IsPrefix(high, acked)
      BY <2>5, <3>1, CutCells
    <3>3. high = low \o mid /\ mid \in Seq(Bytes) /\ Len(mid) = e - o
      BY <2>3, <2>5, <3>1, CutMiddle
    <3> QED BY <3>2, <3>3 DEF Records
  <2>7. PICK x, y : x = Packed(low) /\ y = Packed(mid)
    OBVIOUS
  <2>8. /\ x \in Seq(Nat) /\ y \in Seq(Nat) /\ cache \in Seq(Nat)
        /\ Packed(high) = x \o y /\ IsPrefix(x \o y, cache)
        /\ Len(Packed(high)) = Len(x) + Len(y)
    <3>1. x \in Seq(Nat) /\ y \in Seq(Nat) /\ cache \in Seq(Nat) /\ Packed(acked) \in Seq(Nat)
      BY <2>6, <2>7, KnownFile, PackedBytes DEF Bytes
    <3>2. Packed(high) = x \o y
      BY <2>6, <2>7, PackedConcat
    <3>3. x \o y \in Seq(Nat) /\ Len(x \o y) = Len(x) + Len(y)
      BY <3>1, ConcatProperties
    <3>4. IsPrefix(x \o y, Packed(acked))
      <4>1. high \in Records /\ IsPrefix(high, acked) /\ acked \in Records
        BY <2>6, KnownFile
      <4>2. IsPrefix(Packed(high), Packed(acked))
        BY <4>1, PackedPrefix
      <4> QED BY <3>2, <4>2
    <3>5. PICK w, v : w = x \o y /\ v = Packed(acked)
      OBVIOUS
    <3>6. IsPrefix(w, cache)
      BY <3>1, <3>3, <3>4, <3>5, KnownFile, PrefixTransitive
    <3> QED BY <3>1, <3>2, <3>3, <3>5, <3>6
  <2>9. index[h][o + 1] = Len(x) /\ index[h][e + 1] = Len(x) + Len(y)
    BY <2>4, <2>5, <2>7, <2>8
  <2>10. SubSeq(cache, Len(x) + 1, Len(x) + Len(y)) = y /\ Len(x) + Len(y) <= Len(cache)
    BY <2>8, MiddleOfPrefix
  <2>11. Span(cache, Len(x), Len(x) + Len(y)) = y
    <3>1. PICK to : to = Len(x) + Len(y)
      OBVIOUS
    <3>2. to \in Nat /\ Len(cache) \in Nat /\ to <= Len(cache)
      BY <2>8, <2>10, <3>1
    <3>3. (IF to < Len(cache) THEN to ELSE Len(cache)) = to
      BY <3>2
    <3> QED BY <2>10, <3>1, <3>3, Zenon DEF Span
  <2>12. Frames(y) = mid
    BY <2>6, <2>7, FramesOfPacked
  <2>13. Len(mid) = e - o /\ index[h][e + 1] <= Len(cache)
    BY <2>6, <2>9, <2>10
  <2>14. Frames(Span(cache, index[h][o + 1], index[h][e + 1])) = mid
    BY <2>9, <2>11, <2>12
  <2> QED BY <2>5, <2>13, <2>14 DEF Read
<1> QED BY <1>1, Invariance, PTL

-----------------------------------------------------------------------------
(* The bytes implement the abstract log: what a scan of the durable file   *)
(* finds is the log, and only a step that publishes acknowledges.          *)

\* The append that returns has all its records on the disk, and no others.
LEMMA Published ==
    ASSUME IInv, NEW h \in Handle, Publish(h)
    PROVE  acked' \in Records /\ disk' = Packed(acked') /\ IsPrefix(acked, acked')
<1>1. /\ pc[h] = "write" /\ rest = <<>>
      /\ acked' = Indexed(h) \o batch /\ disk' = cache
  BY DEF Publish
<1>2. PICK rs \in Records : /\ cache \o rest = Packed(rs \o batch) /\ Indexed(h) = rs
                             /\ IsPrefix(acked, rs)
  BY <1>1, Appending
<1>3. rs \o batch \in Records /\ IsPrefix(acked, rs \o batch)
  <2>1. rs \in Seq(Bytes) /\ batch \in Seq(Bytes) /\ acked \in Seq(Bytes)
    BY DEF IInv, Types, Records
  <2>2. PICK a : a = rs \o batch
    OBVIOUS
  <2>3. a \in Seq(Bytes) /\ IsPrefix(rs, a)
    BY <2>1, <2>2, ConcatProperties, PrefixConcat
  <2>4. IsPrefix(acked, a)
    BY <1>2, <2>1, <2>3, PrefixTransitive
  <2> QED BY <2>2, <2>3, <2>4 DEF Records
<1>4. cache \o <<>> = cache
  BY KnownFile, ConcatEmptySeq DEF Bytes
<1> QED BY <1>1, <1>2, <1>3, <1>4

LEMMA OnlyPublishAcks ==
    ASSUME [Next]_vars, ~(\E h \in Handle : Publish(h))
    PROVE  acked' = acked
BY DEF Next, vars, Open, Recover, AppendBegin, Write, Fail, Exit, PowerLoss, history

\* Whatever is written, torn, cut back or lost, the records that a reopening would
\* find on the disk are a log that keeps what it acknowledged.
THEOREM FramesImplementLog == Spec => ImplementsLog
<1>1. Init => Log!Init
  <2> SUFFICES ASSUME Init PROVE Log!Init
    OBVIOUS
  <2>1. disk = <<>> /\ acked = <<>> /\ <<>> \in Records
    BY EmptySeq DEF Init, Records
  <2>2. Frames(<<>>) = <<>>
    BY <2>1, PackedEmpty, FramesOfPacked
  <2> QED BY <2>1, <2>2 DEF Log!Init
<1>2. ASSUME IInv, IInv', [Next]_vars PROVE [Log!Next]_(Log!logVars)
  <2>1. Frames(disk)' \in Records /\ IsPrefix(acked', Frames(disk)')
    <3>1. PICK a, d : a = acked' /\ d = disk'
      OBVIOUS
    <3>2. a \in Records /\ d \in Bytes /\ IsPrefix(Packed(a), d)
      BY <1>2, <3>1 DEF IInv, Types, Files, Sound
    <3>3. Frames(d) \in Records /\ IsPrefix(a, Frames(d))
      BY <3>2, FramesFound
    <3> QED BY <3>1, <3>3
  <2>2. CASE \E h \in Handle : Publish(h)
    <3>1. acked' \in Records /\ disk' = Packed(acked') /\ IsPrefix(acked, acked')
      BY <1>2, <2>2, Published
    <3>2. Frames(disk)' = acked'
      <4>1. PICK a, d : a = acked' /\ d = disk'
        OBVIOUS
      <4>2. Frames(d) = a
        BY <3>1, <4>1, FramesOfPacked
      <4> QED BY <4>1, <4>2
    <3> QED BY <2>1, <3>1, <3>2 DEF Log!Next, Log!Ack, Log!IsPrefix, IsPrefix, Records, Bytes
  <2>3. CASE ~(\E h \in Handle : Publish(h))
    <3>1. acked' = acked
      BY <1>2, <2>3, OnlyPublishAcks
    <3>2. Frames(disk)' \in Records /\ IsPrefix(acked, Frames(disk)')
      BY <2>1, <3>1
    <3> QED BY <3>1, <3>2 DEF Log!Next, Log!Churn, Log!IsPrefix, IsPrefix, Records, Bytes
  <2> QED BY <2>2, <2>3
<1> QED
  BY <1>1, <1>2, Invariance, PTL DEF Spec, ImplementsLog, Log!Spec

-----------------------------------------------------------------------------
(* What a recovery adds to the acknowledged records.                       *)

\* A payload whose cells are no greater than those of another, or zero where a
\* tail was lost, does not have its checksum, unless it is the same.
LEMMA CrcOfTornPayload ==
    ASSUME NEW p \in Bytes, NEW r \in Bytes, Len(r) = Len(p), Crc(r) = Crc(p),
           \A i \in 1..Len(p) : r[i] <= p[i]
    PROVE  r = p
<1>0. Len(p) \in Nat /\ p \in Seq(Nat) /\ r \in Seq(Nat)
  BY DEF Bytes
<1>1. PICK c \in [0..Len(p) -> Nat] : c = Running(p, c) /\ Crc(p) = c[Len(p)]
  BY RunningExists
<1>2. PICK d \in [0..Len(r) -> Nat] : d = Running(r, d) /\ Crc(r) = d[Len(r)]
  BY RunningExists
<1>3. c[0] = 0 /\ \A i \in 1..Len(p) : c[i] = 10 * c[i - 1] + p[i] + 1
  <2>1. Running(p, c)[0] = 0 /\ \A i \in 1..Len(p) : Running(p, c)[i] = 10 * c[i - 1] + p[i] + 1
    BY <1>0 DEF Running
  <2> QED BY <1>1, <2>1, Zenon
<1>4. d[0] = 0 /\ \A i \in 1..Len(r) : d[i] = 10 * d[i - 1] + r[i] + 1
  <2>1. Running(r, d)[0] = 0 /\ \A i \in 1..Len(r) : Running(r, d)[i] = 10 * d[i - 1] + r[i] + 1
    BY <1>0 DEF Running
  <2> QED BY <1>2, <2>1, Zenon
<1> DEFINE Squeezed(i) == d[i] <= c[i] /\ (d[i] = c[i] => \A k \in 1..i : r[k] = p[k])
           Q == {i \in Nat : i <= Len(p) => Squeezed(i)}
<1>5. 0 \in Q
  BY <1>3, <1>4
<1>6. ASSUME NEW i \in Nat, i \in Q PROVE i + 1 \in Q
  <2> SUFFICES ASSUME i + 1 <= Len(p) PROVE Squeezed(i + 1)
    OBVIOUS
  <2>1. /\ i + 1 \in 1..Len(p) /\ (i + 1) - 1 = i /\ i \in 0..Len(p) /\ i + 1 \in 0..Len(p)
        /\ c[i] \in Nat /\ d[i] \in Nat /\ p[i + 1] \in Nat /\ r[i + 1] \in Nat
        /\ r[i + 1] <= p[i + 1]
    BY <1>0
  <2>2. c[i + 1] = 10 * c[i] + p[i + 1] + 1 /\ d[i + 1] = 10 * d[i] + r[i + 1] + 1
    BY <1>3, <1>4, <2>1
  <2>3. d[i] <= c[i] /\ (d[i] = c[i] => \A k \in 1..i : r[k] = p[k])
    BY <1>6, <2>1
  <2>4. d[i + 1] <= c[i + 1] /\ (d[i + 1] = c[i + 1] => d[i] = c[i] /\ r[i + 1] = p[i + 1])
    BY <2>1, <2>2, <2>3
  <2>5. \A k \in 1..i + 1 : k \in 1..i \/ k = i + 1
    OBVIOUS
  <2> QED BY <2>3, <2>4, <2>5
<1>7. Nat \subseteq Q
  <2> HIDE DEF Q
  <2> QED BY <1>5, <1>6, AllNaturals
<1>8. \A k \in 1..Len(p) : r[k] = p[k]
  <2>1. Squeezed(Len(p))
    BY <1>0, <1>7
  <2> QED BY <1>1, <1>2, <2>1
<1> QED BY <1>0, <1>8, SeqEqual

\* The bytes g hold the frame of r behind the first n of them.
FrameAt(g, n, r) ==
    /\ r \in Bytes /\ n \in Nat /\ Len(r) \in Nat /\ n + HeaderSize + Len(r) <= Len(g)
    /\ g[n + 1] = Len(r) /\ g[n + 2] = Crc(r)
    /\ \A i \in 1..Len(r) : g[n + HeaderSize + i] = r[i]

\* Where the frame of the k-th record lies among the packed bytes.
LEMMA RecordCells ==
    ASSUME NEW rs \in Records, NEW k \in 1..Len(rs)
    PROVE  FrameAt(Packed(rs), Len(Packed(Cut(rs, k - 1))), rs[k])
<1> DEFINE n == Len(Packed(Cut(rs, k - 1)))
<1> HIDE DEF n
<1>0. rs \in Seq(Bytes) /\ k - 1 \in Nat /\ (k - 1) + 1 = k /\ k \in 0..Len(rs) /\ Len(rs) \in Nat
  BY DEF Records
<1>1. PICK p, low, high : p = rs[k] /\ low = Cut(rs, k - 1) /\ high = Cut(rs, k)
  OBVIOUS
<1>2. p \in Bytes /\ low \in Records /\ high \in Records /\ high = Append(low, p) /\ IsPrefix(high, rs)
  <2>1. high = Append(low, p) /\ low \in Seq(Bytes) /\ p \in Bytes
    BY <1>0, <1>1, CutNext
  <2>2. high \in Seq(Bytes) /\ IsPrefix(high, rs)
    BY <1>0, <1>1, CutCells
  <2> QED BY <2>1, <2>2 DEF Records
<1>3. PICK x, y, w : x = Packed(low) /\ y = PackFrame(p) /\ w = Packed(rs)
  OBVIOUS
<1>4. /\ x \in Seq(Nat) /\ y \in Seq(Nat) /\ w \in Seq(Nat) /\ IsPrefix(x \o y, w)
      /\ Len(x) = n /\ n \in Nat /\ Len(y) = HeaderSize + Len(p) /\ Len(p) \in Nat
  <2>1. Packed(high) = x \o y
    BY <1>2, <1>3, PackedAppend
  <2>2. IsPrefix(Packed(high), w)
    BY <1>2, <1>3, PackedPrefix
  <2>3. x \in Bytes /\ y \in Bytes /\ w \in Bytes /\ Len(y) = HeaderSize + Len(p) /\ p \in Bytes
    BY <1>2, <1>3, PackedBytes, FrameCells
  <2>4. Len(x) = n
    BY <1>1, <1>3 DEF n
  <2> QED BY <2>1, <2>2, <2>3, <2>4 DEF Bytes
<1>5. SubSeq(w, n + 1, n + Len(y)) = y /\ n + Len(y) <= Len(w)
  <2>1. x \in Seq(Nat) /\ y \in Seq(Nat) /\ w \in Seq(Nat) /\ IsPrefix(x \o y, w)
    BY <1>4
  <2>2. SubSeq(w, Len(x) + 1, Len(x) + Len(y)) = y /\ Len(x) + Len(y) <= Len(w)
    BY <2>1, MiddleOfPrefix, Zenon
  <2> QED BY <1>4, <2>2
<1>6. \A i \in 1..Len(y) : w[n + i] = y[i]
  <2>1. PICK m \in Nat : m = Len(y)
    BY <1>4, LenProperties
  <2>2. n \in Nat /\ w \in Seq(Nat) /\ n + m <= Len(w)
    BY <1>4, <1>5, <2>1
  <2>3. \A i \in 1..m : SubSeq(w, n + 1, n + m)[i] = w[n + i]
    BY <2>2, SpanCells
  <2> QED BY <1>5, <2>1, <2>3
<1>7. /\ y[1] = Len(p) /\ y[2] = Crc(p)
      /\ \A i \in 1..Len(p) : y[HeaderSize + i] = p[i]
  BY <1>2, <1>3, FrameCells
<1>8. 1 \in 1..Len(y) /\ 2 \in 1..Len(y) /\ \A i \in 1..Len(p) : HeaderSize + i \in 1..Len(y)
  BY <1>4 DEF HeaderSize
<1>9. w[n + 1] = Len(p) /\ w[n + 2] = Crc(p)
  BY <1>6, <1>7, <1>8
<1>10. \A i \in 1..Len(p) : w[n + HeaderSize + i] = p[i]
  <2> SUFFICES ASSUME NEW i \in 1..Len(p) PROVE w[n + HeaderSize + i] = p[i]
    OBVIOUS
  <2>1. n + (HeaderSize + i) = n + HeaderSize + i
    BY <1>4 DEF HeaderSize
  <2> QED BY <1>6, <1>7, <1>8, <2>1
<1>11. n + HeaderSize + Len(p) <= Len(w)
  BY <1>4, <1>5 DEF HeaderSize
<1>12. FrameAt(w, n, p)
  BY <1>2, <1>4, <1>9, <1>10, <1>11, Zenon DEF FrameAt
<1> QED BY <1>1, <1>3, <1>12, Zenon DEF n

\* Records whose bytes are the beginning of packed records t and zeros are the
\* beginning of t and empty records.
LEMMA TornRecords ==
    ASSUME NEW t \in Records, NEW extra \in Records, NEW j \in 0..Len(Packed(t)), NEW z \in Nat,
           Packed(extra) = Cut(Packed(t), j) \o Zeros(z)
    PROVE  \E k \in 0..Len(t) : /\ IsPrefix(Cut(t, k), extra)
                                /\ \A i \in k + 1..Len(extra) : extra[i] = <<>>
<1>1. PICK x, y, g : x = Packed(t) /\ y = Cut(x, j) /\ g = Packed(extra)
  OBVIOUS
<1>2. /\ x \in Seq(Nat) /\ y \in Seq(Nat) /\ g \in Seq(Nat)
      /\ Len(x) \in Nat /\ Len(g) \in Nat /\ j \in Nat /\ j <= Len(x) /\ Len(y) = j
      /\ IsPrefix(y, x) /\ \A i \in 1..j : y[i] = x[i]
  <2>1. x \in Seq(Nat) /\ g \in Seq(Nat)
    BY <1>1, PackedBytes DEF Bytes
  <2>2. Len(x) \in Nat /\ Len(g) \in Nat /\ j \in 0..Len(x)
    BY <1>1, <2>1
  <2> QED BY <1>1, <2>1, <2>2, CutCells
<1>3. IsPrefix(y, g) /\ (\A i \in 1..j : g[i] = x[i]) /\ \A i \in j + 1..Len(g) : g[i] = 0
  <2>1. PICK o : o = Zeros(z)
    OBVIOUS
  <2>2. o \in Seq(Nat) /\ Len(o) = z /\ \A i \in 1..z : o[i] = 0
    BY <2>1, ZerosAre DEF Bytes
  <2>3. g = y \o o
    BY <1>1, <2>1
  <2>4. Len(g) = j + z /\ \A i \in 1..j + z : g[i] = IF i <= j THEN y[i] ELSE o[i - j]
    <3>1. y \in Seq(Nat) /\ o \in Seq(Nat)
      BY <1>2, <2>2
    <3>2. /\ Len(y \o o) = Len(y) + Len(o)
          /\ \A i \in 1..Len(y) + Len(o) :
               (y \o o)[i] = IF i <= Len(y) THEN y[i] ELSE o[i - Len(y)]
      BY <3>1, ConcatProperties
    <3>3. Len(y) = j /\ Len(o) = z
      BY <1>2, <2>2
    <3> QED BY <2>3, <3>2, <3>3, Zenon
  <2>5. IsPrefix(y, g)
    <3>1. y \in Seq(Nat) /\ o \in Seq(Nat)
      BY <1>2, <2>2
    <3>2. IsPrefix(y, y \o o)
      BY <3>1, PrefixConcat
    <3> QED BY <2>3, <3>2, Zenon
  <2>6. ASSUME NEW i \in 1..j PROVE g[i] = x[i]
    <3>1. i \in 1..j + z /\ i <= j
      BY <1>2
    <3>2. g[i] = y[i]
      BY <2>4, <3>1, Zenon
    <3>3. y[i] = x[i]
      BY <1>2, Zenon
    <3> QED BY <3>2, <3>3, Zenon
  <2>7. ASSUME NEW i \in j + 1..j + z PROVE g[i] = 0
    <3>1. i \in 1..j + z /\ ~(i <= j) /\ i - j \in 1..z
      BY <1>2
    <3> QED BY <2>2, <2>4, <3>1
  <2> QED BY <2>4, <2>5, <2>6, <2>7
<1>4. PICK q \in Records :
        /\ IsPrefix(Packed(q), y)
        /\ \A qs \in Records : IsPrefix(Packed(qs), y) => IsPrefix(qs, q)
  <2>1. y \in Bytes
    BY <1>2 DEF Bytes
  <2> QED BY <2>1, FramesFound
<1>5. PICK k, n : k = Len(q) /\ n = Len(Packed(q))
  OBVIOUS
<1>6. /\ t \in Seq(Bytes) /\ extra \in Seq(Bytes) /\ q \in Seq(Bytes)
      /\ k \in Nat /\ Len(t) \in Nat /\ Len(extra) \in Nat /\ n \in Nat /\ n <= j
  <2>1. PICK w : w = Packed(q)
    OBVIOUS
  <2>2. w \in Seq(Nat) /\ IsPrefix(w, y)
    BY <1>4, <2>1, PackedBytes DEF Bytes
  <2>3. Len(w) \in 0..Len(y)
    BY <1>2, <2>2, PrefixIsCut
  <2> QED BY <1>2, <1>5, <2>1, <2>3 DEF Records
<1>7. IsPrefix(q, t) /\ IsPrefix(q, extra)
  <2>1. PICK w : w = Packed(q)
    OBVIOUS
  <2>2. w \in Seq(Nat) /\ IsPrefix(w, y)
    BY <1>4, <2>1, PackedBytes DEF Bytes
  <2>3. IsPrefix(w, x) /\ IsPrefix(w, g)
    BY <1>2, <1>3, <2>2, PrefixTransitive
  <2> QED BY <1>1, <2>1, <2>3, PackedPrefix
<1>8. q = Cut(t, k) /\ q = Cut(extra, k) /\ k <= Len(t) /\ k <= Len(extra)
  <2>1. q = Cut(t, Len(q)) /\ Len(q) \in 0..Len(t)
    BY <1>6, <1>7, PrefixIsCut
  <2>2. q = Cut(extra, Len(q)) /\ Len(q) \in 0..Len(extra)
    BY <1>6, <1>7, PrefixIsCut
  <2> QED BY <1>5, <1>6, <2>1, <2>2
<1>9. ASSUME NEW i \in k + 2..Len(extra) PROVE extra[i] = <<>>
  <2>1. k + 1 \in 0..Len(extra) /\ i - 1 \in 0..Len(extra) /\ k + 1 <= i - 1 /\ i \in 1..Len(extra)
    BY <1>6
  <2>2. PICK a, b : a = Cut(extra, k + 1) /\ b = Cut(extra, i - 1)
    OBVIOUS
  <2>3. /\ a \in Seq(Bytes) /\ b \in Seq(Bytes) /\ Len(a) = k + 1 /\ Len(b) = i - 1
        /\ IsPrefix(a, extra) /\ IsPrefix(b, extra)
    BY <1>6, <2>1, <2>2, CutCells
  <2>4. a \in Records /\ b \in Records /\ IsPrefix(a, b)
    BY <1>6, <2>1, <2>3, PrefixesNested DEF Records
  <2>5. PICK u, v : u = Packed(a) /\ v = Packed(b)
    OBVIOUS
  <2>6. u \in Seq(Nat) /\ v \in Seq(Nat) /\ IsPrefix(u, v) /\ IsPrefix(u, g)
    <3>1. u \in Seq(Nat) /\ v \in Seq(Nat)
      BY <2>4, <2>5, PackedBytes DEF Bytes
    <3>2. IsPrefix(Packed(a), Packed(b)) /\ IsPrefix(Packed(a), Packed(extra))
      BY <2>3, <2>4, PackedPrefix
    <3> QED BY <1>1, <2>5, <3>1, <3>2
  <2>7. ~IsPrefix(u, y)
    <3>1. ASSUME IsPrefix(a, q) PROVE FALSE
      <4>1. Len(a) \in 0..Len(q)
        BY <1>6, <2>3, <3>1, PrefixIsCut
      <4> QED BY <1>5, <1>6, <2>3, <4>1
    <3> QED BY <1>4, <2>4, <2>5, <3>1
  <2>8. j < Len(u) /\ Len(u) <= Len(v) /\ Len(u) \in Nat /\ Len(v) \in Nat
    <3>1. ASSUME Len(u) <= Len(y) PROVE FALSE
      BY <1>2, <1>3, <2>6, <2>7, <3>1, PrefixesNested
    <3>2. Len(u) \in 0..Len(v)
      BY <2>6, PrefixIsCut
    <3>3. Len(u) \in Nat /\ Len(v) \in Nat
      BY <2>6
    <3> QED BY <1>2, <3>1, <3>2, <3>3
  <2>9. /\ extra[i] \in Bytes /\ Len(extra[i]) \in Nat
        /\ Len(v) + HeaderSize + Len(extra[i]) <= Len(g) /\ g[Len(v) + 1] = Len(extra[i])
    <3>1. FrameAt(Packed(extra), Len(Packed(Cut(extra, i - 1))), extra[i])
      BY <2>1, RecordCells
    <3>2. FrameAt(g, Len(v), extra[i])
      BY <1>1, <2>2, <2>5, <3>1
    <3> QED BY <3>2, Zenon DEF FrameAt
  <2>10. Len(v) + 1 \in j + 1..Len(g)
    <3>1. PICK c, e, m : c = Len(v) /\ e = Len(extra[i]) /\ m = Len(g)
      OBVIOUS
    <3>2. /\ c \in Nat /\ e \in Nat /\ m \in Nat /\ j \in Nat /\ j < c
          /\ c + HeaderSize + e <= m
      BY <1>2, <2>8, <2>9, <3>1
    <3>3. c + 1 \in j + 1..m
      BY <3>2 DEF HeaderSize
    <3> QED BY <3>1, <3>3
  <2>11. Len(extra[i]) = 0
    BY <1>3, <2>9, <2>10
  <2> QED BY <2>9, <2>11, EmptySeq DEF Bytes
<1>10. CASE k = Len(extra) \/ extra[k + 1] = <<>>
  <2>1. \A i \in k + 1..Len(extra) : i = k + 1 \/ i \in k + 2..Len(extra)
    BY <1>6
  <2>2. \A i \in k + 1..Len(extra) : extra[i] = <<>>
    BY <1>6, <1>9, <1>10, <2>1
  <2>3. k \in 0..Len(t) /\ IsPrefix(Cut(t, k), extra)
    BY <1>6, <1>7, <1>8
  <2> QED BY <2>2, <2>3
<1>11. CASE ~(k = Len(extra) \/ extra[k + 1] = <<>>)
  <2>1. PICK r : r = extra[k + 1]
    OBVIOUS
  <2>2. k + 1 \in 1..Len(extra) /\ (k + 1) - 1 = k /\ k \in Nat /\ k + 1 <= Len(extra)
    BY <1>6, <1>8, <1>11
  <2>3. /\ r \in Bytes /\ Len(r) \in Nat /\ n + HeaderSize + Len(r) <= Len(g)
        /\ g[n + 1] = Len(r) /\ g[n + 2] = Crc(r)
        /\ \A i \in 1..Len(r) : g[n + HeaderSize + i] = r[i]
    <3>1. FrameAt(Packed(extra), Len(Packed(Cut(extra, (k + 1) - 1))), extra[k + 1])
      BY <2>2, RecordCells
    <3>2. n = Len(Packed(Cut(extra, (k + 1) - 1)))
      BY <1>5, <1>8, <2>2
    <3>3. FrameAt(g, n, r)
      BY <1>1, <2>1, <3>1, <3>2
    <3> QED BY <3>3, Zenon DEF FrameAt
  <2>4. Len(r) # 0 /\ Crc(r) # 0
    <3>1. r # <<>>
      BY <1>11, <2>1
    <3>2. Len(r) # 0
      BY <2>3, <3>1, EmptySeq DEF Bytes
    <3> QED BY <2>3, <3>1, <3>2, CrcZero
  <2>5. n + 2 <= j
    <3>1. n + 1 \in 1..Len(g) /\ n + 2 \in 1..Len(g)
      <4>1. PICK e, m : e = Len(r) /\ m = Len(g)
        OBVIOUS
      <4>2. e \in Nat /\ m \in Nat /\ n \in Nat /\ n + HeaderSize + e <= m
        BY <1>2, <1>6, <2>3, <4>1
      <4>3. n + 1 \in 1..m /\ n + 2 \in 1..m
        BY <4>2 DEF HeaderSize
      <4> QED BY <4>1, <4>3
    <3>2. n + 1 \notin j + 1..Len(g) /\ n + 2 \notin j + 1..Len(g)
      BY <1>3, <2>3, <2>4
    <3> QED BY <1>2, <1>6, <3>1, <3>2
  <2>6. k + 1 \in 1..Len(t) /\ k + 1 <= Len(t)
    <3>1. ASSUME k = Len(t) PROVE FALSE
      <4>1. q = t
        BY <1>6, <1>8, <3>1, CutWhole
      <4>2. n = Len(x)
        BY <1>1, <1>5, <4>1
      <4> QED BY <1>2, <1>6, <2>5, <4>2
    <3> QED BY <1>6, <1>8, <3>1
  <2>7. PICK p : p = t[k + 1]
    OBVIOUS
  <2>8. /\ p \in Bytes /\ Len(p) \in Nat /\ n + HeaderSize + Len(p) <= Len(x)
        /\ x[n + 1] = Len(p) /\ x[n + 2] = Crc(p)
        /\ \A i \in 1..Len(p) : x[n + HeaderSize + i] = p[i]
    <3>1. FrameAt(Packed(t), Len(Packed(Cut(t, (k + 1) - 1))), t[k + 1])
      BY <2>6, RecordCells
    <3>2. n = Len(Packed(Cut(t, (k + 1) - 1)))
      BY <1>5, <1>8, <2>2
    <3>3. FrameAt(x, n, p)
      BY <1>1, <2>7, <3>1, <3>2
    <3> QED BY <3>3, Zenon DEF FrameAt
  <2>9. Len(r) = Len(p) /\ Crc(r) = Crc(p)
    <3>1. n + 1 \in 1..j /\ n + 2 \in 1..j
      BY <1>6, <2>5
    <3> QED BY <1>3, <2>3, <2>8, <3>1
  <2>10. \A i \in 1..Len(p) : r[i] <= p[i]
    <3> SUFFICES ASSUME NEW i \in 1..Len(p) PROVE r[i] <= p[i]
      OBVIOUS
    <3>1. r[i] = g[n + HeaderSize + i] /\ p[i] = x[n + HeaderSize + i] /\ p[i] \in Nat
      <4>1. i \in 1..Len(r)
        BY <2>9
      <4>2. r[i] = g[n + HeaderSize + i]
        BY <2>3, <4>1
      <4>3. p[i] = x[n + HeaderSize + i]
        BY <2>8
      <4>4. p \in Seq(Nat)
        BY <2>8 DEF Bytes
      <4>5. p[i] \in Nat
        BY <4>4
      <4> QED BY <4>2, <4>3, <4>5
    <3>2. n + HeaderSize + i \in 1..Len(g)
      BY <1>2, <1>6, <2>3, <2>8, <2>9 DEF HeaderSize
    <3>3. CASE n + HeaderSize + i <= j
      <4>1. n + HeaderSize + i \in 1..j
        BY <1>2, <3>2, <3>3
      <4> QED BY <1>3, <3>1, <4>1
    <3>4. CASE ~(n + HeaderSize + i <= j)
      <4>1. n + HeaderSize + i \in j + 1..Len(g)
        BY <1>2, <3>2, <3>4
      <4>2. r[i] = 0
        BY <1>3, <3>1, <4>1
      <4> QED BY <3>1, <4>2
    <3> QED BY <3>3, <3>4
  <2>11. r = p
    BY <2>3, <2>8, <2>9, <2>10, CrcOfTornPayload
  <2>12. Cut(t, k + 1) = Cut(extra, k + 1)
    <3>1. Cut(t, k + 1) = Append(Cut(t, k), t[k + 1])
      BY <1>6, <2>6, CutNext
    <3>2. Cut(extra, k + 1) = Append(Cut(extra, k), extra[k + 1])
      BY <1>6, <2>2, CutNext
    <3> QED BY <1>8, <2>1, <2>7, <2>11, <3>1, <3>2
  <2>13. IsPrefix(Cut(t, k + 1), extra) /\ k + 1 \in 0..Len(t)
    <3>1. k + 1 \in 0..Len(extra)
      BY <2>2
    <3>2. IsPrefix(Cut(extra, k + 1), extra)
      BY <1>6, <3>1, CutCells
    <3> QED BY <2>6, <2>12, <3>2
  <2>14. (k + 1) + 1 = k + 2
    BY <1>6
  <2>15. \A i \in (k + 1) + 1..Len(extra) : extra[i] = <<>>
    BY <1>9, <2>14
  <2> QED BY <2>13, <2>15
<1> QED BY <1>10, <1>11

\* A recovery adds nothing to the acknowledged records but the beginning of an
\* append that did not return, and empty records where a tail was zero-filled.
THEOREM NothingIsInvented == Spec => []NothingInvented
<1>1. IInv => NothingInvented
  <2> SUFFICES ASSUME IInv, NEW h \in Handle, owner = h, pc[h] = "ready", ~closed[h]
               PROVE  LET extra == SubSeq(Indexed(h), Len(acked) + 1, Len(Indexed(h)))
                      IN  \E t \in tried \cup {<<>>} : \E k \in 0..Len(t) :
                            /\ IsPrefix(SubSeq(t, 1, k), extra)
                            /\ \A i \in k + 1..Len(extra) : extra[i] = <<>>
    BY DEF NothingInvented
  <2>1. PICK rs \in Records :
          index[h] = Positions(0, rs) /\ IsPrefix(acked, rs) /\ cache = Packed(rs)
    BY DEF IInv, Owned
  <2>2. Indexed(h) = rs
    <3>1. IsPrefix(Packed(rs), cache)
      BY <2>1, KnownFile, PrefixReflexive DEF Bytes
    <3> QED BY <2>1, <3>1, KnownFile, IndexedRecords
  <2>3. PICK extra : extra = SubSeq(rs, Len(acked) + 1, Len(rs))
    OBVIOUS
  <2>4. extra \in Records /\ rs = acked \o extra
    <3>1. acked \in Seq(Bytes) /\ rs \in Seq(Bytes)
      BY KnownFile DEF Records
    <3>2. rs = acked \o extra /\ Len(acked) \in 0..Len(rs)
      BY <2>1, <2>3, <3>1, PrefixIsCut
    <3>3. extra \in Seq(Bytes)
      BY <2>3, <3>1, <3>2, DropCells
    <3> QED BY <3>2, <3>3 DEF Records
  <2>5. PICK t \in tried \cup {<<>>} : Begun(Packed(acked), Packed(t), cache)
    BY KnownFile DEF Sound
  <2>6. t \in Records
    BY KnownFile, EmptySeq DEF Records
  <2>7. PICK j \in 0..Len(Packed(t)), z \in Nat :
          cache = Torn(Packed(acked), Packed(t), j, z)
    BY <2>5, Zenon DEF Begun
  <2>8. Packed(extra) = Cut(Packed(t), j) \o Zeros(z)
    <3>1. PICK a, e, c, o : /\ a = Packed(acked) /\ e = Packed(extra)
                            /\ c = Cut(Packed(t), j) /\ o = Zeros(z)
      OBVIOUS
    <3>2. a \o e = a \o (c \o o)
      BY <2>1, <2>4, <2>7, <3>1, KnownFile, PackedConcat DEF Torn
    <3>3. a \in Seq(Nat) /\ e \in Seq(Nat) /\ c \o o \in Seq(Nat)
      <4>1. a \in Seq(Nat) /\ e \in Seq(Nat) /\ Packed(t) \in Seq(Nat) /\ o \in Seq(Nat)
        BY <2>4, <2>6, <3>1, KnownFile, PackedBytes, ZerosAre DEF Bytes
      <4>2. c \in Seq(Nat)
        BY <3>1, <4>1, CutCells
      <4> QED BY <4>1, <4>2, ConcatProperties
    <3>4. PICK v : v = c \o o
      OBVIOUS
    <3>5. e = v
      BY <3>2, <3>3, <3>4, ConcatCancel
    <3> QED BY <3>1, <3>4, <3>5
  <2>9. \E k \in 0..Len(t) : /\ IsPrefix(Cut(t, k), extra)
                             /\ \A i \in k + 1..Len(extra) : extra[i] = <<>>
    BY <2>4, <2>6, <2>8, TornRecords
  <2> QED BY <2>2, <2>3, <2>9, Zenon DEF Cut
<1> QED BY <1>1, Invariance, PTL
=============================================================================
