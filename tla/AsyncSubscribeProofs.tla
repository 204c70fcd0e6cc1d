------------------------ MODULE AsyncSubscribeProofs ------------------------
(***************************************************************************)
(* Proofs about AsyncSubscribe, for any number of writer threads,          *)
(* subscribers and waiters and any limits: a subscriber gets every record  *)
(* once and in order, its buffer is bounded and connects to what it read,  *)
(* it ends when it is drained, and nobody sleeps through a change.         *)
(***************************************************************************)
EXTENDS AsyncSubscribe, SequenceTheorems, FiniteSetTheorems, TLAPS

-----------------------------------------------------------------------------
(* The inductive invariant.                                                *)

\* A client at one of these is not, or no longer, a subscriber of the hub.
Gone == {"new", "left", "failed", "ended", "true", "false"}

\* A client at one of these has the loop.
Held == {"mark", "read", "final", "recheck", "testClosed", "retest", "recheckClosed"}

\* A subscriber at one of these is not stale.
Fresh == {"mark", "read", "final", "recheck", "wait"}

Labels == Gone \cup Held \cup {"top", "reading", "raise", "replay", "paused", "wait", "test"}

Msg == {Change(o, n) : o \in Nat, n \in Nat}

\* The offset behind the last record of a change.
EndOf(change) == change.start + Len(change.records)

Types ==
    /\ next \in 0..MaxRecords
    /\ closed \in BOOLEAN /\ fileOpen \in BOOLEAN
    /\ lock \in Writer \cup {Nobody} /\ running \in Client \cup {Nobody}
    /\ wpc \in [Writer -> {"idle", "publish", "notify", "call"}]
    /\ note \in [Writer -> Msg]
    /\ todo \in [Writer -> 0..MaxBatch]
    /\ subs \subseteq Client /\ IsFiniteSet(subs)
    /\ ready \in Seq(Client \cup Msg)
    /\ cpc \in [Client -> Labels]
    /\ from \in [Client -> Nat] /\ start \in [Client -> Nat]
    /\ buf \in [Client -> Seq(Nat)]
    /\ stale \in [Client -> BOOLEAN] /\ event \in [Client -> BOOLEAN]
    /\ pos \in [Sub -> Nat]
    /\ got \in [Sub -> Seq(Nat)] /\ replay \in [Sub -> Seq(Nat)]

\* The hub listens as long as it has subscribers.
ListenInv == listening \in BOOLEAN /\ (listening <=> subs # {})

\* An append holds the lock while it publishes the records of its note, so a
\* closed stream grows no more.
WriterInv ==
    \A w \in Writer : wpc[w] = "publish" =>
        /\ lock = w /\ ~closed /\ todo[w] > 0
        /\ note[w].start <= next /\ next + todo[w] = EndOf(note[w])
        /\ EndOf(note[w]) <= MaxRecords

\* A change with record k is on its way to the subscribers.
Announced(k) ==
    \/ \E w \in Writer : /\ wpc[w] \in {"publish", "notify", "call"}
                         /\ note[w].start <= k /\ k < EndOf(note[w])
    \/ \E i \in DOMAIN ready : /\ ready[i] \notin Client
                               /\ ready[i].start <= k /\ k < EndOf(ready[i])

\* The offset past which a client wants to see a record.
Wanted(c) == IF c \in Sub THEN pos[c] ELSE from[c]

\* Where a client may be.
Placed(c) ==
    /\ c \in subs <=> cpc[c] \notin Gone
    /\ cpc[c] \in Held => running = c
    /\ cpc[c] = "new" => stale[c]

\* The buffer is a run of records, and short.
Buffered(c) == buf[c] = Records(start[c], Len(buf[c])) /\ Len(buf[c]) <= LagLimit

\* Who sleeps, or is about to, will be woken.
Watched(c) ==
    /\ cpc[c] \in {"recheck", "recheckClosed", "wait"} /\ next > Wanted(c) => Coming
    /\ cpc[c] = "wait" /\ closed => Coming

\* What a subscriber has yielded, and what it has read and will yield next.
Yielded(s) ==
    /\ got[s] = Records(from[s], Len(got[s])) /\ pos[s] = from[s] + Len(got[s])
    /\ replay[s] = Records(pos[s], Len(replay[s]))
    /\ cpc[s] \notin {"replay", "paused"} \cup Gone => replay[s] = <<>>
    /\ cpc[s] = "new" => got[s] = <<>> /\ replay[s] = <<>>

\* No hole between what is read from disk and the buffer.
Joins(s) ==
    /\ cpc[s] \in Fresh => ~stale[s]
    /\ cpc[s] = "mark" => buf[s] = <<>>
    /\ cpc[s] = "reading" => pos[s] < next
    /\ ~stale[s] =>
         /\ cpc[s] \in {"read", "reading"} => start[s] <= next
         /\ cpc[s] \in {"replay", "paused"} => start[s] <= pos[s] + Len(replay[s])
         /\ cpc[s] \in {"top", "final", "recheck", "wait"} => start[s] <= pos[s]

\* Every record past the buffer of a subscriber is announced.
Covered(s) ==
    s \in subs /\ ~stale[s] /\ cpc[s] # "mark" =>
        \A k \in Nat : start[s] + Len(buf[s]) <= k /\ k < next => Announced(k)

\* It ends at the end of a closed stream.
Drained(s) ==
    /\ cpc[s] = "final" => closed
    /\ cpc[s] = "ended" => closed /\ next <= pos[s]

ClientInv == \A c \in Client : Placed(c) /\ Buffered(c) /\ Watched(c)
SubInv == \A s \in Sub : Yielded(s) /\ Joins(s) /\ Covered(s) /\ Drained(s)

IInv == Types /\ ListenInv /\ WriterInv /\ ClientInv /\ SubInv

-----------------------------------------------------------------------------
(* Runs of records.                                                        *)

LEMMA RecordsRun ==
    ASSUME NEW o \in Nat, NEW n \in Nat
    PROVE  /\ Records(o, n) \in Seq(Nat) /\ Len(Records(o, n)) = n
           /\ \A i \in 1..n : Records(o, n)[i] = o + i - 1
BY DEF Records

LEMMA RecordsEmpty ==
    ASSUME NEW o \in Nat
    PROVE  Records(o, 0) = <<>>
BY RecordsRun

LEMMA RecordsAppend ==
    ASSUME NEW o \in Nat, NEW n \in Nat
    PROVE  Append(Records(o, n), o + n) = Records(o, n + 1)
<1> DEFINE s == Append(Records(o, n), o + n)
           t == Records(o, n + 1)
<1>1. t \in Seq(Nat) /\ Len(t) = n + 1 /\ \A i \in 1..n + 1 : t[i] = o + i - 1
  BY RecordsRun
<1>2. /\ s \in Seq(Nat) /\ Len(s) = n + 1
      /\ \A i \in 1..n : s[i] = Records(o, n)[i]
      /\ s[n + 1] = o + n
  <2>1. Records(o, n) \in Seq(Nat) /\ Len(Records(o, n)) = n /\ o + n \in Nat
    BY RecordsRun
  <2> QED BY <2>1, AppendProperties
<1> HIDE DEF s, t
<1>3. \A i \in 1..n + 1 : s[i] = o + i - 1
  <2>1. \A i \in 1..n : Records(o, n)[i] = o + i - 1
    BY RecordsRun
  <2> QED BY <1>2, <2>1
<1>4. s = t
  BY <1>1, <1>2, <1>3, SeqEqual
<1> QED BY <1>4 DEF s, t

LEMMA RecordsHeadTail ==
    ASSUME NEW o \in Nat, NEW n \in Nat, n > 0
    PROVE  /\ Records(o, n) # <<>> /\ Head(Records(o, n)) = o
           /\ Tail(Records(o, n)) = Records(o + 1, n - 1)
<1> DEFINE r == Records(o, n)
           t == Records(o + 1, n - 1)
<1>1. r \in Seq(Nat) /\ Len(r) = n /\ \A i \in 1..n : r[i] = o + i - 1
  BY RecordsRun
<1>2. t \in Seq(Nat) /\ Len(t) = n - 1 /\ \A i \in 1..n - 1 : t[i] = o + i
  <2>1. o + 1 \in Nat /\ n - 1 \in Nat
    OBVIOUS
  <2> QED BY <2>1, RecordsRun
<1> HIDE DEF r, t
<1>3. r # <<>> /\ Head(r) = o
  BY <1>1
<1>4. Tail(r) \in Seq(Nat) /\ Len(Tail(r)) = n - 1
      /\ \A i \in 1..n - 1 : Tail(r)[i] = o + i
  BY <1>1, <1>3, HeadTailProperties
<1>5. Tail(r) = t
  BY <1>2, <1>4, SeqEqual
<1> QED BY <1>3, <1>5 DEF r, t

\* What is left of a run without its first j records.
LEMMA RecordsFrom ==
    ASSUME NEW o \in Nat, NEW n \in Nat, NEW j \in Nat
    PROVE  SubSeq(Records(o, n), j + 1, n) =
             IF j <= n THEN Records(o + j, n - j) ELSE <<>>
<1> DEFINE r == Records(o, n)
           u == SubSeq(r, j + 1, n)
           t == Records(o + j, n - j)
<1>1. r \in Seq(Nat) /\ Len(r) = n /\ \A i \in 1..n : r[i] = o + i - 1
  BY RecordsRun
<1> HIDE DEF r
<1>2. CASE j <= n
  <2>1. t \in Seq(Nat) /\ Len(t) = n - j /\ \A i \in 1..n - j : t[i] = o + j + i - 1
    <3>1. o + j \in Nat /\ n - j \in Nat
      BY <1>2
    <3> QED BY <3>1, RecordsRun
  <2>2. u \in Seq(Nat) /\ Len(u) = n - j /\ \A i \in 1..n - j : u[i] = o + j + i - 1
    <3>1. \A i \in j + 1..n : r[i] \in Nat /\ r[i] = o + i - 1
      BY <1>1
    <3>2. /\ u \in Seq(Nat) /\ Len(u) = IF j + 1 <= n THEN n - (j + 1) + 1 ELSE 0
          /\ \A i \in 1..n - (j + 1) + 1 : u[i] = r[j + 1 + i - 1]
      <4>1. j + 1 \in Int /\ n \in Int
        OBVIOUS
      <4> QED BY <3>1, <4>1, SubSeqProperties
    <3>3. \A i \in 1..n - j : r[j + 1 + i - 1] = o + j + i - 1
      BY <3>1
    <3> QED BY <1>2, <3>2, <3>3
  <2> HIDE DEF u, t
  <2>3. u = t
    BY <2>1, <2>2, SeqEqual
  <2> QED BY <1>2, <2>3 DEF u, t, r
<1>3. CASE ~(j <= n)
  BY <1>3, SubSeqEmpty DEF r
<1> QED BY <1>2, <1>3

LEMMA RecordsConcat ==
    ASSUME NEW o \in Nat, NEW n \in Nat, NEW m \in Nat
    PROVE  Records(o, n) \o Records(o + n, m) = Records(o, n + m)
<1> DEFINE u == Records(o, n)
           v == Records(o + n, m)
           t == Records(o, n + m)
<1>1. u \in Seq(Nat) /\ Len(u) = n /\ \A i \in 1..n : u[i] = o + i - 1
  BY RecordsRun
<1>2. v \in Seq(Nat) /\ Len(v) = m /\ \A i \in 1..m : v[i] = o + n + i - 1
  <2>1. o + n \in Nat
    OBVIOUS
  <2> QED BY <2>1, RecordsRun
<1>3. t \in Seq(Nat) /\ Len(t) = n + m /\ \A i \in 1..n + m : t[i] = o + i - 1
  <2>1. n + m \in Nat
    OBVIOUS
  <2> QED BY <2>1, RecordsRun
<1> HIDE DEF u, v, t
<1>4. /\ u \o v \in Seq(Nat) /\ Len(u \o v) = n + m
      /\ \A i \in 1..n + m : (u \o v)[i] = IF i <= n THEN u[i] ELSE v[i - n]
  BY <1>1, <1>2, ConcatProperties
<1>5. \A i \in 1..n + m : (u \o v)[i] = o + i - 1
  BY <1>1, <1>2, <1>4
<1>6. u \o v = t
  BY <1>3, <1>4, <1>5, SeqEqual
<1> QED BY <1>6 DEF u, v, t

\* A sequence that is a run is the run of its length.
LEMMA RunOfLength ==
    ASSUME NEW q, NEW o \in Nat, NEW n \in Nat, q = Records(o, n)
    PROVE  q \in Seq(Nat) /\ Len(q) = n /\ q = Records(o, Len(q))
BY RecordsRun

\* Max and Min of two numbers.
LEMMA MaxMin ==
    ASSUME NEW a \in Int, NEW b \in Int
    PROVE  /\ Max({a, b}) = IF a >= b THEN a ELSE b
           /\ Min({a, b}) = IF a <= b THEN a ELSE b
<1>1. \E x \in {a, b} : \A y \in {a, b} : x >= y
  BY SMT
<1>2. \E x \in {a, b} : \A y \in {a, b} : x <= y
  BY SMT
<1>3. /\ Max({a, b}) \in {a, b} /\ \A y \in {a, b} : Max({a, b}) >= y
  BY <1>1, Zenon DEF Max
<1>4. /\ Min({a, b}) \in {a, b} /\ \A y \in {a, b} : Min({a, b}) <= y
  BY <1>2, Zenon DEF Min
<1> QED BY <1>3, <1>4, SMT

LEMMA NewChange ==
    ASSUME NEW o \in Nat, NEW n \in Nat
    PROVE  /\ Change(o, n) \in Msg
           /\ Change(o, n).start = o /\ EndOf(Change(o, n)) = o + n
<1>1. Change(o, n).start = o /\ Change(o, n).records = Records(o, n)
  BY DEF Change
<1>2. Len(Records(o, n)) = n
  BY RecordsRun
<1>3. Change(o, n) \in Msg
  BY DEF Msg
<1> QED BY <1>1, <1>2, <1>3 DEF EndOf

\* Changes are no clients, and what their parts are.
LEMMA Changes ==
    ASSUME NEW m \in Msg
    PROVE  /\ m \notin Client
           /\ m.start \in Nat /\ Len(m.records) \in Nat /\ EndOf(m) \in Nat
           /\ m.records = Records(m.start, Len(m.records))
           /\ m.records \in Seq(Nat)
<1>1. PICK o \in Nat, n \in Nat : m = Change(o, n)
  BY DEF Msg
<1>2. m.start = o /\ m.records = Records(o, n)
  BY <1>1 DEF Change
<1>3. m.records \in Seq(Nat) /\ Len(m.records) = n /\ m.records = Records(o, n)
  <2>1. Records(o, n) \in Seq(Nat) /\ Len(Records(o, n)) = n
    BY RecordsRun
  <2> QED BY <1>2, <2>1
<1>4. m \in [start : Nat, records : Seq(Nat)]
  BY <1>1, <1>2, <1>3 DEF Change
<1> QED BY <1>2, <1>3, <1>4, ClientsAreNoChanges DEF EndOf

-----------------------------------------------------------------------------
(* The loop's queue.                                                       *)

Queue == Seq(Client \cup Msg)

\* Where the elements of a queue are in one that is longer at the end, or
\* shorter at the front.
LEMMA QueueAppend ==
    ASSUME NEW q \in Queue, NEW e \in Client \cup Msg
    PROVE  /\ Append(q, e) \in Queue
           /\ \A i \in DOMAIN q : i \in DOMAIN Append(q, e) /\ Append(q, e)[i] = q[i]
           /\ \E i \in DOMAIN Append(q, e) : Append(q, e)[i] = e
<1>1. /\ Append(q, e) \in Queue /\ Len(Append(q, e)) = Len(q) + 1
      /\ \A i \in 1..Len(q) : Append(q, e)[i] = q[i]
      /\ Append(q, e)[Len(q) + 1] = e
  BY AppendProperties DEF Queue
<1>2. Len(q) \in Nat /\ DOMAIN q = 1..Len(q)
  BY DEF Queue
<1>3. DOMAIN Append(q, e) = 1..Len(q) + 1
  BY <1>1, <1>2 DEF Queue
<1> QED BY <1>1, <1>2, <1>3

LEMMA QueueTail ==
    ASSUME NEW q \in Queue, q # <<>>
    PROVE  /\ Tail(q) \in Queue /\ Head(q) \in Client \cup Msg
           /\ \A i \in DOMAIN q :
                \/ q[i] = Head(q)
                \/ \E j \in DOMAIN Tail(q) : Tail(q)[j] = q[i]
<1>1. /\ Tail(q) \in Queue /\ Head(q) \in Client \cup Msg /\ Len(Tail(q)) = Len(q) - 1
      /\ \A i \in 1..Len(Tail(q)) : Tail(q)[i] = q[i + 1]
  BY HeadTailProperties DEF Queue
<1>2. Len(q) \in Nat /\ DOMAIN q = 1..Len(q) /\ q[1] = Head(q)
  BY DEF Queue
<1>3. DOMAIN Tail(q) = 1..Len(q) - 1
  BY <1>1, <1>2 DEF Queue
<1>4. ASSUME NEW i \in DOMAIN q, i # 1
      PROVE  i - 1 \in DOMAIN Tail(q) /\ Tail(q)[i - 1] = q[i]
  BY <1>1, <1>2, <1>3, <1>4
<1> QED BY <1>1, <1>2, <1>4

\* An announced record is a reason to wake up.
LEMMA AnnouncedComes ==
    ASSUME NEW k, Announced(k)
    PROVE  Coming
BY DEF Announced, Coming

\* Clients that come and go in the queue take no change away.
LEMMA QueueOfClients ==
    ASSUME ready \in Queue, UNCHANGED writers,
           \/ ready' = ready
           \/ ready # <<>> /\ Head(ready) \in Client /\ ready' = Tail(ready)
           \/ \E c \in Client : ready' = Append(ready, c)
    PROVE  /\ ready' \in Queue
           /\ Coming => Coming'
           /\ \A k : Announced(k) => Announced(k)'
<1>1. /\ ready' \in Queue
      /\ \A i \in DOMAIN ready : ready[i] \notin Client =>
           \E j \in DOMAIN ready' : ready'[j] = ready[i]
  <2>1. CASE ready' = ready
    BY <2>1
  <2>2. CASE ready # <<>> /\ Head(ready) \in Client /\ ready' = Tail(ready)
    BY <2>2, QueueTail, Zenon
  <2>3. CASE \E c \in Client : ready' = Append(ready, c)
    <3>1. PICK c \in Client \cup Msg : ready' = Append(ready, c)
      BY <2>3
    <3> QED BY <3>1, QueueAppend, Zenon
  <2> QED BY <2>1, <2>2, <2>3
<1>2. UNCHANGED <<wpc, note>>
  BY DEF writers
<1>3. Coming => Coming'
  BY <1>1, <1>2 DEF Coming
<1>4. ASSUME NEW k, Announced(k) PROVE Announced(k)'
  BY <1>1, <1>2, <1>4 DEF Announced, EndOf
<1> QED BY <1>1, <1>3, <1>4

-----------------------------------------------------------------------------
(* The start.                                                              *)

LEMMA InitIInv == Init => IInv
<1> SUFFICES ASSUME Init PROVE IInv
  OBVIOUS
<1> USE Limits DEF Init
<1>1. Change(0, 0) \in Msg
  BY NewChange
<1>2. Types
  <2>1. /\ next \in 0..MaxRecords /\ todo \in [Writer -> 0..MaxBatch]
        /\ lock \in Writer \cup {Nobody} /\ running \in Client \cup {Nobody}
        /\ wpc \in [Writer -> {"idle", "publish", "notify", "call"}]
        /\ note \in [Writer -> Msg]
    BY <1>1
  <2>2. subs \subseteq Client /\ IsFiniteSet(subs)
    BY FS_EmptySet
  <2>3. /\ cpc \in [Client -> Labels] /\ ready \in Seq(Client \cup Msg)
        /\ from \in [Client -> Nat] /\ start \in [Client -> Nat]
        /\ pos \in [Sub -> Nat]
    BY DEF Labels, Gone
  <2>4. /\ buf \in [Client -> Seq(Nat)] /\ got \in [Sub -> Seq(Nat)]
        /\ replay \in [Sub -> Seq(Nat)]
    OBVIOUS
  <2>5. /\ closed \in BOOLEAN /\ fileOpen \in BOOLEAN
        /\ stale \in [Client -> BOOLEAN] /\ event \in [Client -> BOOLEAN]
    BY Zenon
  <2> QED BY <2>1, <2>2, <2>3, <2>4, <2>5, Zenon DEF Types
<1>3. ListenInv /\ WriterInv
  BY DEF ListenInv, WriterInv
<1>4. Records(0, 0) = <<>> /\ Len(<<>>) = 0
  BY RecordsEmpty
<1>5. ClientInv
  BY <1>4 DEF ClientInv, Placed, Buffered, Watched, Gone, Held, Client
<1>6. SubInv
  BY <1>4 DEF SubInv, Yielded, Joins, Covered, Drained, Fresh, Client
<1> QED BY <1>2, <1>3, <1>5, <1>6 DEF IInv

-----------------------------------------------------------------------------
(* What writer threads do.                                                 *)

\* The clients stay as they are while the engine moves on, if what is new is
\* announced to those who are subscribed.
LEMMA WriterFrame ==
    ASSUME IInv, UNCHANGED <<hub, running, cpc, progress, view>>,
           next' \in Nat, next <= next', closed => closed' /\ next' = next,
           subs # {} => /\ \A k \in Nat : Announced(k) => Announced(k)'
                        /\ \A k \in Nat : next <= k /\ k < next' => Announced(k)'
                        /\ Coming => Coming'
                        /\ closed' => closed \/ Coming'
    PROVE  ListenInv' /\ ClientInv' /\ SubInv'
<1>1. UNCHANGED <<subs, listening, running, cpc, from, pos, got, replay, buf, start, stale>>
  BY DEF hub, progress, view
<1>2. next \in Nat /\ Types
  BY Limits DEF IInv, Types
<1>3. ListenInv'
  BY <1>1, Zenon DEF IInv, ListenInv
<1>4. ASSUME NEW c \in Client PROVE Placed(c)' /\ Buffered(c)' /\ Watched(c)'
  <2>1. Placed(c) /\ Buffered(c) /\ Watched(c)
    BY DEF IInv, ClientInv
  <2>2. Placed(c)' /\ Buffered(c)'
    BY <1>1, <2>1 DEF Placed, Buffered
  <2>3. Wanted(c)' = Wanted(c) /\ Wanted(c) \in Nat
    BY <1>1, <1>2 DEF Wanted, Types
  <2>4. CASE cpc[c] \in {"recheck", "recheckClosed", "wait"}
    <3>1. subs # {}
      BY <2>1, <2>4 DEF Placed, Gone
    <3>2. next' > Wanted(c) => next > Wanted(c) \/ Coming'
      <4>1. next' > next => \E k \in Nat : Announced(k)'
        <5>1. PICK k \in Nat : k = next
          BY <1>2
        <5> QED BY <1>2, <3>1, <5>1
      <4>2. ASSUME NEW k \in Nat, Announced(k)' PROVE Coming'
        BY <4>2 DEF Announced, Coming
      <4> QED BY <1>2, <2>3, <4>1, <4>2
    <3> QED BY <1>1, <2>1, <2>2, <2>3, <3>1, <3>2 DEF Watched
  <2>5. CASE cpc[c] \notin {"recheck", "recheckClosed", "wait"}
    BY <1>1, <2>2, <2>5 DEF Watched
  <2> QED BY <2>4, <2>5
<1>5. ASSUME NEW s \in Sub PROVE Yielded(s)' /\ Joins(s)' /\ Covered(s)' /\ Drained(s)'
  <2>1. Yielded(s) /\ Joins(s) /\ Covered(s) /\ Drained(s)
    BY DEF IInv, SubInv
  <2>2. s \in Client /\ start[s] \in Nat /\ pos[s] \in Nat
    BY <1>2 DEF Client, Types
  <2>3. Yielded(s)' /\ Drained(s)'
    BY <1>1, <2>1 DEF Yielded, Drained
  <2>4. Joins(s)'
    BY <1>1, <1>2, <2>1, <2>2 DEF Joins
  <2>5. Covered(s)'
    <3> SUFFICES ASSUME s \in subs, ~stale[s], cpc[s] # "mark", NEW k \in Nat,
                        start[s] + Len(buf[s]) <= k, k < next'
                 PROVE  Announced(k)'
      BY <1>1 DEF Covered
    <3>1. k < next => Announced(k)
      BY <2>1 DEF Covered
    <3> QED BY <1>2, <3>1
  <2> QED BY <2>3, <2>4, <2>5
<1> QED BY <1>3, <1>4, <1>5 DEF ClientInv, SubInv

\* What a step of a writer thread leaves alone.
ClientsAlone == UNCHANGED <<hub, running, cpc, progress, view>>

\* The types of everything a writer does not touch.
LEMMA WriterTypes ==
    ASSUME Types, ClientsAlone,
           next' \in 0..MaxRecords, closed' \in BOOLEAN, fileOpen' \in BOOLEAN,
           lock' \in Writer \cup {Nobody},
           wpc' \in [Writer -> {"idle", "publish", "notify", "call"}],
           note' \in [Writer -> Msg], todo' \in [Writer -> 0..MaxBatch],
           ready' \in Seq(Client \cup Msg)
    PROVE  Types'
<1>1. UNCHANGED <<subs, running, cpc, from, pos, got, replay, buf, start, stale, event>>
  BY DEF ClientsAlone, hub, progress, view
<1> QED BY <1>1, Zenon DEF Types

\* A writer that begins something was idle, and its old note is over.
LEMMA Announces ==
    ASSUME Types, NEW w \in Writer, wpc[w] = "idle", ready' = ready,
           NEW l \in {"publish", "notify"}, wpc' = [wpc EXCEPT ![w] = l],
           NEW m \in Msg, note' = [note EXCEPT ![w] = m]
    PROVE  Coming' /\ \A k : Announced(k) => Announced(k)'
<1>1. /\ wpc'[w] = l /\ note'[w] = m
      /\ \A v \in Writer : wpc[v] # "idle" => wpc'[v] = wpc[v] /\ note'[v] = note[v]
  BY DEF Types
<1>2. Coming'
  BY <1>1 DEF Coming
<1>3. ASSUME NEW k, Announced(k) PROVE Announced(k)'
  BY <1>1, <1>3 DEF Announced, EndOf
<1> QED BY <1>2, <1>3

LEMMA AppendBeginStep ==
    ASSUME IInv, NEW w \in Writer, NEW n \in 1..MaxBatch, AppendBegin(w, n)
    PROVE  IInv'
<1> USE Limits
<1> DEFINE m == Change(next, n)
<1>1. /\ wpc[w] = "idle" /\ lock = Nobody /\ ~closed /\ next + n <= MaxRecords
      /\ lock' = w /\ todo' = [todo EXCEPT ![w] = n] /\ note' = [note EXCEPT ![w] = m]
      /\ wpc' = [wpc EXCEPT ![w] = "publish"]
      /\ UNCHANGED <<next, closed, fileOpen, ready>> /\ ClientsAlone
  BY DEF AppendBegin, WGoto, loop, ClientsAlone
<1>2. Types /\ WriterInv /\ next \in Nat /\ n \in Nat
  BY DEF IInv, Types
<1>3. m \in Msg /\ m.start = next /\ EndOf(m) = next + n
  BY <1>2, NewChange
<1> HIDE DEF m
<1>4. Types'
  <2>1. /\ lock' \in Writer \cup {Nobody} /\ note' \in [Writer -> Msg]
        /\ wpc' \in [Writer -> {"idle", "publish", "notify", "call"}]
        /\ todo' \in [Writer -> 0..MaxBatch]
    BY <1>1, <1>2, <1>3 DEF Types
  <2>2. /\ next' \in 0..MaxRecords /\ closed' \in BOOLEAN /\ fileOpen' \in BOOLEAN
        /\ ready' \in Seq(Client \cup Msg)
    BY <1>1, <1>2, Zenon DEF Types
  <2> QED BY <1>1, <1>2, <2>1, <2>2, WriterTypes
<1>5. WriterInv'
  <2> SUFFICES ASSUME NEW v \in Writer, wpc'[v] = "publish"
               PROVE  /\ lock' = v /\ ~closed' /\ todo'[v] > 0
                      /\ note'[v].start <= next' /\ next' + todo'[v] = EndOf(note'[v])
                      /\ EndOf(note'[v]) <= MaxRecords
    BY DEF WriterInv, EndOf
  <2>1. v = w
    BY <1>1, <1>2, RolesDistinct DEF WriterInv, Types
  <2> QED BY <1>1, <1>2, <1>3, <2>1 DEF Types
<1>6. Coming' /\ \A k : Announced(k) => Announced(k)'
  BY <1>1, <1>2, <1>3, Announces
<1>7. ListenInv' /\ ClientInv' /\ SubInv'
  BY <1>1, <1>2, <1>6, WriterFrame DEF ClientsAlone
<1> QED BY <1>4, <1>5, <1>7 DEF IInv

LEMMA PublishStep ==
    ASSUME IInv, NEW w \in Writer, Publish(w)
    PROVE  IInv'
<1> USE Limits
<1>1. /\ wpc[w] = "publish" /\ next' = next + 1 /\ todo' = [todo EXCEPT ![w] = @ - 1]
      /\ IF todo[w] = 1 THEN lock' = Nobody /\ wpc' = [wpc EXCEPT ![w] = "notify"]
                        ELSE lock' = lock /\ wpc' = wpc
      /\ UNCHANGED <<closed, fileOpen, note, ready>> /\ ClientsAlone
  BY DEF Publish, WGoto, loop, ClientsAlone
<1>2. Types /\ WriterInv /\ next \in Nat /\ todo[w] \in Nat /\ todo[w] <= MaxBatch
      /\ note[w] \in Msg
  BY DEF IInv, Types
<1>3. /\ lock = w /\ ~closed /\ todo[w] > 0
      /\ note[w].start <= next /\ next + todo[w] = EndOf(note[w])
      /\ EndOf(note[w]) <= MaxRecords /\ note[w].start \in Nat
  BY <1>1, <1>2, Changes DEF WriterInv
<1>4. Types'
  <2>1. /\ lock' \in Writer \cup {Nobody}
        /\ wpc' \in [Writer -> {"idle", "publish", "notify", "call"}]
    <3>1. CASE todo[w] = 1
      BY <1>1, <1>2, <3>1 DEF Types
    <3>2. CASE todo[w] # 1
      BY <1>1, <1>2, <3>2, Zenon DEF Types
    <3> QED BY <3>1, <3>2
  <2>3. todo' \in [Writer -> 0..MaxBatch] /\ next' \in 0..MaxRecords
    BY <1>1, <1>2, <1>3 DEF Types
  <2>2. /\ closed' \in BOOLEAN /\ fileOpen' \in BOOLEAN /\ note' \in [Writer -> Msg]
        /\ ready' \in Seq(Client \cup Msg)
    BY <1>1, <1>2, Zenon DEF Types
  <2> QED BY <1>1, <1>2, <2>1, <2>2, <2>3, WriterTypes
<1>5. WriterInv'
  <2> SUFFICES ASSUME NEW v \in Writer, wpc'[v] = "publish"
               PROVE  /\ lock' = v /\ ~closed' /\ todo'[v] > 0
                      /\ note'[v].start <= next' /\ next' + todo'[v] = EndOf(note'[v])
                      /\ EndOf(note'[v]) <= MaxRecords
    BY DEF WriterInv, EndOf
  <2>1. v = w /\ todo[w] # 1
    BY <1>1, <1>2, <1>3 DEF WriterInv, Types
  <2> QED BY <1>1, <1>2, <1>3, <2>1 DEF Types
<1>6. /\ wpc'[w] \in {"publish", "notify", "call"}
      /\ \A v \in Writer : wpc[v] \in {"publish", "notify", "call"}
                             => wpc'[v] \in {"publish", "notify", "call"}
  BY <1>1, <1>2 DEF Types
<1>7. Coming'
  BY <1>6 DEF Coming
<1>8. ASSUME NEW k, Announced(k) PROVE Announced(k)'
  BY <1>1, <1>6, <1>8 DEF Announced, EndOf
<1>9. ASSUME NEW k \in Nat, next <= k, k < next' PROVE Announced(k)'
  <2>1. note'[w].start <= k /\ k < EndOf(note'[w])
    BY <1>1, <1>2, <1>3, <1>9
  <2> QED BY <1>6, <2>1 DEF Announced, EndOf
<1>10. ListenInv' /\ ClientInv' /\ SubInv'
  BY <1>1, <1>2, <1>3, <1>7, <1>8, <1>9, WriterFrame DEF ClientsAlone
<1> QED BY <1>4, <1>5, <1>10 DEF IInv

LEMMA CloseStep ==
    ASSUME IInv, NEW w \in Writer, Close(w) \/ CloseFds(w)
    PROVE  IInv'
<1> USE Limits
<1> DEFINE m == Change(next, 0)
<1>0. fileOpen' \in BOOLEAN
  BY Zenon DEF Close, CloseFds, IInv, Types
<1>1. /\ wpc[w] = "idle" /\ lock = Nobody /\ closed' = TRUE
      /\ note' = [note EXCEPT ![w] = m]
      /\ wpc' = [wpc EXCEPT ![w] = "notify"]
      /\ UNCHANGED <<next, lock, todo, ready>> /\ ClientsAlone
  BY DEF Close, CloseFds, WGoto, loop, ClientsAlone
<1>2. Types /\ WriterInv /\ next \in Nat
  BY DEF IInv, Types
<1>3. m \in Msg
  BY <1>2, NewChange
<1> HIDE DEF m
<1>4. Types'
  <2>1. /\ note' \in [Writer -> Msg]
        /\ wpc' \in [Writer -> {"idle", "publish", "notify", "call"}]
    BY <1>1, <1>2, <1>3 DEF Types
  <2>2. /\ next' \in 0..MaxRecords /\ ready' \in Seq(Client \cup Msg)
        /\ lock' \in Writer \cup {Nobody} /\ todo' \in [Writer -> 0..MaxBatch]
    BY <1>1, <1>2, Zenon DEF Types
  <2>3. closed' \in BOOLEAN /\ fileOpen' \in BOOLEAN
    BY <1>0, <1>1
  <2> QED BY <1>1, <1>2, <2>1, <2>2, <2>3, WriterTypes
<1>5. WriterInv'
  BY <1>1, <1>2, RolesDistinct DEF WriterInv, Types
<1>6. Coming' /\ \A k : Announced(k) => Announced(k)'
  BY <1>1, <1>2, <1>3, Announces
<1>7. ListenInv' /\ ClientInv' /\ SubInv'
  BY <1>1, <1>2, <1>6, WriterFrame DEF ClientsAlone
<1> QED BY <1>4, <1>5, <1>7 DEF IInv

LEMMA AppendFailsStep ==
    ASSUME IInv, NEW w \in Writer, AppendFails(w)
    PROVE  IInv'
<1> USE Limits
<1> DEFINE m == Change(next, 0)
<1>1. /\ wpc[w] = "idle" /\ note' = [note EXCEPT ![w] = m]
      /\ wpc' = [wpc EXCEPT ![w] = "notify"]
      /\ UNCHANGED <<next, closed, fileOpen, lock, todo, ready>> /\ ClientsAlone
  BY DEF AppendFails, WGoto, engine, loop, ClientsAlone
<1>2. Types /\ WriterInv /\ next \in Nat
  BY DEF IInv, Types
<1>3. m \in Msg
  BY <1>2, NewChange
<1> HIDE DEF m
<1>4. Types'
  <2>1. /\ note' \in [Writer -> Msg]
        /\ wpc' \in [Writer -> {"idle", "publish", "notify", "call"}]
    BY <1>1, <1>2, <1>3 DEF Types
  <2>2. /\ next' \in 0..MaxRecords /\ ready' \in Seq(Client \cup Msg)
        /\ lock' \in Writer \cup {Nobody} /\ todo' \in [Writer -> 0..MaxBatch]
        /\ closed' \in BOOLEAN /\ fileOpen' \in BOOLEAN
    BY <1>1, <1>2, Zenon DEF Types
  <2> QED BY <1>1, <1>2, <2>1, <2>2, WriterTypes
<1>5. WriterInv'
  <2> SUFFICES ASSUME NEW v \in Writer, wpc'[v] = "publish"
               PROVE  /\ lock' = v /\ ~closed' /\ todo'[v] > 0
                      /\ note'[v].start <= next' /\ next' + todo'[v] = EndOf(note'[v])
                      /\ EndOf(note'[v]) <= MaxRecords
    BY DEF WriterInv, EndOf
  <2>1. v # w /\ wpc[v] = "publish" /\ note'[v] = note[v]
    BY <1>1, <1>2 DEF Types
  <2> QED BY <1>1, <1>2, <2>1 DEF WriterInv
<1>6. Coming' /\ \A k : Announced(k) => Announced(k)'
  BY <1>1, <1>2, <1>3, Announces
<1>7. ListenInv' /\ ClientInv' /\ SubInv'
  BY <1>1, <1>2, <1>6, WriterFrame DEF ClientsAlone
<1> QED BY <1>4, <1>5, <1>7 DEF IInv

LEMMA NotifyStep ==
    ASSUME IInv, NEW w \in Writer, Notify(w)
    PROVE  IInv'
<1>1. /\ wpc[w] = "notify"
      /\ wpc' = [wpc EXCEPT ![w] = IF listening THEN "call" ELSE "idle"]
      /\ UNCHANGED <<next, closed, fileOpen, lock, note, todo, ready>> /\ ClientsAlone
  BY DEF Notify, WGoto, engine, loop, ClientsAlone
<1>2. Types /\ WriterInv /\ ListenInv /\ next \in Nat
  BY DEF IInv, Types
<1>3. Types'
  <2>1. wpc' \in [Writer -> {"idle", "publish", "notify", "call"}]
    BY <1>1, <1>2 DEF Types
  <2>2. /\ next' \in 0..MaxRecords /\ closed' \in BOOLEAN /\ fileOpen' \in BOOLEAN
        /\ lock' \in Writer \cup {Nobody} /\ note' \in [Writer -> Msg]
        /\ todo' \in [Writer -> 0..MaxBatch] /\ ready' \in Seq(Client \cup Msg)
    BY <1>1, <1>2, Zenon DEF Types
  <2> QED BY <1>1, <1>2, <2>1, <2>2, WriterTypes
<1>4. WriterInv'
  <2>1. \A v \in Writer : wpc'[v] = "publish" => wpc[v] = "publish"
    BY <1>1, <1>2 DEF Types
  <2> QED BY <1>1, <1>2, <2>1 DEF WriterInv, EndOf
<1>5. ASSUME subs # {} PROVE (Coming => Coming') /\ \A k : Announced(k) => Announced(k)'
  <2>1. \A v \in Writer : wpc[v] \in {"publish", "notify", "call"}
                            => wpc'[v] \in {"publish", "notify", "call"}
    BY <1>1, <1>2, <1>5 DEF Types, ListenInv
  <2>2. Coming => Coming'
    BY <1>1, <2>1 DEF Coming
  <2>3. ASSUME NEW k, Announced(k) PROVE Announced(k)'
    BY <1>1, <2>1, <2>3 DEF Announced, EndOf
  <2> QED BY <2>2, <2>3
<1>6. ListenInv' /\ ClientInv' /\ SubInv'
  BY <1>1, <1>2, <1>5, WriterFrame DEF ClientsAlone
<1> QED BY <1>3, <1>4, <1>6 DEF IInv

LEMMA OnChangeStep ==
    ASSUME IInv, NEW w \in Writer, OnChange(w)
    PROVE  IInv'
<1>1. /\ wpc[w] = "call" /\ wpc' = [wpc EXCEPT ![w] = "idle"]
      /\ ready' = IF listening THEN Append(ready, note[w]) ELSE ready
      /\ UNCHANGED <<next, closed, fileOpen, lock, note, todo>> /\ ClientsAlone
  BY DEF OnChange, WGoto, engine, ClientsAlone
<1>2. Types /\ WriterInv /\ ListenInv /\ next \in Nat /\ ready \in Queue
      /\ note[w] \in Msg
  BY DEF IInv, Types, Queue
<1>3. /\ Append(ready, note[w]) \in Queue
      /\ \A i \in DOMAIN ready : i \in DOMAIN Append(ready, note[w])
                                 /\ Append(ready, note[w])[i] = ready[i]
      /\ \E i \in DOMAIN Append(ready, note[w]) : Append(ready, note[w])[i] = note[w]
  <2>1. note[w] \in Client \cup Msg
    BY <1>2
  <2> QED BY <1>2, <2>1, QueueAppend, Zenon
<1>4. Types'
  <2>1. wpc' \in [Writer -> {"idle", "publish", "notify", "call"}]
    BY <1>1, <1>2 DEF Types
  <2>2. /\ next' \in 0..MaxRecords /\ closed' \in BOOLEAN /\ fileOpen' \in BOOLEAN
        /\ lock' \in Writer \cup {Nobody} /\ note' \in [Writer -> Msg]
        /\ todo' \in [Writer -> 0..MaxBatch]
    BY <1>1, <1>2, Zenon DEF Types
  <2>3. ready' \in Seq(Client \cup Msg)
    BY <1>1, <1>2, <1>3 DEF Queue
  <2> QED BY <1>1, <1>2, <2>1, <2>2, <2>3, WriterTypes
<1>5. WriterInv'
  <2>1. \A v \in Writer : wpc'[v] = "publish" => wpc[v] = "publish"
    BY <1>1, <1>2 DEF Types
  <2> QED BY <1>1, <1>2, <2>1 DEF WriterInv, EndOf
<1>6. ASSUME subs # {} PROVE Coming' /\ \A k : Announced(k) => Announced(k)'
  <2>1. ready' = Append(ready, note[w])
    BY <1>1, <1>2, <1>6 DEF ListenInv
  <2>2. PICK j \in DOMAIN ready' : ready'[j] = note[w] /\ note[w] \notin Client
    BY <1>2, <1>3, <2>1, Changes
  <2>3. Coming'
    BY <2>2 DEF Coming
  <2>4. \A v \in Writer : v # w => wpc'[v] = wpc[v]
    BY <1>1, <1>2 DEF Types
  <2>5. ASSUME NEW k, Announced(k) PROVE Announced(k)'
    <3>1. CASE \E i \in DOMAIN ready : /\ ready[i] \notin Client
                                       /\ ready[i].start <= k /\ k < EndOf(ready[i])
      BY <1>3, <2>1, <3>1 DEF Announced, EndOf
    <3>2. CASE \E v \in Writer : /\ wpc[v] \in {"publish", "notify", "call"}
                                 /\ note[v].start <= k /\ k < EndOf(note[v])
      <4>1. PICK v \in Writer : /\ wpc[v] \in {"publish", "notify", "call"}
                                /\ note[v].start <= k /\ k < EndOf(note[v])
        BY <3>2
      <4>2. CASE v = w
        BY <2>2, <4>1, <4>2 DEF Announced, EndOf
      <4>3. CASE v # w
        BY <1>1, <2>4, <4>1, <4>3 DEF Announced, EndOf
      <4> QED BY <4>2, <4>3
    <3> QED BY <2>5, <3>1, <3>2 DEF Announced
  <2> QED BY <2>3, <2>5
<1>7. ListenInv' /\ ClientInv' /\ SubInv'
  BY <1>1, <1>2, <1>6, WriterFrame DEF ClientsAlone
<1> QED BY <1>4, <1>5, <1>7 DEF IInv

-----------------------------------------------------------------------------
(* What clients do on the loop.                                            *)

\* Client d keeps what is its own.
Untouched(d) ==
    /\ cpc'[d] = cpc[d] /\ from'[d] = from[d]
    /\ buf'[d] = buf[d] /\ start'[d] = start[d] /\ stale'[d] = stale[d]
    /\ d \in subs' <=> d \in subs
    /\ d \in Sub => pos'[d] = pos[d] /\ got'[d] = got[d] /\ replay'[d] = replay[d]

\* A step of client c, which has the loop or leaves it alone.
Moves(c) ==
    /\ UNCHANGED <<next, closed, fileOpen, lock>> /\ UNCHANGED writers
    /\ running \in {c, Nobody} \/ running' = running
    /\ \/ ready' = ready
       \/ ready # <<>> /\ Head(ready) \in Client /\ ready' = Tail(ready)
       \/ \E d \in Client : ready' = Append(ready, d)
    /\ \A d \in Client \ {c} : Untouched(d)

SubSane(s) == Yielded(s) /\ Joins(s) /\ Covered(s) /\ Drained(s)

\* The engine and the queue as the clients see them.
LEMMA MoveFrame ==
    ASSUME IInv, NEW c \in Client, Moves(c)
    PROVE  /\ next' = next /\ closed' = closed /\ next \in Nat
           /\ Coming => Coming'
           /\ \A k : Announced(k) => Announced(k)'
<1>1. ready \in Queue /\ next \in Nat
  BY Limits DEF IInv, Types, Queue
<1>2. \/ ready' = ready
      \/ ready # <<>> /\ Head(ready) \in Client /\ ready' = Tail(ready)
      \/ \E d \in Client : ready' = Append(ready, d)
  BY DEF Moves
<1> QED BY <1>1, <1>2, QueueOfClients DEF Moves

\* It is enough to look at the client itself.
LEMMA MoveKeeps ==
    ASSUME IInv, NEW c \in Client, Moves(c), Types', ListenInv',
           Placed(c)', Buffered(c)', Watched(c)', c \in Sub => SubSane(c)'
    PROVE  IInv'
<1>1. /\ next' = next /\ closed' = closed /\ next \in Nat
      /\ Coming => Coming'
      /\ \A k : Announced(k) => Announced(k)'
  BY MoveFrame
<1>2. WriterInv'
  <2>1. UNCHANGED <<lock, next, closed, wpc, note, todo>>
    BY DEF Moves, writers
  <2>2. WriterInv
    BY DEF IInv
  <2> QED BY <2>1, <2>2 DEF WriterInv, EndOf
<1>3. ASSUME NEW d \in Client \ {c} PROVE Placed(d)' /\ Buffered(d)' /\ Watched(d)'
  <2>1. Placed(d) /\ Buffered(d) /\ Watched(d)
    BY DEF IInv, ClientInv
  <2>2. Untouched(d)
    BY DEF Moves
  <2>3. running = d => running' = d
    BY RolesDistinct DEF Moves, Client
  <2>4. Placed(d)' /\ Buffered(d)'
    BY <2>1, <2>2, <2>3 DEF Placed, Buffered, Untouched
  <2>5. Watched(d)'
    BY <1>1, <2>1, <2>2 DEF Watched, Wanted, Untouched
  <2> QED BY <2>4, <2>5
<1>4. ASSUME NEW s \in Sub, s # c PROVE SubSane(s)'
  <2>1. Yielded(s) /\ Joins(s) /\ Covered(s) /\ Drained(s)
    BY DEF IInv, SubInv
  <2>2. Untouched(s) /\ pos'[s] = pos[s] /\ got'[s] = got[s] /\ replay'[s] = replay[s]
    BY <1>4 DEF Moves, Untouched, Client
  <2>3. Yielded(s)' /\ Joins(s)'
    BY <1>1, <2>1, <2>2 DEF Yielded, Joins, Untouched
  <2>4. Covered(s)' /\ Drained(s)'
    BY <1>1, <2>1, <2>2 DEF Covered, Drained, Untouched
  <2> QED BY <2>3, <2>4 DEF SubSane
<1>5. ClientInv'
  BY <1>3 DEF ClientInv
<1>6. SubInv'
  BY <1>4 DEF SubInv, SubSane
<1> QED BY <1>2, <1>5, <1>6 DEF IInv

\* The types of everything a client does not touch.
LEMMA MoveTypes ==
    ASSUME Types, NEW c \in Client, Moves(c),
           running' \in Client \cup {Nobody}, subs' \subseteq Client, IsFiniteSet(subs'),
           cpc' \in [Client -> Labels], from' \in [Client -> Nat],
           start' \in [Client -> Nat], buf' \in [Client -> Seq(Nat)],
           stale' \in [Client -> BOOLEAN], event' \in [Client -> BOOLEAN],
           pos' \in [Sub -> Nat], got' \in [Sub -> Seq(Nat)], replay' \in [Sub -> Seq(Nat)]
    PROVE  Types'
<1>1. UNCHANGED <<next, closed, fileOpen, lock, wpc, note, todo>>
  BY DEF Moves, writers
<1>2. ready' \in Seq(Client \cup Msg)
  <2>1. ready \in Queue
    BY DEF Types, Queue
  <2>2. \/ ready' = ready
        \/ ready # <<>> /\ Head(ready) \in Client /\ ready' = Tail(ready)
        \/ \E d \in Client : ready' = Append(ready, d)
    BY DEF Moves
  <2>3. UNCHANGED writers
    BY DEF Moves
  <2> QED BY <2>1, <2>2, <2>3, QueueOfClients DEF Queue
<1> QED BY <1>1, <1>2, Zenon DEF Types

\* leave: the listener goes with the last subscriber.
LEMMA LeaveHub ==
    ASSUME IInv, NEW c \in Client, NEW l \in {"left", "failed", "ended", "true", "false"},
           Leave(c, l)
    PROVE  /\ subs' \subseteq Client /\ IsFiniteSet(subs') /\ ListenInv'
           /\ subs' = subs \ {c} /\ running' = Nobody /\ ready' = ready
           /\ cpc' = [cpc EXCEPT ![c] = l]
<1>1. /\ subs' = subs \ {c} /\ listening' = (listening /\ subs' # {})
      /\ running' = Nobody /\ ready' = ready /\ cpc' = [cpc EXCEPT ![c] = l]
  BY DEF Leave, Suspend, Goto
<1>2. subs \subseteq Client /\ IsFiniteSet(subs)
  BY Zenon DEF IInv, Types
<1>3. IsFiniteSet(subs') /\ subs' \subseteq Client
  BY <1>1, <1>2, FS_RemoveElement
<1>4. ListenInv'
  <2>1. subs' # {} => subs # {}
    BY <1>1
  <2>2. listening \in BOOLEAN /\ (listening <=> subs # {})
    BY Zenon DEF IInv, ListenInv
  <2> QED BY <1>1, <2>1, <2>2, Zenon DEF ListenInv
<1> QED BY <1>1, <1>3, <1>4

LEMMA RunStep ==
    ASSUME IInv, NEW c \in Client, Run(c)
    PROVE  IInv'
<1> USE RolesDistinct DEF Client
<1>1. /\ running = Nobody /\ running' = c
      /\ ready # <<>> /\ Head(ready) \in Client /\ ready' = Tail(ready)
      /\ UNCHANGED <<cpc, subs, listening, from, pos, got, replay, buf, start, stale,
            event>>
      /\ UNCHANGED <<next, closed, fileOpen, lock>> /\ UNCHANGED writers
  BY DEF Run, Continue, Suspend, Goto, engine, hub, loop, progress, view
<1>2. /\ Types /\ ListenInv
      /\ Placed(c) /\ Buffered(c) /\ Watched(c)
      /\ c \in Sub => Covered(c) /\ Drained(c) /\ Yielded(c) /\ Joins(c)
  BY DEF IInv, ClientInv, SubInv
<1>3. Moves(c)
  BY <1>1, <1>2 DEF Moves, Untouched, Types
<1>4. /\ next' = next /\ closed' = closed /\ next \in Nat /\ (Coming => Coming')
      /\ \A k : Announced(k) => Announced(k)'
  BY <1>2, <1>3, MoveFrame
<1>5. start[c] \in Nat /\ Len(buf[c]) \in Nat /\ from[c] \in Nat
      /\ c \in Sub => pos[c] \in Nat /\ Len(replay[c]) \in Nat /\ Len(got[c]) \in Nat
  BY <1>2 DEF Types
<1>6. Types'
  <2>1. /\ subs' \subseteq Client /\ IsFiniteSet(subs')
        /\ cpc' \in [Client -> Labels]
        /\ from' \in [Client -> Nat]
        /\ start' \in [Client -> Nat]
        /\ buf' \in [Client -> Seq(Nat)]
        /\ stale' \in [Client -> BOOLEAN]
        /\ event' \in [Client -> BOOLEAN]
        /\ pos' \in [Sub -> Nat]
        /\ got' \in [Sub -> Seq(Nat)]
        /\ replay' \in [Sub -> Seq(Nat)]
    BY <1>1, <1>2, Zenon DEF Types
  <2>2. running' \in Client \cup {Nobody}
    BY <1>1, <1>2 DEF Types, Labels, Gone, Held
  <2> QED BY <1>2, <1>3, <2>1, <2>2, MoveTypes
<1>7. ListenInv'
  BY <1>1, <1>2, Zenon DEF ListenInv
<1>8. Placed(c)'
  BY <1>1, <1>2, <1>4, <1>5 DEF Placed, Gone, Held, Types, Labels
<1>9. Buffered(c)'
  BY <1>1, <1>2, <1>4, <1>5 DEF Buffered, Types
<1>10. Watched(c)'
  BY <1>1, <1>2, <1>4, <1>5 DEF Watched, Wanted, Types
<1>11. ASSUME c \in Sub PROVE SubSane(c)'
  <2>1. Yielded(c)'
    BY <1>1, <1>2, <1>4, <1>5, <1>11 DEF Yielded, Gone, Types
  <2>2. Joins(c)'
    BY <1>1, <1>2, <1>4, <1>5, <1>11 DEF Joins, Fresh, Types
  <2>3. Covered(c)'
    BY <1>1, <1>2, <1>4, <1>5, <1>11 DEF Covered, Types
  <2>4. Drained(c)'
    BY <1>1, <1>2, <1>4, <1>5, <1>11 DEF Drained, Types
  <2> QED BY <2>1, <2>2, <2>3, <2>4 DEF SubSane
<1> QED BY <1>2, <1>3, <1>6, <1>7, <1>8, <1>9, <1>10, <1>11, MoveKeeps

LEMMA JoinStep ==
    ASSUME IInv, NEW c \in Client, NEW o \in 0..MaxRecords, Join(c, o)
    PROVE  IInv'
<1> USE RolesDistinct DEF Client
<1>1. /\ cpc[c] = "new" /\ running = Nobody /\ running' = c
      /\ from' = [from EXCEPT ![c] = o]
      /\ IF c \in Sub THEN pos' = [pos EXCEPT ![c] = o] ELSE pos' = pos
      /\ subs' = subs \cup {c} /\ listening' = TRUE
      /\ cpc' = [cpc EXCEPT ![c] = IF c \in Sub THEN "top" ELSE "test"]
      /\ UNCHANGED <<ready, got, replay, buf, start, stale, event>>
      /\ UNCHANGED <<next, closed, fileOpen, lock>> /\ UNCHANGED writers
  BY DEF Join, Continue, Suspend, Goto, engine, hub, loop, progress, view
<1>2. /\ Types /\ ListenInv
      /\ Placed(c) /\ Buffered(c) /\ Watched(c)
      /\ c \in Sub => Covered(c) /\ Drained(c) /\ Yielded(c) /\ Joins(c)
  BY DEF IInv, ClientInv, SubInv
<1>3. Moves(c)
  BY <1>1, <1>2 DEF Moves, Untouched, Types
<1>4. /\ next' = next /\ closed' = closed /\ next \in Nat /\ (Coming => Coming')
      /\ \A k : Announced(k) => Announced(k)'
  BY <1>2, <1>3, MoveFrame
<1>5. start[c] \in Nat /\ Len(buf[c]) \in Nat /\ from[c] \in Nat
      /\ c \in Sub => pos[c] \in Nat /\ Len(replay[c]) \in Nat /\ Len(got[c]) \in Nat
  BY <1>2 DEF Types
<1>5a. /\ from'[c] = o /\ o \in Nat /\ stale'[c]
       /\ c \in Sub => pos'[c] = o /\ cpc'[c] = "top"
  <2>1. from'[c] = o /\ o \in Nat
    BY <1>1, <1>2, Limits DEF Types
  <2>2. stale'[c]
    BY <1>1, <1>2, Zenon DEF Placed
  <2>3. ASSUME c \in Sub PROVE pos'[c] = o /\ cpc'[c] = "top"
    BY <1>1, <1>2, <2>3 DEF Types
  <2> QED BY <2>1, <2>2, <2>3
<1>6. Types'
  <2>1. /\ start' \in [Client -> Nat]
        /\ buf' \in [Client -> Seq(Nat)]
        /\ stale' \in [Client -> BOOLEAN]
        /\ event' \in [Client -> BOOLEAN]
        /\ got' \in [Sub -> Seq(Nat)]
        /\ replay' \in [Sub -> Seq(Nat)]
    BY <1>1, <1>2, Zenon DEF Types
  <2>2. running' \in Client \cup {Nobody}
    BY <1>1, <1>2 DEF Types, Labels, Gone, Held
  <2>3. subs' \subseteq Client /\ IsFiniteSet(subs')
    <3>1. subs \subseteq Client /\ IsFiniteSet(subs)
      BY <1>2, Zenon DEF Types
    <3> QED BY <1>1, <3>1, FS_AddElement
  <2>4. cpc' \in [Client -> Labels]
    BY <1>1, <1>2 DEF Types, Labels, Gone, Held
  <2>5. from' \in [Client -> Nat]
    BY <1>1, <1>2 DEF Types, Labels, Gone, Held
  <2>6. pos' \in [Sub -> Nat]
    <3>1. CASE c \in Sub
      <4>1. pos' = [pos EXCEPT ![c] = o] /\ pos \in [Sub -> Nat] /\ o \in Nat
        BY <1>1, <1>2, <1>5a, <3>1, Zenon DEF Types
      <4> QED BY <4>1
    <3>2. CASE c \notin Sub
      BY <1>1, <1>2, <3>2, Zenon DEF Types
    <3> QED BY <3>1, <3>2
  <2> QED BY <1>2, <1>3, <2>1, <2>2, <2>3, <2>4, <2>5, <2>6, MoveTypes
<1>7. ListenInv'
  BY <1>1 DEF ListenInv
<1>8. Placed(c)'
  BY <1>1, <1>2, <1>4, <1>5, <1>5a, RecordsEmpty DEF Placed, Gone, Held, Types,
     Labels
<1>9. Buffered(c)'
  BY <1>1, <1>2, <1>4, <1>5, <1>5a, RecordsEmpty DEF Buffered, Types
<1>10. Watched(c)'
  BY <1>1, <1>2, <1>4, <1>5, <1>5a, RecordsEmpty DEF Watched, Wanted, Types
<1>11. ASSUME c \in Sub PROVE SubSane(c)'
  <2>1. Yielded(c)'
    BY <1>1, <1>2, <1>4, <1>5, <1>5a, RecordsEmpty, <1>11 DEF Yielded, Gone, Types
  <2>2. Joins(c)'
    BY <1>5a, <1>11 DEF Joins, Fresh
  <2>3. Covered(c)'
    BY <1>5a, <1>11, Zenon DEF Covered
  <2>4. Drained(c)'
    BY <1>1, <1>2, <1>4, <1>5, <1>5a, RecordsEmpty, <1>11 DEF Drained, Types
  <2> QED BY <2>1, <2>2, <2>3, <2>4 DEF SubSane
<1> QED BY <1>2, <1>3, <1>6, <1>7, <1>8, <1>9, <1>10, <1>11, MoveKeeps

LEMMA CancelStep ==
    ASSUME IInv, NEW c \in Client, Cancel(c)
    PROVE  IInv'
<1> USE RolesDistinct DEF Client
<1>0. Leave(c, "left")
  BY DEF Cancel
<1>1. /\ cpc[c] \in {"wait", "paused", "reading"} /\ running = Nobody
      /\ cpc' = [cpc EXCEPT ![c] = "left"]
      /\ subs' = subs \ {c} /\ running' = Nobody
      /\ UNCHANGED <<ready, from, pos, got, replay, buf, start, stale, event>>
      /\ UNCHANGED <<next, closed, fileOpen, lock>> /\ UNCHANGED writers
  BY <1>0, LeaveHub DEF Cancel, Continue, Suspend, Goto, engine, hub, loop,
     progress, view
<1>2. /\ Types /\ ListenInv
      /\ Placed(c) /\ Buffered(c) /\ Watched(c)
      /\ c \in Sub => Covered(c) /\ Drained(c) /\ Yielded(c) /\ Joins(c)
  BY DEF IInv, ClientInv, SubInv
<1>3. Moves(c)
  BY <1>1, <1>2 DEF Moves, Untouched, Types
<1>4. /\ next' = next /\ closed' = closed /\ next \in Nat /\ (Coming => Coming')
      /\ \A k : Announced(k) => Announced(k)'
  BY <1>2, <1>3, MoveFrame
<1>5. start[c] \in Nat /\ Len(buf[c]) \in Nat /\ from[c] \in Nat
      /\ c \in Sub => pos[c] \in Nat /\ Len(replay[c]) \in Nat /\ Len(got[c]) \in Nat
  BY <1>2 DEF Types
<1>6. Types'
  <2>1. /\ from' \in [Client -> Nat]
        /\ start' \in [Client -> Nat]
        /\ buf' \in [Client -> Seq(Nat)]
        /\ stale' \in [Client -> BOOLEAN]
        /\ event' \in [Client -> BOOLEAN]
        /\ pos' \in [Sub -> Nat]
        /\ got' \in [Sub -> Seq(Nat)]
        /\ replay' \in [Sub -> Seq(Nat)]
    BY <1>1, <1>2, Zenon DEF Types
  <2>2. running' \in Client \cup {Nobody}
    BY <1>1, <1>2 DEF Types, Labels, Gone, Held
  <2>3. subs' \subseteq Client /\ IsFiniteSet(subs')
    BY <1>0, LeaveHub
  <2>4. cpc' \in [Client -> Labels]
    BY <1>1, <1>2 DEF Types, Labels, Gone, Held
  <2> QED BY <1>2, <1>3, <2>1, <2>2, <2>3, <2>4, MoveTypes
<1>7. ListenInv'
  BY <1>0, LeaveHub
<1>8. Placed(c)'
  BY <1>1, <1>2, <1>4, <1>5 DEF Placed, Gone, Held, Types, Labels
<1>9. Buffered(c)'
  BY <1>1, <1>2, <1>4, <1>5 DEF Buffered, Types
<1>10. Watched(c)'
  BY <1>1, <1>2, <1>4, <1>5 DEF Watched, Wanted, Types
<1>11. ASSUME c \in Sub PROVE SubSane(c)'
  <2>1. Yielded(c)'
    BY <1>1, <1>2, <1>4, <1>5, <1>11 DEF Yielded, Gone, Types
  <2>2. Joins(c)'
    BY <1>1, <1>2, <1>4, <1>5, <1>11 DEF Joins, Fresh, Types
  <2>3. Covered(c)'
    BY <1>1, <1>2, <1>4, <1>5, <1>11 DEF Covered, Types
  <2>4. Drained(c)'
    BY <1>1, <1>2, <1>4, <1>5, <1>11 DEF Drained, Types
  <2> QED BY <2>1, <2>2, <2>3, <2>4 DEF SubSane
<1> QED BY <1>2, <1>3, <1>6, <1>7, <1>8, <1>9, <1>10, <1>11, MoveKeeps

LEMMA CatchUpStep ==
    ASSUME IInv, NEW s \in Sub, CatchUp(s)
    PROVE  IInv'
<1> USE RolesDistinct DEF Client
<1>1. /\ cpc[s] = "top" /\ running = s
      /\ cpc' = [cpc EXCEPT ![s] = "mark"]
      /\ stale' = [stale EXCEPT ![s] = FALSE]
      /\ buf' = [buf EXCEPT ![s] = <<>>]
      /\ UNCHANGED <<running, ready, subs, listening, from, pos, got, replay, start,
            event>>
      /\ UNCHANGED <<next, closed, fileOpen, lock>> /\ UNCHANGED writers
  BY DEF CatchUp, Continue, Suspend, Goto, engine, hub, loop, progress, view
<1>2. /\ Types /\ ListenInv
      /\ Placed(s) /\ Buffered(s) /\ Watched(s) /\ Yielded(s) /\ Joins(s)
      /\ Covered(s) /\ Drained(s) /\ s \in Client
  BY DEF IInv, ClientInv, SubInv
<1>3. Moves(s)
  BY <1>1, <1>2 DEF Moves, Untouched, Types
<1>4. /\ next' = next /\ closed' = closed /\ next \in Nat /\ (Coming => Coming')
      /\ \A k : Announced(k) => Announced(k)'
  BY <1>2, <1>3, MoveFrame
<1>5. start[s] \in Nat /\ Len(buf[s]) \in Nat /\ from[s] \in Nat
      /\ pos[s] \in Nat /\ Len(replay[s]) \in Nat /\ Len(got[s]) \in Nat
  BY <1>2 DEF Types
<1>6. Types'
  <2>1. /\ running' \in Client \cup {Nobody}
        /\ subs' \subseteq Client /\ IsFiniteSet(subs')
        /\ from' \in [Client -> Nat]
        /\ start' \in [Client -> Nat]
        /\ event' \in [Client -> BOOLEAN]
        /\ pos' \in [Sub -> Nat]
        /\ got' \in [Sub -> Seq(Nat)]
        /\ replay' \in [Sub -> Seq(Nat)]
    BY <1>1, <1>2, Zenon DEF Types
  <2>2. cpc' \in [Client -> Labels]
    BY <1>1, <1>2 DEF Types, Labels, Gone, Held
  <2>3. buf' \in [Client -> Seq(Nat)]
    BY <1>1, <1>2 DEF Types, Labels, Gone, Held
  <2>4. stale' \in [Client -> BOOLEAN]
    BY <1>1, <1>2 DEF Types, Labels, Gone, Held
  <2> QED BY <1>2, <1>3, <2>1, <2>2, <2>3, <2>4, MoveTypes
<1>7. ListenInv'
  BY <1>1, <1>2, Zenon DEF ListenInv
<1>8. Placed(s)'
  BY <1>1, <1>2, <1>4, <1>5 DEF Placed, Gone, Held, Types, Labels
<1>9. Buffered(s)'
  BY <1>1, <1>2, <1>5, RecordsEmpty, Limits DEF Buffered, Types
<1>10. Watched(s)'
  BY <1>1, <1>2, <1>4, <1>5 DEF Watched, Wanted, Types
<1>11. SubSane(s)'
  <2>1. Yielded(s)'
    BY <1>1, <1>2, <1>4, <1>5 DEF Yielded, Gone, Types
  <2>2. Joins(s)'
    BY <1>1, <1>2, <1>4, <1>5 DEF Joins, Fresh, Types
  <2>3. Covered(s)'
    BY <1>1, <1>2, <1>4, <1>5 DEF Covered, Types
  <2>4. Drained(s)'
    BY <1>1, <1>2, <1>4, <1>5 DEF Drained, Types
  <2> QED BY <2>1, <2>2, <2>3, <2>4 DEF SubSane
<1> QED BY <1>2, <1>3, <1>6, <1>7, <1>8, <1>9, <1>10, <1>11, MoveKeeps

LEMMA MarkStep ==
    ASSUME IInv, NEW s \in Sub, Mark(s)
    PROVE  IInv'
<1> USE RolesDistinct DEF Client
<1>1. /\ cpc[s] = "mark" /\ running = s
      /\ cpc' = [cpc EXCEPT ![s] = "read"]
      /\ start' = [start EXCEPT ![s] = next]
      /\ UNCHANGED <<running, ready, subs, listening, from, pos, got, replay, buf,
            stale, event>>
      /\ UNCHANGED <<next, closed, fileOpen, lock>> /\ UNCHANGED writers
  BY DEF Mark, Continue, Suspend, Goto, engine, hub, loop, progress, view
<1>2. /\ Types /\ ListenInv
      /\ Placed(s) /\ Buffered(s) /\ Watched(s) /\ Yielded(s) /\ Joins(s)
      /\ Covered(s) /\ Drained(s) /\ s \in Client
  BY DEF IInv, ClientInv, SubInv
<1>3. Moves(s)
  BY <1>1, <1>2 DEF Moves, Untouched, Types
<1>4. /\ next' = next /\ closed' = closed /\ next \in Nat /\ (Coming => Coming')
      /\ \A k : Announced(k) => Announced(k)'
  BY <1>2, <1>3, MoveFrame
<1>5. start[s] \in Nat /\ Len(buf[s]) \in Nat /\ from[s] \in Nat
      /\ pos[s] \in Nat /\ Len(replay[s]) \in Nat /\ Len(got[s]) \in Nat
  BY <1>2 DEF Types
<1>6. Types'
  <2>1. /\ running' \in Client \cup {Nobody}
        /\ subs' \subseteq Client /\ IsFiniteSet(subs')
        /\ from' \in [Client -> Nat]
        /\ buf' \in [Client -> Seq(Nat)]
        /\ stale' \in [Client -> BOOLEAN]
        /\ event' \in [Client -> BOOLEAN]
        /\ pos' \in [Sub -> Nat]
        /\ got' \in [Sub -> Seq(Nat)]
        /\ replay' \in [Sub -> Seq(Nat)]
    BY <1>1, <1>2, Zenon DEF Types
  <2>2. cpc' \in [Client -> Labels]
    BY <1>1, <1>2 DEF Types, Labels, Gone, Held
  <2>3. start' \in [Client -> Nat]
    BY <1>1, <1>2 DEF Types, Labels, Gone, Held
  <2> QED BY <1>2, <1>3, <2>1, <2>2, <2>3, MoveTypes
<1>7. ListenInv'
  BY <1>1, <1>2, Zenon DEF ListenInv
<1>8. Placed(s)'
  BY <1>1, <1>2, <1>4, <1>5 DEF Placed, Gone, Held, Types, Labels
<1>9. Buffered(s)'
  BY <1>1, <1>2, <1>4, <1>5, RecordsEmpty, Limits DEF Buffered, Joins, Types
<1>10. Watched(s)'
  BY <1>1, <1>2, <1>4, <1>5 DEF Watched, Wanted, Types
<1>11. SubSane(s)'
  <2>1. Yielded(s)'
    BY <1>1, <1>2, <1>4, <1>5 DEF Yielded, Gone, Types
  <2>2. Joins(s)'
    BY <1>1, <1>2, <1>4, <1>5 DEF Joins, Fresh, Types
  <2>3. Covered(s)'
    BY <1>1, <1>2, <1>4, <1>5 DEF Covered, Types
  <2>4. Drained(s)'
    BY <1>1, <1>2, <1>4, <1>5 DEF Drained, Types
  <2> QED BY <2>1, <2>2, <2>3, <2>4 DEF SubSane
<1> QED BY <1>2, <1>3, <1>6, <1>7, <1>8, <1>9, <1>10, <1>11, MoveKeeps

LEMMA ReadStep ==
    ASSUME IInv, NEW s \in Sub, Read(s)
    PROVE  IInv'
<1> USE RolesDistinct DEF Client
<1>1. /\ cpc[s] = "read" /\ running = s
      /\ \/ pos[s] >= next /\ cpc' = [cpc EXCEPT ![s] = "top"] /\ running' = running
         \/ ~(pos[s] >= next) /\ cpc' = [cpc EXCEPT ![s] = "reading"] /\ running' = Nobody
      /\ UNCHANGED <<ready, subs, listening, from, pos, got, replay, buf, start, stale,
            event>>
      /\ UNCHANGED <<next, closed, fileOpen, lock>> /\ UNCHANGED writers
  BY DEF Read, Continue, Suspend, Goto, engine, hub, loop, progress, view
<1>2. /\ Types /\ ListenInv
      /\ Placed(s) /\ Buffered(s) /\ Watched(s) /\ Yielded(s) /\ Joins(s)
      /\ Covered(s) /\ Drained(s) /\ s \in Client
  BY DEF IInv, ClientInv, SubInv
<1>3. Moves(s)
  BY <1>1, <1>2 DEF Moves, Untouched, Types
<1>4. /\ next' = next /\ closed' = closed /\ next \in Nat /\ (Coming => Coming')
      /\ \A k : Announced(k) => Announced(k)'
  BY <1>2, <1>3, MoveFrame
<1>5. start[s] \in Nat /\ Len(buf[s]) \in Nat /\ from[s] \in Nat
      /\ pos[s] \in Nat /\ Len(replay[s]) \in Nat /\ Len(got[s]) \in Nat
  BY <1>2 DEF Types
<1>6. Types'
  <2>1. /\ subs' \subseteq Client /\ IsFiniteSet(subs')
        /\ from' \in [Client -> Nat]
        /\ start' \in [Client -> Nat]
        /\ buf' \in [Client -> Seq(Nat)]
        /\ stale' \in [Client -> BOOLEAN]
        /\ event' \in [Client -> BOOLEAN]
        /\ pos' \in [Sub -> Nat]
        /\ got' \in [Sub -> Seq(Nat)]
        /\ replay' \in [Sub -> Seq(Nat)]
    BY <1>1, <1>2, Zenon DEF Types
  <2>2. running' \in Client \cup {Nobody}
    BY <1>1, <1>2 DEF Types, Labels, Gone, Held
  <2>3. cpc' \in [Client -> Labels]
    BY <1>1, <1>2 DEF Types, Labels, Gone, Held
  <2> QED BY <1>2, <1>3, <2>1, <2>2, <2>3, MoveTypes
<1>7. ListenInv'
  BY <1>1, <1>2, Zenon DEF ListenInv
<1>8. Placed(s)'
  BY <1>1, <1>2, <1>4, <1>5 DEF Placed, Gone, Held, Types, Labels
<1>9. Buffered(s)'
  BY <1>1, <1>2, <1>4, <1>5 DEF Buffered, Types
<1>10. Watched(s)'
  BY <1>1, <1>2, <1>4, <1>5 DEF Watched, Wanted, Types
<1>11. SubSane(s)'
  <2>1. Yielded(s)'
    BY <1>1, <1>2, <1>4, <1>5 DEF Yielded, Gone, Types
  <2>2. Joins(s)'
    BY <1>1, <1>2, <1>4, <1>5 DEF Joins, Fresh, Types
  <2>3. Covered(s)'
    BY <1>1, <1>2, <1>4, <1>5 DEF Covered, Types
  <2>4. Drained(s)'
    BY <1>1, <1>2, <1>4, <1>5 DEF Drained, Types
  <2> QED BY <2>1, <2>2, <2>3, <2>4 DEF SubSane
<1> QED BY <1>2, <1>3, <1>6, <1>7, <1>8, <1>9, <1>10, <1>11, MoveKeeps

LEMMA ReadInThreadStep ==
    ASSUME IInv, NEW s \in Sub, ReadInThread(s)
    PROVE  IInv'
<1> USE RolesDistinct DEF Client
<1>1. /\ cpc[s] = "reading"
      /\ ready' = Append(ready, s)
      /\ \/ replay' = [replay EXCEPT ![s] = Records(pos[s], next - pos[s])] /\ cpc' = [cpc EXCEPT ![s] = "replay"]
         \/ replay' = replay /\ cpc' = [cpc EXCEPT ![s] = "raise"]
      /\ UNCHANGED <<running, subs, listening, from, pos, got, buf, start, stale,
            event>>
      /\ UNCHANGED <<next, closed, fileOpen, lock>> /\ UNCHANGED writers
  BY DEF ReadInThread, Continue, Suspend, Goto, engine, hub, loop, progress, view
<1>2. /\ Types /\ ListenInv
      /\ Placed(s) /\ Buffered(s) /\ Watched(s) /\ Yielded(s) /\ Joins(s)
      /\ Covered(s) /\ Drained(s) /\ s \in Client
  BY DEF IInv, ClientInv, SubInv
<1>3. Moves(s)
  BY <1>1, <1>2 DEF Moves, Untouched, Types
<1>4. /\ next' = next /\ closed' = closed /\ next \in Nat /\ (Coming => Coming')
      /\ \A k : Announced(k) => Announced(k)'
  BY <1>2, <1>3, MoveFrame
<1>5. start[s] \in Nat /\ Len(buf[s]) \in Nat /\ from[s] \in Nat
      /\ pos[s] \in Nat /\ Len(replay[s]) \in Nat /\ Len(got[s]) \in Nat
  BY <1>2 DEF Types
<1>5a. /\ Records(pos[s], next - pos[s]) \in Seq(Nat)
       /\ Len(Records(pos[s], next - pos[s])) = next - pos[s]
  <2>1. next - pos[s] \in Nat
    BY <1>1, <1>2, <1>4, <1>5 DEF Joins
  <2> QED BY <1>5, <2>1, RecordsRun
<1>6. Types'
  <2>1. /\ running' \in Client \cup {Nobody}
        /\ subs' \subseteq Client /\ IsFiniteSet(subs')
        /\ from' \in [Client -> Nat]
        /\ start' \in [Client -> Nat]
        /\ buf' \in [Client -> Seq(Nat)]
        /\ stale' \in [Client -> BOOLEAN]
        /\ event' \in [Client -> BOOLEAN]
        /\ pos' \in [Sub -> Nat]
        /\ got' \in [Sub -> Seq(Nat)]
    BY <1>1, <1>2, Zenon DEF Types
  <2>2. cpc' \in [Client -> Labels]
    BY <1>1, <1>2 DEF Types, Labels, Gone, Held
  <2>3. replay' \in [Sub -> Seq(Nat)]
    BY <1>1, <1>2, <1>5a, ZenonT(30) DEF Types
  <2> QED BY <1>2, <1>3, <2>1, <2>2, <2>3, MoveTypes
<1>7. ListenInv'
  BY <1>1, <1>2, Zenon DEF ListenInv
<1>8. Placed(s)'
  BY <1>1, <1>2, <1>4, <1>5, <1>5a DEF Placed, Gone, Held, Types, Labels
<1>9. Buffered(s)'
  BY <1>1, <1>2, <1>4, <1>5, <1>5a DEF Buffered, Types
<1>10. Watched(s)'
  BY <1>1, <1>2, <1>4, <1>5, <1>5a DEF Watched, Wanted, Types
<1>11. SubSane(s)'
  <2>1. Yielded(s)'
    BY <1>1, <1>2, <1>4, <1>5, <1>5a, ZenonT(30) DEF Yielded, Gone, Types
  <2>2. Joins(s)'
    <3>1. CASE cpc'[s] = "replay"
      <4>1. Len(replay'[s]) = next - pos[s] /\ (~stale[s] => start[s] <= next)
        BY <1>1, <1>2, <1>5a, <3>1 DEF Joins, Types
      <4> QED BY <1>1, <1>4, <1>5, <3>1, <4>1 DEF Joins, Fresh
    <3>2. CASE cpc'[s] = "raise"
      BY <3>2 DEF Joins, Fresh
    <3> QED BY <1>1, <1>2, <3>1, <3>2 DEF Types
  <2>3. Covered(s)'
    BY <1>1, <1>2, <1>4, <1>5, <1>5a DEF Covered, Types
  <2>4. Drained(s)'
    BY <1>1, <1>2, <1>4, <1>5, <1>5a DEF Drained, Types
  <2> QED BY <2>1, <2>2, <2>3, <2>4 DEF SubSane
<1> QED BY <1>2, <1>3, <1>6, <1>7, <1>8, <1>9, <1>10, <1>11, MoveKeeps

LEMMA RaiseStep ==
    ASSUME IInv, NEW s \in Sub, Raise(s)
    PROVE  IInv'
<1> USE RolesDistinct DEF Client
<1>0. Leave(s, "failed")
  BY DEF Raise
<1>1. /\ cpc[s] = "raise" /\ running = s
      /\ cpc' = [cpc EXCEPT ![s] = "failed"]
      /\ subs' = subs \ {s} /\ running' = Nobody
      /\ UNCHANGED <<ready, from, pos, got, replay, buf, start, stale, event>>
      /\ UNCHANGED <<next, closed, fileOpen, lock>> /\ UNCHANGED writers
  BY <1>0, LeaveHub DEF Raise, Continue, Suspend, Goto, engine, hub, loop, progress,
     view
<1>2. /\ Types /\ ListenInv
      /\ Placed(s) /\ Buffered(s) /\ Watched(s) /\ Yielded(s) /\ Joins(s)
      /\ Covered(s) /\ Drained(s) /\ s \in Client
  BY DEF IInv, ClientInv, SubInv
<1>3. Moves(s)
  BY <1>1, <1>2 DEF Moves, Untouched, Types
<1>4. /\ next' = next /\ closed' = closed /\ next \in Nat /\ (Coming => Coming')
      /\ \A k : Announced(k) => Announced(k)'
  BY <1>2, <1>3, MoveFrame
<1>5. start[s] \in Nat /\ Len(buf[s]) \in Nat /\ from[s] \in Nat
      /\ pos[s] \in Nat /\ Len(replay[s]) \in Nat /\ Len(got[s]) \in Nat
  BY <1>2 DEF Types
<1>6. Types'
  <2>1. /\ from' \in [Client -> Nat]
        /\ start' \in [Client -> Nat]
        /\ buf' \in [Client -> Seq(Nat)]
        /\ stale' \in [Client -> BOOLEAN]
        /\ event' \in [Client -> BOOLEAN]
        /\ pos' \in [Sub -> Nat]
        /\ got' \in [Sub -> Seq(Nat)]
        /\ replay' \in [Sub -> Seq(Nat)]
    BY <1>1, <1>2, Zenon DEF Types
  <2>2. running' \in Client \cup {Nobody}
    BY <1>1, <1>2 DEF Types, Labels, Gone, Held
  <2>3. subs' \subseteq Client /\ IsFiniteSet(subs')
    BY <1>0, LeaveHub
  <2>4. cpc' \in [Client -> Labels]
    BY <1>1, <1>2 DEF Types, Labels, Gone, Held
  <2> QED BY <1>2, <1>3, <2>1, <2>2, <2>3, <2>4, MoveTypes
<1>7. ListenInv'
  BY <1>0, LeaveHub
<1>8. Placed(s)'
  BY <1>1, <1>2, <1>4, <1>5 DEF Placed, Gone, Held, Types, Labels
<1>9. Buffered(s)'
  BY <1>1, <1>2, <1>4, <1>5 DEF Buffered, Types
<1>10. Watched(s)'
  BY <1>1, <1>2, <1>4, <1>5 DEF Watched, Wanted, Types
<1>11. SubSane(s)'
  <2>1. Yielded(s)'
    BY <1>1, <1>2, <1>4, <1>5 DEF Yielded, Gone, Types
  <2>2. Joins(s)'
    BY <1>1, <1>2, <1>4, <1>5 DEF Joins, Fresh, Types
  <2>3. Covered(s)'
    BY <1>1, <1>2, <1>4, <1>5 DEF Covered, Types
  <2>4. Drained(s)'
    BY <1>1, <1>2, <1>4, <1>5 DEF Drained, Types
  <2> QED BY <2>1, <2>2, <2>3, <2>4 DEF SubSane
<1> QED BY <1>2, <1>3, <1>6, <1>7, <1>8, <1>9, <1>10, <1>11, MoveKeeps

LEMMA ConsumeStep ==
    ASSUME IInv, NEW s \in Sub, Consume(s)
    PROVE  IInv'
<1> USE RolesDistinct DEF Client
<1>1. /\ cpc[s] = "paused"
      /\ ready' = Append(ready, s)
      /\ cpc' = [cpc EXCEPT ![s] = "replay"]
      /\ UNCHANGED <<running, subs, listening, from, pos, got, replay, buf, start,
            stale, event>>
      /\ UNCHANGED <<next, closed, fileOpen, lock>> /\ UNCHANGED writers
  BY DEF Consume, Continue, Suspend, Goto, engine, hub, loop, progress, view
<1>2. /\ Types /\ ListenInv
      /\ Placed(s) /\ Buffered(s) /\ Watched(s) /\ Yielded(s) /\ Joins(s)
      /\ Covered(s) /\ Drained(s) /\ s \in Client
  BY DEF IInv, ClientInv, SubInv
<1>3. Moves(s)
  BY <1>1, <1>2 DEF Moves, Untouched, Types
<1>4. /\ next' = next /\ closed' = closed /\ next \in Nat /\ (Coming => Coming')
      /\ \A k : Announced(k) => Announced(k)'
  BY <1>2, <1>3, MoveFrame
<1>5. start[s] \in Nat /\ Len(buf[s]) \in Nat /\ from[s] \in Nat
      /\ pos[s] \in Nat /\ Len(replay[s]) \in Nat /\ Len(got[s]) \in Nat
  BY <1>2 DEF Types
<1>6. Types'
  <2>1. /\ running' \in Client \cup {Nobody}
        /\ subs' \subseteq Client /\ IsFiniteSet(subs')
        /\ from' \in [Client -> Nat]
        /\ start' \in [Client -> Nat]
        /\ buf' \in [Client -> Seq(Nat)]
        /\ stale' \in [Client -> BOOLEAN]
        /\ event' \in [Client -> BOOLEAN]
        /\ pos' \in [Sub -> Nat]
        /\ got' \in [Sub -> Seq(Nat)]
        /\ replay' \in [Sub -> Seq(Nat)]
    BY <1>1, <1>2, Zenon DEF Types
  <2>2. cpc' \in [Client -> Labels]
    BY <1>1, <1>2 DEF Types, Labels, Gone, Held
  <2> QED BY <1>2, <1>3, <2>1, <2>2, MoveTypes
<1>7. ListenInv'
  BY <1>1, <1>2, Zenon DEF ListenInv
<1>8. Placed(s)'
  BY <1>1, <1>2, <1>4, <1>5 DEF Placed, Gone, Held, Types, Labels
<1>9. Buffered(s)'
  BY <1>1, <1>2, <1>4, <1>5 DEF Buffered, Types
<1>10. Watched(s)'
  BY <1>1, <1>2, <1>4, <1>5 DEF Watched, Wanted, Types
<1>11. SubSane(s)'
  <2>1. Yielded(s)'
    BY <1>1, <1>2, <1>4, <1>5 DEF Yielded, Gone, Types
  <2>2. Joins(s)'
    BY <1>1, <1>2, <1>4, <1>5 DEF Joins, Fresh, Types
  <2>3. Covered(s)'
    BY <1>1, <1>2, <1>4, <1>5 DEF Covered, Types
  <2>4. Drained(s)'
    BY <1>1, <1>2, <1>4, <1>5 DEF Drained, Types
  <2> QED BY <2>1, <2>2, <2>3, <2>4 DEF SubSane
<1> QED BY <1>2, <1>3, <1>6, <1>7, <1>8, <1>9, <1>10, <1>11, MoveKeeps

LEMMA FinalStep ==
    ASSUME IInv, NEW s \in Sub, Final(s)
    PROVE  IInv'
<1> USE RolesDistinct DEF Client
<1>0. \/ Leave(s, "ended")
      \/ UNCHANGED <<subs, listening>>
  BY DEF Final, hub
<1>1. /\ cpc[s] = "final" /\ running = s
      /\ \/ /\ pos[s] >= next /\ stale' = stale
            /\ cpc' = [cpc EXCEPT ![s] = "ended"]
            /\ subs' = subs \ {s} /\ running' = Nobody
         \/ /\ ~(pos[s] >= next) /\ stale' = [stale EXCEPT ![s] = TRUE]
            /\ cpc' = [cpc EXCEPT ![s] = "top"]
            /\ subs' = subs /\ running' = running
      /\ UNCHANGED <<ready, from, pos, got, replay, buf, start, event>>
      /\ UNCHANGED <<next, closed, fileOpen, lock>> /\ UNCHANGED writers
  BY <1>0, LeaveHub DEF Final, Continue, Suspend, Goto, engine, hub, loop, progress,
     view
<1>2. /\ Types /\ ListenInv
      /\ Placed(s) /\ Buffered(s) /\ Watched(s) /\ Yielded(s) /\ Joins(s)
      /\ Covered(s) /\ Drained(s) /\ s \in Client
  BY DEF IInv, ClientInv, SubInv
<1>3. Moves(s)
  BY <1>1, <1>2 DEF Moves, Untouched, Types
<1>4. /\ next' = next /\ closed' = closed /\ next \in Nat /\ (Coming => Coming')
      /\ \A k : Announced(k) => Announced(k)'
  BY <1>2, <1>3, MoveFrame
<1>5. start[s] \in Nat /\ Len(buf[s]) \in Nat /\ from[s] \in Nat
      /\ pos[s] \in Nat /\ Len(replay[s]) \in Nat /\ Len(got[s]) \in Nat
  BY <1>2 DEF Types
<1>6. Types'
  <2>1. /\ from' \in [Client -> Nat]
        /\ start' \in [Client -> Nat]
        /\ buf' \in [Client -> Seq(Nat)]
        /\ event' \in [Client -> BOOLEAN]
        /\ pos' \in [Sub -> Nat]
        /\ got' \in [Sub -> Seq(Nat)]
        /\ replay' \in [Sub -> Seq(Nat)]
    BY <1>1, <1>2, Zenon DEF Types
  <2>2. running' \in Client \cup {Nobody}
    BY <1>1, <1>2 DEF Types, Labels, Gone, Held
  <2>3. subs' \subseteq Client /\ IsFiniteSet(subs')
    <3>1. subs \subseteq Client /\ IsFiniteSet(subs)
      BY <1>2, Zenon DEF Types
    <3> QED BY <1>0, <3>1, LeaveHub
  <2>4. cpc' \in [Client -> Labels]
    BY <1>1, <1>2 DEF Types, Labels, Gone, Held
  <2>5. stale' \in [Client -> BOOLEAN]
    BY <1>1, <1>2 DEF Types, Labels, Gone, Held
  <2> QED BY <1>2, <1>3, <2>1, <2>2, <2>3, <2>4, <2>5, MoveTypes
<1>7. ListenInv'
  <2>1. CASE Leave(s, "ended")
    BY <2>1, LeaveHub
  <2>2. CASE UNCHANGED <<subs, listening>>
    BY <1>2, <2>2, Zenon DEF ListenInv
  <2> QED BY <1>0, <2>1, <2>2
<1>8. Placed(s)'
  BY <1>1, <1>2, <1>4, <1>5 DEF Placed, Gone, Held, Types, Labels
<1>9. Buffered(s)'
  BY <1>1, <1>2, <1>4, <1>5 DEF Buffered, Types
<1>10. Watched(s)'
  BY <1>1, <1>2, <1>4, <1>5 DEF Watched, Wanted, Types
<1>11. SubSane(s)'
  <2>1. Yielded(s)'
    BY <1>1, <1>2, <1>4, <1>5 DEF Yielded, Gone, Types
  <2>2. Joins(s)'
    BY <1>1, <1>2, <1>4, <1>5 DEF Joins, Fresh, Types
  <2>3. Covered(s)'
    BY <1>1, <1>2, <1>4, <1>5 DEF Covered, Types
  <2>4. Drained(s)'
    BY <1>1, <1>2, <1>4, <1>5 DEF Drained, Types
  <2> QED BY <2>1, <2>2, <2>3, <2>4 DEF SubSane
<1> QED BY <1>2, <1>3, <1>6, <1>7, <1>8, <1>9, <1>10, <1>11, MoveKeeps

LEMMA RecheckStep ==
    ASSUME IInv, NEW s \in Sub, Recheck(s)
    PROVE  IInv'
<1> USE RolesDistinct DEF Client
<1>1. /\ cpc[s] = "recheck" /\ running = s
      /\ \/ closed /\ cpc' = [cpc EXCEPT ![s] = "top"] /\ running' = running
         \/ ~closed /\ cpc' = [cpc EXCEPT ![s] = "wait"] /\ running' = Nobody
      /\ UNCHANGED <<ready, subs, listening, from, pos, got, replay, buf, start, stale,
            event>>
      /\ UNCHANGED <<next, closed, fileOpen, lock>> /\ UNCHANGED writers
  BY DEF Recheck, Continue, Suspend, Goto, engine, hub, loop, progress, view
<1>2. /\ Types /\ ListenInv
      /\ Placed(s) /\ Buffered(s) /\ Watched(s) /\ Yielded(s) /\ Joins(s)
      /\ Covered(s) /\ Drained(s) /\ s \in Client
  BY DEF IInv, ClientInv, SubInv
<1>3. Moves(s)
  BY <1>1, <1>2 DEF Moves, Untouched, Types
<1>4. /\ next' = next /\ closed' = closed /\ next \in Nat /\ (Coming => Coming')
      /\ \A k : Announced(k) => Announced(k)'
  BY <1>2, <1>3, MoveFrame
<1>5. start[s] \in Nat /\ Len(buf[s]) \in Nat /\ from[s] \in Nat
      /\ pos[s] \in Nat /\ Len(replay[s]) \in Nat /\ Len(got[s]) \in Nat
  BY <1>2 DEF Types
<1>6. Types'
  <2>1. /\ subs' \subseteq Client /\ IsFiniteSet(subs')
        /\ from' \in [Client -> Nat]
        /\ start' \in [Client -> Nat]
        /\ buf' \in [Client -> Seq(Nat)]
        /\ stale' \in [Client -> BOOLEAN]
        /\ event' \in [Client -> BOOLEAN]
        /\ pos' \in [Sub -> Nat]
        /\ got' \in [Sub -> Seq(Nat)]
        /\ replay' \in [Sub -> Seq(Nat)]
    BY <1>1, <1>2, Zenon DEF Types
  <2>2. running' \in Client \cup {Nobody}
    BY <1>1, <1>2 DEF Types, Labels, Gone, Held
  <2>3. cpc' \in [Client -> Labels]
    BY <1>1, <1>2 DEF Types, Labels, Gone, Held
  <2> QED BY <1>2, <1>3, <2>1, <2>2, <2>3, MoveTypes
<1>7. ListenInv'
  BY <1>1, <1>2, Zenon DEF ListenInv
<1>8. Placed(s)'
  BY <1>1, <1>2, <1>4, <1>5 DEF Placed, Gone, Held, Types, Labels
<1>9. Buffered(s)'
  BY <1>1, <1>2, <1>4, <1>5 DEF Buffered, Types
<1>10. Watched(s)'
  BY <1>1, <1>2, <1>4, <1>5 DEF Watched, Wanted, Types
<1>11. SubSane(s)'
  <2>1. Yielded(s)'
    BY <1>1, <1>2, <1>4, <1>5 DEF Yielded, Gone, Types
  <2>2. Joins(s)'
    BY <1>1, <1>2, <1>4, <1>5 DEF Joins, Fresh, Types
  <2>3. Covered(s)'
    BY <1>1, <1>2, <1>4, <1>5 DEF Covered, Types
  <2>4. Drained(s)'
    BY <1>1, <1>2, <1>4, <1>5 DEF Drained, Types
  <2> QED BY <2>1, <2>2, <2>3, <2>4 DEF SubSane
<1> QED BY <1>2, <1>3, <1>6, <1>7, <1>8, <1>9, <1>10, <1>11, MoveKeeps

LEMMA TestStep ==
    ASSUME IInv, NEW c \in Waiter, Test(c)
    PROVE  IInv'
<1> USE RolesDistinct DEF Client
<1>0. \/ Leave(c, "true")
      \/ UNCHANGED <<subs, listening>>
  BY DEF Test, hub
<1>1. /\ cpc[c] = "test" /\ running = c
      /\ \/ /\ cpc' = [cpc EXCEPT ![c] = "testClosed"]
            /\ subs' = subs /\ running' = running
         \/ /\ cpc' = [cpc EXCEPT ![c] = "true"]
            /\ subs' = subs \ {c} /\ running' = Nobody
      /\ UNCHANGED <<ready, from, pos, got, replay, buf, start, stale, event>>
      /\ UNCHANGED <<next, closed, fileOpen, lock>> /\ UNCHANGED writers
  BY <1>0, LeaveHub DEF Test, Continue, Suspend, Goto, engine, hub, loop, progress,
     view
<1>2. /\ Types /\ ListenInv
      /\ Placed(c) /\ Buffered(c) /\ Watched(c)
  BY DEF IInv, ClientInv, SubInv
<1>3. Moves(c)
  BY <1>1, <1>2 DEF Moves, Untouched, Types
<1>4. /\ next' = next /\ closed' = closed /\ next \in Nat /\ (Coming => Coming')
      /\ \A k : Announced(k) => Announced(k)'
  BY <1>2, <1>3, MoveFrame
<1>5. start[c] \in Nat /\ Len(buf[c]) \in Nat /\ from[c] \in Nat
  BY <1>2 DEF Types
<1>6. Types'
  <2>1. /\ from' \in [Client -> Nat]
        /\ start' \in [Client -> Nat]
        /\ buf' \in [Client -> Seq(Nat)]
        /\ stale' \in [Client -> BOOLEAN]
        /\ event' \in [Client -> BOOLEAN]
        /\ pos' \in [Sub -> Nat]
        /\ got' \in [Sub -> Seq(Nat)]
        /\ replay' \in [Sub -> Seq(Nat)]
    BY <1>1, <1>2, Zenon DEF Types
  <2>2. running' \in Client \cup {Nobody}
    BY <1>1, <1>2 DEF Types, Labels, Gone, Held
  <2>3. subs' \subseteq Client /\ IsFiniteSet(subs')
    <3>1. subs \subseteq Client /\ IsFiniteSet(subs)
      BY <1>2, Zenon DEF Types
    <3> QED BY <1>0, <3>1, LeaveHub
  <2>4. cpc' \in [Client -> Labels]
    BY <1>1, <1>2 DEF Types, Labels, Gone, Held
  <2> QED BY <1>2, <1>3, <2>1, <2>2, <2>3, <2>4, MoveTypes
<1>7. ListenInv'
  <2>1. CASE Leave(c, "true")
    BY <2>1, LeaveHub
  <2>2. CASE UNCHANGED <<subs, listening>>
    BY <1>2, <2>2, Zenon DEF ListenInv
  <2> QED BY <1>0, <2>1, <2>2
<1>8. Placed(c)'
  BY <1>1, <1>2, <1>4, <1>5 DEF Placed, Gone, Held, Types, Labels
<1>9. Buffered(c)'
  BY <1>1, <1>2, <1>4, <1>5 DEF Buffered, Types
<1>10. Watched(c)'
  BY <1>1, <1>2, <1>4, <1>5 DEF Watched, Wanted, Types
<1> QED BY <1>2, <1>3, <1>6, <1>7, <1>8, <1>9, <1>10, MoveKeeps

LEMMA TestClosedStep ==
    ASSUME IInv, NEW c \in Waiter, TestClosed(c)
    PROVE  IInv'
<1> USE RolesDistinct DEF Client
<1>0. \/ Leave(c, "false")
      \/ UNCHANGED <<subs, listening>>
  BY DEF TestClosed, hub
<1>1. /\ cpc[c] = "testClosed" /\ running = c
      /\ \/ /\ cpc' = [cpc EXCEPT ![c] = "retest"] /\ event' = [event EXCEPT ![c] = FALSE]
            /\ subs' = subs /\ running' = running
         \/ /\ cpc' = [cpc EXCEPT ![c] = "false"] /\ event' = event
            /\ subs' = subs \ {c} /\ running' = Nobody
      /\ UNCHANGED <<ready, from, pos, got, replay, buf, start, stale>>
      /\ UNCHANGED <<next, closed, fileOpen, lock>> /\ UNCHANGED writers
  BY <1>0, LeaveHub DEF TestClosed, Continue, Suspend, Goto, engine, hub, loop,
     progress, view
<1>2. /\ Types /\ ListenInv
      /\ Placed(c) /\ Buffered(c) /\ Watched(c)
  BY DEF IInv, ClientInv, SubInv
<1>3. Moves(c)
  BY <1>1, <1>2 DEF Moves, Untouched, Types
<1>4. /\ next' = next /\ closed' = closed /\ next \in Nat /\ (Coming => Coming')
      /\ \A k : Announced(k) => Announced(k)'
  BY <1>2, <1>3, MoveFrame
<1>5. start[c] \in Nat /\ Len(buf[c]) \in Nat /\ from[c] \in Nat
  BY <1>2 DEF Types
<1>6. Types'
  <2>1. /\ from' \in [Client -> Nat]
        /\ start' \in [Client -> Nat]
        /\ buf' \in [Client -> Seq(Nat)]
        /\ stale' \in [Client -> BOOLEAN]
        /\ pos' \in [Sub -> Nat]
        /\ got' \in [Sub -> Seq(Nat)]
        /\ replay' \in [Sub -> Seq(Nat)]
    BY <1>1, <1>2, Zenon DEF Types
  <2>2. running' \in Client \cup {Nobody}
    BY <1>1, <1>2 DEF Types, Labels, Gone, Held
  <2>3. subs' \subseteq Client /\ IsFiniteSet(subs')
    <3>1. subs \subseteq Client /\ IsFiniteSet(subs)
      BY <1>2, Zenon DEF Types
    <3> QED BY <1>0, <3>1, LeaveHub
  <2>4. cpc' \in [Client -> Labels]
    BY <1>1, <1>2 DEF Types, Labels, Gone, Held
  <2>5. event' \in [Client -> BOOLEAN]
    BY <1>1, <1>2 DEF Types, Labels, Gone, Held
  <2> QED BY <1>2, <1>3, <2>1, <2>2, <2>3, <2>4, <2>5, MoveTypes
<1>7. ListenInv'
  <2>1. CASE Leave(c, "false")
    BY <2>1, LeaveHub
  <2>2. CASE UNCHANGED <<subs, listening>>
    BY <1>2, <2>2, Zenon DEF ListenInv
  <2> QED BY <1>0, <2>1, <2>2
<1>8. Placed(c)'
  BY <1>1, <1>2, <1>4, <1>5 DEF Placed, Gone, Held, Types, Labels
<1>9. Buffered(c)'
  BY <1>1, <1>2, <1>4, <1>5 DEF Buffered, Types
<1>10. Watched(c)'
  BY <1>1, <1>2, <1>4, <1>5 DEF Watched, Wanted, Types
<1> QED BY <1>2, <1>3, <1>6, <1>7, <1>8, <1>9, <1>10, MoveKeeps

LEMMA RetestStep ==
    ASSUME IInv, NEW c \in Waiter, Retest(c)
    PROVE  IInv'
<1> USE RolesDistinct DEF Client
<1>1. /\ cpc[c] = "retest" /\ running = c
      /\ \/ next <= from[c] /\ cpc' = [cpc EXCEPT ![c] = "recheckClosed"]
         \/ ~(next <= from[c]) /\ cpc' = [cpc EXCEPT ![c] = "test"]
      /\ UNCHANGED <<running, ready, subs, listening, from, pos, got, replay, buf,
            start, stale, event>>
      /\ UNCHANGED <<next, closed, fileOpen, lock>> /\ UNCHANGED writers
  BY DEF Retest, Continue, Suspend, Goto, engine, hub, loop, progress, view
<1>2. /\ Types /\ ListenInv
      /\ Placed(c) /\ Buffered(c) /\ Watched(c)
  BY DEF IInv, ClientInv, SubInv
<1>3. Moves(c)
  BY <1>1, <1>2 DEF Moves, Untouched, Types
<1>4. /\ next' = next /\ closed' = closed /\ next \in Nat /\ (Coming => Coming')
      /\ \A k : Announced(k) => Announced(k)'
  BY <1>2, <1>3, MoveFrame
<1>5. start[c] \in Nat /\ Len(buf[c]) \in Nat /\ from[c] \in Nat
  BY <1>2 DEF Types
<1>6. Types'
  <2>1. /\ running' \in Client \cup {Nobody}
        /\ subs' \subseteq Client /\ IsFiniteSet(subs')
        /\ from' \in [Client -> Nat]
        /\ start' \in [Client -> Nat]
        /\ buf' \in [Client -> Seq(Nat)]
        /\ stale' \in [Client -> BOOLEAN]
        /\ event' \in [Client -> BOOLEAN]
        /\ pos' \in [Sub -> Nat]
        /\ got' \in [Sub -> Seq(Nat)]
        /\ replay' \in [Sub -> Seq(Nat)]
    BY <1>1, <1>2, Zenon DEF Types
  <2>2. cpc' \in [Client -> Labels]
    BY <1>1, <1>2 DEF Types, Labels, Gone, Held
  <2> QED BY <1>2, <1>3, <2>1, <2>2, MoveTypes
<1>7. ListenInv'
  BY <1>1, <1>2, Zenon DEF ListenInv
<1>8. Placed(c)'
  BY <1>1, <1>2, <1>4, <1>5 DEF Placed, Gone, Held, Types, Labels
<1>9. Buffered(c)'
  BY <1>1, <1>2, <1>4, <1>5 DEF Buffered, Types
<1>10. Watched(c)'
  BY <1>1, <1>2, <1>4, <1>5 DEF Watched, Wanted, Types
<1> QED BY <1>2, <1>3, <1>6, <1>7, <1>8, <1>9, <1>10, MoveKeeps

LEMMA RecheckClosedStep ==
    ASSUME IInv, NEW c \in Waiter, RecheckClosed(c)
    PROVE  IInv'
<1> USE RolesDistinct DEF Client
<1>1. /\ cpc[c] = "recheckClosed" /\ running = c
      /\ \/ closed /\ cpc' = [cpc EXCEPT ![c] = "test"] /\ running' = running
         \/ ~closed /\ cpc' = [cpc EXCEPT ![c] = "wait"] /\ running' = Nobody
      /\ UNCHANGED <<ready, subs, listening, from, pos, got, replay, buf, start, stale,
            event>>
      /\ UNCHANGED <<next, closed, fileOpen, lock>> /\ UNCHANGED writers
  BY DEF RecheckClosed, Continue, Suspend, Goto, engine, hub, loop, progress, view
<1>2. /\ Types /\ ListenInv
      /\ Placed(c) /\ Buffered(c) /\ Watched(c)
  BY DEF IInv, ClientInv, SubInv
<1>3. Moves(c)
  BY <1>1, <1>2 DEF Moves, Untouched, Types
<1>4. /\ next' = next /\ closed' = closed /\ next \in Nat /\ (Coming => Coming')
      /\ \A k : Announced(k) => Announced(k)'
  BY <1>2, <1>3, MoveFrame
<1>5. start[c] \in Nat /\ Len(buf[c]) \in Nat /\ from[c] \in Nat
  BY <1>2 DEF Types
<1>6. Types'
  <2>1. /\ subs' \subseteq Client /\ IsFiniteSet(subs')
        /\ from' \in [Client -> Nat]
        /\ start' \in [Client -> Nat]
        /\ buf' \in [Client -> Seq(Nat)]
        /\ stale' \in [Client -> BOOLEAN]
        /\ event' \in [Client -> BOOLEAN]
        /\ pos' \in [Sub -> Nat]
        /\ got' \in [Sub -> Seq(Nat)]
        /\ replay' \in [Sub -> Seq(Nat)]
    BY <1>1, <1>2, Zenon DEF Types
  <2>2. running' \in Client \cup {Nobody}
    BY <1>1, <1>2 DEF Types, Labels, Gone, Held
  <2>3. cpc' \in [Client -> Labels]
    BY <1>1, <1>2 DEF Types, Labels, Gone, Held
  <2> QED BY <1>2, <1>3, <2>1, <2>2, <2>3, MoveTypes
<1>7. ListenInv'
  BY <1>1, <1>2, Zenon DEF ListenInv
<1>8. Placed(c)'
  BY <1>1, <1>2, <1>4, <1>5 DEF Placed, Gone, Held, Types, Labels
<1>9. Buffered(c)'
  BY <1>1, <1>2, <1>4, <1>5 DEF Buffered, Types
<1>10. Watched(c)'
  BY <1>1, <1>2, <1>4, <1>5 DEF Watched, Wanted, Types
<1> QED BY <1>2, <1>3, <1>6, <1>7, <1>8, <1>9, <1>10, MoveKeeps

\* One record more: it goes on where s was.
LEMMA YieldOne ==
    ASSUME Types, NEW s \in Sub, Yielded(s), got' = [got EXCEPT ![s] = Append(@, pos[s])],
           pos' = [pos EXCEPT ![s] = @ + 1], from' = from
    PROVE  /\ got' \in [Sub -> Seq(Nat)] /\ pos' \in [Sub -> Nat]
           /\ pos'[s] = pos[s] + 1
           /\ got'[s] = Records(from'[s], Len(got'[s])) /\ pos'[s] = from'[s] + Len(got'[s])
<1>1. /\ got[s] \in Seq(Nat) /\ pos[s] \in Nat /\ Len(got[s]) \in Nat /\ from[s] \in Nat
      /\ got \in [Sub -> Seq(Nat)] /\ pos \in [Sub -> Nat]
  BY SMTT(30) DEF Types, Client
<1>2. got[s] = Records(from[s], Len(got[s])) /\ pos[s] = from[s] + Len(got[s])
  BY DEF Yielded
<1>3. Append(got[s], pos[s]) = Records(from[s], Len(got[s]) + 1)
  BY <1>1, <1>2, RecordsAppend
<1>4. /\ Records(from[s], Len(got[s]) + 1) \in Seq(Nat)
      /\ Len(Records(from[s], Len(got[s]) + 1)) = Len(got[s]) + 1
  <2>1. Len(got[s]) + 1 \in Nat
    BY <1>1
  <2> QED BY <1>1, <2>1, RecordsRun
<1>5. got'[s] = Append(got[s], pos[s]) /\ pos'[s] = pos[s] + 1
  BY <1>1
<1>6. got' \in [Sub -> Seq(Nat)] /\ pos' \in [Sub -> Nat]
  BY <1>1
<1>7. Len(got'[s]) = Len(got[s]) + 1
  BY <1>3, <1>4, <1>5
<1> QED BY <1>1, <1>2, <1>3, <1>5, <1>6, <1>7

\* What a subscriber that has no hole behind it finds in its buffer.
LEMMA LiveRun ==
    ASSUME Types, NEW s \in Sub, Buffered(s), start[s] <= pos[s]
    PROVE  /\ Connected(s) /\ LiveStart(s) = pos[s]
           /\ Live(s) # <<>> =>
                \E n \in Nat : /\ n > 0 /\ start[s] + Len(buf[s]) = pos[s] + n
                               /\ Live(s) = Records(pos[s], n) /\ n <= Len(buf[s])
           /\ Live(s) = <<>> => start[s] + Len(buf[s]) <= pos[s]
<1> DEFINE l == Len(buf[s])
           a == start[s]
           p == pos[s]
<1>1. l \in Nat /\ a \in Nat /\ p \in Nat /\ a <= p /\ buf[s] = Records(a, l)
  BY DEF Types, Client, Buffered
<1>2. Passed(s) = IF l <= p - a THEN l ELSE p - a
  <2>1. (IF p > a THEN p - a ELSE 0) = p - a /\ p - a \in Int /\ l \in Int
    BY <1>1
  <2>2. Passed(s) = Min({l, p - a})
    BY <2>1 DEF Passed
  <2> QED BY <2>1, <2>2, MaxMin
<1>3. LiveStart(s) = p
  <2>1. CASE Passed(s) < l
    BY <1>1, <1>2, <2>1 DEF LiveStart
  <2>2. CASE ~(Passed(s) < l)
    <3>1. Passed(s) = l /\ a + l <= p /\ a + l \in Int /\ p \in Int
      BY <1>1, <1>2, <2>2
    <3>2. LiveStart(s) = Max({a + l, p})
      BY <2>2, <3>1 DEF LiveStart
    <3> QED BY <3>1, <3>2, MaxMin
  <2> QED BY <2>1, <2>2
<1>4. Connected(s)
  BY <1>1, <1>3 DEF Connected
<1>5. Live(s) = SubSeq(Records(a, l), Passed(s) + 1, l)
  BY <1>1 DEF Live
<1>6. Passed(s) \in Nat /\ Passed(s) <= l /\ l - Passed(s) \in Nat
      /\ a + Passed(s) \in Nat
  BY <1>1, <1>2
<1>7. Live(s) = Records(a + Passed(s), l - Passed(s))
  BY <1>1, <1>5, <1>6, RecordsFrom
<1>8. Live(s) \in Seq(Nat) /\ Len(Live(s)) = l - Passed(s)
  BY <1>6, <1>7, RunOfLength
<1> HIDE DEF l, a, p
<1>9. ASSUME Live(s) # <<>>
      PROVE  \E n \in Nat : n > 0 /\ a + l = p + n /\ Live(s) = Records(p, n) /\ n <= l
  <2>1. l - Passed(s) > 0
    BY <1>6, <1>8, <1>9
  <2>2. Passed(s) = p - a
    BY <1>1, <1>2, <2>1
  <2>3. a + Passed(s) = p /\ a + l = p + (l - Passed(s)) /\ l - Passed(s) <= l
    BY <1>1, <1>6, <2>2
  <2> QED BY <1>6, <1>7, <2>1, <2>3
<1>10. ASSUME Live(s) = <<>> PROVE a + l <= p
  <2>1. Passed(s) = l
    BY <1>1, <1>6, <1>8, <1>10
  <2> QED BY <1>1, <1>2, <2>1
<1> QED BY <1>3, <1>4, <1>9, <1>10 DEF l, a, p

LEMMA ReplayOneStep ==
    ASSUME IInv, NEW s \in Sub, Replay(s), replay[s] # <<>>
    PROVE  IInv'
<1> USE RolesDistinct DEF Client
<1>1. /\ cpc[s] = "replay" /\ running = s
      /\ got' = [got EXCEPT ![s] = Append(@, Head(replay[s]))]
      /\ pos' = [pos EXCEPT ![s] = @ + 1]
      /\ replay' = [replay EXCEPT ![s] = Tail(@)]
      /\ \/ cpc' = [cpc EXCEPT ![s] = "replay"] /\ running' = running
         \/ cpc' = [cpc EXCEPT ![s] = "paused"] /\ running' = Nobody
      /\ UNCHANGED <<ready, subs, listening, from, buf, start, stale, event>>
      /\ UNCHANGED <<next, closed, fileOpen, lock>> /\ UNCHANGED writers
  BY DEF Replay, Yield, Continue, Suspend, Goto, engine, hub, loop, progress, view
<1>2. /\ Types /\ ListenInv
      /\ Placed(s) /\ Buffered(s) /\ Watched(s) /\ Yielded(s) /\ Joins(s)
      /\ Covered(s) /\ Drained(s) /\ s \in Client
  BY DEF IInv, ClientInv, SubInv
<1>3. Moves(s)
  BY <1>1, <1>2 DEF Moves, Untouched, Types
<1>4. /\ next' = next /\ closed' = closed /\ next \in Nat /\ (Coming => Coming')
      /\ \A k : Announced(k) => Announced(k)'
  BY <1>2, <1>3, MoveFrame
<1>5. start[s] \in Nat /\ Len(buf[s]) \in Nat /\ from[s] \in Nat
      /\ pos[s] \in Nat /\ Len(replay[s]) \in Nat /\ Len(got[s]) \in Nat
  BY <1>2 DEF Types
<1>5a. /\ Head(replay[s]) = pos[s] /\ Len(replay[s]) > 0
       /\ Tail(replay[s]) = Records(pos[s] + 1, Len(replay[s]) - 1)
  <2>1. replay[s] = Records(pos[s], Len(replay[s])) /\ replay[s] \in Seq(Nat)
    BY <1>2 DEF Yielded, Types
  <2>2. Len(replay[s]) > 0
    BY <1>5, <2>1
  <2> QED BY <1>5, <2>1, <2>2, RecordsHeadTail
<1>5b. /\ got' \in [Sub -> Seq(Nat)] /\ pos' \in [Sub -> Nat] /\ pos'[s] = pos[s] + 1
       /\ got'[s] = Records(from'[s], Len(got'[s])) /\ pos'[s] = from'[s] + Len(got'[s])
  BY <1>1, <1>2, <1>5a, YieldOne
<1>5c. /\ replay'[s] \in Seq(Nat) /\ Len(replay'[s]) = Len(replay[s]) - 1
       /\ replay'[s] = Records(pos'[s], Len(replay'[s]))
  <2>1. pos[s] + 1 \in Nat /\ Len(replay[s]) - 1 \in Nat
    BY <1>5, <1>5a
  <2>2. replay'[s] = Records(pos[s] + 1, Len(replay[s]) - 1)
    BY <1>1, <1>2, <1>5a DEF Types
  <2> QED BY <1>5b, <2>1, <2>2, RunOfLength
<1>6. Types'
  <2>1. /\ subs' \subseteq Client /\ IsFiniteSet(subs')
        /\ from' \in [Client -> Nat]
        /\ start' \in [Client -> Nat]
        /\ buf' \in [Client -> Seq(Nat)]
        /\ stale' \in [Client -> BOOLEAN]
        /\ event' \in [Client -> BOOLEAN]
    BY <1>1, <1>2, Zenon DEF Types
  <2>2. running' \in Client \cup {Nobody}
    BY <1>1, <1>2 DEF Types, Labels, Gone, Held
  <2>3. cpc' \in [Client -> Labels]
    BY <1>1, <1>2 DEF Types, Labels, Gone, Held
  <2>4. pos' \in [Sub -> Nat]
    BY <1>5b
  <2>5. got' \in [Sub -> Seq(Nat)]
    BY <1>5b
  <2>6. replay' \in [Sub -> Seq(Nat)]
    BY <1>1, <1>2, <1>5c DEF Types
  <2> QED BY <1>2, <1>3, <2>1, <2>2, <2>3, <2>4, <2>5, <2>6, MoveTypes
<1>7. ListenInv'
  BY <1>1, <1>2, Zenon DEF ListenInv
<1>8. Placed(s)'
  BY <1>1, <1>2, <1>4, <1>5 DEF Placed, Gone, Held, Types, Labels
<1>9. Buffered(s)'
  BY <1>1, <1>2, <1>4, <1>5 DEF Buffered, Types
<1>10. Watched(s)'
  BY <1>1, <1>2 DEF Watched, Types
<1>11. SubSane(s)'
  <2>1. Yielded(s)'
    BY <1>1, <1>2, <1>5b, <1>5c DEF Yielded, Types
  <2>2. Joins(s)'
    <3>1. start'[s] = start[s] /\ stale'[s] = stale[s]
      BY <1>1
    <3>2. pos'[s] + Len(replay'[s]) = (pos[s] + 1) + (Len(replay[s]) - 1)
      BY <1>5b, <1>5c, Zenon
    <3>3. pos'[s] + Len(replay'[s]) = pos[s] + Len(replay[s])
      BY <1>5, <3>2
    <3>4. cpc'[s] \in {"replay", "paused"}
      BY <1>1, <1>2 DEF Types
    <3> QED BY <1>1, <1>2, <3>1, <3>3, <3>4 DEF Joins, Fresh
  <2>3. Covered(s)'
    BY <1>1, <1>2, <1>4, <1>5 DEF Covered, Types
  <2>4. Drained(s)'
    BY <1>1, <1>2, <1>4, <1>5 DEF Drained, Types
  <2> QED BY <2>1, <2>2, <2>3, <2>4 DEF SubSane
<1> QED BY <1>2, <1>3, <1>6, <1>7, <1>8, <1>9, <1>10, <1>11, MoveKeeps

LEMMA ReplayEndStep ==
    ASSUME IInv, NEW s \in Sub, Replay(s), replay[s] = <<>>
    PROVE  IInv'
<1> USE RolesDistinct DEF Client
<1>1. /\ cpc[s] = "replay" /\ running = s
      /\ cpc' = [cpc EXCEPT ![s] = "top"]
      /\ UNCHANGED <<running, ready, subs, listening, from, pos, got, replay, buf,
            start, stale, event>>
      /\ UNCHANGED <<next, closed, fileOpen, lock>> /\ UNCHANGED writers
  BY DEF Replay, Yield, Continue, Suspend, Goto, engine, hub, loop, progress, view
<1>2. /\ Types /\ ListenInv
      /\ Placed(s) /\ Buffered(s) /\ Watched(s) /\ Yielded(s) /\ Joins(s)
      /\ Covered(s) /\ Drained(s) /\ s \in Client
  BY DEF IInv, ClientInv, SubInv
<1>3. Moves(s)
  BY <1>1, <1>2 DEF Moves, Untouched, Types
<1>4. /\ next' = next /\ closed' = closed /\ next \in Nat /\ (Coming => Coming')
      /\ \A k : Announced(k) => Announced(k)'
  BY <1>2, <1>3, MoveFrame
<1>5. start[s] \in Nat /\ Len(buf[s]) \in Nat /\ from[s] \in Nat
      /\ pos[s] \in Nat /\ Len(replay[s]) \in Nat /\ Len(got[s]) \in Nat
  BY <1>2 DEF Types
<1>6. Types'
  <2>1. /\ running' \in Client \cup {Nobody}
        /\ subs' \subseteq Client /\ IsFiniteSet(subs')
        /\ from' \in [Client -> Nat]
        /\ start' \in [Client -> Nat]
        /\ buf' \in [Client -> Seq(Nat)]
        /\ stale' \in [Client -> BOOLEAN]
        /\ event' \in [Client -> BOOLEAN]
        /\ pos' \in [Sub -> Nat]
        /\ got' \in [Sub -> Seq(Nat)]
        /\ replay' \in [Sub -> Seq(Nat)]
    BY <1>1, <1>2, Zenon DEF Types
  <2>2. cpc' \in [Client -> Labels]
    BY <1>1, <1>2 DEF Types, Labels, Gone, Held
  <2> QED BY <1>2, <1>3, <2>1, <2>2, MoveTypes
<1>7. ListenInv'
  BY <1>1, <1>2, Zenon DEF ListenInv
<1>8. Placed(s)'
  BY <1>1, <1>2, <1>4, <1>5 DEF Placed, Gone, Held, Types, Labels
<1>9. Buffered(s)'
  BY <1>1, <1>2, <1>4, <1>5 DEF Buffered, Types
<1>10. Watched(s)'
  BY <1>1, <1>2, <1>4, <1>5 DEF Watched, Wanted, Types
<1>11. SubSane(s)'
  <2>1. Yielded(s)'
    BY <1>1, <1>2, <1>4, <1>5 DEF Yielded, Gone, Types
  <2>2. Joins(s)'
    BY <1>1, <1>2, <1>4, <1>5 DEF Joins, Fresh, Types
  <2>3. Covered(s)'
    BY <1>1, <1>2, <1>4, <1>5 DEF Covered, Types
  <2>4. Drained(s)'
    BY <1>1, <1>2, <1>4, <1>5 DEF Drained, Types
  <2> QED BY <2>1, <2>2, <2>3, <2>4 DEF SubSane
<1> QED BY <1>2, <1>3, <1>6, <1>7, <1>8, <1>9, <1>10, <1>11, MoveKeeps

LEMMA TakeLiveStep ==
    ASSUME IInv, NEW s \in Sub, TakeLive(s)
    PROVE  IInv'
<1> USE RolesDistinct DEF Client
<1>1. /\ cpc[s] = "top" /\ running = s /\ ~stale[s] /\ Live(s) # <<>>
      /\ got' = [got EXCEPT ![s] = Append(@, Head(Live(s)))]
      /\ pos' = [pos EXCEPT ![s] = @ + 1]
      /\ buf' = [buf EXCEPT ![s] = Tail(Live(s))]
      /\ start' = [start EXCEPT ![s] = LiveStart(s) + 1]
      /\ \/ cpc' = [cpc EXCEPT ![s] = "replay"] /\ running' = running
         \/ cpc' = [cpc EXCEPT ![s] = "paused"] /\ running' = Nobody
      /\ UNCHANGED <<ready, subs, listening, from, replay, stale, event>>
      /\ UNCHANGED <<next, closed, fileOpen, lock>> /\ UNCHANGED writers
  BY DEF TakeLive, Yield, Continue, Suspend, Goto, engine, hub, loop, progress, view
<1>2. /\ Types /\ ListenInv
      /\ Placed(s) /\ Buffered(s) /\ Watched(s) /\ Yielded(s) /\ Joins(s)
      /\ Covered(s) /\ Drained(s) /\ s \in Client
  BY DEF IInv, ClientInv, SubInv
<1>3. Moves(s)
  BY <1>1, <1>2 DEF Moves, Untouched, Types
<1>4. /\ next' = next /\ closed' = closed /\ next \in Nat /\ (Coming => Coming')
      /\ \A k : Announced(k) => Announced(k)'
  BY <1>2, <1>3, MoveFrame
<1>5. start[s] \in Nat /\ Len(buf[s]) \in Nat /\ from[s] \in Nat
      /\ pos[s] \in Nat /\ Len(replay[s]) \in Nat /\ Len(got[s]) \in Nat
  BY <1>2 DEF Types
<1>5a. PICK n \in Nat : /\ n > 0 /\ start[s] + Len(buf[s]) = pos[s] + n /\ n <= Len(buf[s])
                      /\ Live(s) = Records(pos[s], n) /\ LiveStart(s) = pos[s]
  <2>1. start[s] <= pos[s]
    BY <1>1, <1>2 DEF Joins
  <2>2. LiveStart(s) = pos[s] /\ \E n \in Nat :
          /\ n > 0 /\ start[s] + Len(buf[s]) = pos[s] + n
          /\ Live(s) = Records(pos[s], n) /\ n <= Len(buf[s])
    <3>1. Types /\ Buffered(s) /\ Live(s) # <<>>
      BY <1>1, <1>2, Zenon
    <3> QED BY <2>1, <3>1, LiveRun, Zenon
  <2> QED BY <2>2, Zenon
<1>5b. Head(Live(s)) = pos[s] /\ Tail(Live(s)) = Records(pos[s] + 1, n - 1)
  BY <1>5, <1>5a, RecordsHeadTail, ZenonT(30)
<1>5c. /\ got' \in [Sub -> Seq(Nat)] /\ pos' \in [Sub -> Nat] /\ pos'[s] = pos[s] + 1
       /\ got'[s] = Records(from'[s], Len(got'[s])) /\ pos'[s] = from'[s] + Len(got'[s])
  BY <1>1, <1>2, <1>5b, YieldOne
<1>5d. start'[s] = pos[s] + 1 /\ start'[s] \in Nat /\ buf'[s] = Records(pos[s] + 1, n - 1)
  BY <1>1, <1>2, <1>5, <1>5a, <1>5b, SMTT(30) DEF Types
<1>5e. /\ buf'[s] \in Seq(Nat) /\ Len(buf'[s]) = n - 1
       /\ buf'[s] = Records(start'[s], Len(buf'[s]))
  <2>1. pos[s] + 1 \in Nat /\ n - 1 \in Nat
    BY <1>5, <1>5a
  <2> QED BY <1>5d, <2>1, RunOfLength
<1>5f. replay[s] = <<>> /\ Records(pos'[s], 0) = <<>>
  <2>1. pos'[s] \in Nat
    BY <1>5, <1>5c
  <2> QED BY <1>1, <1>2, <2>1, RecordsEmpty DEF Yielded, Gone
<1>6. Types'
  <2>1. /\ subs' \subseteq Client /\ IsFiniteSet(subs')
        /\ from' \in [Client -> Nat]
        /\ stale' \in [Client -> BOOLEAN]
        /\ event' \in [Client -> BOOLEAN]
        /\ replay' \in [Sub -> Seq(Nat)]
    BY <1>1, <1>2, Zenon DEF Types
  <2>2. running' \in Client \cup {Nobody}
    BY <1>1, <1>2 DEF Types, Labels, Gone, Held
  <2>3. cpc' \in [Client -> Labels]
    BY <1>1, <1>2 DEF Types, Labels, Gone, Held
  <2>4. start' \in [Client -> Nat]
    BY <1>1, <1>2, <1>5, <1>5a, SMTT(30) DEF Types
  <2>5. buf' \in [Client -> Seq(Nat)]
    BY <1>1, <1>2, <1>5e DEF Types
  <2>6. pos' \in [Sub -> Nat]
    BY <1>5c
  <2>7. got' \in [Sub -> Seq(Nat)]
    BY <1>5c
  <2> QED BY <1>2, <1>3, <2>1, <2>2, <2>3, <2>4, <2>5, <2>6, <2>7, MoveTypes
<1>7. ListenInv'
  BY <1>1, <1>2, Zenon DEF ListenInv
<1>8. Placed(s)'
  BY <1>1, <1>2, <1>4, <1>5 DEF Placed, Gone, Held, Types, Labels
<1>9. Buffered(s)'
  BY <1>2, <1>5, <1>5a, <1>5e, Limits DEF Buffered
<1>10. Watched(s)'
  BY <1>1, <1>2 DEF Watched, Types
<1>11. SubSane(s)'
  <2>1. Yielded(s)'
    BY <1>1, <1>2, <1>5c, <1>5f DEF Yielded, Types
  <2>2. Joins(s)'
    <3>1. cpc'[s] \in {"replay", "paused"}
      BY <1>1, <1>2 DEF Types
    <3>2. start'[s] <= pos'[s] + Len(replay'[s])
      BY <1>1, <1>5, <1>5c, <1>5d
    <3>3. cpc'[s] \notin Fresh /\ cpc'[s] \notin {"mark", "read", "reading", "top", "final", "recheck", "wait"}
      BY <3>1, Zenon DEF Fresh
    <3> QED BY <3>2, <3>3, Zenon DEF Joins
  <2>3. Covered(s)'
    <3>1. start'[s] + Len(buf'[s]) = start[s] + Len(buf[s])
      <4>1. start'[s] + Len(buf'[s]) = (pos[s] + 1) + (n - 1)
        BY <1>5d, <1>5e, Zenon
      <4> QED BY <1>5, <1>5a, <4>1
    <3> QED BY <1>1, <1>2, <1>4, <3>1 DEF Covered
  <2>4. Drained(s)'
    BY <1>1, <1>2 DEF Drained, Types
  <2> QED BY <2>1, <2>2, <2>3, <2>4 DEF SubSane
<1> QED BY <1>2, <1>3, <1>6, <1>7, <1>8, <1>9, <1>10, <1>11, MoveKeeps

LEMMA CheckStep ==
    ASSUME IInv, NEW s \in Sub, Check(s)
    PROVE  IInv'
<1> USE RolesDistinct DEF Client
<1>1. /\ cpc[s] = "top" /\ running = s /\ ~stale[s] /\ Live(s) = <<>>
      /\ buf' = [buf EXCEPT ![s] = <<>>]
      /\ start' = [start EXCEPT ![s] = LiveStart(s)]
      /\ \/ closed /\ cpc' = [cpc EXCEPT ![s] = "final"] /\ event' = event
         \/ ~closed /\ cpc' = [cpc EXCEPT ![s] = "recheck"] /\ event' = [event EXCEPT ![s] = FALSE]
      /\ UNCHANGED <<running, ready, subs, listening, from, pos, got, replay, stale>>
      /\ UNCHANGED <<next, closed, fileOpen, lock>> /\ UNCHANGED writers
  BY DEF Check, Continue, Suspend, Goto, engine, hub, loop, progress, view
<1>2. /\ Types /\ ListenInv
      /\ Placed(s) /\ Buffered(s) /\ Watched(s) /\ Yielded(s) /\ Joins(s)
      /\ Covered(s) /\ Drained(s) /\ s \in Client
  BY DEF IInv, ClientInv, SubInv
<1>3. Moves(s)
  BY <1>1, <1>2 DEF Moves, Untouched, Types
<1>4. /\ next' = next /\ closed' = closed /\ next \in Nat /\ (Coming => Coming')
      /\ \A k : Announced(k) => Announced(k)'
  BY <1>2, <1>3, MoveFrame
<1>5. start[s] \in Nat /\ Len(buf[s]) \in Nat /\ from[s] \in Nat
      /\ pos[s] \in Nat /\ Len(replay[s]) \in Nat /\ Len(got[s]) \in Nat
  BY <1>2 DEF Types
<1>5a. start[s] + Len(buf[s]) <= pos[s] /\ LiveStart(s) = pos[s]
  <2>1. start[s] <= pos[s]
    BY <1>1, <1>2 DEF Joins
  <2> QED BY <1>1, <1>2, <2>1, LiveRun
<1>5b. start'[s] = pos[s] /\ buf'[s] = <<>> /\ Records(pos[s], 0) = <<>>
  BY <1>1, <1>2, <1>5, <1>5a, RecordsEmpty DEF Types
<1>5c. next > pos[s] => Coming
  <2> SUFFICES ASSUME next > pos[s] PROVE Coming
    OBVIOUS
  <2>1. s \in subs
    BY <1>1, <1>2 DEF Placed, Gone
  <2>2. PICK k \in Nat : k = pos[s]
    BY <1>5
  <2>3. Announced(k)
    BY <1>1, <1>2, <1>5a, <2>1, <2>2 DEF Covered
  <2> QED BY <2>3, AnnouncedComes
<1>6. Types'
  <2>1. /\ running' \in Client \cup {Nobody}
        /\ subs' \subseteq Client /\ IsFiniteSet(subs')
        /\ from' \in [Client -> Nat]
        /\ stale' \in [Client -> BOOLEAN]
        /\ pos' \in [Sub -> Nat]
        /\ got' \in [Sub -> Seq(Nat)]
        /\ replay' \in [Sub -> Seq(Nat)]
    BY <1>1, <1>2, Zenon DEF Types
  <2>2. cpc' \in [Client -> Labels]
    BY <1>1, <1>2 DEF Types, Labels, Gone, Held
  <2>3. start' \in [Client -> Nat]
    BY <1>1, <1>2, <1>5, <1>5a DEF Types
  <2>4. buf' \in [Client -> Seq(Nat)]
    BY <1>1, <1>2 DEF Types
  <2>5. event' \in [Client -> BOOLEAN]
    BY <1>1, <1>2 DEF Types
  <2> QED BY <1>2, <1>3, <2>1, <2>2, <2>3, <2>4, <2>5, MoveTypes
<1>7. ListenInv'
  BY <1>1, <1>2, Zenon DEF ListenInv
<1>8. Placed(s)'
  BY <1>1, <1>2, <1>4, <1>5 DEF Placed, Gone, Held, Types, Labels
<1>9. Buffered(s)'
  BY <1>5, <1>5b, Limits DEF Buffered
<1>10. Watched(s)'
  BY <1>1, <1>2, <1>4, <1>5c DEF Watched, Wanted, Types
<1>11. SubSane(s)'
  <2>1. Yielded(s)'
    BY <1>1, <1>2, <1>4, <1>5 DEF Yielded, Gone, Types
  <2>2. Joins(s)'
    BY <1>1, <1>2, <1>5, <1>5b DEF Joins, Fresh, Types
  <2>3. Covered(s)'
    <3>1. start'[s] + Len(buf'[s]) = pos[s]
      BY <1>5, <1>5b
    <3> QED BY <1>1, <1>2, <1>4, <1>5, <1>5a, <3>1 DEF Covered, Types
  <2>4. Drained(s)'
    BY <1>1, <1>2, <1>4, <1>5 DEF Drained, Types
  <2> QED BY <2>1, <2>2, <2>3, <2>4 DEF SubSane
<1> QED BY <1>2, <1>3, <1>6, <1>7, <1>8, <1>9, <1>10, <1>11, MoveKeeps

-----------------------------------------------------------------------------
(* The delivery of a change.                                               *)

\* The order in which the woken clients get the loop.
LEMMA OrderOfClients ==
    ASSUME NEW C \in SUBSET Client, IsFiniteSet(C), NEW order \in SetToSeqs(C),
           NEW q \in Queue
    PROVE  /\ q \o order \in Queue
           /\ \A i \in DOMAIN q : i \in DOMAIN (q \o order) /\ (q \o order)[i] = q[i]
<1>1. Cardinality(C) \in Nat
  BY FS_CardinalityType
<1>2. order \in [1..Cardinality(C) -> C]
  BY Zenon DEF SetToSeqs
<1>3. order \in Queue
  <2>1. order \in [1..Cardinality(C) -> Client \cup Msg]
    BY <1>2
  <2> QED BY <1>1, <2>1 DEF Queue
<1>4. /\ q \o order \in Queue /\ Len(q \o order) = Len(q) + Len(order)
      /\ \A i \in 1..Len(q) + Len(order) :
           (q \o order)[i] = IF i <= Len(q) THEN q[i] ELSE order[i - Len(q)]
  BY <1>3, ConcatProperties DEF Queue
<1>5. Len(q) \in Nat /\ DOMAIN q = 1..Len(q) /\ Len(order) \in Nat
  BY <1>3 DEF Queue
<1>6. DOMAIN (q \o order) = 1..Len(q) + Len(order)
  BY <1>4, <1>5, LenProperties DEF Queue
<1> QED BY <1>4, <1>5, <1>6

\* The buffer after a change that connects to it is one longer run.
LEMMA ExtendedRun ==
    ASSUME Types, NEW c \in Client, Buffered(c), NEW m \in Msg
    PROVE  /\ Extended(c, m) \in Seq(Nat)
           /\ Extended(c, m) = Records(start[c], Len(Extended(c, m)))
           /\ Len(buf[c]) <= Len(Extended(c, m))
           /\ m.records = <<>> => Extended(c, m) = buf[c]
           /\ ~stale[c] /\ m.start <= start[c] + Len(buf[c])
                => EndOf(m) <= start[c] + Len(Extended(c, m))
<1> DEFINE a == start[c]
           l == Len(buf[c])
           n == Len(m.records)
           e == Extended(c, m)
<1>1. /\ a \in Nat /\ l \in Nat /\ buf[c] = Records(a, l) /\ buf[c] \in Seq(Nat)
  BY DEF Types, Buffered
<1>2. m.start \in Nat /\ n \in Nat /\ m.records = Records(m.start, n) /\ EndOf(m) = m.start + n
  BY Changes DEF EndOf
<1>3. CASE ~stale[c] /\ m.start <= a + l
  <2> DEFINE j == (a + l) - m.start
             k == IF j <= n THEN n - j ELSE 0
  <2>1. j \in Nat /\ m.start + j = a + l
    BY <1>1, <1>2, <1>3
  <2>2. e = buf[c] \o SubSeq(m.records, j + 1, n)
    BY <1>3, Zenon DEF Extended
  <2>3. SubSeq(Records(m.start, n), j + 1, n) =
          IF j <= n THEN Records(m.start + j, n - j) ELSE <<>>
    BY <1>2, <2>1, RecordsFrom
  <2>4. k \in Nat /\ a + l \in Nat
    BY <1>1, <1>2, <2>1
  <2>5. SubSeq(m.records, j + 1, n) = Records(a + l, k)
    <3>1. CASE j <= n
      BY <1>2, <2>1, <2>3, <3>1, Zenon
    <3>2. CASE ~(j <= n)
      <4>1. SubSeq(m.records, j + 1, n) = <<>> /\ k = 0
        BY <1>2, <2>3, <3>2, Zenon
      <4> QED BY <2>4, <4>1, RecordsEmpty
    <3> QED BY <3>1, <3>2
  <2>6. e = Records(a, l + k)
    <3>1. e = Records(a, l) \o Records(a + l, k)
      BY <1>1, <2>2, <2>5, Zenon
    <3> HIDE DEF e, k
    <3> QED BY <1>1, <2>4, <3>1, RecordsConcat
  <2>7. l + k \in Nat /\ l <= l + k /\ m.start + n <= a + (l + k)
    <3>1. j \in Nat /\ n \in Nat /\ k = (IF j <= n THEN n - j ELSE 0)
          /\ m.start + j = a + l /\ m.start \in Nat
      BY <1>2, <2>1
    <3> HIDE DEF j, k, a, l, n
    <3> QED BY <1>1, <2>4, <3>1
  <2>8. n = 0 => k = 0
    BY <1>2, <2>1
  <2> HIDE DEF e, k, j
  <2>9. e \in Seq(Nat) /\ Len(e) = l + k /\ e = Records(a, Len(e))
    BY <1>1, <2>6, <2>7, RunOfLength
  <2>10. m.records = <<>> => e = buf[c]
    <3> SUFFICES ASSUME m.records = <<>> PROVE e = buf[c]
      OBVIOUS
    <3>1. n = 0
      BY <1>2, EmptySeq
    <3>2. l + k = l
      BY <1>1, <2>8, <3>1
    <3> QED BY <1>1, <2>6, <3>2
  <2> HIDE DEF a, l, n
  <2>11. l <= Len(e) /\ EndOf(m) <= a + Len(e)
    BY <1>2, <2>7, <2>9
  <2> QED BY <2>9, <2>10, <2>11 DEF e, a, l
<1>4. CASE ~(~stale[c] /\ m.start <= a + l)
  <2>1. e = buf[c]
    BY <1>4 DEF Extended
  <2> QED BY <1>1, <1>4, <2>1
<1> QED BY <1>3, <1>4

LEMMA DeliverStep ==
    ASSUME IInv, RunDeliver
    PROVE  IInv'
<1> USE RolesDistinct DEF Client
<1> DEFINE m == Head(ready)
           dropped == {c \in subs : stale[c] \/ Overtaken(c, m)}
           woken == {c \in subs : cpc[c] = "wait"}
<1>1. /\ running = Nobody /\ running' = running /\ ready # <<>> /\ m \notin Client
      /\ UNCHANGED <<next, closed, fileOpen, lock, wpc, note, todo, subs, listening>>
      /\ UNCHANGED <<from, pos, got, replay, start>>
      /\ Deliver(m)
  BY DEF RunDeliver, engine, writers, hub, progress
<1>2. Types /\ ListenInv /\ WriterInv /\ ClientInv /\ SubInv
      /\ next \in Nat /\ ready \in Queue
  BY Limits DEF IInv, Types, Queue
<1>3. m \in Msg /\ Tail(ready) \in Queue
      /\ \A i \in DOMAIN ready : \/ ready[i] = m
                                 \/ \E j \in DOMAIN Tail(ready) : Tail(ready)[j] = ready[i]
  BY <1>1, <1>2, QueueTail
<1>4. PICK order \in SetToSeqs(woken) : ready' = Tail(ready) \o order
  BY <1>1 DEF Deliver
<1>5. /\ stale' = [c \in Client |-> IF c \in dropped THEN TRUE ELSE stale[c]]
      /\ buf' = [c \in Client |-> IF c \in dropped THEN <<>>
                                  ELSE IF c \in subs THEN Extended(c, m) ELSE buf[c]]
      /\ event' = [c \in Client |-> event[c] \/ c \in subs]
      /\ cpc' = [c \in Client |-> IF c \notin woken THEN cpc[c]
                                  ELSE IF c \in Sub THEN "top" ELSE "test"]
  BY <1>1, Zenon DEF Deliver
<1>6. /\ ready' \in Queue
      /\ \A i \in DOMAIN ready : \/ ready[i] = m
                                 \/ \E j \in DOMAIN ready' : ready'[j] = ready[i]
  <2>1. woken \in SUBSET Client /\ IsFiniteSet(woken)
    <3>1. subs \subseteq Client /\ IsFiniteSet(subs)
      BY <1>2, Zenon DEF Types
    <3> QED BY <3>1, FS_Subset
  <2>2. /\ ready' \in Queue
        /\ \A j \in DOMAIN Tail(ready) : j \in DOMAIN ready' /\ ready'[j] = Tail(ready)[j]
    BY <1>3, <1>4, <2>1, OrderOfClients
  <2> QED BY <1>3, <2>2
<1>7. ASSUME NEW k \in Nat, Announced(k)
      PROVE  Announced(k)' \/ (m.start <= k /\ k < EndOf(m))
  <2>1. CASE \E w \in Writer : /\ wpc[w] \in {"publish", "notify", "call"}
                               /\ note[w].start <= k /\ k < EndOf(note[w])
    BY <1>1, <2>1 DEF Announced, EndOf
  <2>2. CASE \E i \in DOMAIN ready : /\ ready[i] \notin Client
                                     /\ ready[i].start <= k /\ k < EndOf(ready[i])
    <3>1. PICK i \in DOMAIN ready : /\ ready[i] \notin Client
                                    /\ ready[i].start <= k /\ k < EndOf(ready[i])
      BY <2>2
    <3>2. CASE ready[i] = m
      BY <3>1, <3>2
    <3>3. CASE \E j \in DOMAIN ready' : ready'[j] = ready[i]
      BY <3>1, <3>3 DEF Announced, EndOf
    <3> QED BY <1>6, <3>2, <3>3
  <2> QED BY <1>7, <2>1, <2>2 DEF Announced
<1> HIDE DEF m
<1>8. /\ m.start \in Nat /\ EndOf(m) \in Nat /\ Len(m.records) \in Nat
      /\ EndOf(m) = m.start + Len(m.records)
  BY <1>3, Changes DEF EndOf
<1>9. ASSUME NEW c \in Client
      PROVE  /\ Extended(c, m) \in Seq(Nat)
             /\ Extended(c, m) = Records(start[c], Len(Extended(c, m)))
             /\ Len(buf[c]) <= Len(Extended(c, m))
             /\ m.records = <<>> => Extended(c, m) = buf[c]
             /\ ~stale[c] /\ m.start <= start[c] + Len(buf[c])
                  => EndOf(m) <= start[c] + Len(Extended(c, m))
  BY <1>2, <1>3, ExtendedRun DEF ClientInv
<1>10. Types'
  <2>1. cpc' \in [Client -> Labels] /\ stale' \in [Client -> BOOLEAN]
        /\ event' \in [Client -> BOOLEAN]
    <3>1. cpc' \in [Client -> Labels]
      BY <1>2, <1>5 DEF Types, Labels
    <3>2. stale' \in [Client -> BOOLEAN] /\ event' \in [Client -> BOOLEAN]
      BY <1>2, <1>5 DEF Types
    <3> QED BY <3>1, <3>2
  <2>2. buf' \in [Client -> Seq(Nat)]
    <3>1. ASSUME NEW c \in Client
          PROVE (IF c \in dropped THEN <<>>
                 ELSE IF c \in subs THEN Extended(c, m) ELSE buf[c]) \in Seq(Nat)
      BY <1>2, <1>9 DEF Types
    <3> QED BY <1>5, <3>1
  <2>3. ready' \in Seq(Client \cup Msg)
    BY <1>6 DEF Queue
  <2> QED BY <1>1, <1>2, <2>1, <2>2, <2>3, Zenon DEF Types
<1>11. ListenInv' /\ WriterInv'
  <2>1. ListenInv'
    BY <1>1, <1>2, Zenon DEF ListenInv
  <2>2. WriterInv'
    BY <1>1, <1>2 DEF WriterInv, EndOf
  <2> QED BY <2>1, <2>2
<1>12. ASSUME NEW c \in Client
       PROVE  /\ Placed(c) /\ Buffered(c) /\ cpc[c] \notin Held
              /\ stale'[c] <=> stale[c] \/ c \in dropped
              /\ c \in dropped => buf'[c] = <<>>
              /\ c \in subs \ dropped => buf'[c] = Extended(c, m)
              /\ c \notin subs => buf'[c] = buf[c]
              /\ cpc[c] = "wait" => cpc'[c] = IF c \in Sub THEN "top" ELSE "test"
              /\ cpc[c] # "wait" => cpc'[c] = cpc[c]
  <2>1. Placed(c) /\ Buffered(c)
    BY <1>2 DEF ClientInv
  <2>2. cpc[c] \notin Held
    BY <1>1, <2>1 DEF Placed
  <2>3. cpc[c] = "wait" => c \in subs
    BY <2>1 DEF Placed, Gone
  <2>4. cpc'[c] = IF c \notin woken THEN cpc[c] ELSE IF c \in Sub THEN "top" ELSE "test"
    BY <1>5
  <2>5. stale'[c] <=> stale[c] \/ c \in dropped
    BY <1>5
  <2>6. buf'[c] = IF c \in dropped THEN <<>>
                  ELSE IF c \in subs THEN Extended(c, m) ELSE buf[c]
    BY <1>5
  <2> QED BY <2>1, <2>2, <2>3, <2>4, <2>5, <2>6
<1>13. ASSUME NEW c \in Client PROVE Placed(c)' /\ Buffered(c)' /\ Watched(c)'
  <2>1. start'[c] = start[c] /\ start[c] \in Nat /\ buf[c] \in Seq(Nat) /\ Len(buf[c]) \in Nat
    BY <1>1, <1>2 DEF Types
  <2>2. Placed(c)'
    BY <1>1, <1>12 DEF Placed, Gone, Held
  <2>3. Buffered(c)'
    <3>1. CASE c \in dropped
      BY <1>12, <2>1, <3>1, RecordsEmpty, Limits DEF Buffered
    <3>2. CASE c \in subs \ dropped
      <4>1. m.records = <<>> \/ Len(Extended(c, m)) <= LagLimit \/ stale[c]
        <5>1. Len(Extended(c, m)) \in Nat
          BY <1>9
        <5> QED BY <3>2, <5>1, Limits DEF Overtaken
      <4>2. ~stale[c]
        BY <3>2
      <4> QED BY <1>9, <1>12, <2>1, <3>2, <4>1, <4>2 DEF Buffered
    <3>3. CASE c \notin subs
      BY <1>12, <2>1, <3>3 DEF Buffered
    <3> QED BY <3>1, <3>2, <3>3
  <2>4. Watched(c)'
    BY <1>12 DEF Watched, Held
  <2> QED BY <2>2, <2>3, <2>4
<1>14. ASSUME NEW s \in Sub PROVE Yielded(s)' /\ Joins(s)' /\ Covered(s)' /\ Drained(s)'
  <2>1. Yielded(s) /\ Joins(s) /\ Covered(s) /\ Drained(s)
    BY <1>2 DEF SubInv
  <2>2. /\ s \in Client /\ start'[s] = start[s] /\ start[s] \in Nat /\ Len(buf[s]) \in Nat
        /\ next' = next /\ closed' = closed /\ UNCHANGED <<pos, got, replay, from, subs>>
    BY <1>1, <1>2 DEF Types
  <2>3. Yielded(s)'
    BY <1>12, <2>1, <2>2 DEF Yielded, Gone
  <2>4. Joins(s)'
    BY <1>12, <2>1, <2>2 DEF Joins, Fresh, Held
  <2>5. Drained(s)'
    BY <1>12, <2>1, <2>2 DEF Drained
  <2>6. Covered(s)'
    <3> SUFFICES ASSUME s \in subs, ~stale'[s], cpc'[s] # "mark", NEW k \in Nat,
                        start[s] + Len(buf'[s]) <= k, k < next
                 PROVE  Announced(k)'
      BY <2>2 DEF Covered
    <3>1. s \notin dropped /\ ~stale[s] /\ buf'[s] = Extended(s, m) /\ cpc[s] # "mark"
      BY <1>12, <2>2 DEF Held
    <3>2. Len(Extended(s, m)) \in Nat /\ Len(buf[s]) <= Len(Extended(s, m))
      BY <1>9, <2>2
    <3>3. Announced(k)
      BY <2>1, <2>2, <3>1, <3>2 DEF Covered
    <3>4. ~(m.start <= k /\ k < EndOf(m))
      <4>1. m.records = <<>> \/ m.start <= start[s] + Len(buf[s])
        BY <1>8, <2>2, <3>1 DEF Overtaken
      <4>2. CASE m.records = <<>>
        BY <1>8, <4>2
      <4>3. CASE m.start <= start[s] + Len(buf[s])
        BY <1>8, <1>9, <2>2, <3>1, <3>2, <4>3
      <4> QED BY <4>1, <4>2, <4>3
    <3> QED BY <1>7, <3>3, <3>4
  <2> QED BY <2>3, <2>4, <2>5, <2>6
<1> QED BY <1>10, <1>11, <1>13, <1>14 DEF IInv, ClientInv, SubInv

-----------------------------------------------------------------------------
(* The theorems.                                                           *)

LEMMA Inductive == IInv /\ [Next]_vars => IInv'
<1> SUFFICES ASSUME IInv, [Next]_vars PROVE IInv'
  OBVIOUS
<1>1. CASE \E w \in Writer : WriterStep(w)
  BY <1>1, AppendBeginStep, PublishStep, AppendFailsStep, CloseStep, NotifyStep,
     OnChangeStep DEF WriterStep
<1>2. CASE \E c \in Client, o \in 0..MaxRecords : Join(c, o)
  BY <1>2, JoinStep
<1>3. CASE \E c \in Client : Cancel(c)
  BY <1>3, CancelStep
<1>4. CASE \E s \in Sub : ReadInThread(s) \/ Consume(s)
  BY <1>4, ReadInThreadStep, ConsumeStep
<1>5. CASE (\E c \in Client : Run(c)) \/ RunDeliver
  BY <1>5, RunStep, DeliverStep
<1>6. CASE \E s \in Sub : SubStep(s)
  BY <1>6, CatchUpStep, MarkStep, ReadStep, RaiseStep, ReplayOneStep, ReplayEndStep,
     TakeLiveStep, CheckStep, FinalStep, RecheckStep DEF SubStep
<1>7. CASE \E c \in Waiter : WaiterStep(c)
  BY <1>7, TestStep, TestClosedStep, RetestStep, RecheckClosedStep DEF WaiterStep
<1>8. CASE UNCHANGED vars
  <2>1. /\ UNCHANGED <<next, closed, fileOpen, lock, wpc, note, todo, subs, listening>>
        /\ UNCHANGED <<ready, running, cpc, from, pos, got, replay, buf, start, stale, event>>
    BY <1>8 DEF vars
  <2>2. Types' /\ ListenInv'
    BY <2>1, Zenon DEF IInv, Types, ListenInv
  <2>3. WriterInv'
    BY <2>1 DEF IInv, WriterInv, EndOf
  <2>4. Coming' = Coming /\ \A k : Announced(k)' = Announced(k)
    BY <2>1 DEF Coming, Announced, EndOf
  <2>5. ClientInv'
    BY <2>1, <2>4 DEF IInv, ClientInv, Placed, Buffered, Watched, Wanted
  <2>6. SubInv'
    BY <2>1, <2>4 DEF IInv, SubInv, Yielded, Joins, Covered, Drained
  <2> QED BY <2>2, <2>3, <2>5, <2>6 DEF IInv
<1> QED BY <1>1, <1>2, <1>3, <1>4, <1>5, <1>6, <1>7, <1>8 DEF Next, LoopStep

LEMMA Invariant == Spec => []IInv
BY InitIInv, Inductive, PTL DEF Spec

\* The types, for any threads, clients and limits.
THEOREM TypesKept == Spec => []TypeOK
<1>1. IInv => TypeOK
  <2> SUFFICES ASSUME IInv PROVE TypeOK
    OBVIOUS
  <2>1. listening = (subs # {})
    BY Zenon DEF IInv, ListenInv
  <2> QED BY <2>1, Zenon DEF IInv, Types, TypeOK
<1> QED BY <1>1, Invariant, PTL

\* A subscriber yields the records from its offset on, each once and in order
\* (aio.py, subscribe), whatever the writers, the lag limit and closes do.
THEOREM EachOnceInOrder == Spec => []InOrderOnce
<1>1. IInv => InOrderOnce
  BY DEF IInv, SubInv, Yielded, InOrderOnce
<1> QED BY <1>1, Invariant, PTL

\* The fall-back for a hole (aio.py 187-189) is never taken.
THEOREM NoHoleEver == Spec => []NoHole
<1>1. IInv => NoHole
  <2> SUFFICES ASSUME IInv, NEW s \in Sub, cpc[s] = "top", ~stale[s] PROVE Connected(s)
    BY DEF NoHole
  <2>1. Types /\ Buffered(s) /\ Joins(s)
    BY DEF IInv, ClientInv, SubInv, Client
  <2>2. start[s] <= pos[s]
    BY <2>1 DEF Joins
  <2> QED BY <2>1, <2>2, LiveRun
<1> QED BY <1>1, Invariant, PTL

\* However far a client falls behind, its buffer is bounded (_Sub.deliver).
THEOREM BuffersBounded == Spec => []LagBounded
<1>1. IInv => LagBounded
  BY DEF IInv, ClientInv, Buffered, LagBounded
<1> QED BY <1>1, Invariant, PTL

\* A subscription that ended by itself has yielded all of the closed stream.
THEOREM EndsDrained == Spec => []EndedDrained
<1>1. IInv => EndedDrained
  BY DEF IInv, SubInv, Yielded, Drained, EndedDrained
<1> QED BY <1>1, Invariant, PTL

\* Nobody sleeps through a record or a close, though both are read without the
\* engine's lock and announced after it is released.
THEOREM NobodySleepsThrough == Spec => []NoLostWakeup
<1>1. IInv => NoLostWakeup
  <2> SUFFICES ASSUME IInv PROVE NoLostWakeup
    OBVIOUS
  <2>1. \A c \in Client : Watched(c)
    BY DEF IInv, ClientInv
  <2>2. ASSUME NEW s \in Sub, cpc[s] = "wait", next > pos[s] \/ closed PROVE Coming
    BY <2>1, <2>2 DEF Watched, Wanted, Client
  <2>3. ASSUME NEW c \in Waiter, cpc[c] = "wait", next > from[c] \/ closed PROVE Coming
    BY <2>1, <2>3, RolesDistinct DEF Watched, Wanted, Client
  <2> QED BY <2>2, <2>3 DEF NoLostWakeup
<1> QED BY <1>1, Invariant, PTL
=============================================================================
