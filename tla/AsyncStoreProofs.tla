-------------------------- MODULE AsyncStoreProofs --------------------------
(***************************************************************************)
(* Proofs about AsyncStore, for any number of tasks, streams, hubs, event  *)
(* loops and records: a subscription yields the records of its own stream, *)
(* a hub serves one loop, and who sleeps will be woken.                    *)
(***************************************************************************)
EXTENDS AsyncStore, SequenceTheorems, TLAPS

-----------------------------------------------------------------------------
(* The inductive invariant.                                                *)

Label == {"idle", "wrap", "pop", "held", "notify", "tell"} \cup Subscribed
Record == Stream \X Nat
HubObject == [stream : Stream, subs : SUBSET Task, loop : Nat]
Change == [hub : Nat, start : Nat, records : Seq(Record)]
Telling == [stream : Nat, start : Nat, records : Seq(Record), hubs : SUBSET Nat, then : Label]
Subscriber == [buf : Seq(Record), start : Nat, stale : BOOLEAN]

EngineTypes ==
    /\ next \in [Stream -> Nat]
    /\ closed \in [Stream -> BOOLEAN] /\ fileOpen \in [Stream -> BOOLEAN]

StoreTypes == born \in 0..MaxStreams /\ current \in 0..born

HubTypes == table \in 0..Len(hubs) /\ hubs \in Seq(HubObject)

LoopTypes == loop \in Nat \ {0} /\ ready \in Seq(Change)

TaskTypes ==
    /\ home \in [Task -> Nat] /\ tpc \in [Task -> Label]
    /\ on \in [Task -> Nat] /\ via \in [Task -> Nat]
    /\ told \in [Task -> Telling]

ReadingTypes ==
    /\ sub \in [Task -> Subscriber]
    /\ pos \in [Task -> Nat] /\ got \in [Task -> Seq(Record)]

Types == EngineTypes /\ StoreTypes /\ HubTypes /\ LoopTypes /\ TaskTypes /\ ReadingTypes

\* Of the stream objects of the name only the current one may be open.
StreamInv ==
    \A s \in 1..born :
        /\ s # current => ~fileOpen[s]
        /\ ~fileOpen[s] => closed[s]

\* A hub has a listener, on one loop, as long as it has subscribers.
HubInv ==
    \A h \in DOMAIN hubs :
        /\ hubs[h].stream \in 1..born
        /\ hubs[h].subs = {} <=> hubs[h].loop = None
        /\ hubs[h].loop <= loop
        /\ \A t \in hubs[h].subs :
             home[t] = hubs[h].loop /\ tpc[t] \in Subscribed /\ via[t] = h

\* The task has a stream, or a thread at work on the one it has.
Holding(t) ==
    \/ tpc[t] \in Subscribed \cup {"held"}
    \/ tpc[t] \in {"notify", "tell"} /\ told[t].then = "held"

\* A task's stream and hub belong together, or the stream's file is closed.
HoldInv(t) ==
    /\ home[t] \in 1..loop
    /\ tpc[t] = "wrap" => on[t] \in 1..born
    /\ ~Holding(t) => pos[t] = 0
    /\ Holding(t) =>
         /\ on[t] \in 1..born /\ via[t] \in DOMAIN hubs
         /\ hubs[via[t]].stream = on[t] \/ ~fileOpen[on[t]]
         /\ pos[t] <= next[on[t]]
    /\ tpc[t] \in Subscribed /\ home[t] = loop => t \in hubs[via[t]].subs

\* The records of a change are none, or the one at its start.
Carries(s, start, records) ==
    records = <<>> \/ (records = <<<<s, start>>>> /\ start < next[s])

\* What a thread tells is about its stream, and for hubs of that stream.
ToldInv(t) ==
    tpc[t] \in {"notify", "tell"} =>
        /\ told[t].stream \in 1..born
        /\ Carries(told[t].stream, told[t].start, told[t].records)
        /\ told[t].hubs \subseteq {h \in DOMAIN hubs : hubs[h].stream = told[t].stream}
        /\ told[t].then \in {"idle", "pop", "held"}

ReadyInv ==
    \A i \in DOMAIN ready :
        /\ ready[i].hub \in DOMAIN hubs
        /\ Carries(hubs[ready[i].hub].stream, ready[i].start, ready[i].records)

\* Record k of stream s is on its way to hub h.
Announced(s, h, k) ==
    \/ \E i \in DOMAIN ready : ready[i].hub = h /\ ready[i].records = <<<<s, k>>>>
    \/ \E t \in Task : /\ told[t].stream = s /\ told[t].records = <<<<s, k>>>>
                       /\ \/ tpc[t] = "notify"
                          \/ tpc[t] = "tell" /\ h \in told[t].hubs

\* The buffer of t follows its stream.
Following(t) ==
    tpc[t] \in {"read", "run", "wait"} /\ ~sub[t].stale /\ hubs[via[t]].stream = on[t]

End(t) == sub[t].start + Len(sub[t].buf)

\* A buffer holds records of the stream, up to its end; on the running loop
\* every later one is on its way.
SubInv(t) ==
    /\ tpc[t] \in {"run", "wait"} /\ ~sub[t].stale => hubs[via[t]].stream = on[t]
    /\ Following(t) =>
         /\ \A i \in DOMAIN sub[t].buf : sub[t].buf[i] = <<on[t], sub[t].start + i - 1>>
         /\ End(t) <= next[on[t]]
         /\ home[t] = loop =>
              \A k \in Nat : End(t) <= k /\ k < next[on[t]] => Announced(on[t], via[t], k)
    /\ tpc[t] = "wait" =>
         /\ ~sub[t].stale /\ sub[t].buf = <<>> /\ sub[t].start = pos[t]
         /\ home[t] = loop /\ closed[on[t]] => Coming(on[t], via[t])

\* What was yielded are the stream's records just below the position.
GotInv(t) ==
    tpc[t] \in Subscribed =>
        /\ Len(got[t]) <= pos[t]
        /\ \A i \in DOMAIN got[t] : got[t][i] = <<on[t], pos[t] - Len(got[t]) + i - 1>>

TaskInv(t) == HoldInv(t) /\ ToldInv(t) /\ SubInv(t) /\ GotInv(t)

IInv == Types /\ StreamInv /\ HubInv /\ ReadyInv /\ \A t \in Task : TaskInv(t)

-----------------------------------------------------------------------------
(* What a step leaves alone.                                               *)

\* The step is not one of task u.
Same(u) ==
    /\ home'[u] = home[u] /\ tpc'[u] = tpc[u] /\ on'[u] = on[u] /\ via'[u] = via[u]
    /\ told'[u] = told[u] /\ sub'[u] = sub[u] /\ pos'[u] = pos[u] /\ got'[u] = got[u]

\* Streams grow, and closed ones stay so.
EngineGrows ==
    /\ born <= born'
    /\ \A s \in 1..born : /\ next[s] <= next'[s]
                          /\ closed[s] => closed'[s]
                          /\ ~fileOpen[s] => ~fileOpen'[s]

\* Hubs keep their streams.
HubsGrow ==
    \A h \in DOMAIN hubs : h \in DOMAIN hubs' /\ hubs'[h].stream = hubs[h].stream

LEMMA AnnouncedComes ==
    ASSUME NEW s, NEW h, NEW k, Announced(s, h, k)
    PROVE  Coming(s, h)
BY DEF Announced, Coming

\* A task is as it was when the step of another one takes no change away from
\* it and announces what is new.
LEMMA OtherTask ==
    ASSUME IInv, Types', NEW u \in Task, Same(u), loop' = loop, EngineGrows, HubsGrow,
           NEW s, NEW h, s = on[u], h = via[u],
           tpc[u] \in Subscribed /\ home[u] = loop => u \in hubs'[h].subs,
           Following(u) /\ home[u] = loop =>
               /\ \A k \in Nat : Announced(s, h, k) => Announced(s, h, k)'
               /\ \A k \in Nat : next[s] <= k /\ k < next'[s] => Announced(s, h, k)'
               /\ Coming(s, h) => Coming(s, h)'
               /\ closed'[s] => closed[s] \/ Coming(s, h)'
    PROVE  TaskInv(u)'
<1>1. TaskInv(u) /\ Types
  BY DEF IInv
<1>2. HoldInv(u)'
  <2>1. Holding(u)' = Holding(u)
    BY DEF Same, Holding
  <2>2. ASSUME Holding(u)
        PROVE  /\ s \in 1..born /\ s \in 1..born' /\ s \in Stream /\ h \in DOMAIN hubs
               /\ h \in DOMAIN hubs'
               /\ hubs'[h].stream = s \/ ~fileOpen'[s]
               /\ pos[u] <= next'[s]
    <3>1. /\ s \in 1..born /\ h \in DOMAIN hubs
          /\ hubs[h].stream = s \/ ~fileOpen[s]
          /\ pos[u] <= next[s]
      BY <1>1, <2>2 DEF TaskInv, HoldInv
    <3>2. born \in 0..MaxStreams /\ born' \in 0..MaxStreams /\ born <= born'
      BY <1>1 DEF Types, StoreTypes, EngineGrows
    <3>3. s \in 1..born' /\ s \in Stream
      BY <3>1, <3>2, Bounds DEF Stream
    <3>4. next[s] \in Nat /\ next'[s] \in Nat /\ pos[u] \in Nat
      BY <1>1, <3>3 DEF Types, EngineTypes, ReadingTypes
    <3>5. hubs'[h].stream = s \/ ~fileOpen'[s]
      BY <3>1 DEF HubsGrow, EngineGrows
    <3>6. next[s] <= next'[s]
      BY <3>1 DEF EngineGrows
    <3> QED
      BY <3>1, <3>3, <3>4, <3>5, <3>6 DEF HubsGrow
  <2>3. tpc[u] = "wrap" => s \in 1..born'
    <3>1. born \in 0..MaxStreams /\ born' \in 0..MaxStreams /\ born <= born'
      BY <1>1 DEF Types, StoreTypes, EngineGrows
    <3> QED
      BY <1>1, <3>1, Bounds DEF TaskInv, HoldInv
  <2>4. home[u] \in 1..loop /\ (~Holding(u) => pos[u] = 0)
    BY <1>1 DEF TaskInv, HoldInv
  <2> QED
    BY <2>1, <2>2, <2>3, <2>4, Zenon DEF HoldInv, Same
<1>3. ToldInv(u)'
  <2>1. ASSUME tpc[u] \in {"notify", "tell"}
        PROVE  /\ told[u].stream \in 1..born'
               /\ told[u].records = <<>> \/ (/\ told[u].records = <<<<told[u].stream, told[u].start>>>>
                                             /\ told[u].start < next'[told[u].stream])
               /\ told[u].hubs \subseteq {g \in DOMAIN hubs' : hubs'[g].stream = told[u].stream}
               /\ told[u].then \in {"idle", "pop", "held"}
    <3>1. /\ told[u].stream \in 1..born
          /\ Carries(told[u].stream, told[u].start, told[u].records)
          /\ told[u].hubs \subseteq {g \in DOMAIN hubs : hubs[g].stream = told[u].stream}
          /\ told[u].then \in {"idle", "pop", "held"}
      BY <1>1, <2>1 DEF TaskInv, ToldInv
    <3>2. /\ born \in 0..MaxStreams /\ born' \in 0..MaxStreams /\ born <= born'
          /\ told[u].start \in Nat
      BY <1>1 DEF Types, StoreTypes, TaskTypes, Telling, EngineGrows
    <3>3. told[u].stream \in 1..born' /\ told[u].stream \in Stream
      BY <3>1, <3>2, Bounds DEF Stream
    <3>4. /\ next[told[u].stream] \in Nat /\ next'[told[u].stream] \in Nat
          /\ next[told[u].stream] <= next'[told[u].stream]
      BY <1>1, <3>1, <3>3 DEF Types, EngineTypes, EngineGrows
    <3>5. told[u].hubs \subseteq {g \in DOMAIN hubs' : hubs'[g].stream = told[u].stream}
      <4>1. \A g \in told[u].hubs : g \in DOMAIN hubs' /\ hubs'[g].stream = told[u].stream
        BY <3>1 DEF HubsGrow
      <4> QED
        BY <4>1
    <3> QED
      BY <3>1, <3>2, <3>3, <3>4, <3>5 DEF Carries
  <2> QED
    BY <2>1, Zenon DEF ToldInv, Carries, Same
<1>4. SubInv(u)'
  <2>1. SubInv(u)
    BY <1>1 DEF TaskInv
  <2>2. tpc[u] \in {"read", "run", "wait"} => h \in DOMAIN hubs /\ s \in 1..born /\ s \in Stream
    <3>1. tpc[u] \in {"read", "run", "wait"} => Holding(u)
      BY DEF Holding, Subscribed
    <3> QED
      BY <1>1, <3>1, Bounds DEF TaskInv, HoldInv, Types, StoreTypes, Stream
  <2>3. Following(u)' = Following(u) /\ End(u)' = End(u)
    BY <2>2 DEF Following, End, Same, HubsGrow
  <2>4. tpc[u] \in {"run", "wait"} /\ ~sub[u].stale => hubs'[h].stream = s
    BY <2>1, <2>2 DEF SubInv, HubsGrow
  <2>5. ASSUME Following(u)
        PROVE  /\ \A i \in DOMAIN sub[u].buf : sub[u].buf[i] = <<s, sub[u].start + i - 1>>
               /\ End(u) <= next'[s]
               /\ home[u] = loop =>
                    \A k \in Nat : End(u) <= k /\ k < next'[s] => Announced(s, h, k)'
    <3>1. s \in Stream /\ s \in 1..born
      BY <2>2, <2>5 DEF Following
    <3>2. /\ next[s] \in Nat /\ next'[s] \in Nat /\ next[s] <= next'[s]
          /\ End(u) \in Nat
      BY <1>1, <3>1 DEF Types, EngineTypes, EngineGrows, ReadingTypes, Subscriber, End
    <3>3. /\ \A i \in DOMAIN sub[u].buf : sub[u].buf[i] = <<s, sub[u].start + i - 1>>
          /\ End(u) <= next[s]
          /\ home[u] = loop =>
               \A k \in Nat : End(u) <= k /\ k < next[s] => Announced(s, h, k)
      BY <2>1, <2>5, Zenon DEF SubInv
    <3>4. ASSUME home[u] = loop, NEW k \in Nat, End(u) <= k, k < next'[s]
          PROVE  Announced(s, h, k)'
      <4>1. CASE k < next[s]
        BY <2>5, <3>3, <3>4, <4>1
      <4>2. CASE ~(k < next[s])
        BY <2>5, <3>2, <3>4, <4>2
      <4> QED
        BY <4>1, <4>2
    <3>5. End(u) <= next'[s]
      BY <3>2, <3>3
    <3> QED
      BY <3>3, <3>4, <3>5, Zenon
  <2>6. ASSUME tpc[u] = "wait"
        PROVE  /\ ~sub[u].stale /\ sub[u].buf = <<>> /\ sub[u].start = pos[u]
               /\ home[u] = loop /\ closed'[s] => Coming(s, h)'
    <3>1. /\ ~sub[u].stale /\ sub[u].buf = <<>> /\ sub[u].start = pos[u]
          /\ home[u] = loop /\ closed[s] => Coming(s, h)
      BY <2>1, <2>6, Zenon DEF SubInv
    <3>2. Following(u)
      BY <2>1, <2>6, <3>1 DEF SubInv, Following
    <3> QED
      BY <3>1, <3>2, Zenon
  <2>7. /\ \A k : Announced(on[u], via[u], k)' <=> Announced(s, h, k)'
        /\ Coming(on[u], via[u])' <=> Coming(s, h)'
    BY DEF Same
  <2> HIDE DEF Announced, Coming
  <2>8. /\ home'[u] = home[u] /\ tpc'[u] = tpc[u] /\ on'[u] = s /\ via'[u] = h
        /\ sub'[u] = sub[u] /\ pos'[u] = pos[u]
    BY DEF Same
  <2> QED
    BY <2>3, <2>4, <2>5, <2>6, <2>7, <2>8, Zenon DEF SubInv
<1>5. GotInv(u)'
  BY <1>1, Zenon DEF TaskInv, GotInv, Same
<1> QED
  BY <1>2, <1>3, <1>4, <1>5 DEF TaskInv

\* What the hubs were handed stays good as the streams grow.
LEMMA ReadyStays ==
    ASSUME IInv, Types', EngineGrows, HubsGrow, ready' = ready
    PROVE  ReadyInv'
<1> SUFFICES ASSUME NEW i \in DOMAIN ready
             PROVE  /\ ready[i].hub \in DOMAIN hubs'
                    /\ LET s == hubs'[ready[i].hub].stream IN
                         ready[i].records = <<>> \/ (/\ ready[i].records = <<<<s, ready[i].start>>>>
                                                     /\ ready[i].start < next'[s])
  BY DEF ReadyInv, Carries
<1> DEFINE g == ready[i].hub
           s == hubs[g].stream
<1>1. g \in DOMAIN hubs /\ Carries(s, ready[i].start, ready[i].records)
  BY DEF IInv, ReadyInv
<1>2. g \in DOMAIN hubs' /\ hubs'[g].stream = s
  BY <1>1 DEF HubsGrow
<1>3. s \in 1..born /\ s \in Stream /\ ready[i].start \in Nat
  <2>1. s \in 1..born
    BY <1>1, Zenon DEF IInv, HubInv
  <2>2. ready[i].start \in Nat
    <3>1. ready \in Seq(Change)
      BY DEF IInv, Types, LoopTypes
    <3>2. ready[i] \in Change
      BY <3>1
    <3> QED
      BY <3>2 DEF Change
  <2> QED
    BY <2>1, <2>2, Bounds DEF IInv, Types, StoreTypes, Stream
<1>4. next[s] \in Nat /\ next'[s] \in Nat /\ next[s] <= next'[s]
  BY <1>3 DEF IInv, Types, EngineTypes, EngineGrows
<1> QED
  BY <1>1, <1>2, <1>3, <1>4 DEF Carries

\* A step of task t that is not about a change on its way takes none away; what
\* it makes of its stream, its thread is about to tell.
LEMMA OwnStep ==
    ASSUME IInv, Types', NEW t \in Task, \A u \in Task \ {t} : Same(u),
           tpc[t] \notin {"notify", "tell"}, loop' = loop, ready' = ready,
           EngineGrows, HubsGrow,
           \A u \in Task \ {t} : \A h \in DOMAIN hubs :
               u \in hubs[h].subs /\ home[u] = loop => u \in hubs'[h].subs,
           \A s \in 1..born : \A k \in Nat : next[s] <= k /\ k < next'[s] =>
               tpc'[t] = "notify" /\ told'[t].stream = s /\ told'[t].records = <<<<s, k>>>>,
           \A s \in 1..born : closed'[s] =>
               closed[s] \/ (tpc'[t] = "notify" /\ told'[t].stream = s)
    PROVE  ReadyInv' /\ \A u \in Task \ {t} : TaskInv(u)'
<1>1. ReadyInv'
  BY ReadyStays
<1>2. ASSUME NEW u \in Task \ {t}
      PROVE  TaskInv(u)'
  <2>1. PICK s, h : s = on[u] /\ h = via[u]
    OBVIOUS
  <2>2. /\ tpc[u] \in Subscribed => s \in 1..born /\ h \in DOMAIN hubs
        /\ tpc[u] \in Subscribed /\ home[u] = loop => u \in hubs[h].subs
    BY <2>1 DEF IInv, TaskInv, HoldInv, Holding
  <2>3. tpc[u] \in Subscribed /\ home[u] = loop => u \in hubs'[h].subs
    BY <2>2
  <2>4. ASSUME NEW k, Announced(s, h, k)
        PROVE  Announced(s, h, k)'
    BY <2>4 DEF Announced, Same
  <2>5. Coming(s, h) => Coming(s, h)'
    BY DEF Coming, Same
  <2>6. ASSUME Following(u)
        PROVE  /\ \A k \in Nat : next[s] <= k /\ k < next'[s] => Announced(s, h, k)'
               /\ closed'[s] => closed[s] \/ Coming(s, h)'
    <3>1. s \in 1..born
      BY <2>2, <2>6 DEF Following, Subscribed
    <3>2. ASSUME NEW k \in Nat, next[s] <= k, k < next'[s]
          PROVE  Announced(s, h, k)'
      BY <3>1, <3>2, Zenon DEF Announced
    <3>3. closed'[s] => closed[s] \/ Coming(s, h)'
      BY <3>1, Zenon DEF Coming
    <3> QED
      BY <3>2, <3>3
  <2>7. u \in Task /\ Same(u)
    OBVIOUS
  <2> HIDE DEF Announced, Coming
  <2> QED
    BY <2>1, <2>3, <2>4, <2>5, <2>6, <2>7, OtherTask
<1> QED
  BY <1>1, <1>2

\* The hubs are as they were, and so are those who subscribe.
LEMMA HubsStay ==
    ASSUME IInv, NEW t \in Task, \A u \in Task \ {t} : Same(u),
           hubs' = hubs, loop' = loop, born <= born', Types',
           tpc[t] \in Subscribed =>
               tpc'[t] \in Subscribed /\ via'[t] = via[t] /\ home'[t] = home[t]
    PROVE  HubInv'
<1> SUFFICES ASSUME NEW h \in DOMAIN hubs
             PROVE  /\ hubs[h].stream \in 1..born'
                    /\ hubs[h].subs = {} <=> hubs[h].loop = None
                    /\ hubs[h].loop <= loop
                    /\ \A u \in hubs[h].subs :
                         home'[u] = hubs[h].loop /\ tpc'[u] \in Subscribed /\ via'[u] = h
  BY DEF HubInv
<1>1. /\ hubs[h].stream \in 1..born
      /\ hubs[h].subs = {} <=> hubs[h].loop = None
      /\ hubs[h].loop <= loop
      /\ \A u \in hubs[h].subs :
           home[u] = hubs[h].loop /\ tpc[u] \in Subscribed /\ via[u] = h
  BY DEF IInv, HubInv
<1>2. born \in 0..MaxStreams /\ born' \in 0..MaxStreams
  BY DEF IInv, Types, StoreTypes
<1>3. hubs[h].stream \in 1..born'
  BY <1>1, <1>2, Bounds
<1>4. hubs[h] \in HubObject
  BY DEF IInv, Types, HubTypes
<1>5. hubs[h].subs \subseteq Task
  BY <1>4 DEF HubObject
<1>6. ASSUME NEW u \in hubs[h].subs
      PROVE  home'[u] = hubs[h].loop /\ tpc'[u] \in Subscribed /\ via'[u] = h
  <2>1. CASE u = t
    BY <1>1, <2>1
  <2>2. CASE u # t
    <3>1. Same(u)
      BY <1>5, <2>2
    <3> QED
      BY <1>1, <3>1 DEF Same
  <2> QED
    BY <2>1, <2>2
<1> QED
  BY <1>1, <1>3, <1>6

\* What leave makes of the hubs.
LEMMA LeaveFacts ==
    ASSUME IInv, NEW t \in Task, via[t] \in DOMAIN hubs, Leave(t)
    PROVE  /\ hubs' \in Seq(HubObject) /\ Len(hubs') = Len(hubs)
           /\ \A h \in DOMAIN hubs :
                /\ h \in DOMAIN hubs' /\ hubs'[h].stream = hubs[h].stream
                /\ h # via[t] => hubs'[h] = hubs[h]
                /\ h = via[t] =>
                     /\ hubs'[h].subs = hubs[h].subs \ {t}
                     /\ hubs'[h].loop = IF hubs[h].subs \ {t} = {} THEN None ELSE hubs[h].loop
<1> DEFINE g == via[t]
           rest == hubs[g].subs \ {t}
           left == [hubs[g] EXCEPT !.subs = rest,
                                   !.loop = IF rest = {} THEN None ELSE hubs[g].loop]
<1>1. hubs \in Seq(HubObject) /\ hubs[g] \in HubObject /\ DOMAIN hubs = 1..Len(hubs)
  <2>1. hubs \in Seq(HubObject)
    BY DEF IInv, Types, HubTypes
  <2> QED
    BY <2>1
<1>2. /\ left \in HubObject /\ left.stream = hubs[g].stream /\ left.subs = rest
      /\ left.loop = IF rest = {} THEN None ELSE hubs[g].loop
  BY <1>1 DEF HubObject, None
<1>3. hubs' = [hubs EXCEPT ![g] = left]
  <2>1. left = [[hubs[g] EXCEPT !.subs = rest] EXCEPT !.loop = IF rest = {} THEN None ELSE hubs[g].loop]
    OBVIOUS
  <2>2. hubs' = [hubs EXCEPT ![g].subs = rest, ![g].loop = IF rest = {} THEN None ELSE @]
    BY DEF Leave
  <2> QED
    BY <1>1, <2>1, <2>2
<1> HIDE DEF left, rest
<1>4. hubs' \in Seq(HubObject) /\ Len(hubs') = Len(hubs)
  BY <1>1, <1>2, <1>3, ExceptSeq
<1>5. \A h \in DOMAIN hubs : h \in DOMAIN hubs' /\ hubs'[h] = IF h = g THEN left ELSE hubs[h]
  BY <1>1, <1>3
<1> QED
  BY <1>2, <1>4, <1>5 DEF rest

\* Who leaves takes nobody along.
LEMMA HubsLeft ==
    ASSUME IInv, NEW t \in Task, via[t] \in DOMAIN hubs, Leave(t),
           tpc[t] \in Subscribed, \A u \in Task \ {t} : Same(u),
           loop' = loop, born' = born
    PROVE  HubInv'
<1> SUFFICES ASSUME NEW h \in DOMAIN hubs'
             PROVE  /\ hubs'[h].stream \in 1..born
                    /\ hubs'[h].subs = {} <=> hubs'[h].loop = None
                    /\ hubs'[h].loop <= loop
                    /\ \A u \in hubs'[h].subs :
                         home'[u] = hubs'[h].loop /\ tpc'[u] \in Subscribed /\ via'[u] = h
  BY DEF HubInv
<1>1. hubs \in Seq(HubObject) /\ loop \in Nat \ {0}
  BY DEF IInv, Types, HubTypes, LoopTypes
<1>2. h \in DOMAIN hubs
  BY <1>1, LeaveFacts
<1>3. /\ hubs[h].stream \in 1..born
      /\ hubs[h].subs = {} <=> hubs[h].loop = None
      /\ hubs[h].loop <= loop
      /\ \A u \in hubs[h].subs :
           home[u] = hubs[h].loop /\ tpc[u] \in Subscribed /\ via[u] = h
  BY <1>2 DEF IInv, HubInv
<1>4. hubs[h].subs \subseteq Task
  <2>1. hubs[h] \in HubObject
    BY <1>1, <1>2
  <2> QED
    BY <2>1 DEF HubObject
<1>5. \A u \in hubs[h].subs \ {t} :
        home'[u] = hubs[h].loop /\ tpc'[u] \in Subscribed /\ via'[u] = h
  BY <1>3, <1>4 DEF Same
<1>6. CASE h # via[t]
  <2>1. hubs'[h] = hubs[h]
    BY <1>2, <1>6, LeaveFacts
  <2>2. t \notin hubs[h].subs
    BY <1>3, <1>6
  <2> QED
    BY <1>3, <1>5, <2>1, <2>2
<1>7. CASE h = via[t]
  <2>1. /\ hubs'[h].stream = hubs[h].stream /\ hubs'[h].subs = hubs[h].subs \ {t}
        /\ hubs'[h].loop = IF hubs[h].subs \ {t} = {} THEN None ELSE hubs[h].loop
    BY <1>2, <1>7, LeaveFacts
  <2>2. CASE hubs[h].subs \ {t} = {}
    BY <1>1, <1>3, <2>1, <2>2 DEF None
  <2>3. CASE hubs[h].subs \ {t} # {}
    BY <1>3, <1>5, <2>1, <2>3
  <2> QED
    BY <2>2, <2>3
<1> QED
  BY <1>6, <1>7

\* A task that holds no stream.
LEMMA AtRest ==
    ASSUME NEW t \in Task, home'[t] \in 1..loop', tpc'[t] \in {"idle", "pop", "wrap"},
           pos'[t] = 0, tpc'[t] = "wrap" => on'[t] \in 1..born'
    PROVE  TaskInv(t)'
<1>1. tpc'[t] \notin Subscribed \cup {"held", "notify", "tell"}
  BY DEF Subscribed
<1> QED
  BY <1>1 DEF TaskInv, HoldInv, Holding, ToldInv, SubInv, Following, GotInv, Subscribed

\* A task that holds one and has no subscription.
LEMMA AtHand ==
    ASSUME NEW t \in Task, home'[t] \in 1..loop', tpc'[t] = "held",
           on'[t] \in 1..born', via'[t] \in DOMAIN hubs',
           hubs'[via'[t]].stream = on'[t] \/ ~fileOpen'[on'[t]],
           pos'[t] <= next'[on'[t]]
    PROVE  TaskInv(t)'
<1>1. tpc'[t] \notin Subscribed \cup {"wrap", "notify", "tell"}
  BY DEF Subscribed
<1> QED
  BY <1>1 DEF TaskInv, HoldInv, Holding, ToldInv, SubInv, Following, GotInv, Subscribed

\* A task whose thread is about to tell the hubs of its stream.
LEMMA AtNotify ==
    ASSUME NEW t \in Task, home'[t] \in 1..loop', tpc'[t] = "notify",
           told'[t].stream \in 1..born', told'[t].hubs = {},
           told'[t].records = <<>> \/ (/\ told'[t].records = <<<<told'[t].stream, told'[t].start>>>>
                                       /\ told'[t].start < next'[told'[t].stream]),
           \/ told'[t].then \in {"idle", "pop"} /\ pos'[t] = 0
           \/ /\ told'[t].then = "held"
              /\ on'[t] \in 1..born' /\ via'[t] \in DOMAIN hubs'
              /\ hubs'[via'[t]].stream = on'[t] \/ ~fileOpen'[on'[t]]
              /\ pos'[t] <= next'[on'[t]]
    PROVE  TaskInv(t)'
<1>1. tpc'[t] \notin Subscribed \cup {"held", "wrap"}
  BY DEF Subscribed
<1>2. HoldInv(t)'
  BY <1>1 DEF HoldInv, Holding
<1>3. ToldInv(t)'
  BY DEF ToldInv, Carries
<1> QED
  BY <1>1, <1>2, <1>3 DEF TaskInv, SubInv, Following, GotInv, Subscribed

\* What a task knows that is at rest, or holds a stream, on the running loop.
LEMMA RestFacts ==
    ASSUME IInv, NEW t \in Task
    PROVE  /\ home[t] \in 1..loop /\ born \in 0..MaxStreams /\ loop \in Nat \ {0}
           /\ tpc[t] \in {"idle", "pop", "wrap"} => pos[t] = 0
           /\ tpc[t] = "wrap" => on[t] \in 1..born
<1>1. HoldInv(t)
  BY DEF IInv, TaskInv
<1>2. tpc[t] \in {"idle", "pop", "wrap"} => ~Holding(t)
  BY DEF Holding, Subscribed
<1> QED
  BY <1>1, <1>2 DEF HoldInv, IInv, Types, StoreTypes, LoopTypes

LEMMA HoldFacts ==
    ASSUME IInv, NEW t \in Task, Holding(t)
    PROVE  /\ home[t] \in 1..loop
           /\ on[t] \in 1..born /\ on[t] \in Stream /\ via[t] \in DOMAIN hubs
           /\ hubs[via[t]].stream = on[t] \/ ~fileOpen[on[t]]
           /\ pos[t] \in Nat /\ next[on[t]] \in Nat /\ pos[t] <= next[on[t]]
<1>1. HoldInv(t)
  BY DEF IInv, TaskInv
<1>2. on[t] \in Stream
  BY <1>1, Bounds DEF HoldInv, IInv, Types, StoreTypes, Stream
<1> QED
  BY <1>1, <1>2 DEF HoldInv, IInv, Types, EngineTypes, ReadingTypes

-----------------------------------------------------------------------------
(* The start.                                                              *)

LEMMA InitIInv == Init => IInv
<1> SUFFICES ASSUME Init PROVE IInv
  OBVIOUS
<1> USE DEF Init
<1>1. Types
  <2>1. EngineTypes /\ StoreTypes /\ HubTypes /\ LoopTypes
    BY Bounds DEF EngineTypes, StoreTypes, HubTypes, LoopTypes, None
  <2>2. TaskTypes /\ ReadingTypes
    BY DEF TaskTypes, ReadingTypes, Label, Telling, Quiet, Subscriber, NewSub, None
  <2> QED
    BY <2>1, <2>2 DEF Types
<1>2. StreamInv /\ HubInv /\ ReadyInv
  BY DEF StreamInv, HubInv, ReadyInv
<1>3. ASSUME NEW t \in Task PROVE TaskInv(t)
  BY DEF TaskInv, HoldInv, Holding, ToldInv, SubInv, Following, GotInv, Subscribed
<1> QED
  BY <1>1, <1>2, <1>3 DEF IInv

-----------------------------------------------------------------------------
(* Store operations.                                                       *)

\* create and open: the current object, a new one, or an exception.
LEMMA OpenedStep ==
    ASSUME IInv, NEW t \in Task, OnLoop(t, "idle"),
           Found(t) \/ (current = None /\ OpenStream(t)) \/ Refused(t),
           UNCHANGED <<table, hubs, loop, ready, home, via, told, reading>>
    PROVE  IInv'
<1>1. tpc[t] = "idle" /\ pos[t] = 0 /\ home[t] \in 1..loop /\ born \in 0..MaxStreams
  BY RestFacts DEF OnLoop
<1>2. /\ born' \in 0..MaxStreams /\ current' \in 0..born' /\ born <= born'
      /\ next' = next /\ closed' \in [Stream -> BOOLEAN]
      /\ \A s \in 1..born : closed'[s] = closed[s]
      /\ tpc'[t] \in {"idle", "wrap"}
      /\ tpc'[t] = "wrap" => on'[t] \in 1..born'
      /\ \A u \in Task \ {t} : tpc'[u] = tpc[u] /\ on'[u] = on[u]
      /\ on' \in [Task -> Nat] /\ tpc' \in [Task -> Label]
      /\ fileOpen' \in [Stream -> BOOLEAN]
      /\ \A s \in 1..born : fileOpen'[s] = fileOpen[s]
      /\ \A s \in born + 1..born' : s = current' /\ fileOpen'[s]
      /\ current' = current \/ current = None
  <2>1. /\ current \in 0..born /\ on \in [Task -> Nat] /\ tpc \in [Task -> Label]
        /\ fileOpen \in [Stream -> BOOLEAN] /\ closed \in [Stream -> BOOLEAN]
    BY DEF IInv, Types, StoreTypes, TaskTypes, EngineTypes
  <2>2. CASE Found(t)
    BY <1>1, <2>1, <2>2 DEF Found, Goto, Label, None, engine, store
  <2>3. CASE current = None /\ OpenStream(t)
    <3>1. /\ born' = born + 1 /\ born' \in 1..MaxStreams /\ current' = born'
          /\ fileOpen' = [fileOpen EXCEPT ![born'] = TRUE] /\ born' \in Stream
      BY <1>1, <2>3, Bounds DEF OpenStream, Stream
    <3>2. /\ fileOpen' \in [Stream -> BOOLEAN] /\ fileOpen'[born'] = TRUE
          /\ \A s \in 1..born : fileOpen'[s] = fileOpen[s]
      <4>1. \A s \in 1..born : s \in Stream /\ s # born'
        BY <1>1, <3>1, Bounds DEF Stream
      <4>2. fileOpen' \in [Stream -> BOOLEAN]
        BY <2>1, <3>1
      <4>3. fileOpen'[born'] = TRUE /\ \A s \in 1..born : fileOpen'[s] = fileOpen[s]
        BY <2>1, <3>1, <4>1, Zenon
      <4> QED
        BY <4>2, <4>3, Zenon
    <3>3. /\ on' \in [Task -> Nat] /\ on'[t] = born' /\ tpc' \in [Task -> Label] /\ tpc'[t] = "wrap"
          /\ \A u \in Task \ {t} : tpc'[u] = tpc[u] /\ on'[u] = on[u]
          /\ next' = next
      BY <1>1, <2>1, <2>3, <3>1 DEF OpenStream, Goto, Label
    <3>4. \A s \in born + 1..born' : s = born'
      BY <1>1, <3>1
    <3>5. \A s \in born + 1..born' : s = current' /\ fileOpen'[s]
      BY <3>1, <3>2, <3>4, Zenon
    <3>6. born' \in 0..MaxStreams /\ current' \in 0..born' /\ born <= born' /\ born' \in 1..born'
      BY <1>1, <3>1
    <3>7. tpc'[t] \in {"idle", "wrap"} /\ on'[t] \in 1..born'
      BY <3>3, <3>6
    <3>8. closed' \in [Stream -> BOOLEAN] /\ \A s \in 1..born : closed'[s] = closed[s]
      <4>1. \A s \in 1..born : s \in Stream /\ s # born'
        BY <1>1, <3>1, Bounds DEF Stream
      <4>2. PICK b \in BOOLEAN : closed' = [closed EXCEPT ![born'] = b]
        BY <2>3 DEF OpenStream
      <4>3. closed' \in [Stream -> BOOLEAN]
        BY <2>1, <4>2
      <4>4. \A s \in 1..born : closed'[s] = closed[s]
        BY <2>1, <4>1, <4>2, Zenon
      <4> QED
        BY <4>3, <4>4
    <3> QED
      BY <2>3, <3>2, <3>3, <3>5, <3>6, <3>7, <3>8, Zenon
  <2>4. CASE Refused(t)
    BY <1>1, <2>1, <2>4 DEF Refused, Goto, Label, engine, store
  <2> QED
    BY <2>2, <2>3, <2>4
<1>3. UNCHANGED <<table, hubs, loop, ready, home, via, told, sub, pos, got>>
  BY DEF reading
<1>4. Types'
  <2>1. EngineTypes' /\ StoreTypes' /\ TaskTypes'
    BY <1>2, <1>3 DEF IInv, Types, EngineTypes, StoreTypes, TaskTypes
  <2>2. HubTypes' /\ LoopTypes' /\ ReadingTypes'
    BY <1>3, Zenon DEF IInv, Types, HubTypes, LoopTypes, ReadingTypes
  <2> QED
    BY <2>1, <2>2 DEF Types
<1>5. StreamInv'
  <2> SUFFICES ASSUME NEW s \in 1..born'
               PROVE  (s # current' => ~fileOpen'[s]) /\ (~fileOpen'[s] => closed'[s])
    BY <1>2 DEF StreamInv
  <2>1. CASE s \in 1..born
    <3>1. (s # current => ~fileOpen[s]) /\ (~fileOpen[s] => closed[s])
      BY <2>1 DEF IInv, StreamInv
    <3>2. current = None => s # current
      BY <2>1 DEF None
    <3> QED
      BY <1>2, <2>1, <3>1, <3>2
  <2>2. CASE s \in born + 1..born'
    BY <1>2, <2>2
  <2> QED
    BY <1>1, <1>2, <2>1, <2>2
<1>6. \A u \in Task \ {t} : Same(u)
  BY <1>2, <1>3 DEF Same
<1>7. EngineGrows /\ HubsGrow
  <2>1. \A s \in 1..born : next[s] \in Nat /\ s \in Stream
    BY <1>1, Bounds DEF IInv, Types, EngineTypes, Stream
  <2> QED
    BY <1>2, <1>3, <2>1 DEF EngineGrows, HubsGrow
<1>8. HubInv'
  BY <1>1, <1>2, <1>3, <1>4, <1>6, HubsStay DEF Subscribed
<1>9. ReadyInv' /\ \A u \in Task \ {t} : TaskInv(u)'
  <2>1. \A s \in 1..born : next[s] \in Nat /\ s \in Stream
    BY <1>1, Bounds DEF IInv, Types, EngineTypes, Stream
  <2>2. \A s \in 1..born : \A k \in Nat : ~(next[s] <= k /\ k < next'[s])
    BY <1>2, <2>1
  <2> QED
    BY <1>1, <1>2, <1>3, <1>4, <1>6, <1>7, <2>2, OwnStep
<1>10. TaskInv(t)'
  BY <1>1, <1>2, <1>3, AtRest
<1> QED
  BY <1>4, <1>5, <1>8, <1>9, <1>10 DEF IInv

\* What a thread tells has the type it should.
LEMMA NewTale ==
    ASSUME NEW s \in Stream, next[s] \in Nat, NEW r \in Seq(Record), NEW label \in Label
    PROVE  /\ Tale(s, r, label) \in Telling /\ Tale(s, r, label).stream = s
           /\ Tale(s, r, label).start = next[s] /\ Tale(s, r, label).records = r
           /\ Tale(s, r, label).hubs = {} /\ Tale(s, r, label).then = label
<1>1. s \in Nat
  BY Bounds DEF Stream
<1> QED
  BY <1>1 DEF Telling, Tale

\* delete and close of the store: the current object is closed, and told so.
LEMMA CloseFdsStep ==
    ASSUME IInv, NEW t \in Task, OnLoop(t, "idle"), NEW label \in {"pop", "idle"},
           CloseFds(t, label),
           UNCHANGED <<table, hubs, loop, ready, home, handle, reading>>
    PROVE  IInv'
<1>1. tpc[t] = "idle" /\ pos[t] = 0 /\ home[t] \in 1..loop /\ born \in 0..MaxStreams
  BY RestFacts DEF OnLoop
<1>2. UNCHANGED <<next, born, table, hubs, loop, ready, home, on, via, sub, pos, got>>
  BY DEF CloseFds, handle, reading
<1>3. /\ current \in 0..born /\ tpc \in [Task -> Label] /\ told \in [Task -> Telling]
      /\ closed \in [Stream -> BOOLEAN] /\ fileOpen \in [Stream -> BOOLEAN]
      /\ next \in [Stream -> Nat]
  BY DEF IInv, Types, StoreTypes, TaskTypes, EngineTypes
<1>4. \A s \in 1..born : s \in Stream
  BY <1>1, Bounds DEF Stream
<1>5. /\ current' = None /\ closed' \in [Stream -> BOOLEAN] /\ fileOpen' \in [Stream -> BOOLEAN]
      /\ tpc' \in [Task -> Label] /\ told' \in [Task -> Telling]
      /\ \A u \in Task \ {t} : tpc'[u] = tpc[u] /\ told'[u] = told[u]
      /\ \A s \in 1..born : IF s = current THEN closed'[s] /\ ~fileOpen'[s]
                            ELSE closed'[s] = closed[s] /\ fileOpen'[s] = fileOpen[s]
      /\ \/ current = None /\ tpc'[t] = label
         \/ /\ current \in 1..born /\ tpc'[t] = "notify"
            /\ told'[t].stream = current /\ told'[t].hubs = {} /\ told'[t].records = <<>>
            /\ told'[t].then = label
  <2>1. CASE current = None
    <3>1. current' = None /\ tpc' = [tpc EXCEPT ![t] = label] /\ UNCHANGED <<closed, fileOpen, told>>
      BY <2>1 DEF CloseFds, Goto
    <3>2. tpc' \in [Task -> Label] /\ tpc'[t] = label /\ \A u \in Task \ {t} : tpc'[u] = tpc[u]
      BY <1>3, <3>1 DEF Label
    <3>3. \A s \in 1..born : s # current
      BY <2>1 DEF None
    <3> QED
      BY <1>3, <2>1, <3>1, <3>2, <3>3, Zenon
  <2>2. CASE current # None
    <3> DEFINE tale == Tale(current, <<>>, label)
    <3>1. /\ current' = None /\ tpc' = [tpc EXCEPT ![t] = "notify"]
          /\ closed' = [closed EXCEPT ![current] = TRUE]
          /\ fileOpen' = [fileOpen EXCEPT ![current] = FALSE]
          /\ told' = [told EXCEPT ![t] = tale]
      BY <2>2 DEF CloseFds, Goto
    <3>2. current \in 1..born /\ current \in Stream /\ next[current] \in Nat
      BY <1>1, <1>3, <1>4, <2>2 DEF None
    <3>3. /\ tale \in Telling /\ tale.stream = current /\ tale.hubs = {}
          /\ tale.records = <<>> /\ tale.then = label
      <4>1. <<>> \in Seq(Record) /\ label \in Label
        BY EmptySeq DEF Label
      <4>2. PICK s \in Stream : s = current
        BY <3>2
      <4>3. PICK r \in Seq(Record) : r = <<>>
        BY <4>1
      <4>4. next[s] \in Nat /\ tale = Tale(s, r, label)
        BY <3>2, <4>2, <4>3
      <4> HIDE DEF tale
      <4>5. /\ tale \in Telling /\ tale.stream = s /\ tale.hubs = {}
            /\ tale.records = r /\ tale.then = label
        BY <4>1, <4>4, NewTale
      <4> QED
        BY <4>2, <4>3, <4>5
    <3> HIDE DEF tale
    <3>4. /\ tpc' \in [Task -> Label] /\ tpc'[t] = "notify"
          /\ told' \in [Task -> Telling] /\ told'[t] = tale
          /\ \A u \in Task \ {t} : tpc'[u] = tpc[u] /\ told'[u] = told[u]
      BY <1>3, <3>1, <3>3 DEF Label
    <3>5. closed' \in [Stream -> BOOLEAN] /\ fileOpen' \in [Stream -> BOOLEAN]
      BY <1>3, <3>1
    <3>6. \A s \in 1..born : IF s = current THEN closed'[s] /\ ~fileOpen'[s]
                             ELSE closed'[s] = closed[s] /\ fileOpen'[s] = fileOpen[s]
      BY <1>3, <1>4, <3>1, <3>2, Zenon
    <3> QED
      BY <3>1, <3>2, <3>3, <3>4, <3>5, <3>6, Zenon
  <2> QED
    BY <2>1, <2>2
<1>6. Types'
  <2>1. EngineTypes' /\ StoreTypes'
    BY <1>1, <1>2, <1>3, <1>5 DEF EngineTypes, StoreTypes, None
  <2>2. HubTypes' /\ LoopTypes' /\ ReadingTypes' /\ TaskTypes'
    BY <1>2, <1>5, Zenon DEF IInv, Types, HubTypes, LoopTypes, ReadingTypes, TaskTypes
  <2> QED
    BY <2>1, <2>2 DEF Types
<1>7. StreamInv'
  <2> SUFFICES ASSUME NEW s \in 1..born
               PROVE  (s # current' => ~fileOpen'[s]) /\ (~fileOpen'[s] => closed'[s])
    BY <1>2 DEF StreamInv
  <2>1. (s # current => ~fileOpen[s]) /\ (~fileOpen[s] => closed[s])
    BY DEF IInv, StreamInv
  <2> QED
    BY <1>5, <2>1, Zenon
<1>8. \A u \in Task \ {t} : Same(u)
  BY <1>2, <1>5 DEF Same
<1>9. EngineGrows /\ HubsGrow
  <2>1. \A s \in 1..born : next[s] <= next'[s]
    BY <1>2, <1>3, <1>4
  <2>2. \A s \in 1..born : (closed[s] => closed'[s]) /\ (~fileOpen[s] => ~fileOpen'[s])
    BY <1>5, Zenon
  <2> QED
    BY <1>1, <1>2, <2>1, <2>2 DEF EngineGrows, HubsGrow
<1>10. HubInv'
  BY <1>1, <1>2, <1>6, <1>8, HubsStay DEF Subscribed
<1>11. ReadyInv' /\ \A u \in Task \ {t} : TaskInv(u)'
  <2>1. \A s \in 1..born : \A k \in Nat : ~(next[s] <= k /\ k < next'[s])
    BY <1>2, <1>3, <1>4
  <2>2. \A s \in 1..born : closed'[s] => closed[s] \/ (tpc'[t] = "notify" /\ told'[t].stream = s)
    <3>1. \A s \in 1..born : s # None
      BY DEF None
    <3> QED
      BY <1>5, <3>1, Zenon
  <2> QED
    BY <1>1, <1>2, <1>6, <1>8, <1>9, <2>1, <2>2, OwnStep
<1>12. TaskInv(t)'
  <2>1. pos'[t] = 0 /\ home'[t] \in 1..loop' /\ born' = born
    BY <1>1, <1>2
  <2>2. CASE tpc'[t] = label
    BY <2>1, <2>2, AtRest
  <2>3. CASE tpc'[t] # label
    BY <1>5, <2>1, <2>3, AtNotify
  <2> QED
    BY <2>2, <2>3
<1> QED
  BY <1>6, <1>7, <1>10, <1>11, <1>12 DEF IInv

\* A step of a task at rest that only moves it on.
LEMMA MovesOn ==
    ASSUME IInv, NEW t \in Task, tpc[t] \in {"idle", "pop", "wrap"},
           tpc' = [tpc EXCEPT ![t] = "idle"], table' \in 0..Len(hubs),
           UNCHANGED <<engine, store, hubs, loop, ready, home, handle, told, reading>>
    PROVE  IInv'
<1>1. pos[t] = 0 /\ home[t] \in 1..loop /\ born \in 0..MaxStreams
  BY RestFacts
<1>2. /\ UNCHANGED <<next, closed, fileOpen, born, current, hubs, loop, ready>>
      /\ UNCHANGED <<home, on, via, told, sub, pos, got>>
  BY DEF engine, store, handle, reading
<1>3. /\ tpc' \in [Task -> Label] /\ tpc'[t] = "idle"
      /\ \A u \in Task \ {t} : tpc'[u] = tpc[u]
  BY DEF IInv, Types, TaskTypes, Label
<1>4. Types'
  BY <1>2, <1>3, Zenon DEF IInv, Types, EngineTypes, StoreTypes, HubTypes, LoopTypes, TaskTypes, ReadingTypes
<1>5. StreamInv'
  BY <1>2, Zenon DEF IInv, StreamInv
<1>6. \A u \in Task \ {t} : Same(u)
  BY <1>2, <1>3 DEF Same
<1>7. \A s \in 1..born : next[s] \in Nat
  BY <1>1, Bounds DEF IInv, Types, EngineTypes, Stream
<1>8. EngineGrows /\ HubsGrow
  BY <1>1, <1>2, <1>7 DEF EngineGrows, HubsGrow
<1>9. HubInv'
  BY <1>1, <1>2, <1>4, <1>6, HubsStay DEF Subscribed
<1>10. ReadyInv' /\ \A u \in Task \ {t} : TaskInv(u)'
  <2>1. \A s \in 1..born : \A k \in Nat : ~(next[s] <= k /\ k < next'[s])
    BY <1>2, <1>7
  <2> QED
    BY <1>2, <1>4, <1>6, <1>8, <2>1, OwnStep
<1>11. TaskInv(t)'
  BY <1>1, <1>2, <1>3, AtRest
<1> QED
  BY <1>4, <1>5, <1>9, <1>10, <1>11 DEF IInv

LEMMA WrapStep ==
    ASSUME IInv, NEW t \in Task, Wrap(t)
    PROVE  IInv'
<1>1. /\ tpc[t] = "wrap" /\ pos[t] = 0 /\ home[t] \in 1..loop /\ born \in 0..MaxStreams
      /\ on[t] \in 1..born /\ on[t] \in Stream
  BY RestFacts, Bounds DEF Wrap, OnLoop, Stream
<1>2. /\ UNCHANGED <<next, closed, fileOpen, born, current, loop, ready>>
      /\ UNCHANGED <<home, on, told, sub, pos, got>>
      /\ tpc' = [tpc EXCEPT ![t] = "held"]
  BY DEF Wrap, engine, store, reading, Goto
<1>3. /\ table \in 0..Len(hubs) /\ hubs \in Seq(HubObject) /\ DOMAIN hubs = 1..Len(hubs)
      /\ tpc \in [Task -> Label] /\ via \in [Task -> Nat] /\ loop \in Nat
  BY DEF IInv, Types, HubTypes, TaskTypes, LoopTypes
<1>4. /\ tpc' \in [Task -> Label] /\ tpc'[t] = "held"
      /\ \A u \in Task \ {t} : tpc'[u] = tpc[u]
  BY <1>2, <1>3 DEF Label
<1>5. /\ hubs' \in Seq(HubObject) /\ table' \in 0..Len(hubs') /\ via' \in [Task -> Nat]
      /\ \A u \in Task \ {t} : via'[u] = via[u]
      /\ \A h \in DOMAIN hubs : h \in DOMAIN hubs' /\ hubs'[h] = hubs[h]
      /\ \A h \in DOMAIN hubs' : h \notin DOMAIN hubs =>
           hubs'[h].stream = on[t] /\ hubs'[h].subs = {} /\ hubs'[h].loop = None
      /\ via'[t] \in DOMAIN hubs'
      /\ hubs'[via'[t]].stream = on[t] \/ ~fileOpen[on[t]]
  <2>1. CASE Usable(on[t])
    <3>1. via' = [via EXCEPT ![t] = table] /\ hubs' = hubs /\ table' = table
      BY <2>1 DEF Wrap
    <3>2. table \in DOMAIN hubs /\ (hubs[table].stream = on[t] \/ ~closed[hubs[table].stream])
      BY <1>3, <2>1 DEF Usable, None
    <3>3. hubs[table].stream = on[t] \/ ~fileOpen[on[t]]
      <4>1. hubs[table].stream \in 1..born
        BY <3>2, Zenon DEF IInv, HubInv
      <4>2. closed[hubs[table].stream] \/ hubs[table].stream = current
        BY <4>1, Zenon DEF IInv, StreamInv
      <4>3. on[t] = current \/ ~fileOpen[on[t]]
        BY <1>1, Zenon DEF IInv, StreamInv
      <4> QED
        BY <3>2, <4>2, <4>3, Zenon
    <3>4. table \in Nat /\ via' \in [Task -> Nat] /\ via'[t] = table
      BY <1>3, <3>1
    <3> QED
      BY <1>3, <3>1, <3>2, <3>3, <3>4
  <2>2. CASE ~Usable(on[t])
    <3> DEFINE new == [stream |-> on[t], subs |-> {}, loop |-> None]
    <3>1. /\ hubs' = Append(hubs, new) /\ table' = Len(hubs')
          /\ via' = [via EXCEPT ![t] = Len(hubs')]
      BY <2>2 DEF Wrap
    <3>2. new \in HubObject
      BY <1>1 DEF HubObject, None
    <3>3. new.stream = on[t] /\ new.subs = {} /\ new.loop = None
      OBVIOUS
    <3> HIDE DEF new
    <3>4. /\ hubs' \in Seq(HubObject) /\ Len(hubs') = Len(hubs) + 1
          /\ \A h \in 1..Len(hubs) : hubs'[h] = hubs[h]
          /\ hubs'[Len(hubs) + 1] = new /\ DOMAIN hubs' = 1..Len(hubs) + 1
      BY <1>3, <3>1, <3>2, AppendProperties
    <3>5. /\ via' \in [Task -> Nat] /\ via'[t] = Len(hubs) + 1
          /\ \A u \in Task \ {t} : via'[u] = via[u]
      BY <1>3, <3>1, <3>4
    <3>6. \A h \in DOMAIN hubs' : h \notin DOMAIN hubs => hubs'[h] = new
      BY <1>3, <3>4
    <3> QED
      BY <1>3, <3>1, <3>3, <3>4, <3>5, <3>6
  <2> QED
    BY <2>1, <2>2
<1>6. Types'
  <2>1. EngineTypes' /\ StoreTypes' /\ LoopTypes' /\ ReadingTypes'
    BY <1>2, Zenon DEF IInv, Types, EngineTypes, StoreTypes, LoopTypes, ReadingTypes
  <2>2. HubTypes' /\ TaskTypes'
    BY <1>2, <1>4, <1>5, Zenon DEF IInv, Types, HubTypes, TaskTypes
  <2> QED
    BY <2>1, <2>2 DEF Types
<1>7. StreamInv'
  BY <1>2, Zenon DEF IInv, StreamInv
<1>8. HubInv'
  <2> SUFFICES ASSUME NEW h \in DOMAIN hubs'
               PROVE  /\ hubs'[h].stream \in 1..born
                      /\ hubs'[h].subs = {} <=> hubs'[h].loop = None
                      /\ hubs'[h].loop <= loop
                      /\ \A u \in hubs'[h].subs :
                           home[u] = hubs'[h].loop /\ tpc'[u] \in Subscribed /\ via'[u] = h
    BY <1>2 DEF HubInv
  <2>1. CASE h \in DOMAIN hubs
    <3>1. /\ hubs'[h] = hubs[h]
          /\ hubs[h].stream \in 1..born
          /\ hubs[h].subs = {} <=> hubs[h].loop = None
          /\ hubs[h].loop <= loop
          /\ \A u \in hubs[h].subs :
               home[u] = hubs[h].loop /\ tpc[u] \in Subscribed /\ via[u] = h
      BY <1>5, <2>1 DEF IInv, HubInv
    <3>2. hubs[h] \in HubObject
      BY <1>3, <2>1
    <3>3. hubs[h].subs \subseteq Task /\ t \notin hubs[h].subs
      BY <1>1, <3>1, <3>2 DEF HubObject, Subscribed
    <3> QED
      BY <1>4, <1>5, <3>1, <3>3
  <2>2. CASE h \notin DOMAIN hubs
    BY <1>1, <1>3, <1>5, <2>2 DEF None
  <2> QED
    BY <2>1, <2>2
<1>9. \A u \in Task \ {t} : Same(u)
  BY <1>2, <1>4, <1>5 DEF Same
<1>10. \A s \in 1..born : next[s] \in Nat
  BY <1>1, Bounds DEF IInv, Types, EngineTypes, Stream
<1>11. EngineGrows /\ HubsGrow
  BY <1>1, <1>2, <1>5, <1>10 DEF EngineGrows, HubsGrow
<1>12. ReadyInv' /\ \A u \in Task \ {t} : TaskInv(u)'
  <2>1. \A s \in 1..born : \A k \in Nat : ~(next[s] <= k /\ k < next'[s])
    BY <1>2, <1>10
  <2> QED
    BY <1>1, <1>2, <1>5, <1>6, <1>9, <1>11, <2>1, OwnStep
<1>13. TaskInv(t)'
  <2>1. pos'[t] <= next'[on'[t]]
    BY <1>1, <1>2, <1>10
  <2> QED
    BY <1>1, <1>2, <1>4, <1>5, <2>1, AtHand
<1> QED
  BY <1>6, <1>7, <1>8, <1>12, <1>13 DEF IInv

-----------------------------------------------------------------------------
(* Appends, and the way of a change to the hubs.                           *)

\* The thread of an append or of a close of the stream changes the engine and
\* is about to tell it.
LEMMA EngineStep ==
    ASSUME IInv, NEW t \in Task, tpc[t] = "held",
           NEW r \in Seq(Record),
           told' = [told EXCEPT ![t] = Tale(on[t], r, "held")],
           tpc' = [tpc EXCEPT ![t] = "notify"],
           next' \in [Stream -> Nat], closed' \in [Stream -> BOOLEAN],
           \A s \in 1..born : s # on[t] => next'[s] = next[s] /\ closed'[s] = closed[s],
           closed[on[t]] => closed'[on[t]],
           \/ r = <<>> /\ next' = next
           \/ r = <<<<on[t], next[on[t]]>>>> /\ next'[on[t]] = next[on[t]] + 1,
           UNCHANGED <<fileOpen, born, current, table, hubs, loop, ready, home, handle,
                       reading>>
    PROVE  IInv'
<1>1. /\ home[t] \in 1..loop
      /\ on[t] \in 1..born /\ on[t] \in Stream /\ via[t] \in DOMAIN hubs
      /\ hubs[via[t]].stream = on[t] \/ ~fileOpen[on[t]]
      /\ pos[t] \in Nat /\ next[on[t]] \in Nat /\ pos[t] <= next[on[t]]
  BY HoldFacts DEF Holding
<1>2. /\ UNCHANGED <<fileOpen, born, current, table, hubs, loop, ready>>
      /\ UNCHANGED <<home, on, via, sub, pos, got>>
  BY DEF handle, reading
<1>3. /\ tpc \in [Task -> Label] /\ told \in [Task -> Telling] /\ born \in 0..MaxStreams
      /\ \A s \in 1..born : s \in Stream /\ next[s] \in Nat
  <2>1. tpc \in [Task -> Label] /\ told \in [Task -> Telling] /\ born \in 0..MaxStreams
    BY DEF IInv, Types, TaskTypes, StoreTypes
  <2>2. next \in [Stream -> Nat]
    BY DEF IInv, Types, EngineTypes
  <2> QED
    BY <2>1, <2>2, Bounds DEF Stream
<1> DEFINE tale == Tale(on[t], r, "held")
<1>4. /\ tale \in Telling /\ tale.stream = on[t] /\ tale.start = next[on[t]] /\ tale.records = r
      /\ tale.hubs = {} /\ tale.then = "held"
  BY <1>1, NewTale DEF Label
<1> HIDE DEF tale
<1>5. /\ tpc' \in [Task -> Label] /\ tpc'[t] = "notify"
      /\ told' \in [Task -> Telling] /\ told'[t] = tale
      /\ \A u \in Task \ {t} : tpc'[u] = tpc[u] /\ told'[u] = told[u]
  BY <1>3, <1>4 DEF Label, tale
<1>6. Types'
  <2>1. EngineTypes'
    BY <1>2, Zenon DEF IInv, Types, EngineTypes
  <2>2. TaskTypes'
    BY <1>2, <1>5, Zenon DEF IInv, Types, TaskTypes
  <2>3. StoreTypes' /\ HubTypes' /\ LoopTypes' /\ ReadingTypes'
    BY <1>2, Zenon DEF IInv, Types, StoreTypes, HubTypes, LoopTypes, ReadingTypes
  <2> QED
    BY <2>1, <2>2, <2>3 DEF Types
<1>7. \A s \in 1..born : /\ next[s] <= next'[s]
                         /\ closed[s] => closed'[s]
                         /\ s # on[t] => next'[s] = next[s] /\ closed'[s] = closed[s]
  <2>1. \A s \in 1..born : next[s] <= next'[s]
    BY <1>3
  <2>2. \A s \in 1..born : closed[s] => closed'[s]
    BY Zenon
  <2> QED
    BY <2>1, <2>2
<1>8. StreamInv'
  BY <1>2, <1>7, Zenon DEF IInv, StreamInv
<1>9. \A u \in Task \ {t} : Same(u)
  BY <1>2, <1>5 DEF Same
<1>10. EngineGrows /\ HubsGrow
  BY <1>2, <1>3, <1>7 DEF EngineGrows, HubsGrow
<1>11. HubInv'
  BY <1>2, <1>3, <1>6, <1>9, HubsStay, SMTT(30) DEF Subscribed
<1>12. ReadyInv' /\ \A u \in Task \ {t} : TaskInv(u)'
  <2>1. ASSUME NEW s \in 1..born, NEW k \in Nat, next[s] <= k, k < next'[s]
        PROVE  tpc'[t] = "notify" /\ told'[t].stream = s /\ told'[t].records = <<<<s, k>>>>
    <3>1. s = on[t] /\ r = <<<<s, next[s]>>>> /\ next'[s] = next[s] + 1
      BY <1>3, <1>7, <2>1
    <3>2. k = next[s]
      BY <1>3, <2>1, <3>1
    <3> QED
      BY <1>4, <1>5, <3>1, <3>2
  <2>2. \A s \in 1..born : closed'[s] => closed[s] \/ (tpc'[t] = "notify" /\ told'[t].stream = s)
    BY <1>4, <1>5, <1>7, Zenon
  <2> QED
    BY <1>2, <1>6, <1>9, <1>10, <2>1, <2>2, OwnStep
<1>13. TaskInv(t)'
  <2>1. pos'[t] <= next'[on'[t]]
    BY <1>1, <1>2
  <2>2. r = <<>> \/ (r = <<<<on[t], next[on[t]]>>>> /\ next[on[t]] < next'[on[t]])
    BY <1>1
  <2> QED
    BY <1>1, <1>2, <1>4, <1>5, <2>1, <2>2, AtNotify, SMTT(30)
<1> QED
  BY <1>6, <1>8, <1>11, <1>12, <1>13 DEF IInv

LEMMA AppendInThreadStep ==
    ASSUME IInv, NEW t \in Task, AppendInThread(t)
    PROVE  IInv'
<1> DEFINE s == on[t]
<1>1. /\ tpc[t] = "held" /\ tpc' = [tpc EXCEPT ![t] = "notify"]
      /\ UNCHANGED <<closed, fileOpen, born, current, table, hubs, loop, ready, home, handle,
                     reading>>
  BY DEF AppendInThread, OnLoop, Goto, store
<1>2. s \in 1..born /\ s \in Stream /\ next[s] \in Nat
  BY <1>1, HoldFacts DEF Holding
<1>3. next \in [Stream -> Nat] /\ closed \in [Stream -> BOOLEAN] /\ born \in 0..MaxStreams
  BY DEF IInv, Types, EngineTypes, StoreTypes
<1>4. closed' \in [Stream -> BOOLEAN] /\ \A x \in 1..born : closed'[x] = closed[x]
  BY <1>1, <1>3
<1>5. closed[s] => closed'[s]
  BY <1>1
<1>6. <<>> \in Seq(Record) /\ "held" \in Label
  BY EmptySeq DEF Label
<1>7. CASE closed[s]
  <2>1. /\ told' = [told EXCEPT ![t] = Tale(s, <<>>, "held")]
        /\ next' = next
    BY <1>7 DEF AppendInThread
  <2>3. next' \in [Stream -> Nat] /\ \A x \in 1..born : next'[x] = next[x]
    BY <1>3, <2>1
  <2> QED
    BY <1>1, <1>2, <1>4, <1>5, <1>6, <2>1, <2>3, EngineStep
<1>8. CASE ~closed[s]
  <2> DEFINE r == <<<<s, next[s]>>>>
  <2>1. /\ told' = [told EXCEPT ![t] = Tale(s, r, "held")]
        /\ next' = [next EXCEPT ![s] = @ + 1]
    BY <1>8 DEF AppendInThread
  <2>2. r \in Seq(Record)
    BY <1>2 DEF Record
  <2>3. /\ next' \in [Stream -> Nat] /\ next'[s] = next[s] + 1
        /\ \A x \in 1..born : x # s => next'[x] = next[x]
    BY <1>2, <1>3, <2>1, Bounds DEF Stream
  <2>4. r = <<<<on[t], next[on[t]]>>>>
    OBVIOUS
  <2> HIDE DEF r
  <2>5. \A x \in 1..born : x # s => next'[x] = next[x] /\ closed'[x] = closed[x]
    BY <1>4, <2>3
  <2>6. r = <<>> \/ (r = <<<<on[t], next[on[t]]>>>> /\ next'[on[t]] = next[on[t]] + 1)
    BY <2>3, <2>4, Zenon
  <2> QED
    BY <1>1, <1>4, <1>5, <2>1, <2>2, <2>3, <2>5, <2>4, EngineStep
<1> QED
  BY <1>7, <1>8

LEMMA CloseInThreadStep ==
    ASSUME IInv, NEW t \in Task, CloseInThread(t)
    PROVE  IInv'
<1> DEFINE s == on[t]
<1>1. /\ tpc[t] = "held" /\ tpc' = [tpc EXCEPT ![t] = "notify"]
      /\ UNCHANGED <<next, fileOpen, born, current, table, hubs, loop, ready, home, handle,
                     reading>>
      /\ closed' = [closed EXCEPT ![s] = TRUE]
      /\ told' = [told EXCEPT ![t] = Tale(s, <<>>, "held")]
  BY DEF CloseInThread, OnLoop, Goto
<1>2. s \in 1..born /\ s \in Stream /\ next[s] \in Nat
  BY <1>1, HoldFacts DEF Holding
<1>3. next \in [Stream -> Nat] /\ closed \in [Stream -> BOOLEAN] /\ born \in 0..MaxStreams
  BY DEF IInv, Types, EngineTypes, StoreTypes
<1>4. <<>> \in Seq(Record) /\ "held" \in Label
  BY EmptySeq DEF Label
<1>6. closed' \in [Stream -> BOOLEAN]
  BY <1>1, <1>3
<1>7. closed'[s] /\ \A x \in 1..born : x # s => closed'[x] = closed[x]
  <2>1. \A x \in 1..born : x \in Stream
    BY <1>3, Bounds DEF Stream
  <2> QED
    BY <1>1, <1>2, <1>3, <2>1, Zenon
<1>8. next' \in [Stream -> Nat] /\ \A x \in 1..born : next'[x] = next[x]
  BY <1>1, <1>3
<1> QED
  BY <1>1, <1>2, <1>4, <1>6, <1>7, <1>8, EngineStep

\* A change that thread t has yet to tell some hubs, or has told the last.
LEMMA TellFacts ==
    ASSUME IInv, NEW t \in Task, tpc[t] \in {"notify", "tell"},
           NEW hs, hs \subseteq {h \in DOMAIN hubs : hubs[h].stream = told[t].stream},
           Tell(t, hs)
    PROVE  /\ told' \in [Task -> Telling] /\ tpc' \in [Task -> Label]
           /\ \A u \in Task \ {t} : told'[u] = told[u] /\ tpc'[u] = tpc[u]
           /\ hs = {} => tpc'[t] = told[t].then
           /\ hs # {} => /\ tpc'[t] = "tell" /\ told'[t].hubs = hs
                         /\ told'[t].stream = told[t].stream /\ told'[t].start = told[t].start
                         /\ told'[t].records = told[t].records /\ told'[t].then = told[t].then
<1>1. /\ told \in [Task -> Telling] /\ tpc \in [Task -> Label] /\ told[t] \in Telling
      /\ hubs \in Seq(HubObject)
  BY DEF IInv, Types, TaskTypes, HubTypes
<1>2. CASE hs = {}
  <2>1. told' = [told EXCEPT ![t] = Quiet] /\ tpc' = [tpc EXCEPT ![t] = told[t].then]
    BY <1>2 DEF Tell, Goto
  <2>2. Quiet \in Telling
    BY EmptySeq DEF Quiet, Telling, None, Label
  <2>3. told[t].then \in Label
    BY <1>1 DEF Telling
  <2> QED
    BY <1>1, <1>2, <2>1, <2>2, <2>3
<1>3. CASE hs # {}
  <2> DEFINE tale == [told[t] EXCEPT !.hubs = hs]
  <2>1. told' = [told EXCEPT ![t] = tale] /\ tpc' = [tpc EXCEPT ![t] = "tell"]
    BY <1>1, <1>3 DEF Tell, Goto
  <2>2. hs \subseteq Nat
    BY <1>1
  <2>3. /\ tale \in Telling /\ tale.hubs = hs
        /\ tale.stream = told[t].stream /\ tale.start = told[t].start
        /\ tale.records = told[t].records /\ tale.then = told[t].then
    BY <1>1, <2>2 DEF Telling
  <2> HIDE DEF tale
  <2> QED
    BY <1>1, <1>3, <2>1, <2>3 DEF Label
<1> QED
  BY <1>2, <1>3

\* Telling a change leaves every task as it was, if the change still reaches
\* those hubs of its stream that listen on the running loop.
LEMMA TellStep ==
    ASSUME IInv, NEW t \in Task, tpc[t] \in {"notify", "tell"},
           NEW hs, hs \subseteq {h \in DOMAIN hubs : hubs[h].stream = told[t].stream},
           Tell(t, hs), LoopTypes', ReadyInv',
           \A i \in DOMAIN ready : i \in DOMAIN ready' /\ ready'[i] = ready[i],
           \A h \in DOMAIN hubs :
               /\ hubs[h].stream = told[t].stream /\ hubs[h].loop = loop
               /\ tpc[t] = "tell" => h \in told[t].hubs
               => \/ h \in hs
                  \/ \E i \in DOMAIN ready' : ready'[i].hub = h /\ ready'[i].records = told[t].records,
           UNCHANGED <<engine, store, table, hubs, loop, home, handle, reading>>
    PROVE  IInv'
<1>1. /\ UNCHANGED <<next, closed, fileOpen, born, current, table, hubs, loop>>
      /\ UNCHANGED <<home, on, via, sub, pos, got>>
  BY DEF engine, store, handle, reading
<1>2. /\ told' \in [Task -> Telling] /\ tpc' \in [Task -> Label]
      /\ \A u \in Task \ {t} : told'[u] = told[u] /\ tpc'[u] = tpc[u]
      /\ hs = {} => tpc'[t] = told[t].then
      /\ hs # {} => /\ tpc'[t] = "tell" /\ told'[t].hubs = hs
                    /\ told'[t].stream = told[t].stream /\ told'[t].start = told[t].start
                    /\ told'[t].records = told[t].records /\ told'[t].then = told[t].then
  BY TellFacts
<1>3. Types'
  <2>1. EngineTypes' /\ StoreTypes' /\ HubTypes' /\ ReadingTypes'
    BY <1>1, Zenon DEF IInv, Types, EngineTypes, StoreTypes, HubTypes, ReadingTypes
  <2>2. TaskTypes'
    BY <1>1, <1>2, Zenon DEF IInv, Types, TaskTypes
  <2> QED
    BY <2>1, <2>2 DEF Types
<1>4. StreamInv'
  BY <1>1, Zenon DEF IInv, StreamInv
<1>5. \A u \in Task \ {t} : Same(u)
  BY <1>1, <1>2 DEF Same
<1>6. born \in 0..MaxStreams /\ loop \in Nat \ {0} /\ \A s \in 1..born : next[s] \in Nat
  <2>1. born \in 0..MaxStreams /\ loop \in Nat \ {0} /\ next \in [Stream -> Nat]
    BY DEF IInv, Types, StoreTypes, LoopTypes, EngineTypes
  <2> QED
    BY <2>1, Bounds DEF Stream
<1>7. EngineGrows /\ HubsGrow
  BY <1>1, <1>6 DEF EngineGrows, HubsGrow
<1>8. HubInv'
  BY <1>1, <1>3, <1>5, <1>6, HubsStay DEF Subscribed
<1>9. ToldInv(t) /\ HoldInv(t)
  BY DEF IInv, TaskInv
<1>10. ASSUME NEW u \in Task \ {t}
       PROVE  TaskInv(u)'
  <2>1. PICK s, h : s = on[u] /\ h = via[u]
    OBVIOUS
  <2>2. tpc[u] \in Subscribed /\ home[u] = loop => u \in hubs'[h].subs
    BY <1>1, <2>1 DEF IInv, TaskInv, HoldInv
  <2>3. ASSUME Following(u), home[u] = loop
        PROVE  h \in DOMAIN hubs /\ hubs[h].stream = s /\ hubs[h].loop = loop
    <3>1. tpc[u] \in Subscribed
      BY <2>3 DEF Following, Subscribed
    <3>2. h \in DOMAIN hubs /\ u \in hubs[h].subs
      BY <2>1, <2>3, <3>1 DEF IInv, TaskInv, HoldInv, Holding
    <3>3. hubs[h].loop = home[u]
      BY <3>2 DEF IInv, HubInv
    <3> QED
      BY <2>1, <2>3, <3>2, <3>3 DEF Following
  <2>4. ASSUME Following(u), home[u] = loop, NEW k, Announced(s, h, k)
        PROVE  Announced(s, h, k)'
    <3>1. h \in DOMAIN hubs /\ hubs[h].stream = s /\ hubs[h].loop = loop
      BY <2>3, <2>4
    <3>2. CASE \E i \in DOMAIN ready : ready[i].hub = h /\ ready[i].records = <<<<s, k>>>>
      BY <3>2 DEF Announced
    <3>3. ASSUME NEW x \in Task, told[x].stream = s, told[x].records = <<<<s, k>>>>,
                 tpc[x] = "notify" \/ (tpc[x] = "tell" /\ h \in told[x].hubs)
          PROVE  Announced(s, h, k)'
      <4>1. CASE x # t
        BY <1>2, <3>3, <4>1 DEF Announced
      <4>2. CASE x = t
        <5>1. \/ h \in hs
              \/ \E i \in DOMAIN ready' : ready'[i].hub = h /\ ready'[i].records = <<<<s, k>>>>
          BY <3>1, <3>3, <4>2
        <5> QED
          BY <1>2, <3>3, <4>2, <5>1 DEF Announced
      <4> QED
        BY <4>1, <4>2
    <3> QED
      BY <2>4, <3>2, <3>3 DEF Announced
  <2>5. ASSUME Following(u), home[u] = loop, Coming(s, h)
        PROVE  Coming(s, h)'
    <3>1. h \in DOMAIN hubs /\ hubs[h].stream = s /\ hubs[h].loop = loop
      BY <2>3, <2>5
    <3>2. CASE \E i \in DOMAIN ready : ready[i].hub = h
      BY <3>2 DEF Coming
    <3>3. ASSUME NEW x \in Task, told[x].stream = s,
                 tpc[x] = "notify" \/ (tpc[x] = "tell" /\ h \in told[x].hubs)
          PROVE  Coming(s, h)'
      <4>1. CASE x # t
        BY <1>2, <3>3, <4>1 DEF Coming
      <4>2. CASE x = t
        <5>1. h \in hs \/ \E i \in DOMAIN ready' : ready'[i].hub = h
          BY <3>1, <3>3, <4>2
        <5> QED
          BY <1>2, <3>3, <4>2, <5>1 DEF Coming
      <4> QED
        BY <4>1, <4>2
    <3> QED
      BY <2>5, <3>2, <3>3 DEF Coming
  <2>6. Following(u) => \A k \in Nat : ~(next[s] <= k /\ k < next'[s])
    <3>1. Following(u) => s \in 1..born
      BY <2>1 DEF IInv, TaskInv, HoldInv, Holding, Following, Subscribed
    <3> QED
      BY <1>1, <1>6, <3>1
  <2>7. closed'[s] => closed[s]
    BY <1>1
  <2>8. u \in Task /\ Same(u) /\ loop' = loop
    BY <1>1, <1>5
  <2> HIDE DEF Announced, Coming
  <2> QED
    BY <1>3, <1>7, <2>1, <2>2, <2>4, <2>5, <2>6, <2>7, <2>8, OtherTask
<1>11. TaskInv(t)'
  <2>1. /\ told[t].stream \in 1..born /\ told[t].then \in {"idle", "pop", "held"}
        /\ Carries(told[t].stream, told[t].start, told[t].records)
    BY <1>9 DEF ToldInv
  <2>2. /\ home[t] \in 1..loop
        /\ told[t].then # "held" => pos[t] = 0
        /\ told[t].then = "held" =>
             /\ on[t] \in 1..born /\ via[t] \in DOMAIN hubs
             /\ hubs[via[t]].stream = on[t] \/ ~fileOpen[on[t]]
             /\ pos[t] <= next[on[t]]
    BY <1>9 DEF HoldInv, Holding, Subscribed
  <2>3. CASE hs = {}
    <3>1. CASE told[t].then = "held"
      BY <1>1, <1>2, <2>2, <2>3, <3>1, AtHand
    <3>2. CASE told[t].then # "held"
      BY <1>1, <1>2, <2>1, <2>2, <2>3, <3>2, AtRest
    <3> QED
      BY <3>1, <3>2
  <2>4. CASE hs # {}
    <3>1. tpc'[t] = "tell" /\ tpc'[t] \notin Subscribed \cup {"held", "wrap", "notify"}
      BY <1>2, <2>4 DEF Subscribed
    <3>2. HoldInv(t)'
      BY <1>1, <1>2, <2>2, <2>4, <3>1 DEF HoldInv, Holding
    <3>3. ToldInv(t)'
      BY <1>1, <1>2, <2>1, <2>4 DEF ToldInv, Carries
    <3> QED
      BY <3>1, <3>2, <3>3 DEF TaskInv, SubInv, Following, GotInv, Subscribed
  <2> QED
    BY <2>3, <2>4
<1> QED
  BY <1>3, <1>4, <1>8, <1>10, <1>11 DEF IInv

LEMMA NotifyStep ==
    ASSUME IInv, NEW t \in Task, Notify(t)
    PROVE  IInv'
<1> DEFINE hs == {h \in DOMAIN hubs : hubs[h].stream = told[t].stream /\ hubs[h].loop # None}
<1>1. /\ tpc[t] = "notify" /\ Tell(t, hs)
      /\ UNCHANGED <<engine, store, table, hubs, loop, ready, home, handle, reading>>
  BY DEF Notify
<1>2. LoopTypes'
  BY <1>1, Zenon DEF IInv, Types, LoopTypes
<1>3. ReadyInv'
  <2>1. UNCHANGED <<ready, hubs, next>>
    BY <1>1 DEF engine
  <2> QED
    BY <2>1, Zenon DEF IInv, ReadyInv, Carries
<1>4. loop # None
  BY DEF IInv, Types, LoopTypes, None
<1>5. /\ hs \subseteq {h \in DOMAIN hubs : hubs[h].stream = told[t].stream}
      /\ \A h \in DOMAIN hubs :
           hubs[h].stream = told[t].stream /\ hubs[h].loop = loop => h \in hs
      /\ \A i \in DOMAIN ready : i \in DOMAIN ready' /\ ready'[i] = ready[i]
  BY <1>1, <1>4
<1> HIDE DEF hs
<1> QED
  BY <1>1, <1>2, <1>3, <1>5, TellStep

LEMMA OnChangeStep ==
    ASSUME IInv, NEW t \in Task, NEW h \in Hub, OnChange(t, h)
    PROVE  IInv'
<1> DEFINE hs == told[t].hubs \ {h}
           change == [hub |-> h, start |-> told[t].start, records |-> told[t].records]
<1>1. /\ tpc[t] = "tell" /\ h \in told[t].hubs /\ Tell(t, hs)
      /\ UNCHANGED <<engine, store, table, hubs, loop, home, handle, reading>>
      /\ ready' = IF hubs[h].loop = loop THEN Append(ready, change) ELSE ready
  BY DEF OnChange
<1>2. /\ ready \in Seq(Change) /\ told[t] \in Telling /\ loop \in Nat \ {0}
  BY DEF IInv, Types, LoopTypes, TaskTypes
<1>3. /\ told[t].hubs \subseteq {g \in DOMAIN hubs : hubs[g].stream = told[t].stream}
      /\ Carries(told[t].stream, told[t].start, told[t].records)
  BY <1>1 DEF IInv, TaskInv, ToldInv
<1>4. change \in Change /\ change.hub = h /\ change.start = told[t].start
      /\ change.records = told[t].records
  BY <1>2 DEF Change, Telling, Hub
<1> HIDE DEF change
<1>5. /\ ready' \in Seq(Change)
      /\ \A i \in DOMAIN ready : i \in DOMAIN ready' /\ ready'[i] = ready[i]
      /\ \A i \in DOMAIN ready' : i \in DOMAIN ready \/ ready'[i] = change
      /\ hubs[h].loop = loop => \E i \in DOMAIN ready' : ready'[i] = change
  <2>1. CASE hubs[h].loop = loop
    <3>1. ready' = Append(ready, change)
      BY <1>1, <2>1
    <3>2. /\ ready' \in Seq(Change) /\ Len(ready') = Len(ready) + 1
          /\ \A i \in 1..Len(ready) : ready'[i] = ready[i]
          /\ ready'[Len(ready) + 1] = change
      BY <1>2, <1>4, <3>1, AppendProperties
    <3>3. Len(ready) \in Nat /\ DOMAIN ready = 1..Len(ready) /\ DOMAIN ready' = 1..Len(ready) + 1
      BY <1>2, <3>2
    <3> QED
      BY <3>2, <3>3
  <2>2. CASE hubs[h].loop # loop
    BY <1>1, <1>2, <2>2
  <2> QED
    BY <2>1, <2>2
<1>6. LoopTypes'
  BY <1>1, <1>2, <1>5 DEF LoopTypes
<1>7. ReadyInv'
  <2>1. UNCHANGED <<hubs, next>>
    BY <1>1 DEF engine
  <2>2. ASSUME NEW i \in DOMAIN ready'
        PROVE  /\ ready'[i].hub \in DOMAIN hubs
               /\ Carries(hubs[ready'[i].hub].stream, ready'[i].start, ready'[i].records)
    <3>1. CASE i \in DOMAIN ready
      BY <1>5, <3>1 DEF IInv, ReadyInv
    <3>2. CASE ready'[i] = change
      BY <1>1, <1>3, <1>4, <3>2
    <3> QED
      BY <1>5, <3>1, <3>2
  <2> QED
    BY <2>1, <2>2, Zenon DEF ReadyInv, Carries
<1>8. hs \subseteq {g \in DOMAIN hubs : hubs[g].stream = told[t].stream}
  BY <1>3
<1>9. \A g \in DOMAIN hubs :
        /\ hubs[g].stream = told[t].stream /\ hubs[g].loop = loop
        /\ tpc[t] = "tell" => g \in told[t].hubs
        => \/ g \in hs
           \/ \E i \in DOMAIN ready' : ready'[i].hub = g /\ ready'[i].records = told[t].records
  BY <1>1, <1>4, <1>5
<1> HIDE DEF hs
<1> QED
  BY <1>1, <1>5, <1>6, <1>7, <1>8, <1>9, TellStep

-----------------------------------------------------------------------------
(* Delivery.                                                               *)

LEMMA OneRecord ==
    ASSUME NEW s, NEW k, <<s, k>> \in Record
    PROVE  /\ <<<<s, k>>>> \in Seq(Record) /\ Len(<<<<s, k>>>>) = 1
           /\ <<<<s, k>>>>[1] = <<s, k>> /\ <<<<s, k>>>> # <<>>
           /\ \A j : <<<<s, j>>>> = <<<<s, k>>>> => j = k
           /\ SubSeq(<<<<s, k>>>>, 1, 1) = <<<<s, k>>>>
<1>1. \A e : e \in Record => <<e>> \in Seq(Record) /\ Len(<<e>>) = 1 /\ <<e>>[1] = e /\ <<e>> # <<>>
  OBVIOUS
<1>2. \A e, f : <<e>> = <<f>> => e = f
  OBVIOUS
<1>3. \A j : <<s, j>> = <<s, k>> => j = k
  OBVIOUS
<1>4. \A j : <<<<s, j>>>> = <<<<s, k>>>> => <<s, j>> = <<s, k>>
  BY <1>2, Zenon
<1>5. ASSUME NEW e \in Record
      PROVE  SubSeq(<<e>>, 1, 1) = <<e>>
  <2>1. PICK q \in Seq(Record) : q = <<e>>
    BY <1>1, Zenon
  <2>2. Len(q) = 1
    BY <1>1, <2>1, Zenon
  <2>3. SubSeq(q, 1, Len(q)) = q
    BY SubSeqFull
  <2> QED
    BY <2>1, <2>2, <2>3
<1> QED
  BY <1>1, <1>3, <1>4, <1>5, Zenon

\* One change brings a buffer that follows its stream up to the change's
\* record, or leaves a hole and the buffer is given up.
LEMMA DeliveredFacts ==
    ASSUME NEW b \in Subscriber, NEW change \in Change, NEW s \in Stream, NEW n \in Nat,
           \/ change.records = <<>>
           \/ change.records = <<<<s, change.start>>>> /\ change.start < n,
           ~b.stale => /\ \A i \in DOMAIN b.buf : b.buf[i] = <<s, b.start + i - 1>>
                       /\ b.start + Len(b.buf) <= n,
           NEW d, d = Delivered(b, change)
    PROVE  /\ b.stale => d.stale
           /\ ~d.stale =>
                /\ \A i \in DOMAIN d.buf : d.buf[i] = <<s, d.start + i - 1>>
                /\ d.start + Len(d.buf) <= n
                /\ d.start + Len(d.buf) >= b.start + Len(b.buf)
                /\ \A k : change.records = <<<<s, k>>>> => k < d.start + Len(d.buf)
<1> DEFINE end == b.start + Len(b.buf)
<1>1. /\ b.buf \in Seq(Record) /\ b.start \in Nat /\ Len(b.buf) \in Nat
      /\ DOMAIN b.buf = 1..Len(b.buf) /\ b.stale \in BOOLEAN
  BY DEF Subscriber
<1>2. change.start \in Nat /\ change.records \in Seq(Record) /\ end \in Nat
  BY <1>1 DEF Change
<1>3. CASE b.stale
  BY <1>3 DEF Delivered
<1>4. CASE ~b.stale /\ change.records = <<>>
  <2>1. d = b
    BY <1>4 DEF Delivered
  <2>2. \A k : change.records # <<<<s, k>>>>
    BY <1>4
  <2>3. /\ \A i \in DOMAIN b.buf : b.buf[i] = <<s, b.start + i - 1>>
        /\ b.start + Len(b.buf) <= n /\ end >= end
    BY <1>1, <1>2, <1>4
  <2> QED
    BY <1>4, <2>1, <2>2, <2>3, Zenon
<1>5. CASE ~b.stale /\ change.records # <<>> /\ change.start > end
  <2>1. d = [b EXCEPT !.buf = <<>>, !.stale = TRUE]
    BY <1>5 DEF Delivered
  <2>2. d.stale
    BY <2>1 DEF Subscriber
  <2> QED
    BY <2>2
<1>6. CASE ~b.stale /\ change.records # <<>> /\ ~(change.start > end)
  <2> DEFINE new == SubSeq(change.records, end - change.start + 1, Len(change.records))
  <2>1. d = [b EXCEPT !.buf = @ \o new]
    BY <1>6 DEF Delivered
  <2>2. change.records = <<<<s, change.start>>>> /\ change.start < n
    BY <1>6
  <2>3. <<s, change.start>> \in Record
    BY <1>2 DEF Record
  <2>4. /\ Len(change.records) = 1 /\ change.records[1] = <<s, change.start>>
        /\ SubSeq(change.records, 1, 1) = change.records
        /\ \A k : change.records = <<<<s, k>>>> => k = change.start
    BY <2>2, <2>3, OneRecord
  <2>5. \/ change.start = end /\ new \in Seq(Record) /\ Len(new) = 1 /\ new[1] = <<s, end>>
        \/ change.start < end /\ new = <<>>
    <3>1. CASE change.start = end
      <4>1. end - change.start + 1 = 1
        BY <1>2, <3>1
      <4>2. new = SubSeq(change.records, 1, 1)
        BY <2>4, <4>1
      <4> QED
        BY <1>2, <2>4, <3>1, <4>2
    <3>2. CASE change.start < end
      <4>1. Len(change.records) < end - change.start + 1
        BY <1>2, <2>4, <3>2
      <4> QED
        BY <1>2, <2>4, <3>2, <4>1, SubSeqEmpty
    <3>3. change.start = end \/ change.start < end
      BY <1>2, <1>6
    <3> QED
      BY <3>1, <3>2, <3>3
  <2> HIDE DEF new
  <2>6. new \in Seq(Record) /\ Len(new) \in {0, 1}
    <3>1. <<>> \in Seq(Record) /\ Len(<<>>) = 0
      BY EmptySeq
    <3> QED
      BY <2>5, <3>1
  <2>7. /\ b.buf \o new \in Seq(Record) /\ Len(b.buf \o new) = Len(b.buf) + Len(new)
        /\ \A i \in 1..Len(b.buf) + Len(new) :
             (b.buf \o new)[i] = IF i <= Len(b.buf) THEN b.buf[i] ELSE new[i - Len(b.buf)]
    BY <1>1, <2>6, ConcatProperties
  <2>8. d.buf = b.buf \o new /\ d.start = b.start /\ ~d.stale
    BY <1>6, <2>1 DEF Subscriber
  <2>9. DOMAIN d.buf = 1..Len(b.buf) + Len(new) /\ Len(d.buf) = Len(b.buf) + Len(new)
    BY <2>7, <2>8
  <2>10. ASSUME NEW i \in DOMAIN d.buf
         PROVE  d.buf[i] = <<s, d.start + i - 1>>
    <3>1. CASE i <= Len(b.buf)
      BY <1>1, <1>6, <2>7, <2>8, <2>9, <2>10, <3>1
    <3>2. CASE ~(i <= Len(b.buf))
      <4>0. i \in Nat /\ i > Len(b.buf) /\ i <= Len(b.buf) + Len(new)
        <5>1. i \in 1..Len(b.buf) + Len(new)
          BY <2>9
        <5> QED
          BY <1>1, <2>6, <3>2, <5>1
      <4>1. Len(new) = 1 /\ i = Len(b.buf) + 1
        <5>1. Len(new) = 0 => FALSE
          BY <1>1, <4>0
        <5>2. Len(new) = 1
          BY <2>6, <5>1, Zenon
        <5>3. i > Len(b.buf) /\ i <= Len(b.buf) + 1
          BY <4>0, <5>2
        <5> QED
          BY <1>1, <4>0, <5>2, <5>3
      <4>2. new[1] = <<s, end>>
        <5>1. new # <<>>
          <6>1. Len(<<>>) = 0
            BY EmptySeq
          <6>2. new = <<>> => Len(new) = 0
            BY <6>1, Zenon
          <6>3. Len(new) # 0
            BY <4>1
          <6> QED
            BY <6>2, <6>3, Zenon
        <5> QED
          BY <2>5, <4>1, <5>1, Zenon
      <4>3. end = d.start + i - 1 /\ i - Len(b.buf) = 1
        BY <1>1, <2>8, <4>1
      <4>4. d.buf[i] = new[i - Len(b.buf)]
        BY <2>7, <2>8, <2>9, <2>10, <3>2
      <4> QED
        BY <4>2, <4>3, <4>4
    <3> QED
      BY <3>1, <3>2
  <2>11. /\ d.start + Len(d.buf) <= n /\ d.start + Len(d.buf) >= end
         /\ change.start < d.start + Len(d.buf)
    <3>1. \/ change.start = end /\ Len(new) = 1
          \/ change.start < end /\ Len(new) = 0
      BY <2>5, EmptySeq
    <3>2. end <= n /\ change.start < n
      BY <1>6, <2>2
    <3>3. d.start + Len(d.buf) = end + Len(new)
      BY <1>1, <2>6, <2>8, <2>9
    <3> HIDE DEF end
    <3>4. CASE change.start = end /\ Len(new) = 1
      BY <1>2, <3>2, <3>3, <3>4
    <3>5. CASE change.start < end /\ Len(new) = 0
      <4>1. d.start + Len(d.buf) = end
        BY <1>2, <3>3, <3>5
      <4> QED
        BY <1>2, <3>2, <3>5, <4>1
    <3> QED
      BY <3>1, <3>4, <3>5
  <2>12. \A k : change.records = <<<<s, k>>>> => k < d.start + Len(d.buf)
    BY <2>4, <2>11
  <2> QED
    BY <1>6, <2>8, <2>10, <2>11, <2>12, Zenon
<1> QED
  BY <1>1, <1>3, <1>4, <1>5, <1>6

LEMMA DeliveredType ==
    ASSUME NEW b \in Subscriber, NEW change \in Change
    PROVE  Delivered(b, change) \in Subscriber
<1> DEFINE end == b.start + Len(b.buf)
           new == SubSeq(change.records, end - change.start + 1, Len(change.records))
<1>1. /\ b.buf \in Seq(Record) /\ b.start \in Nat /\ end \in Nat /\ b.stale \in BOOLEAN
      /\ change.start \in Nat /\ change.records \in Seq(Record)
  BY DEF Subscriber, Change
<1>2. [b EXCEPT !.buf = <<>>, !.stale = TRUE] \in Subscriber
  BY EmptySeq DEF Subscriber
<1>3. ASSUME ~(change.start > end)
      PROVE  [b EXCEPT !.buf = @ \o new] \in Subscriber
  <2>1. end - change.start + 1 \in Nat \ {0}
    BY <1>1, <1>3
  <2>2. new \in Seq(Record)
    BY <1>1, <2>1
  <2>3. b.buf \o new \in Seq(Record)
    BY <1>1, <2>2, ConcatProperties
  <2> HIDE DEF new
  <2> QED
    BY <2>3 DEF Subscriber
<1>4. \/ Delivered(b, change) = b
      \/ Delivered(b, change) = [b EXCEPT !.buf = <<>>, !.stale = TRUE]
      \/ ~(change.start > end) /\ Delivered(b, change) = [b EXCEPT !.buf = @ \o new]
  BY DEF Delivered
<1> QED
  BY <1>2, <1>3, <1>4

\* A delivery brings the buffers of one hub's subscribers up to its change, and
\* takes no change away from anybody else.
LEMMA DeliverStep ==
    ASSUME IInv, Deliver
    PROVE  IInv'
<1>1. PICK change, g, subs, s0 :
        change = Head(ready) /\ g = change.hub /\ subs = hubs[g].subs /\ s0 = hubs[g].stream
  OBVIOUS
<1>2. /\ UNCHANGED <<next, closed, fileOpen, born, current, table, hubs, loop>>
      /\ UNCHANGED <<home, on, via, told, pos, got>>
      /\ ready # <<>> /\ ready' = Tail(ready)
      /\ sub' = [t \in Task |-> IF t \in subs THEN Delivered(sub[t], change) ELSE sub[t]]
      /\ tpc' = [t \in Task |-> IF t \in subs /\ tpc[t] = "wait" THEN "run" ELSE tpc[t]]
  BY <1>1 DEF Deliver, engine, store, handle
<1>3. /\ change \in Change /\ 1 \in DOMAIN ready /\ change = ready[1] /\ ready' \in Seq(Change)
      /\ \A i \in DOMAIN ready' : i + 1 \in DOMAIN ready /\ ready'[i] = ready[i + 1]
      /\ \A i \in DOMAIN ready : ready[i] = change \/ \E j \in DOMAIN ready' : ready'[j] = ready[i]
  <2>1. ready \in Seq(Change)
    BY DEF IInv, Types, LoopTypes
  <2>2. /\ Head(ready) \in Change /\ Tail(ready) \in Seq(Change)
        /\ Len(Tail(ready)) = Len(ready) - 1
        /\ \A i \in 1..Len(Tail(ready)) : Tail(ready)[i] = ready[i + 1]
    BY <1>2, <2>1, HeadTailProperties
  <2>3. /\ Len(ready) \in Nat \ {0} /\ DOMAIN ready = 1..Len(ready)
        /\ Head(ready) = ready[1]
    BY <1>2, <2>1
  <2>4. DOMAIN ready' = 1..Len(ready) - 1 /\ \A i \in 1..Len(ready) - 1 : ready'[i] = ready[i + 1]
    BY <1>2, <2>2, <2>3
  <2>5. ASSUME NEW i \in DOMAIN ready
        PROVE  ready[i] = change \/ \E j \in DOMAIN ready' : ready'[j] = ready[i]
    <3>1. CASE i = 1
      BY <1>1, <2>3, <3>1
    <3>2. CASE i # 1
      <4>1. i - 1 \in DOMAIN ready' /\ (i - 1) + 1 = i
        BY <2>3, <2>4, <3>2
      <4>2. ready'[i - 1] = ready[i]
        BY <2>4, <4>1
      <4> QED
        BY <4>1, <4>2
    <3> QED
      BY <3>1, <3>2
  <2>6. \A i \in DOMAIN ready' : i + 1 \in DOMAIN ready /\ ready'[i] = ready[i + 1]
    BY <2>3, <2>4
  <2>7. ready' \in Seq(Change) /\ change = ready[1] /\ 1 \in DOMAIN ready
    BY <1>1, <1>2, <2>2, <2>3
  <2> QED
    BY <1>1, <2>2, <2>5, <2>6, <2>7
<1>4. /\ g \in DOMAIN hubs /\ Carries(s0, change.start, change.records)
      /\ s0 \in 1..born /\ subs \subseteq Task
      /\ \A u \in subs : home[u] = hubs[g].loop /\ tpc[u] \in Subscribed /\ via[u] = g
  <2>1. g \in DOMAIN hubs /\ Carries(s0, change.start, change.records)
    BY <1>1, <1>3 DEF IInv, ReadyInv
  <2>2. hubs[g] \in HubObject
    BY <2>1 DEF IInv, Types, HubTypes
  <2>3. subs \subseteq Task
    BY <1>1, <2>2 DEF HubObject
  <2> QED
    BY <1>1, <2>1, <2>3 DEF IInv, HubInv
<1>5. born \in 0..MaxStreams /\ loop \in Nat \ {0} /\ \A s \in 1..born : s \in Stream /\ next[s] \in Nat
  <2>1. born \in 0..MaxStreams /\ loop \in Nat \ {0} /\ next \in [Stream -> Nat]
    BY DEF IInv, Types, StoreTypes, LoopTypes, EngineTypes
  <2> QED
    BY <2>1, Bounds DEF Stream
<1>6. /\ tpc' \in [Task -> Label] /\ sub' \in [Task -> Subscriber]
      /\ \A u \in Task \ subs : tpc'[u] = tpc[u] /\ sub'[u] = sub[u]
      /\ \A u \in subs : /\ sub[u] \in Subscriber /\ sub'[u] = Delivered(sub[u], change)
                         /\ tpc'[u] \in Subscribed /\ tpc'[u] # "wait"
                         /\ tpc'[u] \in {"read", "run"} => tpc[u] \in {"read", "run", "wait"}
                         /\ tpc'[u] = "run" => tpc[u] \in {"run", "wait"}
      /\ \A u \in Task : tpc[u] \in {"notify", "tell"} => tpc'[u] = tpc[u]
  <2>1. tpc \in [Task -> Label] /\ sub \in [Task -> Subscriber]
    BY DEF IInv, Types, TaskTypes, ReadingTypes
  <2>2. tpc' \in [Task -> Label]
    BY <1>2, <2>1 DEF Label, Subscribed
  <2>3. sub' \in [Task -> Subscriber]
    BY <1>2, <1>3, <2>1, DeliveredType
  <2>4. \A u \in Task \ subs : tpc'[u] = tpc[u] /\ sub'[u] = sub[u]
    BY <1>2
  <2>5. \A u \in Task : tpc[u] \in {"notify", "tell"} => tpc'[u] = tpc[u]
    BY <1>2
  <2>6. ASSUME NEW u \in subs
        PROVE  /\ sub[u] \in Subscriber /\ sub'[u] = Delivered(sub[u], change)
               /\ tpc'[u] \in Subscribed /\ tpc'[u] # "wait"
               /\ tpc'[u] \in {"read", "run"} => tpc[u] \in {"read", "run", "wait"}
               /\ tpc'[u] = "run" => tpc[u] \in {"run", "wait"}
    <3>1. u \in Task /\ tpc[u] \in Subscribed
      BY <1>4
    <3>2. tpc'[u] = IF tpc[u] = "wait" THEN "run" ELSE tpc[u]
      BY <1>2, <3>1
    <3>3. sub[u] \in Subscriber /\ sub'[u] = Delivered(sub[u], change)
      BY <1>2, <2>1, <3>1
    <3> QED
      BY <3>1, <3>2, <3>3 DEF Subscribed
  <2> QED
    BY <2>2, <2>3, <2>4, <2>5, <2>6
<1>7. Types'
  <2>1. EngineTypes' /\ StoreTypes' /\ HubTypes'
    BY <1>2, Zenon DEF IInv, Types, EngineTypes, StoreTypes, HubTypes
  <2>2. LoopTypes'
    BY <1>2, <1>3, <1>5 DEF LoopTypes
  <2>3. TaskTypes' /\ ReadingTypes'
    BY <1>2, <1>6, Zenon DEF IInv, Types, TaskTypes, ReadingTypes
  <2> QED
    BY <2>1, <2>2, <2>3 DEF Types
<1>8. StreamInv'
  BY <1>2, Zenon DEF IInv, StreamInv
<1>9. HubInv'
  <2> SUFFICES ASSUME NEW h \in DOMAIN hubs, NEW u \in hubs[h].subs
               PROVE  home[u] = hubs[h].loop /\ tpc'[u] \in Subscribed /\ via[u] = h
    BY <1>2, ZenonT(30) DEF IInv, HubInv
  <2>1. home[u] = hubs[h].loop /\ tpc[u] \in Subscribed /\ via[u] = h
    BY DEF IInv, HubInv
  <2>2. u \in Task
    <3>1. hubs[h] \in HubObject
      BY DEF IInv, Types, HubTypes
    <3> QED
      BY <3>1 DEF HubObject
  <2>3. CASE u \in subs
    BY <1>6, <2>1, <2>3
  <2>4. CASE u \notin subs
    BY <1>6, <2>1, <2>2, <2>4
  <2> QED
    BY <2>3, <2>4
<1>10. ReadyInv'
  <2> SUFFICES ASSUME NEW i \in DOMAIN ready'
               PROVE  /\ ready'[i].hub \in DOMAIN hubs
                      /\ Carries(hubs[ready'[i].hub].stream, ready'[i].start, ready'[i].records)
    BY <1>2, Zenon DEF ReadyInv, Carries
  <2>1. i + 1 \in DOMAIN ready /\ ready'[i] = ready[i + 1]
    BY <1>3
  <2> QED
    BY <2>1 DEF IInv, ReadyInv
<1>11. /\ \A s, h, k : Announced(s, h, k) =>
            Announced(s, h, k)' \/ (h = g /\ change.records = <<<<s, k>>>>)
       /\ \A s, h : h # g /\ Coming(s, h) => Coming(s, h)'
  <2>1. ASSUME NEW s, NEW h, NEW k, Announced(s, h, k)
        PROVE  Announced(s, h, k)' \/ (h = g /\ change.records = <<<<s, k>>>>)
    <3>1. CASE \E i \in DOMAIN ready : ready[i].hub = h /\ ready[i].records = <<<<s, k>>>>
      BY <1>1, <1>3, <3>1 DEF Announced
    <3>2. ASSUME NEW x \in Task, told[x].stream = s, told[x].records = <<<<s, k>>>>,
                 tpc[x] = "notify" \/ (tpc[x] = "tell" /\ h \in told[x].hubs)
          PROVE  Announced(s, h, k)'
      BY <1>2, <1>6, <3>2 DEF Announced
    <3> QED
      BY <2>1, <3>1, <3>2 DEF Announced
  <2>2. ASSUME NEW s, NEW h, h # g, Coming(s, h)
        PROVE  Coming(s, h)'
    <3>1. CASE \E i \in DOMAIN ready : ready[i].hub = h
      BY <1>1, <1>3, <2>2, <3>1 DEF Coming
    <3>2. ASSUME NEW x \in Task, told[x].stream = s,
                 tpc[x] = "notify" \/ (tpc[x] = "tell" /\ h \in told[x].hubs)
          PROVE  Coming(s, h)'
      BY <1>2, <1>6, <3>2 DEF Coming
    <3> QED
      BY <2>2, <3>1, <3>2 DEF Coming
  <2> QED
    BY <2>1, <2>2
<1>12. EngineGrows /\ HubsGrow
  BY <1>2, <1>5 DEF EngineGrows, HubsGrow
<1>13. ASSUME NEW u \in Task, u \notin subs
       PROVE  TaskInv(u)'
  <2>1. Same(u)
    BY <1>2, <1>6, <1>13 DEF Same
  <2>2. PICK s, h : s = on[u] /\ h = via[u]
    OBVIOUS
  <2>3. /\ tpc[u] \in Subscribed => s \in 1..born
        /\ tpc[u] \in Subscribed /\ home[u] = loop => u \in hubs[h].subs
    BY <2>2 DEF IInv, TaskInv, HoldInv, Holding
  <2>4. ASSUME Following(u), home[u] = loop
        PROVE  h # g /\ s \in 1..born
    BY <1>1, <1>13, <2>3, <2>4 DEF Following, Subscribed
  <2>5. ASSUME Following(u), home[u] = loop
        PROVE  /\ \A k \in Nat : Announced(s, h, k) => Announced(s, h, k)'
               /\ \A k \in Nat : next[s] <= k /\ k < next'[s] => Announced(s, h, k)'
               /\ Coming(s, h) => Coming(s, h)'
               /\ closed'[s] => closed[s] \/ Coming(s, h)
    <3> HIDE DEF Announced, Coming
    <3>1. h # g /\ s \in 1..born
      BY <2>4, <2>5
    <3>2. \A k \in Nat : ~(next[s] <= k /\ k < next'[s])
      BY <1>2, <1>5, <3>1
    <3>3. closed'[s] => closed[s]
      BY <1>2
    <3> QED
      BY <1>11, <3>1, <3>2, <3>3
  <2>6. tpc[u] \in Subscribed /\ home[u] = loop => u \in hubs'[h].subs
    BY <1>2, <2>3
  <2>7. loop' = loop
    BY <1>2
  <2> HIDE DEF Announced, Coming
  <2> QED
    BY <1>7, <1>12, <2>1, <2>2, <2>5, <2>6, <2>7, OtherTask
<1>14. ASSUME NEW u \in subs
       PROVE  TaskInv(u)'
  <2>1. u \in Task /\ via[u] = g /\ tpc[u] \in Subscribed
    BY <1>4
  <2>2. /\ sub[u] \in Subscriber /\ sub'[u] = Delivered(sub[u], change)
        /\ tpc'[u] \in Subscribed /\ tpc'[u] # "wait"
        /\ tpc'[u] \in {"read", "run"} => tpc[u] \in {"read", "run", "wait"}
        /\ tpc'[u] = "run" => tpc[u] \in {"run", "wait"}
    BY <1>6
  <2>3. HoldInv(u) /\ SubInv(u) /\ GotInv(u)
    BY <2>1 DEF IInv, TaskInv
  <2>4. HoldInv(u)'
    <3>1. Holding(u) /\ Holding(u)' /\ tpc'[u] # "wrap"
      BY <2>1, <2>2 DEF Holding, Subscribed
    <3> QED
      BY <1>2, <2>1, <2>2, <2>3, <3>1, Zenon DEF HoldInv
  <2>5. ToldInv(u)'
    BY <2>2 DEF ToldInv, Subscribed
  <2>6. GotInv(u)'
    BY <1>2, <2>1, <2>3, Zenon DEF GotInv
  <2>7. PICK b \in Subscriber : \E d, s : b = sub[u] /\ d = sub'[u] /\ s = on[u]
    BY <2>2
  <2>7a. PICK d, s : b = sub[u] /\ d = sub'[u] /\ s = on[u]
    BY <2>7, Zenon
  <2>8. b.stale => d.stale
    BY <2>2, <2>7a DEF Delivered
  <2>9. ASSUME tpc'[u] \in {"run", "wait"}, ~d.stale
        PROVE  hubs[g].stream = s
    BY <2>1, <2>2, <2>3, <2>7a, <2>8, <2>9 DEF SubInv
  <2>10. ASSUME Following(u)'
         PROVE  /\ \A i \in DOMAIN d.buf : d.buf[i] = <<s, d.start + i - 1>>
                /\ d.start + Len(d.buf) <= next[s]
                /\ home[u] = loop =>
                     \A k \in Nat : d.start + Len(d.buf) <= k /\ k < next[s] => Announced(s, g, k)'
    <3>1. ~d.stale /\ tpc'[u] \in {"read", "run"} /\ hubs[g].stream = s
      BY <1>2, <2>1, <2>2, <2>7a, <2>10 DEF Following
    <3>2. Following(u)
      BY <2>1, <2>2, <2>7a, <2>8, <3>1 DEF Following
    <3>3. /\ \A i \in DOMAIN b.buf : b.buf[i] = <<s, b.start + i - 1>>
          /\ b.start + Len(b.buf) <= next[s]
          /\ home[u] = loop =>
               \A k \in Nat : b.start + Len(b.buf) <= k /\ k < next[s] => Announced(s, g, k)
      BY <2>1, <2>3, <2>7a, <3>2 DEF SubInv, End
    <3>4. /\ s = s0 /\ s \in Stream /\ next[s] \in Nat
          /\ change.records = <<>> \/ (change.records = <<<<s, change.start>>>> /\ change.start < next[s])
      BY <1>1, <1>4, <1>5, <3>1 DEF Carries
    <3>5. d = Delivered(b, change)
      BY <2>2, <2>7a
    <3> HIDE DEF Announced
    <3>6. /\ \A i \in DOMAIN d.buf : d.buf[i] = <<s, d.start + i - 1>>
          /\ d.start + Len(d.buf) <= next[s]
          /\ d.start + Len(d.buf) >= b.start + Len(b.buf)
          /\ \A k : change.records = <<<<s, k>>>> => k < d.start + Len(d.buf)
      <4>1. PICK n \in Nat : n = next[s]
        BY <3>4
      <4> QED
        BY <1>3, <2>7, <2>7a, <3>1, <3>3, <3>4, <3>5, <4>1, DeliveredFacts
    <3>7. ASSUME home[u] = loop, NEW k \in Nat, d.start + Len(d.buf) <= k, k < next[s]
          PROVE  Announced(s, g, k)'
      <4>1. b.start + Len(b.buf) \in Nat /\ d.start + Len(d.buf) \in Nat
        <5>1. d \in Subscriber
          BY <1>3, <3>5, DeliveredType
        <5> QED
          BY <5>1 DEF Subscriber
      <4>2. PICK m \in Nat, n \in Nat : m = b.start + Len(b.buf) /\ n = d.start + Len(d.buf)
        BY <4>1
      <4>3. m <= k /\ ~(k < n)
        BY <3>6, <3>7, <4>2
      <4>4. Announced(s, g, k)
        BY <3>3, <3>7, <4>2, <4>3
      <4>5. change.records # <<<<s, k>>>>
        BY <3>6, <4>2, <4>3
      <4> QED
        BY <1>11, <4>4, <4>5
    <3> QED
      BY <3>6, <3>7
  <2>11. SubInv(u)'
    <3>1. /\ \A k : Announced(on[u], via[u], k)' <=> Announced(s, g, k)'
          /\ on'[u] = s /\ via'[u] = g /\ sub'[u] = d /\ home'[u] = home[u]
          /\ UNCHANGED <<hubs, next, loop, closed>>
      BY <1>2, <2>1, <2>7a
    <3> HIDE DEF Announced, Coming
    <3>2. End(u)' = d.start + Len(d.buf)
      BY <3>1 DEF End
    <3>3. tpc'[u] \in {"run", "wait"} /\ ~sub'[u].stale => hubs'[via'[u]].stream = on'[u]
      BY <2>9, <3>1
    <3>4. Following(u)' => /\ \A i \in DOMAIN sub'[u].buf : sub'[u].buf[i] = <<on'[u], sub'[u].start + i - 1>>
                           /\ End(u)' <= next'[on'[u]]
      BY <2>10, <3>1, <3>2
    <3>5. ASSUME Following(u)', home'[u] = loop', NEW k \in Nat, End(u)' <= k, k < next'[on'[u]]
          PROVE  Announced(on[u], via[u], k)'
      BY <2>10, <3>1, <3>2, <3>5
    <3>6. tpc'[u] # "wait"
      BY <2>2
    <3> QED
      BY <3>3, <3>4, <3>5, <3>6, Zenon DEF SubInv
  <2> QED
    BY <2>4, <2>5, <2>6, <2>11 DEF TaskInv
<1>15. \A u \in Task : TaskInv(u)'
  BY <1>13, <1>14
<1> QED
  BY <1>7, <1>8, <1>9, <1>10, <1>15 DEF IInv

-----------------------------------------------------------------------------
(* Subscriptions.                                                          *)

LEMMA SubscribeStep ==
    ASSUME IInv, NEW t \in Task, Subscribe(t)
    PROVE  IInv'
<1>1. PICK g, s, old, new : g = via[t] /\ s = on[t] /\ old = hubs[g] /\ new = Joined(old, t)
  OBVIOUS
<1>2. /\ UNCHANGED <<next, closed, fileOpen, born, current, table, loop, ready>>
      /\ UNCHANGED <<home, on, via, told, pos>>
      /\ home[t] = loop /\ tpc[t] = "held" /\ tpc' = [tpc EXCEPT ![t] = "run"]
      /\ sub' = [sub EXCEPT ![t] = NewSub] /\ got' = [got EXCEPT ![t] = <<>>]
      /\ hubs' = [hubs EXCEPT ![g] = new]
  BY <1>1 DEF Subscribe, OnLoop, Goto, engine, store, handle
<1>3. /\ home[t] \in 1..loop /\ s \in 1..born /\ s \in Stream /\ g \in DOMAIN hubs
      /\ hubs[g].stream = s \/ ~fileOpen[s]
      /\ pos[t] \in Nat /\ next[s] \in Nat /\ pos[t] <= next[s]
  BY <1>1, <1>2, HoldFacts DEF Holding
<1>4. /\ hubs \in Seq(HubObject) /\ DOMAIN hubs = 1..Len(hubs) /\ table \in 0..Len(hubs)
      /\ old \in HubObject /\ loop \in Nat \ {0} /\ born \in 0..MaxStreams
      /\ tpc \in [Task -> Label] /\ sub \in [Task -> Subscriber]
      /\ got \in [Task -> Seq(Record)]
  BY <1>1, <1>3 DEF IInv, Types, HubTypes, LoopTypes, StoreTypes, TaskTypes, ReadingTypes
<1>5. /\ new \in HubObject /\ new.stream = old.stream /\ new.loop = loop
      /\ new.subs = (IF old.loop \in {None, loop} THEN old.subs ELSE {}) \cup {t}
  BY <1>1, <1>4 DEF Joined, HubObject
<1>6. /\ hubs' \in Seq(HubObject) /\ Len(hubs') = Len(hubs) /\ DOMAIN hubs' = DOMAIN hubs
      /\ \A h \in DOMAIN hubs : hubs'[h] = IF h = g THEN new ELSE hubs[h]
  BY <1>2, <1>3, <1>4, <1>5, ExceptSeq
<1>7. /\ tpc' \in [Task -> Label] /\ tpc'[t] = "run"
      /\ sub' \in [Task -> Subscriber] /\ sub'[t] = NewSub /\ NewSub.stale
      /\ got' \in [Task -> Seq(Record)] /\ got'[t] = <<>>
      /\ \A u \in Task \ {t} : tpc'[u] = tpc[u] /\ sub'[u] = sub[u] /\ got'[u] = got[u]
  <2>1. NewSub \in Subscriber /\ NewSub.stale /\ <<>> \in Seq(Record)
    BY EmptySeq DEF NewSub, Subscriber
  <2> QED
    BY <1>2, <1>4, <2>1 DEF Label, Subscribed
<1>8. Types'
  <2>1. EngineTypes' /\ StoreTypes' /\ LoopTypes'
    BY <1>2, Zenon DEF IInv, Types, EngineTypes, StoreTypes, LoopTypes
  <2>2. HubTypes'
    BY <1>2, <1>4, <1>6 DEF HubTypes
  <2>3. TaskTypes' /\ ReadingTypes'
    BY <1>2, <1>7, Zenon DEF IInv, Types, TaskTypes, ReadingTypes
  <2> QED
    BY <2>1, <2>2, <2>3 DEF Types
<1>9. StreamInv'
  BY <1>2, Zenon DEF IInv, StreamInv
<1>10. \A u \in Task \ {t} : Same(u)
  BY <1>2, <1>7 DEF Same
<1>11. ASSUME NEW h \in DOMAIN hubs
       PROVE  /\ hubs[h].stream \in 1..born
              /\ hubs[h].subs = {} <=> hubs[h].loop = None
              /\ hubs[h].loop <= loop /\ hubs[h].subs \subseteq Task /\ t \notin hubs[h].subs
              /\ \A u \in hubs[h].subs :
                   home[u] = hubs[h].loop /\ tpc[u] \in Subscribed /\ via[u] = h
  <2>1. /\ hubs[h].stream \in 1..born
        /\ hubs[h].subs = {} <=> hubs[h].loop = None
        /\ hubs[h].loop <= loop
        /\ \A u \in hubs[h].subs :
             home[u] = hubs[h].loop /\ tpc[u] \in Subscribed /\ via[u] = h
    BY DEF IInv, HubInv
  <2>2. hubs[h] \in HubObject
    BY <1>4
  <2>3. hubs[h].subs \subseteq Task
    BY <2>2 DEF HubObject
  <2>4. t \notin hubs[h].subs
    BY <1>2, <2>1 DEF Subscribed
  <2> QED
    BY <2>1, <2>3, <2>4
<1>12. HubInv'
  <2> SUFFICES ASSUME NEW h \in DOMAIN hubs
               PROVE  /\ hubs'[h].stream \in 1..born
                      /\ hubs'[h].subs = {} <=> hubs'[h].loop = None
                      /\ hubs'[h].loop <= loop
                      /\ \A u \in hubs'[h].subs :
                           home[u] = hubs'[h].loop /\ tpc'[u] \in Subscribed /\ via[u] = h
    BY <1>2, <1>6 DEF HubInv
  <2>1. CASE h # g
    <3>1. hubs'[h] = hubs[h]
      BY <1>6, <2>1
    <3>2. \A u \in hubs[h].subs : home[u] = hubs[h].loop /\ tpc'[u] \in Subscribed /\ via[u] = h
      BY <1>7, <1>11
    <3>3. /\ hubs[h].stream \in 1..born
          /\ hubs[h].subs = {} <=> hubs[h].loop = None
          /\ hubs[h].loop <= loop
      BY <1>11
    <3> QED
      BY <3>1, <3>2, <3>3, Zenon
  <2>2. CASE h = g
    <3>1. hubs'[h] = new /\ hubs[h] = old
      BY <1>1, <1>6, <2>2
    <3>2. ASSUME NEW u \in new.subs, u # t
          PROVE  home[u] = loop /\ tpc'[u] \in Subscribed /\ via[u] = h
      <4>1. u \in old.subs /\ old.loop \in {None, loop}
        BY <1>5, <3>2
      <4>2. old.loop # None
        BY <1>11, <3>1, <4>1
      <4> QED
        BY <1>7, <1>11, <3>1, <3>2, <4>1, <4>2
    <3>3. home[t] = loop /\ tpc'[t] \in Subscribed /\ via[t] = h
      BY <1>1, <1>2, <1>7, <2>2 DEF Subscribed
    <3>4. loop # None /\ t \in new.subs /\ loop <= loop
      BY <1>4, <1>5 DEF None
    <3> QED
      BY <1>5, <1>11, <3>1, <3>2, <3>3, <3>4
  <2> QED
    BY <2>1, <2>2
<1>13. \A x \in 1..born : next[x] \in Nat
  BY <1>4, Bounds DEF IInv, Types, EngineTypes, Stream
<1>14. EngineGrows /\ HubsGrow
  BY <1>1, <1>2, <1>4, <1>5, <1>6, <1>13 DEF EngineGrows, HubsGrow
<1>15. ReadyInv' /\ \A u \in Task \ {t} : TaskInv(u)'
  <2>1. \A x \in 1..born : \A k \in Nat : ~(next[x] <= k /\ k < next'[x])
    BY <1>2, <1>13
  <2>2. ASSUME NEW u \in Task \ {t}, NEW h \in DOMAIN hubs, u \in hubs[h].subs, home[u] = loop
        PROVE  u \in hubs'[h].subs
    <3>1. home[u] = hubs[h].loop
      BY <1>11, <2>2
    <3> QED
      BY <1>1, <1>5, <1>6, <2>2, <3>1
  <2> QED
    BY <1>2, <1>8, <1>10, <1>14, <2>1, <2>2, OwnStep
<1>16. TaskInv(t)'
  <2>1. HoldInv(t)'
    <3>1. Holding(t)' /\ tpc'[t] # "wrap"
      BY <1>7 DEF Holding, Subscribed
    <3>2. hubs'[g].stream = hubs[g].stream /\ t \in hubs'[g].subs /\ g \in DOMAIN hubs'
      BY <1>1, <1>3, <1>5, <1>6
    <3> QED
      BY <1>1, <1>2, <1>3, <3>1, <3>2, Zenon DEF HoldInv
  <2>2. ToldInv(t)'
    BY <1>7 DEF ToldInv
  <2>3. SubInv(t)'
    BY <1>7, Zenon DEF SubInv, Following
  <2>4. GotInv(t)'
    <3>1. Len(<<>>) = 0 /\ DOMAIN <<>> = {}
      OBVIOUS
    <3>2. Len(got'[t]) <= pos'[t] /\ DOMAIN got'[t] = {}
      BY <1>2, <1>3, <1>7, <3>1
    <3> QED
      BY <3>2 DEF GotInv
  <2> QED
    BY <2>1, <2>2, <2>3, <2>4 DEF TaskInv
<1> QED
  BY <1>8, <1>9, <1>12, <1>15, <1>16 DEF IInv

\* A subscription that goes on, with what it says of itself still true.
LEMMA GoesOn ==
    ASSUME IInv, NEW t \in Task, tpc[t] \in Subscribed, tpc'[t] \in Subscribed,
           TaskTypes', ReadingTypes', \A u \in Task \ {t} : Same(u),
           UNCHANGED <<engine, store, table, hubs, loop, ready, home, handle, told>>,
           NEW s, NEW g, s = on[t], g = via[t],
           pos'[t] <= next[s],
           tpc'[t] \in {"run", "wait"} /\ ~sub'[t].stale => hubs[g].stream = s,
           tpc'[t] \in {"read", "run", "wait"} /\ ~sub'[t].stale /\ hubs[g].stream = s =>
               /\ \A i \in DOMAIN sub'[t].buf : sub'[t].buf[i] = <<s, sub'[t].start + i - 1>>
               /\ sub'[t].start + Len(sub'[t].buf) <= next[s]
               /\ home[t] = loop =>
                    \A k \in Nat : sub'[t].start + Len(sub'[t].buf) <= k /\ k < next[s] => Announced(s, g, k),
           tpc'[t] = "wait" => /\ ~sub'[t].stale /\ sub'[t].buf = <<>> /\ sub'[t].start = pos'[t]
                               /\ home[t] = loop /\ closed[s] => Coming(s, g),
           Len(got'[t]) <= pos'[t],
           \A i \in DOMAIN got'[t] : got'[t][i] = <<s, pos'[t] - Len(got'[t]) + i - 1>>
    PROVE  IInv'
<1>1. /\ UNCHANGED <<next, closed, fileOpen, born, current, table, hubs, loop, ready>>
      /\ UNCHANGED <<home, on, via, told>>
  BY DEF engine, store, handle
<1>2. /\ home[t] \in 1..loop
      /\ s \in 1..born /\ s \in Stream /\ g \in DOMAIN hubs
      /\ hubs[g].stream = s \/ ~fileOpen[s]
      /\ next[s] \in Nat
  BY HoldFacts DEF Holding
<1>3. Types'
  <2>1. EngineTypes' /\ StoreTypes' /\ HubTypes' /\ LoopTypes'
    BY <1>1, Zenon DEF IInv, Types, EngineTypes, StoreTypes, HubTypes, LoopTypes
  <2>2. TaskTypes' /\ ReadingTypes'
    BY Zenon
  <2> QED
    BY <2>1, <2>2 DEF Types
<1>4. StreamInv'
  BY <1>1, Zenon DEF IInv, StreamInv
<1>5. /\ born \in 0..MaxStreams /\ \A x \in 1..born : next[x] \in Nat
      /\ tpc[t] \notin {"notify", "tell"} /\ tpc'[t] \notin {"notify", "tell", "wrap"}
  <2>1. born \in 0..MaxStreams /\ next \in [Stream -> Nat]
    BY DEF IInv, Types, EngineTypes, StoreTypes
  <2> QED
    BY <2>1, Bounds DEF Stream, Subscribed
<1>6. EngineGrows /\ HubsGrow
  BY <1>1, <1>5 DEF EngineGrows, HubsGrow
<1>7. HubInv'
  BY <1>1, <1>3, <1>5, HubsStay
<1>8. ReadyInv' /\ \A u \in Task \ {t} : TaskInv(u)'
  <2>1. \A x \in 1..born : \A k \in Nat : ~(next[x] <= k /\ k < next'[x])
    BY <1>1, <1>5
  <2> QED
    BY <1>1, <1>3, <1>5, <1>6, <2>1, OwnStep
<1>9. /\ \A k : Announced(s, g, k) => Announced(s, g, k)'
      /\ Coming(s, g) => Coming(s, g)'
  <2>1. \A u \in Task : tpc[u] \in {"notify", "tell"} => tpc'[u] = tpc[u]
    BY <1>5 DEF Same
  <2>2. ASSUME NEW k, Announced(s, g, k)
        PROVE  Announced(s, g, k)'
    BY <1>1, <2>1, <2>2 DEF Announced
  <2>3. Coming(s, g) => Coming(s, g)'
    BY <1>1, <2>1 DEF Coming
  <2> QED
    BY <2>2, <2>3
<1>10. TaskInv(t)'
  <2>1. HoldInv(t)'
    <3>1. Holding(t)' /\ tpc'[t] # "wrap"
      BY <1>5 DEF Holding
    <3>2. home[t] = loop => t \in hubs[g].subs
      BY DEF IInv, TaskInv, HoldInv
    <3> QED
      BY <1>1, <1>2, <3>1, <3>2, Zenon DEF HoldInv
  <2>2. ToldInv(t)'
    BY <1>5 DEF ToldInv
  <2>3. GotInv(t)'
    BY <1>1, Zenon DEF GotInv
  <2>4. SubInv(t)'
    <3>1. /\ \A k : Announced(on[t], via[t], k)' <=> Announced(s, g, k)'
          /\ Coming(on[t], via[t])' <=> Coming(s, g)'
          /\ on'[t] = s /\ via'[t] = g /\ home'[t] = home[t]
      BY <1>1
    <3> HIDE DEF Announced, Coming
    <3>2. End(t)' = sub'[t].start + Len(sub'[t].buf)
      BY DEF End
    <3>3. tpc'[t] \in {"run", "wait"} /\ ~sub'[t].stale => hubs'[via'[t]].stream = on'[t]
      BY <1>1, <3>1
    <3>4. Following(t)' => /\ \A i \in DOMAIN sub'[t].buf : sub'[t].buf[i] = <<on'[t], sub'[t].start + i - 1>>
                           /\ End(t)' <= next'[on'[t]]
      BY <1>1, <3>1, <3>2 DEF Following
    <3>5. ASSUME Following(t)', home'[t] = loop', NEW k \in Nat, End(t)' <= k, k < next'[on'[t]]
          PROVE  Announced(on[t], via[t], k)'
      <4>1. tpc'[t] \in {"read", "run", "wait"} /\ ~sub'[t].stale /\ hubs[g].stream = s
        BY <1>1, <3>1, <3>5 DEF Following
      <4>2. home[t] = loop /\ sub'[t].start + Len(sub'[t].buf) <= k /\ k < next[s]
        BY <1>1, <3>1, <3>2, <3>5
      <4>3. Announced(s, g, k)
        BY <4>1, <4>2
      <4> QED
        BY <1>9, <3>1, <4>3
    <3>6. tpc'[t] = "wait" =>
            /\ ~sub'[t].stale /\ sub'[t].buf = <<>> /\ sub'[t].start = pos'[t]
            /\ home'[t] = loop' /\ closed'[on'[t]] => Coming(on[t], via[t])'
      <4>1. ASSUME tpc'[t] = "wait"
            PROVE  /\ ~sub'[t].stale /\ sub'[t].buf = <<>> /\ sub'[t].start = pos'[t]
                   /\ home[t] = loop /\ closed[s] => Coming(s, g)
        BY <4>1, Zenon
      <4>2. home'[t] = loop' /\ closed'[on'[t]] => home[t] = loop /\ closed[s]
        BY <1>1, <3>1
      <4> QED
        BY <1>9, <3>1, <4>1, <4>2, Zenon
    <3> QED
      BY <3>3, <3>4, <3>5, <3>6, Zenon DEF SubInv
  <2> QED
    BY <2>1, <2>2, <2>3, <2>4 DEF TaskInv
<1> QED
  BY <1>3, <1>4, <1>7, <1>8, <1>10 DEF IInv

\* The parts of a task have the types they should.
LEMMA TaskParts ==
    ASSUME IInv
    PROVE  /\ home \in [Task -> Nat] /\ tpc \in [Task -> Label]
           /\ on \in [Task -> Nat] /\ via \in [Task -> Nat]
           /\ told \in [Task -> Telling]
           /\ sub \in [Task -> Subscriber] /\ pos \in [Task -> Nat] /\ got \in [Task -> Seq(Record)]
BY DEF IInv, Types, TaskTypes, ReadingTypes

\* A subscription's step is made of these four.
LEMMA Moved ==
    ASSUME IInv, NEW t \in Task, UNCHANGED <<home, handle, told>>,
           tpc' \in [Task -> Label], sub' \in [Task -> Subscriber],
           pos' \in [Task -> Nat], got' \in [Task -> Seq(Record)],
           \A u \in Task \ {t} : tpc'[u] = tpc[u] /\ sub'[u] = sub[u] /\ pos'[u] = pos[u] /\ got'[u] = got[u]
    PROVE  TaskTypes' /\ ReadingTypes' /\ \A u \in Task \ {t} : Same(u)
<1>1. UNCHANGED <<home, on, via, told>>
  BY DEF handle
<1>2. TaskTypes' /\ ReadingTypes'
  BY <1>1, TaskParts, Zenon DEF TaskTypes, ReadingTypes
<1>3. \A u \in Task \ {t} : Same(u)
  BY <1>1 DEF Same
<1> QED
  BY <1>2, <1>3

LEMMA CatchUpStep ==
    ASSUME IInv, NEW t \in Task, CatchUp(t)
    PROVE  IInv'
<1>1. PICK s, g, n, p, q : s = on[t] /\ g = via[t] /\ n = next[s] /\ p = pos[t] /\ q = got[t]
  OBVIOUS
<1>2. PICK b : b = [buf |-> <<>>, start |-> n, stale |-> FALSE]
  OBVIOUS
<1>3. /\ tpc[t] = "run" /\ tpc' = [tpc EXCEPT ![t] = "read"] /\ sub' = [sub EXCEPT ![t] = b]
      /\ UNCHANGED <<engine, store, table, hubs, loop, ready, home, handle, told, pos, got>>
  BY <1>1, <1>2 DEF CatchUp, OnLoop, Goto
<1>4. /\ n \in Nat /\ p \in Nat /\ p <= n /\ s \in Stream
      /\ tpc[t] \in Subscribed /\ "read" \in Subscribed \cap Label
  BY <1>1, <1>3, HoldFacts DEF Holding, Subscribed, Label
<1>5. /\ q \in Seq(Record) /\ pos' = [pos EXCEPT ![t] = p] /\ got' = [got EXCEPT ![t] = q]
  BY <1>1, <1>3 DEF IInv, Types, ReadingTypes
<1>6. Len(q) <= p /\ \A i \in DOMAIN q : q[i] = <<s, p - Len(q) + i - 1>>
  BY <1>1, <1>4 DEF IInv, TaskInv, GotInv
<1>7. /\ b \in Subscriber /\ b.start = n /\ DOMAIN b.buf = {} /\ Len(b.buf) = 0
  <2>1. <<>> \in Seq(Record) /\ DOMAIN <<>> = {} /\ Len(<<>>) = 0
    BY EmptySeq
  <2> QED
    BY <1>2, <1>4, <2>1 DEF Subscriber
<1>8. b.start + Len(b.buf) = n
  BY <1>4, <1>7
<1>9. /\ \A i \in DOMAIN b.buf : b.buf[i] = <<s, b.start + i - 1>>
      /\ b.start + Len(b.buf) <= next[s]
      /\ \A k \in Nat : ~(b.start + Len(b.buf) <= k /\ k < next[s])
  BY <1>1, <1>4, <1>7, <1>8
<1>10. /\ tpc' \in [Task -> Label] /\ sub' \in [Task -> Subscriber]
       /\ pos' \in [Task -> Nat] /\ got' \in [Task -> Seq(Record)]
       /\ tpc'[t] = "read" /\ tpc'[t] \in Subscribed /\ b = sub'[t] /\ p = pos'[t] /\ q = got'[t]
       /\ \A u \in Task \ {t} : tpc'[u] = tpc[u] /\ sub'[u] = sub[u] /\ pos'[u] = pos[u] /\ got'[u] = got[u]
  BY <1>3, <1>4, <1>5, <1>7, TaskParts
<1>11. TaskTypes' /\ ReadingTypes' /\ \A u \in Task \ {t} : Same(u)
  BY <1>3, <1>10, Moved
<1>12. tpc'[t] = "read" /\ tpc'[t] \in Subscribed /\ b = sub'[t] /\ p = pos'[t] /\ q = got'[t]
  BY <1>10
<1> HIDE DEF Announced, Coming
<1> QED
  BY <1>1, <1>3, <1>4, <1>6, <1>9, <1>11, <1>12, GoesOn

LEMMA RowIsSeq ==
    ASSUME NEW m \in Nat, NEW S, NEW r \in [1..m -> S]
    PROVE  r \in Seq(S) /\ Len(r) = m
OBVIOUS

\* Records of s from p on are what there is to read up to n.
LEMMA ReadRecords ==
    ASSUME NEW s \in Stream, NEW p \in Nat, NEW n \in Nat, p <= n, NEW r,
           r = [i \in 1..n - p |-> <<s, p + i - 1>>]
    PROVE  r \in Seq(Record) /\ Len(r) = n - p /\ \A i \in 1..n - p : r[i] = <<s, p + i - 1>>
<1>1. n - p \in Nat
  OBVIOUS
<1>2. \A i \in 1..n - p : p + i - 1 \in Nat
  OBVIOUS
<1>3. \A i \in 1..n - p : <<s, p + i - 1>> \in Record
  BY <1>2 DEF Record
<1>5. PICK m \in Nat : m = n - p
  BY <1>1
<1>6. r \in [1..m -> Record]
  BY <1>3, <1>5
<1>7. r \in Seq(Record) /\ Len(r) = m
  BY <1>6, RowIsSeq
<1> QED
  BY <1>5, <1>7

\* More records of s in a row make a longer row.
LEMMA OneAfterTheOther ==
    ASSUME NEW s \in Stream, NEW q \in Seq(Record), NEW r \in Seq(Record), NEW p \in Nat,
           Len(q) <= p,
           \A i \in DOMAIN q : q[i] = <<s, p - Len(q) + i - 1>>,
           \A i \in DOMAIN r : r[i] = <<s, p + i - 1>>
    PROVE  /\ q \o r \in Seq(Record) /\ Len(q \o r) <= p + Len(r)
           /\ \A i \in DOMAIN (q \o r) : (q \o r)[i] = <<s, (p + Len(r)) - Len(q \o r) + i - 1>>
<1>0. PICK both : both = q \o r
  OBVIOUS
<1>1. /\ both \in Seq(Record) /\ Len(both) = Len(q) + Len(r)
      /\ \A i \in 1..Len(q) + Len(r) : both[i] = IF i <= Len(q) THEN q[i] ELSE r[i - Len(q)]
  BY <1>0, ConcatProperties
<1>2. PICK m \in Nat, l \in Nat : m = Len(q) /\ l = Len(r)
  OBVIOUS
<1>3. /\ DOMAIN both = 1..m + l /\ DOMAIN q = 1..m /\ DOMAIN r = 1..l /\ Len(both) = m + l
      /\ m <= p
  BY <1>1, <1>2
<1>4. ASSUME NEW i \in 1..m + l
      PROVE  both[i] = <<s, (p + l) - (m + l) + i - 1>>
  <2>1. CASE i <= m
    <3>1. i \in DOMAIN q /\ p - m + i - 1 = (p + l) - (m + l) + i - 1
      BY <1>2, <1>3, <2>1
    <3>2. both[i] = q[i]
      BY <1>1, <1>2, <2>1
    <3> QED
      BY <1>2, <3>1, <3>2
  <2>2. CASE ~(i <= m)
    <3>1. i - m \in DOMAIN r /\ p + (i - m) - 1 = (p + l) - (m + l) + i - 1
      BY <1>2, <1>3, <2>2
    <3>2. both[i] = r[i - m]
      BY <1>1, <1>2, <2>2
    <3> QED
      BY <1>2, <3>1, <3>2
  <2> QED
    BY <2>1, <2>2
<1>5. /\ both \in Seq(Record) /\ Len(both) <= p + Len(r)
      /\ \A i \in DOMAIN both : both[i] = <<s, (p + Len(r)) - Len(both) + i - 1>>
  BY <1>1, <1>2, <1>3, <1>4
<1> QED
  BY <1>0, <1>5, Zenon

LEMMA ReadInThreadStep ==
    ASSUME IInv, NEW t \in Task, ReadInThread(t)
    PROVE  IInv'
<1>1. PICK s, g, b : s = on[t] /\ g = via[t] /\ b = sub[t]
  OBVIOUS
<1>2. PICK n, p, q : n = next[s] /\ p = pos[t] /\ q = got[t]
  OBVIOUS
<1>3. /\ tpc[t] = "read" /\ tpc[t] \in Subscribed /\ {"run", "raise"} \subseteq Subscribed \cap Label
      /\ UNCHANGED <<engine, store, table, hubs, loop, ready, home, handle, told, sub>>
  BY DEF ReadInThread, Subscribed, Label
<1>4. /\ n \in Nat /\ p \in Nat /\ p <= n /\ s \in Stream
      /\ hubs[g].stream = s \/ ~fileOpen[s]
  BY <1>1, <1>2, <1>3, HoldFacts DEF Holding
<1>5. /\ q \in Seq(Record) /\ b \in Subscriber /\ sub' = [sub EXCEPT ![t] = b]
      /\ pos \in [Task -> Nat] /\ got \in [Task -> Seq(Record)]
  BY <1>1, <1>2, <1>3 DEF IInv, Types, ReadingTypes
<1>6. Len(q) <= p /\ \A i \in DOMAIN q : q[i] = <<s, p - Len(q) + i - 1>>
  BY <1>1, <1>2, <1>3 DEF IInv, TaskInv, GotInv
<1>7. ~b.stale /\ hubs[g].stream = s =>
        /\ \A i \in DOMAIN b.buf : b.buf[i] = <<s, b.start + i - 1>>
        /\ b.start + Len(b.buf) <= next[s]
        /\ home[t] = loop =>
             \A k \in Nat : b.start + Len(b.buf) <= k /\ k < next[s] => Announced(s, g, k)
  BY <1>1, <1>3 DEF IInv, TaskInv, SubInv, Following, End
<1>8. CASE fileOpen[s]
  <2>1. PICK r : r = [i \in 1..n - p |-> <<s, p + i - 1>>]
    OBVIOUS
  <2>2. PICK both : both = q \o r
    OBVIOUS
  <2>3. /\ tpc' = [tpc EXCEPT ![t] = "run"] /\ pos' = [pos EXCEPT ![t] = n]
        /\ got' = [got EXCEPT ![t] = both]
    BY <1>1, <1>2, <1>8, <2>1, <2>2 DEF ReadInThread, Goto
  <2>4. r \in Seq(Record) /\ Len(r) = n - p /\ \A i \in 1..n - p : r[i] = <<s, p + i - 1>>
    BY <1>4, <2>1, ReadRecords
  <2>5. \A i \in DOMAIN r : r[i] = <<s, p + i - 1>>
    <3>1. DOMAIN r = 1..n - p
      BY <2>4
    <3> QED
      BY <2>4, <3>1
  <2>6. /\ both \in Seq(Record) /\ Len(both) <= p + Len(r)
        /\ \A i \in DOMAIN both : both[i] = <<s, (p + Len(r)) - Len(both) + i - 1>>
    BY <1>4, <1>5, <1>6, <2>2, <2>4, <2>5, OneAfterTheOther, SMTT(30)
  <2>7. p + Len(r) = n /\ n <= next[s]
    BY <1>2, <1>4, <2>4
  <2>8. /\ tpc' \in [Task -> Label] /\ sub' \in [Task -> Subscriber]
        /\ pos' \in [Task -> Nat] /\ got' \in [Task -> Seq(Record)]
        /\ tpc'[t] = "run" /\ tpc'[t] \in Subscribed /\ b = sub'[t] /\ n = pos'[t] /\ both = got'[t]
        /\ \A u \in Task \ {t} : tpc'[u] = tpc[u] /\ sub'[u] = sub[u] /\ pos'[u] = pos[u] /\ got'[u] = got[u]
    BY <1>3, <1>4, <1>5, <2>3, <2>6, TaskParts
  <2>10. TaskTypes' /\ ReadingTypes' /\ \A u \in Task \ {t} : Same(u)
    BY <1>3, <2>8, Moved
  <2>11. tpc'[t] \in Subscribed /\ b = sub'[t] /\ n = pos'[t] /\ both = got'[t]
    BY <2>8
  <2>9. /\ Len(both) <= n /\ \A i \in DOMAIN both : both[i] = <<s, n - Len(both) + i - 1>>
        /\ hubs[g].stream = s /\ tpc'[t] # "wait"
    BY <1>4, <1>8, <2>6, <2>7, <2>8
  <2> HIDE DEF Announced, Coming
  <2> QED
    BY <1>1, <1>3, <1>7, <2>7, <2>9, <2>10, <2>11, GoesOn
<1>9. CASE ~fileOpen[s]
  <2>1. tpc' = [tpc EXCEPT ![t] = "raise"] /\ pos' = [pos EXCEPT ![t] = p] /\ got' = [got EXCEPT ![t] = q]
    BY <1>1, <1>2, <1>5, <1>9 DEF ReadInThread, Goto
  <2>2. /\ tpc' \in [Task -> Label] /\ sub' \in [Task -> Subscriber]
        /\ pos' \in [Task -> Nat] /\ got' \in [Task -> Seq(Record)]
        /\ tpc'[t] = "raise" /\ tpc'[t] \in Subscribed /\ b = sub'[t] /\ p = pos'[t] /\ q = got'[t]
        /\ \A u \in Task \ {t} : tpc'[u] = tpc[u] /\ sub'[u] = sub[u] /\ pos'[u] = pos[u] /\ got'[u] = got[u]
    BY <1>3, <1>4, <1>5, <2>1, TaskParts
  <2>4. TaskTypes' /\ ReadingTypes' /\ \A u \in Task \ {t} : Same(u)
    BY <1>3, <2>2, Moved
  <2>5. tpc'[t] \in Subscribed /\ b = sub'[t] /\ p = pos'[t] /\ q = got'[t]
    BY <2>2
  <2>3. tpc'[t] \notin {"read", "run", "wait"}
    BY <2>2
  <2> HIDE DEF Announced, Coming
  <2> QED
    BY <1>1, <1>2, <1>3, <1>4, <1>6, <2>3, <2>4, <2>5, GoesOn
<1> QED
  BY <1>8, <1>9

\* A subscription that ends: its task leaves the hub and keeps the stream.
LEMMA Ends ==
    ASSUME IInv, NEW t \in Task, tpc[t] \in Subscribed, Leave(t), tpc'[t] = "held",
           TaskTypes', ReadingTypes', \A u \in Task \ {t} : Same(u),
           UNCHANGED <<engine, store, table, loop, ready, home, handle, told>>,
           pos'[t] <= next[on[t]]
    PROVE  IInv'
<1>1. /\ UNCHANGED <<next, closed, fileOpen, born, current, table, loop, ready>>
      /\ UNCHANGED <<home, on, via, told>>
  BY DEF engine, store, handle
<1>2. /\ home[t] \in 1..loop
      /\ on[t] \in 1..born /\ via[t] \in DOMAIN hubs
      /\ hubs[via[t]].stream = on[t] \/ ~fileOpen[on[t]]
  BY HoldFacts DEF Holding
<1>3. /\ hubs' \in Seq(HubObject) /\ Len(hubs') = Len(hubs)
      /\ \A h \in DOMAIN hubs :
           /\ h \in DOMAIN hubs' /\ hubs'[h].stream = hubs[h].stream
           /\ \A u \in Task \ {t} : u \in hubs[h].subs => u \in hubs'[h].subs
  <2>1. /\ hubs' \in Seq(HubObject) /\ Len(hubs') = Len(hubs)
        /\ \A h \in DOMAIN hubs :
             /\ h \in DOMAIN hubs' /\ hubs'[h].stream = hubs[h].stream
             /\ h # via[t] => hubs'[h] = hubs[h]
             /\ h = via[t] => hubs'[h].subs = hubs[h].subs \ {t}
    BY <1>2, LeaveFacts
  <2>2. ASSUME NEW h \in DOMAIN hubs, NEW u \in Task \ {t}, u \in hubs[h].subs
        PROVE  u \in hubs'[h].subs
    BY <2>1, <2>2
  <2> QED
    BY <2>1, <2>2
<1>4. Types'
  <2>1. EngineTypes' /\ StoreTypes' /\ LoopTypes'
    BY <1>1, Zenon DEF IInv, Types, EngineTypes, StoreTypes, LoopTypes
  <2>2. HubTypes'
    BY <1>1, <1>3 DEF IInv, Types, HubTypes
  <2> QED
    BY <2>1, <2>2 DEF Types
<1>5. StreamInv'
  BY <1>1, Zenon DEF IInv, StreamInv
<1>6. HubInv'
  BY <1>1, <1>2, HubsLeft
<1>7. /\ born \in 0..MaxStreams /\ \A x \in 1..born : next[x] \in Nat
      /\ tpc[t] \notin {"notify", "tell"}
  <2>1. born \in 0..MaxStreams /\ next \in [Stream -> Nat]
    BY DEF IInv, Types, EngineTypes, StoreTypes
  <2> QED
    BY <2>1, Bounds DEF Stream, Subscribed
<1>8. EngineGrows /\ HubsGrow
  BY <1>1, <1>3, <1>7 DEF EngineGrows, HubsGrow
<1>9. ReadyInv' /\ \A u \in Task \ {t} : TaskInv(u)'
  <2>1. \A x \in 1..born : \A k \in Nat : ~(next[x] <= k /\ k < next'[x])
    BY <1>1, <1>7
  <2> QED
    BY <1>1, <1>3, <1>4, <1>7, <1>8, <2>1, OwnStep
<1>10. TaskInv(t)'
  <2>1. via'[t] \in DOMAIN hubs' /\ hubs'[via'[t]].stream = hubs[via[t]].stream
    BY <1>1, <1>2, <1>3
  <2> QED
    BY <1>1, <1>2, <2>1, AtHand
<1> QED
  BY <1>4, <1>5, <1>6, <1>9, <1>10 DEF IInv

LEMMA UnsubscribeStep ==
    ASSUME IInv, NEW t \in Task, tpc[t] \in Subscribed, Unsubscribe(t)
    PROVE  IInv'
<1>1. /\ Leave(t) /\ sub' = [sub EXCEPT ![t] = NewSub] /\ tpc' = [tpc EXCEPT ![t] = "held"]
      /\ UNCHANGED <<engine, store, table, loop, ready, home, handle, told, pos, got>>
  BY DEF Unsubscribe, Goto
<1>2. NewSub \in Subscriber
  BY EmptySeq DEF NewSub, Subscriber
<1>3. /\ tpc' \in [Task -> Label] /\ sub' \in [Task -> Subscriber]
      /\ pos' \in [Task -> Nat] /\ got' \in [Task -> Seq(Record)]
      /\ tpc'[t] = "held" /\ pos'[t] = pos[t]
      /\ \A u \in Task \ {t} : tpc'[u] = tpc[u] /\ sub'[u] = sub[u] /\ pos'[u] = pos[u] /\ got'[u] = got[u]
  BY <1>1, <1>2, TaskParts DEF Label
<1>4. TaskTypes' /\ ReadingTypes' /\ \A u \in Task \ {t} : Same(u)
  BY <1>1, <1>3, Moved
<1>5. pos'[t] <= next[on[t]]
  BY <1>3, HoldFacts DEF Holding
<1> QED
  BY <1>1, <1>3, <1>4, <1>5, Ends

\* Max and Min of two numbers.
LEMMA MaxMin ==
    ASSUME NEW a \in Int, NEW b \in Int
    PROVE  /\ Max({a, b}) = IF a >= b THEN a ELSE b
           /\ Min({a, b}) = IF a <= b THEN a ELSE b
<1>1. \E x \in {a, b} : \A y \in {a, b} : x >= y
  BY SMT
<1>2. \E x \in {a, b} : \A y \in {a, b} : x <= y
  BY SMT
<1>3. /\ Max({a, b}) \in {a, b} /\ \A y \in {a, b} : Max({a, b}) >= y
  BY <1>1, Zenon DEF Max
<1>4. /\ Min({a, b}) \in {a, b} /\ \A y \in {a, b} : Min({a, b}) <= y
  BY <1>2, Zenon DEF Min
<1> QED
  BY <1>3, <1>4, SMT

LEMMA DropFirst ==
    ASSUME NEW S, NEW q \in Seq(S), NEW k \in Nat, k <= Len(q),
           NEW r, r = SubSeq(q, k + 1, Len(q))
    PROVE  /\ r \in Seq(S) /\ Len(r) = Len(q) - k
           /\ \A i \in 1..Len(q) - k : r[i] = q[k + i]
<1>1. PICK l \in Nat : l = Len(q)
  OBVIOUS
<1>2. \A i \in k + 1..l : q[i] \in S
  BY <1>1
<1>3. /\ SubSeq(q, k + 1, l) \in Seq(S)
      /\ Len(SubSeq(q, k + 1, l)) = IF k + 1 <= l THEN l - (k + 1) + 1 ELSE 0
      /\ \A i \in 1..l - (k + 1) + 1 : SubSeq(q, k + 1, l)[i] = q[k + 1 + i - 1]
  <2>1. k + 1 \in Int /\ l \in Int
    OBVIOUS
  <2> QED
    BY <1>2, <2>1, SubSeqProperties
<1>4. k <= l /\ r = SubSeq(q, k + 1, l)
  BY <1>1
<1>5. Len(r) = l - k
  BY <1>3, <1>4
<1>6. ASSUME NEW i \in 1..l - k
      PROVE  r[i] = q[k + i]
  <2>1. i \in 1..l - (k + 1) + 1 /\ k + 1 + i - 1 = k + i
    OBVIOUS
  <2> QED
    BY <1>3, <1>4, <2>1
<1> QED
  BY <1>1, <1>3, <1>4, <1>5, <1>6

LEMMA NoneLeft ==
    ASSUME NEW S, NEW r \in Seq(S)
    PROVE  r = <<>> <=> Len(r) = 0
BY EmptySeq

LEMMA PassedRecords ==
    ASSUME NEW l \in Nat, NEW a \in Nat, NEW p \in Nat,
           NEW d, d = IF p > a THEN p - a ELSE 0,
           NEW old, old = IF l <= d THEN l ELSE d
    PROVE  /\ old \in Nat /\ old <= l
           /\ old # l => (p > a /\ a + old = p) \/ (p <= a /\ old = 0)
           /\ old = l => l = 0 \/ a + l <= p
OBVIOUS

\* Where what is live begins, and where it ends.
LEMMA LiveNumbers ==
    ASSUME NEW l \in Nat, NEW a \in Nat, NEW p \in Nat, NEW n \in Nat, a + l <= n, p <= n,
           NEW old \in Nat, old <= l,
           old # l => (p > a /\ a + old = p) \/ (p <= a /\ old = 0),
           old = l => l = 0 \/ a + l <= p,
           NEW start, start = IF l = old THEN (IF a + old >= p THEN a + old ELSE p) ELSE a + old
    PROVE  /\ start \in Nat /\ start >= p
           /\ start = p => /\ p + (l - old) >= a + l /\ p + (l - old) <= n
                           /\ l # old => a + old = p
OBVIOUS

\* A subscription takes what is live, and ends, goes back to disk or sleeps.
LEMMA DrainStep ==
    ASSUME IInv, NEW t \in Task, Drain(t)
    PROVE  IInv'
<1>1. PICK s, g, n, p, q, o : s = on[t] /\ g = via[t] /\ n = next[s] /\ p = pos[t] /\ q = got[t] /\ o = sub[t]
  OBVIOUS
<1>2. PICK b : b = IF sub[t].stale THEN [buf |-> <<>>, start |-> next[on[t]]] ELSE sub[t]
  OBVIOUS
<1>3. PICK d : d = IF pos[t] > b.start THEN pos[t] - b.start ELSE 0
  OBVIOUS
<1>4. PICK old : old = Min({Len(b.buf), d})
  OBVIOUS
<1>5. PICK live : live = SubSeq(b.buf, old + 1, Len(b.buf))
  OBVIOUS
<1>6. PICK start : start = IF live = <<>> THEN Max({b.start + old, pos[t]}) ELSE b.start + old
  OBVIOUS
<1>7. PICK last : last = IF start > pos[t] THEN pos[t] ELSE pos[t] + Len(live)
  OBVIOUS
<1>8. /\ OnLoop(t, "run")
      /\ sub[t].stale => pos[t] >= next[on[t]]
      /\ pos' = [pos EXCEPT ![t] = last]
      /\ got' = [got EXCEPT ![t] = IF start > pos[t] THEN @ ELSE @ \o live]
      /\ IF closed[on[t]] /\ ~(start > pos[t]) /\ last >= next[on[t]]
         THEN Leave(t) /\ Goto(t, "held") /\ sub' = [sub EXCEPT ![t] = NewSub]
         ELSE /\ sub' = [sub EXCEPT ![t] = [buf |-> <<>>, start |-> Max({start, last}),
                                            stale |-> start > pos[t] \/ closed[on[t]]]]
              /\ Goto(t, IF start > pos[t] \/ closed[on[t]] THEN "run" ELSE "wait")
              /\ UNCHANGED hubs
      /\ UNCHANGED <<engine, store, table, loop, ready, home, handle, told>>
  BY <1>2, <1>3, <1>4, <1>5, <1>6, <1>7, ZenonT(30) DEF Drain
<1>9. /\ tpc[t] = "run" /\ home[t] = loop /\ tpc[t] \in Subscribed
      /\ {"run", "wait"} \subseteq Subscribed \cap Label /\ "held" \in Label
  BY <1>8 DEF OnLoop, Subscribed, Label
<1>10. /\ n \in Nat /\ p \in Nat /\ p <= n /\ s \in Stream /\ s \in 1..born
       /\ hubs[g].stream = s \/ ~fileOpen[s]
  BY <1>1, <1>9, HoldFacts DEF Holding
<1>11. q \in Seq(Record) /\ o \in Subscriber
  BY <1>1, TaskParts
<1>12. Len(q) <= p /\ \A i \in DOMAIN q : q[i] = <<s, p - Len(q) + i - 1>>
  BY <1>1, <1>9 DEF IInv, TaskInv, GotInv
<1>13. ~o.stale =>
         /\ hubs[g].stream = s
         /\ \A i \in DOMAIN o.buf : o.buf[i] = <<s, o.start + i - 1>>
         /\ o.start + Len(o.buf) <= n
         /\ \A k \in Nat : o.start + Len(o.buf) <= k /\ k < n => Announced(s, g, k)
  BY <1>1, <1>9 DEF IInv, TaskInv, SubInv, Following, End
<1>14. PICK l, a : l = Len(b.buf) /\ a = b.start
  OBVIOUS
<1>15. /\ b.buf \in Seq(Record) /\ l \in Nat /\ a \in Nat /\ a + l <= n
       /\ \A i \in DOMAIN b.buf : b.buf[i] = <<s, a + i - 1>>
       /\ ~o.stale => b = o
       /\ o.stale => a = n /\ l = 0 /\ p = n
  <2>1. CASE o.stale
    <3>1. b.buf = <<>> /\ b.start = n
      BY <1>1, <1>2, <2>1
    <3>2. <<>> \in Seq(Record) /\ Len(<<>>) = 0 /\ DOMAIN <<>> = {}
      BY EmptySeq
    <3>3. b.buf \in Seq(Record) /\ l = 0 /\ DOMAIN b.buf = {} /\ a = n
      BY <1>14, <3>1, <3>2
    <3>4. p = n
      BY <1>1, <1>8, <1>10, <2>1
    <3> QED
      BY <1>10, <2>1, <3>3, <3>4
  <2>2. CASE ~o.stale
    <3>1. b = o
      BY <1>1, <1>2, <2>2
    <3>2. b.buf \in Seq(Record) /\ l \in Nat /\ a \in Nat
      BY <1>11, <1>14, <3>1 DEF Subscriber
    <3> QED
      BY <1>13, <1>14, <2>2, <3>1, <3>2
  <2> QED
    BY <2>1, <2>2
<1>16. d = (IF p > a THEN p - a ELSE 0) /\ d \in Nat
  <2>1. d = IF p > a THEN p - a ELSE 0
    BY <1>1, <1>3, <1>14
  <2> QED
    BY <1>10, <1>15, <2>1
<1>17. old = IF l <= d THEN l ELSE d
  <2>1. old = Min({l, d})
    BY <1>4, <1>14
  <2>2. Min({l, d}) = IF l <= d THEN l ELSE d
    <3>1. l \in Int /\ d \in Int
      BY <1>15, <1>16
    <3> QED
      BY <3>1, MaxMin
  <2> QED
    BY <2>1, <2>2, Zenon
<1>18. /\ old \in Nat /\ old <= l
       /\ old # l => (p > a /\ a + old = p) \/ (p <= a /\ old = 0)
       /\ old = l => l = 0 \/ a + l <= p
  BY <1>10, <1>15, <1>16, <1>17, PassedRecords
<1>19. /\ live \in Seq(Record) /\ Len(live) = l - old
       /\ \A i \in 1..l - old : live[i] = b.buf[old + i]
       /\ live = <<>> <=> old = l
  <2>1. PICK whole \in Seq(Record) : whole = b.buf
    BY <1>15
  <2>2. live = SubSeq(whole, old + 1, Len(whole)) /\ old <= Len(whole) /\ l = Len(whole)
    BY <1>5, <1>14, <1>18, <2>1
  <2>3. /\ live \in Seq(Record) /\ Len(live) = Len(whole) - old
        /\ \A i \in 1..Len(whole) - old : live[i] = whole[old + i]
    BY <1>18, <2>2, DropFirst
  <2>4. live = <<>> <=> Len(live) = 0
    BY <2>3, NoneLeft
  <2>5. Len(live) = l - old /\ \A i \in 1..l - old : live[i] = b.buf[old + i]
    BY <2>1, <2>2, <2>3
  <2>6. live = <<>> <=> old = l
    BY <1>15, <1>18, <2>4, <2>5
  <2> QED
    BY <2>3, <2>5, <2>6
<1>20. start = IF l = old THEN (IF a + old >= p THEN a + old ELSE p) ELSE a + old
  <2>1. start = IF live = <<>> THEN Max({a + old, p}) ELSE a + old
    BY <1>1, <1>6, <1>14
  <2>2. PICK e \in Nat : e = a + old
    BY <1>15, <1>18
  <2>3. Max({e, p}) = IF e >= p THEN e ELSE p
    BY <1>10, MaxMin
  <2>4. start = IF live = <<>> THEN (IF e >= p THEN e ELSE p) ELSE e
    BY <2>1, <2>2, <2>3, Zenon
  <2>5. live = <<>> <=> l = old
    BY <1>19
  <2> QED
    BY <2>2, <2>4, <2>5, Zenon
<1>21. /\ start \in Nat /\ start >= p
       /\ start = p => /\ p + (l - old) >= a + l /\ p + (l - old) <= n
                       /\ l # old => a + old = p
  BY <1>10, <1>15, <1>18, <1>20, LiveNumbers
<1>22. last \in Nat /\ last <= n /\ (start > p => last = p) /\ (start = p => last = p + Len(live) /\ last >= a + l)
  <2>1. last = IF start > p THEN p ELSE p + Len(live)
    BY <1>1, <1>7
  <2> QED
    BY <1>10, <1>18, <1>19, <1>21, <2>1
<1>23. start = p => \A i \in DOMAIN live : live[i] = <<s, p + i - 1>>
  <2> SUFFICES ASSUME start = p, NEW i \in DOMAIN live
               PROVE  live[i] = <<s, p + i - 1>>
    OBVIOUS
  <2>1. PICK m \in Nat : m = l - old
    BY <1>15, <1>18
  <2>2. i \in 1..m
    <3>1. DOMAIN live = 1..m
      BY <1>19, <2>1
    <3> QED
      BY <3>1
  <2>3. a + old = p
    BY <1>18, <1>21, <2>1, <2>2
  <2>4. live[i] = b.buf[old + i]
    BY <1>19, <2>1, <2>2
  <2>5. old + i \in 1..l /\ a + (old + i) - 1 = p + i - 1
    BY <1>15, <1>18, <2>1, <2>2, <2>3
  <2>6. old + i \in DOMAIN b.buf
    BY <1>14, <1>15, <2>5
  <2> QED
    BY <1>15, <2>4, <2>5, <2>6
<1>24. PICK q2 : q2 = IF start > p THEN q ELSE q \o live
  OBVIOUS
<1>25. /\ q2 \in Seq(Record) /\ Len(q2) <= last
       /\ \A i \in DOMAIN q2 : q2[i] = <<s, last - Len(q2) + i - 1>>
  <2>1. CASE start > p
    <3>1. q2 = q /\ last = p
      BY <1>22, <1>24, <2>1
    <3> QED
      BY <1>11, <1>12, <3>1
  <2>2. CASE start = p
    <3>1. q2 = q \o live /\ last = p + Len(live)
      BY <1>10, <1>22, <1>24, <2>2
    <3>2. /\ q \o live \in Seq(Record) /\ Len(q \o live) <= p + Len(live)
          /\ \A i \in DOMAIN (q \o live) : (q \o live)[i] = <<s, (p + Len(live)) - Len(q \o live) + i - 1>>
      BY <1>10, <1>11, <1>12, <1>19, <1>23, <2>2, OneAfterTheOther
    <3> QED
      BY <3>1, <3>2
  <2> QED
    BY <1>10, <1>21, <2>1, <2>2
<1>26. pos' = [pos EXCEPT ![t] = last] /\ got' = [got EXCEPT ![t] = q2]
  BY <1>1, <1>8, <1>24
<1>27. CASE closed[s] /\ ~(start > p) /\ last >= n
  <2>1. Leave(t) /\ tpc' = [tpc EXCEPT ![t] = "held"] /\ sub' = [sub EXCEPT ![t] = NewSub]
    BY <1>1, <1>8, <1>27 DEF Goto
  <2>2. NewSub \in Subscriber
    BY EmptySeq DEF NewSub, Subscriber
  <2>3. /\ tpc' \in [Task -> Label] /\ sub' \in [Task -> Subscriber]
        /\ pos' \in [Task -> Nat] /\ got' \in [Task -> Seq(Record)]
        /\ tpc'[t] = "held" /\ pos'[t] = last
        /\ \A u \in Task \ {t} : tpc'[u] = tpc[u] /\ sub'[u] = sub[u] /\ pos'[u] = pos[u] /\ got'[u] = got[u]
    BY <1>9, <1>22, <1>25, <1>26, <2>1, <2>2, TaskParts
  <2>4. TaskTypes' /\ ReadingTypes' /\ \A u \in Task \ {t} : Same(u)
    BY <1>8, <2>3, Moved
  <2>5. pos'[t] <= next[on[t]]
    BY <1>1, <1>22, <2>3
  <2> QED
    BY <1>8, <1>9, <2>1, <2>3, <2>4, <2>5, Ends
<1>28. CASE ~(closed[s] /\ ~(start > p) /\ last >= n)
  <2>1. PICK b2, label : /\ b2 = [buf |-> <<>>, start |-> Max({start, last}), stale |-> start > p \/ closed[s]]
                         /\ label = IF start > p \/ closed[s] THEN "run" ELSE "wait"
    OBVIOUS
  <2>2. tpc' = [tpc EXCEPT ![t] = label] /\ sub' = [sub EXCEPT ![t] = b2] /\ hubs' = hubs
    BY <1>1, <1>8, <1>28, <2>1, Zenon DEF Goto
  <2>3. /\ closed[s] \in BOOLEAN /\ fileOpen[s] \in BOOLEAN /\ (fileOpen[s] \/ closed[s])
    <3>1. closed[s] \in BOOLEAN /\ fileOpen[s] \in BOOLEAN
      BY <1>10 DEF IInv, Types, EngineTypes
    <3>2. fileOpen[s] \/ closed[s]
      BY <1>10, Zenon DEF IInv, StreamInv
    <3> QED
      BY <3>1, <3>2
  <2>4. Max({start, last}) \in Nat /\ (start = p => Max({start, last}) = last)
    <3>1. Max({start, last}) = IF start >= last THEN start ELSE last
      BY <1>21, <1>22, MaxMin
    <3>2. start = p => last >= start
      BY <1>10, <1>15, <1>18, <1>19, <1>22
    <3> QED
      BY <1>21, <1>22, <3>1, <3>2
  <2>5. /\ b2 \in Subscriber /\ b2.start = Max({start, last}) /\ b2.buf = <<>>
        /\ Len(b2.buf) = 0 /\ DOMAIN b2.buf = {}
        /\ b2.stale <=> start > p \/ closed[s]
    <3>1. <<>> \in Seq(Record) /\ Len(<<>>) = 0 /\ DOMAIN <<>> = {}
      BY EmptySeq
    <3>2. b2.buf = <<>> /\ b2.start = Max({start, last}) /\ b2.stale = (start > p \/ closed[s])
      BY <2>1
    <3>3. (start > p \/ closed[s]) \in BOOLEAN
      OBVIOUS
    <3>4. b2 \in Subscriber
      BY <2>1, <2>4, <3>1, <3>3 DEF Subscriber
    <3> QED
      BY <3>1, <3>2, <3>4
  <2>6. label \in {"run", "wait"} /\ label \in Label
    BY <1>9, <2>1
  <2>7. /\ tpc' \in [Task -> Label] /\ sub' \in [Task -> Subscriber]
        /\ pos' \in [Task -> Nat] /\ got' \in [Task -> Seq(Record)]
        /\ tpc'[t] = label /\ sub'[t] = b2 /\ pos'[t] = last /\ got'[t] = q2
        /\ \A u \in Task \ {t} : tpc'[u] = tpc[u] /\ sub'[u] = sub[u] /\ pos'[u] = pos[u] /\ got'[u] = got[u]
    BY <1>22, <1>25, <1>26, <2>2, <2>5, <2>6, TaskParts
  <2>8. TaskTypes' /\ ReadingTypes' /\ \A u \in Task \ {t} : Same(u)
    BY <1>8, <2>7, Moved
  <2>9. ASSUME ~b2.stale
        PROVE  /\ hubs[g].stream = s /\ b2.start = last /\ ~closed[s]
               /\ \A k \in Nat : last <= k /\ k < n => Announced(s, g, k)
    <3>1. start = p /\ ~closed[s] /\ last >= a + l
      BY <1>10, <1>21, <1>22, <2>5, <2>9
    <3>2. hubs[g].stream = s
      BY <1>10, <2>3, <3>1
    <3>3. b2.start = last
      BY <2>4, <2>5, <3>1
    <3>4. ASSUME NEW k \in Nat, last <= k, k < n
          PROVE  Announced(s, g, k)
      <4>1. ~o.stale
        BY <1>15, <1>22, <3>1, <3>4
      <4>2. a + l <= k
        BY <1>15, <1>22, <3>1, <3>4
      <4>3. o.start = a /\ Len(o.buf) = l
        BY <1>14, <1>15, <4>1
      <4> QED
        BY <1>13, <3>4, <4>1, <4>2, <4>3
    <3> QED
      BY <3>1, <3>2, <3>3, <3>4
  <2>10. label = "wait" => ~b2.stale
    BY <2>1, <2>5
  <2>11. b2.start + Len(b2.buf) = b2.start
    BY <2>4, <2>5
  <2>12. /\ tpc'[t] \in Subscribed /\ tpc'[t] \in {"run", "wait"}
         /\ sub'[t] = b2 /\ pos'[t] = last /\ got'[t] = q2 /\ tpc'[t] = label
    BY <1>9, <2>6, <2>7
  <2>13. UNCHANGED <<engine, store, table, hubs, loop, ready, home, handle, told>>
    BY <1>8, <2>2
  <2> HIDE DEF Announced, Coming
  <2> QED
    BY <1>1, <1>9, <1>22, <1>25, <2>5, <2>8, <2>9, <2>10, <2>11, <2>12, <2>13, GoesOn
<1> QED
  BY <1>27, <1>28

LEMMA ReleaseStep ==
    ASSUME IInv, NEW t \in Task, Release(t)
    PROVE  IInv'
<1>1. /\ tpc[t] = "held" /\ tpc' = [tpc EXCEPT ![t] = "idle"]
      /\ on' = [on EXCEPT ![t] = None] /\ via' = [via EXCEPT ![t] = None]
      /\ pos' = [pos EXCEPT ![t] = 0] /\ got' = [got EXCEPT ![t] = <<>>]
      /\ UNCHANGED <<next, closed, fileOpen, born, current, table, hubs, loop, ready>>
      /\ UNCHANGED <<home, told, sub>>
  BY DEF Release, OnLoop, Goto, engine, store
<1>2. home[t] \in 1..loop /\ born \in 0..MaxStreams
  BY RestFacts
<1>3. /\ tpc' \in [Task -> Label] /\ on' \in [Task -> Nat] /\ via' \in [Task -> Nat]
      /\ pos' \in [Task -> Nat] /\ got' \in [Task -> Seq(Record)]
      /\ tpc'[t] = "idle" /\ pos'[t] = 0
      /\ \A u \in Task \ {t} : /\ tpc'[u] = tpc[u] /\ on'[u] = on[u] /\ via'[u] = via[u]
                               /\ pos'[u] = pos[u] /\ got'[u] = got[u]
  <2>1. <<>> \in Seq(Record) /\ None \in Nat /\ "idle" \in Label
    BY EmptySeq DEF None, Label
  <2> QED
    BY <1>1, <2>1, TaskParts
<1>4. Types'
  <2>1. EngineTypes' /\ StoreTypes' /\ HubTypes' /\ LoopTypes'
    BY <1>1, Zenon DEF IInv, Types, EngineTypes, StoreTypes, HubTypes, LoopTypes
  <2>2. TaskTypes' /\ ReadingTypes'
    BY <1>1, <1>3, Zenon DEF IInv, Types, TaskTypes, ReadingTypes
  <2> QED
    BY <2>1, <2>2 DEF Types
<1>5. StreamInv'
  BY <1>1, Zenon DEF IInv, StreamInv
<1>6. \A u \in Task \ {t} : Same(u)
  BY <1>1, <1>3 DEF Same
<1>7. \A s \in 1..born : next[s] \in Nat
  BY <1>2, Bounds DEF IInv, Types, EngineTypes, Stream
<1>8. EngineGrows /\ HubsGrow
  BY <1>1, <1>2, <1>7 DEF EngineGrows, HubsGrow
<1>9. HubInv'
  BY <1>1, <1>2, <1>4, <1>6, HubsStay DEF Subscribed
<1>10. ReadyInv' /\ \A u \in Task \ {t} : TaskInv(u)'
  <2>1. \A s \in 1..born : \A k \in Nat : ~(next[s] <= k /\ k < next'[s])
    BY <1>1, <1>7
  <2> QED
    BY <1>1, <1>4, <1>6, <1>8, <2>1, OwnStep
<1>11. TaskInv(t)'
  BY <1>1, <1>2, <1>3, AtRest
<1> QED
  BY <1>4, <1>5, <1>9, <1>10, <1>11 DEF IInv

-----------------------------------------------------------------------------
(* Event loops.                                                            *)

\* With the loop goes all that was said of its tasks' wake-ups.
LEMMA CloseLoopStep ==
    ASSUME IInv, CloseLoop
    PROVE  IInv'
<1>1. /\ loop' = loop + 1 /\ ready' = <<>>
      /\ UNCHANGED <<next, closed, fileOpen, born, current, table, hubs>>
      /\ UNCHANGED <<home, tpc, on, via, told, sub, pos, got>>
  BY DEF CloseLoop, engine, store, handle, reading
<1>2. /\ loop \in Nat \ {0} /\ loop' \in Nat \ {0} /\ ready' \in Seq(Change)
      /\ DOMAIN ready' = {}
  <2>1. loop \in Nat \ {0}
    BY DEF IInv, Types, LoopTypes
  <2> QED
    BY <1>1, <2>1, EmptySeq
<1>3. Types'
  <2>1. EngineTypes' /\ StoreTypes' /\ HubTypes' /\ TaskTypes' /\ ReadingTypes'
    BY <1>1, Zenon DEF IInv, Types, EngineTypes, StoreTypes, HubTypes, TaskTypes, ReadingTypes
  <2> QED
    BY <1>2, <2>1 DEF Types, LoopTypes
<1>4. StreamInv' /\ ReadyInv'
  BY <1>1, <1>2, Zenon DEF IInv, StreamInv, ReadyInv
<1>5. HubInv'
  <2> SUFFICES ASSUME NEW h \in DOMAIN hubs
               PROVE  /\ hubs[h].stream \in 1..born
                      /\ hubs[h].subs = {} <=> hubs[h].loop = None
                      /\ hubs[h].loop <= loop'
                      /\ \A t \in hubs[h].subs :
                           home[t] = hubs[h].loop /\ tpc[t] \in Subscribed /\ via[t] = h
    BY <1>1, Zenon DEF HubInv
  <2>1. /\ hubs[h].stream \in 1..born
        /\ hubs[h].subs = {} <=> hubs[h].loop = None
        /\ hubs[h].loop <= loop
        /\ \A t \in hubs[h].subs :
             home[t] = hubs[h].loop /\ tpc[t] \in Subscribed /\ via[t] = h
    BY DEF IInv, HubInv
  <2>2. hubs[h].loop \in Nat
    <3>1. hubs[h] \in HubObject
      BY DEF IInv, Types, HubTypes
    <3> QED
      BY <3>1 DEF HubObject
  <2>3. hubs[h].loop <= loop'
    BY <1>1, <1>2, <2>1, <2>2
  <2> QED
    BY <2>1, <2>3, Zenon
<1>6. ASSUME NEW t \in Task
      PROVE  TaskInv(t)'
  <2>1. HoldInv(t) /\ ToldInv(t) /\ SubInv(t) /\ GotInv(t)
    BY DEF IInv, TaskInv
  <2>2. home[t] \in 1..loop' /\ home[t] # loop'
    <3>1. home[t] \in 1..loop
      BY <2>1 DEF HoldInv
    <3> QED
      BY <1>1, <1>2, <3>1
  <2>3. HoldInv(t)'
    <3>1. Holding(t)' = Holding(t)
      BY <1>1 DEF Holding
    <3> QED
      BY <1>1, <2>1, <2>2, <3>1, Zenon DEF HoldInv
  <2>4. ToldInv(t)' /\ GotInv(t)'
    BY <1>1, <2>1, Zenon DEF ToldInv, GotInv, Carries
  <2>5. SubInv(t)'
    <3>1. Following(t)' = Following(t) /\ End(t)' = End(t)
      BY <1>1 DEF Following, End
    <3> HIDE DEF Announced, Coming
    <3> QED
      BY <1>1, <2>1, <2>2, <3>1, Zenon DEF SubInv
  <2> QED
    BY <2>3, <2>4, <2>5 DEF TaskInv
<1> QED
  BY <1>3, <1>4, <1>5, <1>6 DEF IInv

\* Who is left of a closed loop leaves its hub, and nobody else with it.
LEMMA CollectStep ==
    ASSUME IInv, NEW t \in Task, Collect(t)
    PROVE  IInv'
<1>1. /\ tpc[t] \in Subscribed \cup {"idle", "wrap", "pop", "held"}
      /\ tpc' = [tpc EXCEPT ![t] = "idle"] /\ home' = [home EXCEPT ![t] = loop]
      /\ on' = [on EXCEPT ![t] = None] /\ via' = [via EXCEPT ![t] = None]
      /\ sub' = [sub EXCEPT ![t] = NewSub]
      /\ pos' = [pos EXCEPT ![t] = 0] /\ got' = [got EXCEPT ![t] = <<>>]
      /\ UNCHANGED <<next, closed, fileOpen, born, current, table, loop, ready, told>>
  BY DEF Collect, Goto, engine, store
<1>2. born \in 0..MaxStreams /\ loop \in Nat \ {0}
  BY RestFacts
<1>3. /\ tpc' \in [Task -> Label] /\ home' \in [Task -> Nat]
      /\ on' \in [Task -> Nat] /\ via' \in [Task -> Nat] /\ sub' \in [Task -> Subscriber]
      /\ pos' \in [Task -> Nat] /\ got' \in [Task -> Seq(Record)]
      /\ tpc'[t] = "idle" /\ pos'[t] = 0 /\ home'[t] = loop
      /\ \A u \in Task \ {t} : /\ tpc'[u] = tpc[u] /\ on'[u] = on[u] /\ via'[u] = via[u]
                               /\ home'[u] = home[u] /\ sub'[u] = sub[u]
                               /\ pos'[u] = pos[u] /\ got'[u] = got[u]
  <2>1. <<>> \in Seq(Record) /\ None \in Nat /\ "idle" \in Label /\ NewSub \in Subscriber
    BY EmptySeq DEF None, Label, NewSub, Subscriber
  <2> QED
    BY <1>1, <1>2, <2>1, TaskParts
<1>4. \A u \in Task \ {t} : Same(u)
  BY <1>1, <1>3 DEF Same
<1>5. /\ hubs' \in Seq(HubObject) /\ Len(hubs') = Len(hubs)
      /\ \A h \in DOMAIN hubs :
           /\ h \in DOMAIN hubs' /\ hubs'[h].stream = hubs[h].stream
           /\ \A u \in Task \ {t} : u \in hubs[h].subs => u \in hubs'[h].subs
  <2>1. CASE tpc[t] \in Subscribed
    <3>1. Leave(t)
      BY <2>1 DEF Collect
    <3>2. via[t] \in DOMAIN hubs
      BY <2>1, HoldFacts DEF Holding
    <3>3. /\ hubs' \in Seq(HubObject) /\ Len(hubs') = Len(hubs)
          /\ \A h \in DOMAIN hubs :
               /\ h \in DOMAIN hubs' /\ hubs'[h].stream = hubs[h].stream
               /\ h # via[t] => hubs'[h] = hubs[h]
               /\ h = via[t] => hubs'[h].subs = hubs[h].subs \ {t}
      BY <3>1, <3>2, LeaveFacts
    <3>4. ASSUME NEW h \in DOMAIN hubs, NEW u \in Task \ {t}, u \in hubs[h].subs
          PROVE  u \in hubs'[h].subs
      BY <3>3, <3>4
    <3> QED
      BY <3>3, <3>4
  <2>2. CASE tpc[t] \notin Subscribed
    <3>1. hubs' = hubs
      BY <2>2 DEF Collect
    <3>2. hubs \in Seq(HubObject)
      BY DEF IInv, Types, HubTypes
    <3> QED
      BY <3>1, <3>2
  <2> QED
    BY <2>1, <2>2
<1>6. Types'
  <2>1. EngineTypes' /\ StoreTypes' /\ LoopTypes'
    BY <1>1, Zenon DEF IInv, Types, EngineTypes, StoreTypes, LoopTypes
  <2>2. HubTypes'
    BY <1>1, <1>5 DEF IInv, Types, HubTypes
  <2>3. TaskTypes' /\ ReadingTypes'
    BY <1>1, <1>3, Zenon DEF IInv, Types, TaskTypes, ReadingTypes
  <2> QED
    BY <2>1, <2>2, <2>3 DEF Types
<1>7. StreamInv'
  BY <1>1, Zenon DEF IInv, StreamInv
<1>8. HubInv'
  <2>1. CASE tpc[t] \in Subscribed
    <3>1. Leave(t)
      BY <2>1 DEF Collect
    <3>2. via[t] \in DOMAIN hubs
      BY <2>1, HoldFacts DEF Holding
    <3> QED
      BY <1>1, <1>4, <2>1, <3>1, <3>2, HubsLeft
  <2>2. CASE tpc[t] \notin Subscribed
    <3>1. hubs' = hubs
      BY <2>2 DEF Collect
    <3> QED
      BY <1>1, <1>2, <1>4, <1>6, <2>2, <3>1, HubsStay
  <2> QED
    BY <2>1, <2>2
<1>9. \A s \in 1..born : next[s] \in Nat
  BY <1>2, Bounds DEF IInv, Types, EngineTypes, Stream
<1>10. EngineGrows /\ HubsGrow
  BY <1>1, <1>2, <1>5, <1>9 DEF EngineGrows, HubsGrow
<1>11. ReadyInv' /\ \A u \in Task \ {t} : TaskInv(u)'
  <2>1. \A s \in 1..born : \A k \in Nat : ~(next[s] <= k /\ k < next'[s])
    BY <1>1, <1>9
  <2>2. tpc[t] \notin {"notify", "tell"}
    BY <1>1 DEF Subscribed
  <2> QED
    BY <1>1, <1>4, <1>5, <1>6, <1>10, <2>1, <2>2, OwnStep
<1>12. TaskInv(t)'
  <2>1. home'[t] \in 1..loop'
    BY <1>1, <1>2, <1>3
  <2> QED
    BY <1>3, <2>1, AtRest
<1> QED
  BY <1>6, <1>7, <1>8, <1>11, <1>12 DEF IInv

-----------------------------------------------------------------------------
(* Every step, and the theorems.                                           *)

LEMMA StandStill ==
    ASSUME IInv, UNCHANGED vars
    PROVE  IInv'
<1>1. /\ UNCHANGED <<next, closed, fileOpen, born, current, table, hubs, loop, ready>>
      /\ UNCHANGED <<home, tpc, on, via, told, sub, pos, got>>
  BY DEF vars
<1>2. Types'
  BY <1>1, Zenon DEF IInv, Types, EngineTypes, StoreTypes, HubTypes, LoopTypes, TaskTypes, ReadingTypes
<1>3. StreamInv' /\ HubInv' /\ ReadyInv'
  BY <1>1, ZenonT(30) DEF IInv, StreamInv, HubInv, ReadyInv, Carries
<1>4. ASSUME NEW t \in Task
      PROVE  TaskInv(t)'
  <2>1. Holding(t)' = Holding(t) /\ Following(t)' = Following(t) /\ End(t)' = End(t)
    BY <1>1 DEF Holding, Following, End
  <2>2. HoldInv(t)' /\ ToldInv(t)' /\ GotInv(t)'
    BY <1>1, <2>1, Zenon DEF IInv, TaskInv, HoldInv, ToldInv, GotInv, Carries
  <2>3. /\ \A s, h, k : Announced(s, h, k) => Announced(s, h, k)'
        /\ \A s, h : Coming(s, h) => Coming(s, h)'
    BY <1>1 DEF Announced, Coming
  <2>4. PICK s, h : s = on[t] /\ h = via[t]
    OBVIOUS
  <2>5. /\ \A k : Announced(on[t], via[t], k)' <=> Announced(s, h, k)'
        /\ Coming(on[t], via[t])' <=> Coming(s, h)'
    BY <1>1, <2>4
  <2> HIDE DEF Announced, Coming
  <2>6. SubInv(t)
    BY DEF IInv, TaskInv
  <2>7. SubInv(t)'
    BY <1>1, <2>1, <2>3, <2>4, <2>5, <2>6, Zenon DEF SubInv
  <2> QED
    BY <2>2, <2>7 DEF TaskInv
<1> QED
  BY <1>2, <1>3, <1>4 DEF IInv

LEMMA StoreStep ==
    ASSUME IInv, NEW t \in Task,
           CreateInThread(t) \/ OpenInThread(t) \/ DeleteInThread(t) \/ ShutInThread(t)
    PROVE  IInv'
<1>1. CASE CreateInThread(t) \/ OpenInThread(t)
  <2>1. /\ OnLoop(t, "idle")
        /\ Found(t) \/ (current = None /\ OpenStream(t)) \/ Refused(t)
        /\ UNCHANGED <<table, hubs, loop, ready, home, via, told, reading>>
    BY <1>1 DEF CreateInThread, OpenInThread
  <2> QED
    BY <2>1, OpenedStep
<1>2. CASE DeleteInThread(t) \/ ShutInThread(t)
  <2>1. /\ OnLoop(t, "idle")
        /\ CloseFds(t, "pop") \/ CloseFds(t, "idle") \/ (Refused(t) /\ UNCHANGED told)
        /\ UNCHANGED <<table, hubs, loop, ready, home, handle, reading>>
    BY <1>2 DEF DeleteInThread, ShutInThread
  <2>2. CASE CloseFds(t, "pop")
    BY <2>1, <2>2, CloseFdsStep
  <2>3. CASE CloseFds(t, "idle")
    BY <2>1, <2>3, CloseFdsStep
  <2>4. CASE Refused(t) /\ UNCHANGED told
    <3>1. tpc[t] = "idle" /\ tpc' = [tpc EXCEPT ![t] = "idle"] /\ UNCHANGED <<engine, store>>
      BY <2>1, <2>4 DEF OnLoop, Refused, Goto
    <3>2. table' \in 0..Len(hubs)
      BY <2>1 DEF IInv, Types, HubTypes
    <3> QED
      BY <2>1, <2>4, <3>1, <3>2, MovesOn
  <2> QED
    BY <2>1, <2>2, <2>3, <2>4
<1> QED
  BY <1>1, <1>2

LEMMA RestStep ==
    ASSUME IInv, NEW t \in Task, Pop(t) \/ Cancelled(t)
    PROVE  IInv'
<1>1. /\ tpc[t] \in {"pop", "wrap"} /\ tpc' = [tpc EXCEPT ![t] = "idle"]
      /\ table' = None \/ table' = table
      /\ UNCHANGED <<engine, store, hubs, loop, ready, home, handle, told, reading>>
  BY DEF Pop, Cancelled, OnLoop, Goto
<1>2. table' \in 0..Len(hubs)
  <2>1. table \in 0..Len(hubs) /\ hubs \in Seq(HubObject)
    BY DEF IInv, Types, HubTypes
  <2>2. Len(hubs) \in Nat
    BY <2>1
  <2> QED
    BY <1>1, <2>1, <2>2 DEF None
<1> QED
  BY <1>1, <1>2, MovesOn

LEMMA NextIInv == IInv /\ [Next]_vars => IInv'
<1> SUFFICES ASSUME IInv, [Next]_vars
             PROVE  IInv'
  OBVIOUS
<1>1. CASE Deliver
  BY <1>1, DeliverStep
<1>2. CASE CloseLoop
  BY <1>2, CloseLoopStep
<1>3. ASSUME NEW t \in Task, Thread(t)
      PROVE  IInv'
  BY <1>3, ReadInThreadStep, NotifyStep, OnChangeStep DEF Thread
<1>4. ASSUME NEW t \in Task, Going(t)
      PROVE  IInv'
  <2>1. CASE Wrap(t) \/ CatchUp(t) \/ Drain(t)
    BY <2>1, WrapStep, CatchUpStep, DrainStep
  <2>2. CASE Pop(t)
    BY <2>2, RestStep
  <2>3. CASE Raise(t)
    BY <2>3, UnsubscribeStep DEF Raise, OnLoop, Subscribed
  <2> QED
    BY <1>4, <2>1, <2>2, <2>3 DEF Going
<1>5. ASSUME NEW t \in Task,
             CreateInThread(t) \/ OpenInThread(t) \/ DeleteInThread(t) \/ ShutInThread(t)
      PROVE  IInv'
  BY <1>5, StoreStep
<1>6. ASSUME NEW t \in Task, AppendInThread(t) \/ CloseInThread(t) \/ Subscribe(t)
      PROVE  IInv'
  BY <1>6, AppendInThreadStep, CloseInThreadStep, SubscribeStep
<1>7. ASSUME NEW t \in Task, Cancelled(t)
      PROVE  IInv'
  BY <1>7, RestStep
<1>8. ASSUME NEW t \in Task, Disconnect(t)
      PROVE  IInv'
  BY <1>8, UnsubscribeStep DEF Disconnect, OnLoop, Subscribed
<1>9. ASSUME NEW t \in Task, Release(t) \/ Collect(t)
      PROVE  IInv'
  BY <1>9, ReleaseStep, CollectStep
<1>10. CASE UNCHANGED vars
  BY <1>10, StandStill
<1> QED
  BY <1>1, <1>2, <1>3, <1>4, <1>5, <1>6, <1>7, <1>8, <1>9, <1>10 DEF Next

LEMMA InvariantHolds == Spec => []IInv
BY InitIInv, NextIInv, PTL DEF Spec

\* Whatever is deleted and created under a name, by however many tasks, a
\* subscription goes on with the records of the stream it was opened on.
THEOREM OwnRecordsOnly == Spec => []NoForeignRecords
<1>1. IInv => NoForeignRecords
  BY DEF IInv, TaskInv, GotInv, NoForeignRecords
<1> QED
  BY <1>1, InvariantHolds, PTL

\* Between an append's notification and a subscription that is about to sleep,
\* over any number of hubs of the stream, no wake-up is lost.
THEOREM WhoSleepsIsWoken == Spec => []NoLostWakeup
<1>1. ASSUME IInv, NEW t \in Task, OnLoop(t, "wait"), next[on[t]] > pos[t] \/ closed[on[t]]
      PROVE  Coming(on[t], via[t])
  <2>1. tpc[t] = "wait" /\ home[t] = loop /\ tpc[t] \in Subscribed
    BY <1>1 DEF OnLoop, Subscribed
  <2>2. SubInv(t)
    BY <1>1 DEF IInv, TaskInv
  <2>3. ~sub[t].stale /\ sub[t].buf = <<>> /\ sub[t].start = pos[t]
    BY <2>1, <2>2, Zenon DEF SubInv
  <2>4. CASE closed[on[t]]
    BY <2>1, <2>2, <2>4, Zenon DEF SubInv
  <2>5. CASE next[on[t]] > pos[t]
    <3>1. Following(t)
      BY <2>1, <2>2, <2>3 DEF SubInv, Following
    <3>2. pos[t] \in Nat /\ next[on[t]] \in Nat
      BY <1>1, <2>1, HoldFacts DEF Holding
    <3>3. End(t) = pos[t]
      <4>1. Len(<<>>) = 0
        BY EmptySeq
      <4>2. Len(sub[t].buf) = 0
        BY <2>3, <4>1
      <4> QED
        BY <2>3, <3>2, <4>2 DEF End
    <3>4. Announced(on[t], via[t], pos[t])
      BY <2>1, <2>2, <2>5, <3>1, <3>2, <3>3 DEF SubInv
    <3>5. PICK s, h, k : s = on[t] /\ h = via[t] /\ k = pos[t]
      OBVIOUS
    <3>6. Coming(s, h)
      BY <3>4, <3>5, AnnouncedComes
    <3> QED
      BY <3>5, <3>6
  <2> QED
    BY <1>1, <2>4, <2>5
<1>2. IInv => NoLostWakeup
  BY <1>1 DEF NoLostWakeup
<1> QED
  BY <1>2, InvariantHolds, PTL

\* However many loops come and go, no hub ever has subscribers of two.
THEOREM OneLoopEach == Spec => []OneLoop
<1>1. IInv => OneLoop
  BY DEF IInv, HubInv, OneLoop
<1> QED
  BY <1>1, InvariantHolds, PTL
=============================================================================
