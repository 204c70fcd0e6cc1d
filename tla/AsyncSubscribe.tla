--------------------------- MODULE AsyncSubscribe ---------------------------
(***************************************************************************)
(* The live tail of one stream in one process: writer threads append, the  *)
(* stream's _Hub hands their records to the event loop, and subscribers    *)
(* (AsyncDurableStream.subscribe) and waiters (wait) run there.            *)
(*                                                                         *)
(* A record is its own offset, so a sequence of records shows by its       *)
(* numbers whether something is missing, doubled or out of order.  The log *)
(* is the number of records its index holds.                               *)
(*                                                                         *)
(* The event loop runs one client at a time, up to its next await: running *)
(* names it and ready is the loop's first-in-first-out queue.  What a      *)
(* client reads of the engine (next_offset, closed) is read without the    *)
(* engine's lock, so writer threads step in between: each such read is a   *)
(* step of its own.                                                        *)
(***************************************************************************)
EXTENDS Naturals, SequencesExt

CONSTANTS
    Writer,      \* threads that append, close and delete
    Sub,         \* calls of subscribe
    Waiter,      \* calls of wait
    Nobody,      \* the value of lock and running when they are free
    MaxRecords,  \* bound: records ever appended
    MaxBatch,    \* bound: records of one append_many
    MaxReady,    \* bound: what the loop has to run when an append fails
    LagLimit     \* _LAG_LIMIT (a byte limit works the same way)

ASSUME RolesDistinct ==
    /\ Sub \cap Waiter = {}
    /\ Nobody \notin Writer \cup Sub \cup Waiter
ASSUME Limits ==
    /\ MaxRecords \in Nat /\ MaxBatch \in Nat \ {0}
    /\ MaxReady \in Nat /\ LagLimit \in Nat \ {0}

Client == Sub \cup Waiter

\* The loop's queue tells a client from a change.
ASSUME ClientsAreNoChanges ==
    \A c \in Client : c \notin [start : Nat, records : Seq(Nat)]

VARIABLES
    next,       \* the engine: next_offset, the number of published records
    closed,     \* the engine: _closed
    fileOpen,   \* the engine: _file is not None
    lock,       \* the engine: who holds its lock
    wpc,        \* wpc[w]: where a writer thread is
    note,       \* note[w]: the change it is about to notify, [start, records]
    todo,       \* todo[w]: records of its batch not yet in the index
    subs,       \* the hub: _subs
    listening,  \* the hub: a listener is registered and _loop is set
    ready,      \* the loop's queue: changes to deliver and clients to run
    running,    \* the client the loop runs
    cpc,        \* cpc[c]: where a client is
    from,       \* from[c]: the offset it was called with
    pos,        \* pos[s]: the offset of the next record it will yield
    got,        \* got[s]: the records it has yielded
    replay,     \* replay[s]: records read from disk and not yet yielded
    buf,        \* buf[c]: _Sub.buf
    start,      \* start[c]: _Sub.start
    stale,      \* stale[c]: _Sub.stale
    event       \* event[c]: _Sub.event is set

engine == <<next, closed, fileOpen, lock>>
writers == <<wpc, note, todo>>
hub == <<subs, listening>>
loop == <<ready, running>>
view == <<buf, start, stale, event>>
progress == <<from, pos, got, replay>>
vars == <<next, closed, fileOpen, lock, wpc, note, todo, subs, listening, ready,
          running, cpc, from, pos, got, replay, buf, start, stale, event>>

-----------------------------------------------------------------------------
\* The n records from offset o on.
Records(o, n) == [i \in 1..n |-> o + i - 1]

Change(o, n) == [start |-> o, records |-> Records(o, n)]

Init ==
    /\ next = 0 /\ closed = FALSE /\ fileOpen = TRUE /\ lock = Nobody
    /\ wpc = [w \in Writer |-> "idle"]
    /\ note = [w \in Writer |-> Change(0, 0)]
    /\ todo = [w \in Writer |-> 0]
    /\ subs = {} /\ listening = FALSE
    /\ ready = <<>> /\ running = Nobody
    /\ cpc = [c \in Client |-> "new"]
    /\ from = [c \in Client |-> 0]
    /\ pos = [s \in Sub |-> 0]
    /\ got = [s \in Sub |-> <<>>]
    /\ replay = [s \in Sub |-> <<>>]
    /\ buf = [c \in Client |-> <<>>]
    /\ start = [c \in Client |-> 0]
    /\ stale = [c \in Client |-> TRUE]
    /\ event = [c \in Client |-> FALSE]

-----------------------------------------------------------------------------
(* Writer threads.                                                         *)

WGoto(w, label) == wpc' = [wpc EXCEPT ![w] = label]

\* append_many has the lock and its frames are on disk: what is left is to
\* put them into the index one by one.
AppendBegin(w, n) ==
    /\ wpc[w] = "idle"
    /\ lock = Nobody
    /\ ~closed
    /\ n > 0 /\ next + n <= MaxRecords
    /\ lock' = w
    /\ todo' = [todo EXCEPT ![w] = n]
    /\ note' = [note EXCEPT ![w] = Change(next, n)]
    /\ WGoto(w, "publish")
    /\ UNCHANGED <<next, closed, fileOpen, hub, loop, cpc, progress, view>>

\* One more record is in the index, where next_offset sees it at once; the
\* last one also ends the critical section.
Publish(w) ==
    /\ wpc[w] = "publish"
    /\ next' = next + 1
    /\ todo' = [todo EXCEPT ![w] = @ - 1]
    /\ IF todo[w] = 1 THEN lock' = Nobody /\ WGoto(w, "notify")
                      ELSE UNCHANGED <<lock, wpc>>
    /\ UNCHANGED <<closed, fileOpen, note, hub, loop, cpc, progress, view>>

\* An append raises, on a closed stream, for a payload too large or a write that
\* was rolled back, and tells so: a change without records.  It may also be a
\* delete that raises before it closes the stream.
AppendFails(w) ==
    /\ wpc[w] = "idle"
    /\ Len(ready) <= MaxReady
    /\ note' = [note EXCEPT ![w] = Change(next, 0)]
    /\ WGoto(w, "notify")
    /\ UNCHANGED <<engine, todo, hub, loop, cpc, progress, view>>

\* close(), or an append that disables the stream: the flag is set under the
\* lock, the notification follows.
Close(w) ==
    /\ wpc[w] = "idle"
    /\ lock = Nobody
    /\ ~closed
    /\ closed' = TRUE
    /\ note' = [note EXCEPT ![w] = Change(next, 0)]
    /\ WGoto(w, "notify")
    /\ UNCHANGED <<next, fileOpen, lock, todo, hub, loop, cpc, progress, view>>

\* Store.delete or Store.close: _close_fds, then _notify_closed.
CloseFds(w) ==
    /\ wpc[w] = "idle"
    /\ lock = Nobody
    /\ fileOpen
    /\ closed' = TRUE /\ fileOpen' = FALSE
    /\ note' = [note EXCEPT ![w] = Change(next, 0)]
    /\ WGoto(w, "notify")
    /\ UNCHANGED <<next, lock, todo, hub, loop, cpc, progress, view>>

\* Mutant of Notify: a change without records is taken for no change.
NotifyRecordsOnly(w) ==
    /\ wpc[w] = "notify"
    /\ WGoto(w, IF listening /\ note[w].records # <<>> THEN "call" ELSE "idle")
    /\ UNCHANGED <<engine, note, todo, hub, loop, cpc, progress, view>>

\* _notify takes its snapshot of the listeners.
Notify(w) ==
    /\ wpc[w] = "notify"
    /\ WGoto(w, IF listening THEN "call" ELSE "idle")
    /\ UNCHANGED <<engine, note, todo, hub, loop, cpc, progress, view>>

\* _on_change hands the change to the loop, if the hub still has one.
OnChange(w) ==
    /\ wpc[w] = "call"
    /\ ready' = IF listening THEN Append(ready, note[w]) ELSE ready
    /\ WGoto(w, "idle")
    /\ UNCHANGED <<engine, note, todo, hub, running, cpc, progress, view>>

-----------------------------------------------------------------------------
(* The hub on the event loop.                                              *)

Goto(c, label) == cpc' = [cpc EXCEPT ![c] = label]

\* The client goes on without giving up the loop.
Continue(c, label) == Goto(c, label) /\ UNCHANGED loop

\* The client awaits something.
Suspend(c, label) == Goto(c, label) /\ running' = Nobody /\ UNCHANGED ready

\* The loop takes a client out of its queue.
Run(c) ==
    /\ running = Nobody
    /\ ready # <<>> /\ Head(ready) = c
    /\ running' = c /\ ready' = Tail(ready)
    /\ UNCHANGED <<engine, writers, hub, cpc, progress, view>>

\* join: a new _Sub, and the hub's listener if this is the first.
Join(c, o) ==
    /\ cpc[c] = "new"
    /\ running = Nobody
    /\ from' = [from EXCEPT ![c] = o]
    /\ IF c \in Sub THEN pos' = [pos EXCEPT ![c] = o] ELSE UNCHANGED pos
    /\ subs' = subs \cup {c} /\ listening' = TRUE
    /\ running' = c /\ UNCHANGED ready
    /\ Goto(c, IF c \in Sub THEN "top" ELSE "test")
    /\ UNCHANGED <<engine, writers, got, replay, view>>

\* Mutant of Leave: the listener stays registered.
LeaveListener(c, label) ==
    /\ subs' = subs \ {c}
    /\ UNCHANGED listening
    /\ Suspend(c, label)

\* leave: the last one out removes the listener.
Leave(c, label) ==
    /\ subs' = subs \ {c}
    /\ listening' = (listening /\ subs' # {})
    /\ Suspend(c, label)

\* The consumer closes the generator, or its task is cancelled, at an await.
Cancel(c) ==
    /\ cpc[c] \in {"wait", "paused", "reading"}
    /\ running = Nobody
    /\ Leave(c, "left")
    /\ UNCHANGED <<engine, writers, progress, view>>

\* _Sub.deliver: what the buffer of client c becomes for a change.
Extended(c, change) ==
    LET end == start[c] + Len(buf[c])
        new == SubSeq(change.records, end - change.start + 1, Len(change.records))
    IN  IF ~stale[c] /\ change.start <= end THEN buf[c] \o new ELSE buf[c]

\* Mutant of Overtaken: no limit to the buffer.
OvertakenByHoleOnly(c, change) ==
    ~stale[c] /\ change.records # <<>> /\ change.start > start[c] + Len(buf[c])

\* The change does not connect to the buffer, or makes it too long.
Overtaken(c, change) ==
    /\ ~stale[c]
    /\ change.records # <<>>
    /\ \/ change.start > start[c] + Len(buf[c])
       \/ Len(Extended(c, change)) > LagLimit

\* Mutant of Deliver: the buffer is given up but the client is not woken.
DeliverSilentWhenStale(change) ==
    LET dropped == {c \in subs : stale[c] \/ Overtaken(c, change)}
        woken   == {c \in subs \ dropped : cpc[c] = "wait"}
    IN  /\ stale' = [c \in Client |-> IF c \in dropped THEN TRUE ELSE stale[c]]
        /\ buf' = [c \in Client |->
                     IF c \in dropped THEN <<>>
                     ELSE IF c \in subs THEN Extended(c, change) ELSE buf[c]]
        /\ event' = [c \in Client |-> event[c] \/ c \in subs \ dropped]
        /\ cpc' = [c \in Client |->
                     IF c \notin woken THEN cpc[c]
                     ELSE IF c \in Sub THEN "top" ELSE "test"]
        /\ \E order \in SetToSeqs(woken) : ready' = Tail(ready) \o order

\* _Hub._deliver: every subscriber takes the change and is woken.
Deliver(change) ==
    LET dropped == {c \in subs : stale[c] \/ Overtaken(c, change)}
        woken   == {c \in subs : cpc[c] = "wait"}
    IN  /\ stale' = [c \in Client |-> IF c \in dropped THEN TRUE ELSE stale[c]]
        /\ buf' = [c \in Client |->
                     IF c \in dropped THEN <<>>
                     ELSE IF c \in subs THEN Extended(c, change) ELSE buf[c]]
        /\ event' = [c \in Client |-> event[c] \/ c \in subs]
        /\ cpc' = [c \in Client |->
                     IF c \notin woken THEN cpc[c]
                     ELSE IF c \in Sub THEN "top" ELSE "test"]
        /\ \E order \in SetToSeqs(woken) : ready' = Tail(ready) \o order

RunDeliver ==
    /\ running = Nobody
    /\ ready # <<>> /\ Head(ready) \notin Client
    /\ Deliver(Head(ready))
    /\ UNCHANGED <<engine, writers, hub, running, progress, start>>

-----------------------------------------------------------------------------
(* subscribe.                                                              *)

\* At the top of the loop with a stale buffer: start over from disk.
CatchUp(s) ==
    /\ running = s /\ cpc[s] = "top"
    /\ stale[s]
    /\ stale' = [stale EXCEPT ![s] = FALSE]
    /\ buf' = [buf EXCEPT ![s] = <<>>]
    /\ Continue(s, "mark")
    /\ UNCHANGED <<engine, writers, hub, progress, start, event>>

\* Live records are taken from the current end on.
Mark(s) ==
    /\ running = s /\ cpc[s] = "mark"
    /\ start' = [start EXCEPT ![s] = next]
    /\ Continue(s, "read")
    /\ UNCHANGED <<engine, writers, hub, progress, buf, stale, event>>

\* Mutant of Read: off by one, a single new record counts as nothing.
ReadAlmost(s) ==
    /\ running = s /\ cpc[s] = "read"
    /\ IF pos[s] + 1 >= next THEN Continue(s, "top") ELSE Suspend(s, "reading")
    /\ UNCHANGED <<engine, writers, hub, progress, view>>

\* read: nothing new needs no thread.
Read(s) ==
    /\ running = s /\ cpc[s] = "read"
    /\ IF pos[s] >= next THEN Continue(s, "top") ELSE Suspend(s, "reading")
    /\ UNCHANGED <<engine, writers, hub, progress, view>>

\* The engine's read in a worker thread, under the engine's lock.
ReadInThread(s) ==
    /\ cpc[s] = "reading"
    /\ lock = Nobody
    /\ IF fileOpen
       THEN /\ replay' = [replay EXCEPT ![s] = Records(pos[s], next - pos[s])]
            /\ Goto(s, "replay")
       ELSE UNCHANGED replay /\ Goto(s, "raise")
    /\ ready' = Append(ready, s)
    /\ UNCHANGED <<engine, writers, hub, running, from, pos, got, view>>

\* read raised StreamClosed: the stream was deleted before s drained it.
Raise(s) ==
    /\ running = s /\ cpc[s] = "raise"
    /\ Leave(s, "failed")
    /\ UNCHANGED <<engine, writers, progress, view>>

\* A record is yielded: the consumer comes back at once or after a while.
Yield(s, record) ==
    /\ got' = [got EXCEPT ![s] = Append(@, record)]
    /\ pos' = [pos EXCEPT ![s] = @ + 1]
    /\ Continue(s, "replay") \/ Suspend(s, "paused")

\* Yield what was read from disk, then go on with the live records.
Replay(s) ==
    /\ running = s /\ cpc[s] = "replay"
    /\ \/ /\ replay[s] # <<>>
          /\ Yield(s, Head(replay[s]))
          /\ replay' = [replay EXCEPT ![s] = Tail(@)]
       \/ /\ replay[s] = <<>>
          /\ Continue(s, "top")
          /\ UNCHANGED <<got, pos, replay>>
    /\ UNCHANGED <<engine, writers, hub, from, view>>

\* The consumer asks for the next record.
Consume(s) ==
    /\ cpc[s] = "paused"
    /\ Goto(s, "replay")
    /\ ready' = Append(ready, s)
    /\ UNCHANGED <<engine, writers, hub, running, progress, view>>

\* Mutant of Passed: records yielded from disk stay in the buffer.
PassedNone(s) == 0

\* How many buffered records were already yielded from disk.
Passed(s) == Min({Len(buf[s]), IF pos[s] > start[s] THEN pos[s] - start[s] ELSE 0})

\* _Sub.start once those are dropped; an empty buffer starts no lower than pos.
LiveStart(s) ==
    IF Passed(s) < Len(buf[s]) THEN start[s] + Passed(s)
    ELSE Max({start[s] + Passed(s), pos[s]})

Live(s) == SubSeq(buf[s], Passed(s) + 1, Len(buf[s]))

\* There is no hole between what was read from disk and the live records.  The
\* code falls back to the disk at one (aio.py 187-189); NoHole says that this
\* never happens, and there is no action for it.
Connected(s) == LiveStart(s) <= pos[s]

\* Yield a live record.
TakeLive(s) ==
    /\ running = s /\ cpc[s] = "top" /\ ~stale[s]
    /\ Connected(s)
    /\ Live(s) # <<>>
    /\ Yield(s, Head(Live(s)))
    /\ buf' = [buf EXCEPT ![s] = Tail(Live(s))]
    /\ start' = [start EXCEPT ![s] = LiveStart(s) + 1]
    /\ UNCHANGED <<engine, writers, hub, from, replay, stale, event>>

\* Nothing live: look whether the stream is closed; if not, clear the event.
Check(s) ==
    /\ running = s /\ cpc[s] = "top" /\ ~stale[s]
    /\ Connected(s)
    /\ Live(s) = <<>>
    /\ buf' = [buf EXCEPT ![s] = <<>>]
    /\ start' = [start EXCEPT ![s] = LiveStart(s)]
    /\ IF closed THEN Continue(s, "final") /\ UNCHANGED event
       ELSE Continue(s, "recheck") /\ event' = [event EXCEPT ![s] = FALSE]
    /\ UNCHANGED <<engine, writers, hub, progress, stale>>

\* Mutant of Final: a closed stream ends every subscription.
FinalAtOnce(s) ==
    /\ running = s /\ cpc[s] = "final"
    /\ Leave(s, "ended")
    /\ UNCHANGED <<engine, writers, progress, view>>

\* Closed: the subscription ends when it is drained; if a close overtook its
\* deliveries, the rest comes from disk.
Final(s) ==
    /\ running = s /\ cpc[s] = "final"
    /\ IF pos[s] >= next
       THEN Leave(s, "ended") /\ UNCHANGED stale
       ELSE /\ stale' = [stale EXCEPT ![s] = TRUE]
            /\ Continue(s, "top") /\ UNCHANGED hub
    /\ UNCHANGED <<engine, writers, progress, buf, start, event>>

\* The event is clear: look again, and only then sleep.
Recheck(s) ==
    /\ running = s /\ cpc[s] = "recheck"
    /\ IF closed THEN Continue(s, "top") ELSE Suspend(s, "wait")
    /\ UNCHANGED <<engine, writers, hub, progress, view>>

-----------------------------------------------------------------------------
(* wait: the same wake-ups, with tests of its own.                         *)

\* The loop's test: a record past the offset exists.
Test(c) ==
    /\ running = c /\ cpc[c] = "test"
    /\ IF next <= from[c] THEN Continue(c, "testClosed") /\ UNCHANGED hub
                          ELSE Leave(c, "true")
    /\ UNCHANGED <<engine, writers, progress, view>>

TestClosed(c) ==
    /\ running = c /\ cpc[c] = "testClosed"
    /\ IF closed THEN Leave(c, "false") /\ UNCHANGED event
       ELSE /\ event' = [event EXCEPT ![c] = FALSE]
            /\ Continue(c, "retest") /\ UNCHANGED hub
    /\ UNCHANGED <<engine, writers, progress, buf, start, stale>>

\* The event is clear: both tests again, and only then sleep.
Retest(c) ==
    /\ running = c /\ cpc[c] = "retest"
    /\ Continue(c, IF next <= from[c] THEN "recheckClosed" ELSE "test")
    /\ UNCHANGED <<engine, writers, hub, progress, view>>

RecheckClosed(c) ==
    /\ running = c /\ cpc[c] = "recheckClosed"
    /\ IF closed THEN Continue(c, "test") ELSE Suspend(c, "wait")
    /\ UNCHANGED <<engine, writers, hub, progress, view>>

-----------------------------------------------------------------------------
WriterStep(w) ==
    \/ \E n \in 1..MaxBatch : AppendBegin(w, n)
    \/ Publish(w) \/ AppendFails(w) \/ Close(w) \/ CloseFds(w) \/ Notify(w) \/ OnChange(w)

\* Steps of the code a client runs on the loop.
SubStep(s) ==
    \/ CatchUp(s) \/ Mark(s) \/ Read(s) \/ Raise(s) \/ Replay(s)
    \/ TakeLive(s) \/ Check(s) \/ Final(s) \/ Recheck(s)
WaiterStep(c) == Test(c) \/ TestClosed(c) \/ Retest(c) \/ RecheckClosed(c)

LoopStep ==
    \/ \E c \in Client : Run(c)
    \/ RunDeliver
    \/ \E s \in Sub : SubStep(s)
    \/ \E c \in Waiter : WaiterStep(c)

Next ==
    \/ \E w \in Writer : WriterStep(w)
    \/ \E c \in Client, o \in 0..MaxRecords : Join(c, o)
    \/ \E c \in Client : Cancel(c)
    \/ \E s \in Sub : ReadInThread(s) \/ Consume(s)
    \/ LoopStep

Spec == Init /\ [][Next]_vars

\* The loop keeps running its queue, a thread that has begun goes on, and
\* consumers come back for more.  Nobody has to append, close or subscribe.
Fairness ==
    /\ WF_vars(LoopStep)
    /\ \A w \in Writer : WF_vars(Publish(w) \/ Notify(w) \/ OnChange(w))
    /\ \A s \in Sub : WF_vars(ReadInThread(s)) /\ WF_vars(Consume(s))

FairSpec == Spec /\ Fairness

-----------------------------------------------------------------------------
(* Properties.                                                             *)

TypeOK ==
    /\ next \in 0..MaxRecords
    /\ closed \in BOOLEAN /\ fileOpen \in BOOLEAN
    /\ lock \in Writer \cup {Nobody} /\ running \in Client \cup {Nobody}
    /\ wpc \in [Writer -> {"idle", "publish", "notify", "call"}]
    /\ todo \in [Writer -> 0..MaxBatch]
    /\ subs \subseteq Client /\ listening = (subs # {})
    /\ stale \in [Client -> BOOLEAN] /\ event \in [Client -> BOOLEAN]
    /\ start \in [Client -> Nat] /\ pos \in [Sub -> Nat]

\* A subscriber gets the records from its offset on, each once, in order,
\* across replay, live hand-over, lag and close (api.md: "replay from offset,
\* then each new record as it is appended").
InOrderOnce == \A s \in Sub : got[s] = Records(from[s], Len(got[s]))

\* After a replay the live records connect to it without a hole, whatever was
\* appended while it read: the fall-back for a hole is never taken.
NoHole == \A s \in Sub : cpc[s] = "top" /\ ~stale[s] => Connected(s)

\* A client that falls behind holds at most LagLimit records in memory.
LagBounded == \A c \in Client : Len(buf[c]) <= LagLimit

\* A subscription that ended by itself has yielded everything the closed
\* stream holds from its offset on ("ends once closed and drained").
EndedDrained ==
    \A s \in Sub : cpc[s] = "ended" => closed /\ from[s] + Len(got[s]) >= next

\* A change that will wake the loop is on its way.
Coming == \/ \E i \in DOMAIN ready : ready[i] \notin Client
          \/ \E w \in Writer : wpc[w] \in {"publish", "notify", "call"}

\* Nobody sleeps on a change that is already over: a sleeping client has no
\* record to fetch and no close to see, or its wake-up is on the way.
NoLostWakeup ==
    /\ \A s \in Sub : cpc[s] = "wait" /\ (next > pos[s] \/ closed) => Coming
    /\ \A c \in Waiter : cpc[c] = "wait" /\ (next > from[c] \/ closed) => Coming

Over(c) == cpc[c] \in {"left", "failed", "ended", "true", "false"}

\* Every subscriber eventually gets every record past its offset, unless it
\* goes away or the stream is deleted under it.
AllDelivered ==
    \A s \in Sub : \A k \in 1..MaxRecords :
        (cpc[s] # "new" /\ from[s] < k /\ k <= next)
            ~> (from[s] + Len(got[s]) >= k \/ Over(s))

\* Closing the stream ends every subscription and every wait.
CloseEndsAll == \A c \in Client : (closed /\ cpc[c] # "new") ~> Over(c)
=============================================================================
