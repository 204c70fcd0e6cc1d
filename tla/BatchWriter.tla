---------------------------- MODULE BatchWriter ----------------------------
(***************************************************************************)
(* AsyncBatchWriter: records are buffered and appended in batches, by a    *)
(* timer, by flush() and by close().                                       *)
(*                                                                         *)
(* Everything but the append itself runs on one event loop and is atomic   *)
(* between two awaits.  A flush awaits three things: the asyncio.Lock      *)
(* (first come, first served), its append_many task, whose work is done in *)
(* a thread, and, when it is cancelled meanwhile, that same task once      *)
(* more.  Records are numbered in the order in which write() took them.    *)
(*                                                                         *)
(* Taking a free lock does not suspend a coroutine; a step of its own for  *)
(* it only adds interleavings.                                             *)
(***************************************************************************)
EXTENDS Naturals, SequencesExt

CONSTANTS
    Timer,        \* _flush_later tasks; their number bounds those alive at once
    Caller,       \* tasks that call flush() and close()
    NoTimer,      \* _timer is None
    MaxRecords    \* bound: records ever written

Flusher == Timer \cup Caller

ASSUME RolesDistinct == Timer \cap Caller = {} /\ NoTimer \notin Flusher
ASSUME Bounds == MaxRecords \in Nat

VARIABLES
    written,  \* how many records write() has taken: 1, 2, ..., written
    buf,      \* _buf
    timer,    \* _timer
    error,    \* _error is set
    wclosed,  \* _closed
    queue,    \* _lock: its holder, then those waiting for it
    pc,       \* pc[f]: where a flush is
    kind,     \* kind[c]: what a caller called last
    mark,     \* mark[c]: history, the records written when it called
    task,     \* task[f]: its append_many task
    batch,    \* batch[f]: the records of that task
    log,      \* the stream: records that are durable
    excused,  \* history: an append has failed, or a close() was cancelled
    abandoned \* history: a caller was cancelled again in its append

vars == <<written, buf, timer, error, wclosed, queue, pc, kind, mark, task,
          batch, log, excused, abandoned>>

Init ==
    /\ written = 0 /\ buf = <<>>
    /\ timer = NoTimer /\ error = FALSE /\ wclosed = FALSE
    /\ queue = <<>>
    /\ pc = [f \in Flusher |-> "free"]
    /\ kind = [c \in Caller |-> "flush"]
    /\ mark = [c \in Caller |-> 0]
    /\ task = [f \in Flusher |-> "none"]
    /\ batch = [f \in Flusher |-> <<>>]
    /\ log = <<>>
    /\ excused = FALSE /\ abandoned = FALSE

Goto(f, label) == pc' = [pc EXCEPT ![f] = label]

\* f leaves the lock's queue: it releases the lock or stops waiting for it.
Release(f) ==
    \E i \in DOMAIN queue :
        queue[i] = f /\ queue' = [j \in 1..Len(queue) - 1 |->
                                    IF j < i THEN queue[j] ELSE queue[j + 1]]

-----------------------------------------------------------------------------
(* write, and the timer it starts.                                         *)

\* write(): the record is buffered; a timer runs unless one is pending.
Write ==
    /\ ~error /\ ~wclosed /\ written < MaxRecords
    /\ written' = written + 1
    /\ buf' = Append(buf, written + 1)
    /\ IF timer # NoTimer THEN UNCHANGED <<timer, pc>>
       ELSE \E t \in Timer : pc[t] = "free" /\ timer' = t /\ Goto(t, "sleep")
    /\ UNCHANGED <<error, wclosed, queue, kind, mark, task, batch, log,
                   excused, abandoned>>

\* write() raises the pending error; its record is not taken.
WriteRaises ==
    /\ error
    /\ error' = FALSE
    /\ UNCHANGED <<written, buf, timer, wclosed, queue, pc, kind, mark, task,
                   batch, log, excused, abandoned>>

\* Mutant of TimerFires: _timer is not cleared.
TimerFiresKeeps(t) ==
    /\ pc[t] = "sleep"
    /\ IF error THEN Goto(t, "free") /\ UNCHANGED queue
       ELSE Goto(t, "queued") /\ queue' = Append(queue, t)
    /\ UNCHANGED <<written, buf, timer, error, wclosed, kind, mark, task,
                   batch, log, excused, abandoned>>

\* The window is over.  A pending error makes the flush raise at once, and
\* _flush_later keeps it pending.
TimerFires(t) ==
    /\ pc[t] = "sleep"
    /\ timer' = NoTimer
    /\ IF error THEN Goto(t, "free") /\ UNCHANGED queue
       ELSE Goto(t, "queued") /\ queue' = Append(queue, t)
    /\ UNCHANGED <<written, buf, error, wclosed, kind, mark, task, batch, log,
                   excused, abandoned>>

-----------------------------------------------------------------------------
(* flush and close.                                                        *)

\* flush() without a pending error asks for the lock; with one it raises it.
FlushBegin(c) ==
    /\ pc[c] \in {"free", "returned"}
    /\ kind' = [kind EXCEPT ![c] = "flush"]
    /\ mark' = [mark EXCEPT ![c] = written]
    /\ error' = FALSE
    /\ IF error THEN Goto(c, "free") /\ UNCHANGED queue
       ELSE Goto(c, "queued") /\ queue' = Append(queue, c)
    /\ UNCHANGED <<written, buf, timer, wclosed, task, batch, log, excused,
                   abandoned>>

\* Mutant of CloseBegin: the cancelled timer stays in _timer.
CloseKeepsTimer(c) ==
    /\ pc[c] \in {"free", "returned"}
    /\ kind' = [kind EXCEPT ![c] = "close"]
    /\ mark' = [mark EXCEPT ![c] = written]
    /\ error' = FALSE
    /\ pc' = [f \in Flusher |->
                IF f = timer THEN "free"
                ELSE IF f # c THEN pc[f]
                ELSE IF error THEN "free" ELSE "queued"]
    /\ queue' = IF error THEN queue ELSE Append(queue, c)
    /\ UNCHANGED <<written, buf, timer, wclosed, task, batch, log, excused,
                   abandoned>>

\* close() cancels a timer that still sleeps, and flushes.
CloseBegin(c) ==
    /\ pc[c] \in {"free", "returned"}
    /\ kind' = [kind EXCEPT ![c] = "close"]
    /\ mark' = [mark EXCEPT ![c] = written]
    /\ timer' = NoTimer
    /\ error' = FALSE
    /\ pc' = [f \in Flusher |->
                IF f = timer THEN "free"
                ELSE IF f # c THEN pc[f]
                ELSE IF error THEN "free" ELSE "queued"]
    /\ queue' = IF error THEN queue ELSE Append(queue, c)
    /\ UNCHANGED <<written, buf, wclosed, task, batch, log, excused,
                   abandoned>>

\* A flush that ends without an exception; close() then sets _closed.
Return(f) ==
    /\ Goto(f, IF f \in Caller THEN "returned" ELSE "free")
    /\ wclosed' = (wclosed \/ (f \in Caller /\ kind[f] = "close"))

\* With the lock: take the buffer and start its append.
Take(f) ==
    /\ pc[f] = "queued" /\ Head(queue) = f
    /\ buf # <<>>
    /\ batch' = [batch EXCEPT ![f] = buf] /\ buf' = <<>>
    /\ task' = [task EXCEPT ![f] = "running"]
    /\ Goto(f, "append")
    /\ UNCHANGED <<written, timer, error, wclosed, queue, kind, mark, log,
                   excused, abandoned>>

\* Mutant of TakeNothing: an empty buffer ends a flush before it has the lock.
TakeNothingUnlocked(f) ==
    /\ pc[f] = "queued"
    /\ buf = <<>>
    /\ Release(f)
    /\ Return(f)
    /\ UNCHANGED <<written, buf, timer, error, kind, mark, task, batch, log,
                   excused, abandoned>>

\* With the lock and nothing to append.
TakeNothing(f) ==
    /\ pc[f] = "queued" /\ Head(queue) = f
    /\ buf = <<>>
    /\ Release(f)
    /\ Return(f)
    /\ UNCHANGED <<written, buf, timer, error, kind, mark, task, batch, log,
                   excused, abandoned>>

\* The thread's append_many: all of the batch is durable, or none of it.
AppendOk(f) ==
    /\ task[f] = "running"
    /\ task' = [task EXCEPT ![f] = "ok"]
    /\ log' = log \o batch[f]
    /\ UNCHANGED <<written, buf, timer, error, wclosed, queue, pc, kind, mark,
                   batch, excused, abandoned>>

AppendFails(f) ==
    /\ task[f] = "running"
    /\ task' = [task EXCEPT ![f] = "failed"]
    /\ excused' = TRUE
    /\ UNCHANGED <<written, buf, timer, error, wclosed, queue, pc, kind, mark,
                   batch, log, abandoned>>

\* Mutant of PutBack: the failed batch goes behind what was written since.
PutBackLast(f) ==
    buf' = IF task[f] = "failed" THEN buf \o batch[f] ELSE buf

\* A batch that failed goes back to the front of the buffer.
PutBack(f) ==
    buf' = IF task[f] = "failed" THEN batch[f] \o buf ELSE buf

TaskGone(f) ==
    /\ task' = [task EXCEPT ![f] = "none"]
    /\ batch' = [batch EXCEPT ![f] = <<>>]

\* The append is over: the flush returns or raises and releases the lock.  A
\* timer's exception is kept for the next call.
Finish(f) ==
    /\ pc[f] = "append"
    /\ task[f] \in {"ok", "failed"}
    /\ PutBack(f)
    /\ TaskGone(f)
    /\ Release(f)
    /\ IF task[f] = "ok" THEN Return(f) ELSE Goto(f, "free") /\ UNCHANGED wclosed
    /\ error' = (error \/ (f \in Timer /\ task[f] = "failed"))
    /\ UNCHANGED <<written, timer, kind, mark, log, excused, abandoned>>

\* The caller is cancelled while it waits for the lock.
CancelQueued(c) ==
    /\ pc[c] = "queued"
    /\ Release(c)
    /\ Goto(c, "free")
    /\ excused' = (excused \/ kind[c] = "close")
    /\ UNCHANGED <<written, buf, timer, error, wclosed, kind, mark, task,
                   batch, log, abandoned>>

\* Mutant of CancelAppend: the lock is given up while the append runs on.
CancelAppendReleases(c) ==
    /\ pc[c] = "append"
    /\ Release(c)
    /\ Goto(c, "orphan")
    /\ UNCHANGED <<written, buf, timer, error, wclosed, kind, mark, task,
                   batch, log, excused, abandoned>>

\* The caller is cancelled in its append: the shield lets the append go on,
\* and _append waits for it before the lock may go.
CancelAppend(c) ==
    /\ pc[c] = "append"
    /\ Goto(c, "drain")
    /\ UNCHANGED <<written, buf, timer, error, wclosed, queue, kind, mark,
                   task, batch, log, excused, abandoned>>

\* The append it waited for is over; CancelledError goes on to the caller.
FinishCancelled(c) ==
    /\ pc[c] = "drain"
    /\ task[c] \in {"ok", "failed"}
    /\ PutBack(c)
    /\ TaskGone(c)
    /\ Release(c)
    /\ Goto(c, "free")
    /\ excused' = (excused \/ kind[c] = "close")
    /\ UNCHANGED <<written, timer, error, wclosed, kind, mark, log, abandoned>>

\* Cancelled again: the wait is given up, and the lock with it.  Bound: this
\* happens to one caller.
CancelDrain(c) ==
    /\ pc[c] = "drain"
    /\ ~abandoned
    /\ Release(c)
    /\ Goto(c, "orphan")
    /\ abandoned' = TRUE
    /\ excused' = (excused \/ kind[c] = "close")
    /\ UNCHANGED <<written, buf, timer, error, wclosed, kind, mark, task,
                   batch, log>>

\* Nobody looks at the outcome of an abandoned append.
OrphanEnds(c) ==
    /\ pc[c] = "orphan"
    /\ task[c] \in {"ok", "failed"}
    /\ TaskGone(c)
    /\ Goto(c, "free")
    /\ UNCHANGED <<written, buf, timer, error, wclosed, queue, kind, mark, log,
                   excused, abandoned>>

-----------------------------------------------------------------------------
FlushStep(f) == Take(f) \/ TakeNothing(f) \/ Finish(f)
Next ==
    \/ Write \/ WriteRaises
    \/ \E t \in Timer : TimerFires(t)
    \/ \E c \in Caller : FlushBegin(c) \/ CloseBegin(c)
    \/ \E f \in Flusher : FlushStep(f) \/ AppendOk(f) \/ AppendFails(f)
    \/ \E c \in Caller : CancelQueued(c) \/ CancelAppend(c) \/ FinishCancelled(c)
    \/ \E c \in Caller : CancelDrain(c) \/ OrphanEnds(c)

Spec == Init /\ [][Next]_vars

\* The loop runs what is ready, the window ends, and an append ends.
Fairness ==
    /\ \A t \in Timer : WF_vars(TimerFires(t))
    /\ \A f \in Flusher : WF_vars(FlushStep(f))
    /\ \A f \in Flusher : WF_vars(AppendOk(f) \/ AppendFails(f))
    /\ \A c \in Caller : WF_vars(FinishCancelled(c)) /\ WF_vars(OrphanEnds(c))

FairSpec == Spec /\ Fairness

-----------------------------------------------------------------------------
(* Properties.                                                             *)

Numbers(n) == [i \in 1..n |-> i]

TypeOK ==
    /\ written \in 0..MaxRecords
    /\ timer \in Timer \cup {NoTimer}
    /\ \A t \in Timer : pc[t] = "sleep" <=> timer = t
    /\ error \in BOOLEAN /\ wclosed \in BOOLEAN /\ excused \in BOOLEAN
    /\ pc \in [Flusher -> {"free", "sleep", "queued", "append", "drain",
                           "orphan", "returned"}]
    /\ task \in [Flusher -> {"none", "running", "ok", "failed"}]

\* The records of an append that is not durable yet.
InFlight(f) == IF task[f] = "ok" THEN <<>> ELSE batch[f]

\* Records reach the stream in the order of their write(), each once, and
\* none is forgotten: what is durable, what is being appended and what is
\* buffered is what was written (_append: "keeping order even if the caller is
\* cancelled").  It is not kept once a caller was cancelled twice.
OrderKept ==
    abandoned \/
    LET holder == IF queue = <<>> THEN <<>> ELSE InFlight(Head(queue))
    IN  log \o holder \o buf = Numbers(written)

\* One append_many at a time: only the lock's holder has one, unless one was
\* abandoned.
OneAppend ==
    abandoned \/
    \A f \in Flusher : task[f] = "running" => queue # <<>> /\ Head(queue) = f

\* When flush() or close() returns, everything written before the call is
\* durable (api.md), if no append was abandoned.
DurableOnReturn ==
    \A c \in Caller : pc[c] = "returned" => abandoned \/ mark[c] <= Len(log)

\* Every record is durable in the end unless an append failed (the error is
\* raised) or a close() was cancelled ("at most window seconds later").
AllFlushed ==
    \A k \in 1..MaxRecords : (written >= k) ~> (Len(log) >= k \/ excused)
=============================================================================
