----------------------------- MODULE Consumers -----------------------------
(***************************************************************************)
(* Threads that consume one stream of their process: the engine's blocking *)
(* subscribe, which sleeps on the stream's Condition, and the worker of    *)
(* the work-queue demo, which drains the stream from a checkpoint file and *)
(* may crash and be run again.                                             *)
(*                                                                         *)
(* A critical section of the engine is one step, except an append's: it    *)
(* holds the lock while it writes.  A record is its own offset.            *)
(***************************************************************************)
EXTENDS Integers, SequencesExt

CONSTANTS
    Sub,          \* threads in subscribe
    Writer,       \* threads that append, close and delete
    Nobody,       \* the value of lock when it is free
    Offset,       \* the offsets given to subscribe
    Chunk,        \* CHUNK of the demo
    MaxRecords,   \* bound: records ever appended
    MaxBatch,     \* bound: records of one append_many
    MaxFailures,  \* bound: appends that fail
    MaxCrashes    \* bound: crashes of the worker

ASSUME ConsumerAssumption ==
    /\ Nobody \notin Writer
    /\ Offset \subseteq Int
    /\ Chunk \in Nat \ {0} /\ MaxRecords \in Nat /\ MaxBatch \in Nat
    /\ MaxFailures \in Nat /\ MaxCrashes \in Nat

VARIABLES
    next,       \* next_offset
    closed,     \* _closed
    fileOpen,   \* _file is not None
    lock,       \* the writer that holds the engine's lock across its write
    adding,     \* how many records it is writing
    failures,   \* appends that failed
    pc,         \* pc[s]: where a subscribe is
    from,       \* from[s]: the offset it was called with
    pos,        \* pos[s]: its offset
    batch,      \* batch[s]: what it has read and not yet yielded
    got,        \* got[s]: history, what it has yielded
    wpc,        \* where the worker is
    offset,     \* the worker's offset
    chunk,      \* the worker's chunk: what is left of it to process
    checkpoint, \* the checkpoint file; a missing one counts as 0
    runs,       \* history, runs[j]: how often job j was processed
    crashes     \* how often the worker crashed

engine == <<next, closed, fileOpen, lock, adding, failures>>
subscriber == <<pc, from, pos, batch, got>>
worker == <<wpc, offset, chunk, checkpoint, runs, crashes>>
vars == <<next, closed, fileOpen, lock, adding, failures, pc, from, pos, batch, got,
          wpc, offset, chunk, checkpoint, runs, crashes>>

Init ==
    /\ next = 0 /\ closed = FALSE /\ fileOpen = TRUE /\ lock = Nobody
    /\ adding = 0 /\ failures = 0
    /\ pc = [s \in Sub |-> "new"]
    /\ from = [s \in Sub |-> 0] /\ pos = [s \in Sub |-> 0]
    /\ batch = [s \in Sub |-> <<>>] /\ got = [s \in Sub |-> <<>>]
    /\ wpc = "down" /\ offset = 0 /\ chunk = <<>>
    /\ checkpoint = 0
    /\ runs = [j \in 0..MaxRecords |-> 0] /\ crashes = 0

-----------------------------------------------------------------------------
(* The engine.                                                             *)

\* Mutant of NotifyAll: notify() instead of notify_all().
NotifyOne ==
    \/ \E s \in Sub : pc[s] = "wait" /\ pc' = [pc EXCEPT ![s] = "test"]
    \/ (\A s \in Sub : pc[s] # "wait") /\ UNCHANGED pc

\* Every thread asleep on the Condition will test again.
NotifyAll == pc' = [s \in Sub |-> IF pc[s] = "wait" THEN "test" ELSE pc[s]]

\* _append_locked has the lock and writes.
AppendBegin(w, n) ==
    /\ lock = Nobody /\ ~closed
    /\ n > 0 /\ next + n <= MaxRecords
    /\ lock' = w /\ adding' = n
    /\ UNCHANGED <<next, closed, fileOpen, failures, subscriber, worker>>

\* The records are durable and in the index.
AppendEnd(w) ==
    /\ lock = w
    /\ next' = next + adding /\ adding' = 0
    /\ lock' = Nobody
    /\ NotifyAll
    /\ UNCHANGED <<closed, fileOpen, failures, from, pos, batch, got, worker>>

\* The write fails; when it cannot be undone the stream is disabled.
AppendFail(w) ==
    /\ lock = w /\ failures < MaxFailures
    /\ failures' = failures + 1 /\ adding' = 0
    /\ lock' = Nobody
    /\ \/ closed' = TRUE /\ NotifyAll
       \/ UNCHANGED <<closed, pc>>
    /\ UNCHANGED <<next, fileOpen, from, pos, batch, got, worker>>

Close ==
    /\ lock = Nobody /\ ~closed
    /\ closed' = TRUE
    /\ NotifyAll
    /\ UNCHANGED <<next, fileOpen, lock, adding, failures, from, pos, batch, got, worker>>

\* Mutant of CloseFds: nobody is woken.
CloseFdsSilent ==
    /\ lock = Nobody /\ fileOpen
    /\ closed' = TRUE /\ fileOpen' = FALSE
    /\ UNCHANGED <<next, lock, adding, failures, subscriber, worker>>

\* _close_fds: the stream is deleted or its store is closed.
CloseFds ==
    /\ lock = Nobody /\ fileOpen
    /\ closed' = TRUE /\ fileOpen' = FALSE
    /\ NotifyAll
    /\ UNCHANGED <<next, lock, adding, failures, from, pos, batch, got, worker>>

\* read(o, end), in the critical section: the records, if the file is open.
Clamped(o) == Max({o, 0})
Between(o, end) ==
    [i \in 1..Max({0, Min({end, next}) - Clamped(o)}) |-> Clamped(o) + i - 1]
Readable(o, end) == fileOpen \/ Between(o, end) = <<>>

-----------------------------------------------------------------------------
(* subscribe.                                                              *)

Goto(s, label) == pc' = [pc EXCEPT ![s] = label]

Subscribe(s, o) ==
    /\ pc[s] = "new"
    /\ from' = [from EXCEPT ![s] = o] /\ pos' = [pos EXCEPT ![s] = o]
    /\ Goto(s, "read")
    /\ UNCHANGED <<engine, batch, got, worker>>

\* read from the offset on; it raises StreamClosed once the file is closed.
Read(s) ==
    /\ pc[s] = "read" /\ lock = Nobody
    /\ IF Readable(pos[s], next)
       THEN batch' = [batch EXCEPT ![s] = Between(pos[s], next)] /\ Goto(s, "yield")
       ELSE Goto(s, "raised") /\ UNCHANGED batch
    /\ UNCHANGED <<engine, from, pos, got, worker>>

\* Mutant of Yield: the offset is taken from the stream, not from the batch.
YieldToEnd(s) ==
    /\ pc[s] = "yield"
    /\ got' = [got EXCEPT ![s] = @ \o batch[s]]
    /\ pos' = [pos EXCEPT ![s] = next]
    /\ batch' = [batch EXCEPT ![s] = <<>>]
    /\ Goto(s, "test")
    /\ UNCHANGED <<engine, from, worker>>

\* The records go to the consumer, in its own time, and count in the offset.
\* A consumer that drops the generator here leaves no trace in the engine.
Yield(s) ==
    /\ pc[s] = "yield"
    /\ got' = [got EXCEPT ![s] = @ \o batch[s]]
    /\ pos' = [pos EXCEPT ![s] = @ + Len(batch[s])]
    /\ batch' = [batch EXCEPT ![s] = <<>>]
    /\ Goto(s, "test")
    /\ UNCHANGED <<engine, from, worker>>

\* Mutant of Test: a closed stream ends the subscription at once.
TestClosedFirst(s) ==
    /\ pc[s] = "test" /\ lock = Nobody
    /\ Goto(s, IF closed THEN "ended" ELSE IF next <= pos[s] THEN "wait" ELSE "read")
    /\ UNCHANGED <<engine, from, pos, batch, got, worker>>

\* In the critical section: nothing new means sleep, or the end once closed.
Test(s) ==
    /\ pc[s] = "test" /\ lock = Nobody
    /\ Goto(s, IF next > pos[s] THEN "read" ELSE IF closed THEN "ended" ELSE "wait")
    /\ UNCHANGED <<engine, from, pos, batch, got, worker>>

-----------------------------------------------------------------------------
(* run_worker.                                                             *)

\* open("jobs"), which raises once the stream is deleted; then the checkpoint.
StartWorker ==
    /\ wpc = "down" /\ fileOpen
    /\ offset' = checkpoint
    /\ wpc' = "loop"
    /\ UNCHANGED <<engine, subscriber, chunk, checkpoint, runs, crashes>>

\* The loop's test, and the read of the next chunk.
ReadChunk ==
    /\ wpc = "loop" /\ lock = Nobody
    /\ IF offset < next /\ Readable(offset, offset + Chunk)
       THEN chunk' = Between(offset, offset + Chunk) /\ wpc' = "process"
            /\ UNCHANGED offset
       ELSE wpc' = "down" /\ offset' = 0 /\ UNCHANGED chunk
    /\ UNCHANGED <<engine, subscriber, checkpoint, runs, crashes>>

Process ==
    /\ wpc = "process" /\ chunk # <<>>
    /\ runs' = [runs EXCEPT ![Head(chunk)] = @ + 1]
    /\ chunk' = Tail(chunk) /\ offset' = offset + 1
    /\ UNCHANGED <<engine, subscriber, wpc, checkpoint, crashes>>

\* Mutant of WriteTmp: the checkpoint is written as soon as a job is done.
WriteTmpEarly ==
    /\ wpc = "process"
    /\ offset' = offset + Len(chunk) /\ chunk' = <<>>
    /\ wpc' = "replace"
    /\ UNCHANGED <<engine, subscriber, checkpoint, runs, crashes>>

\* write_checkpoint after a whole chunk: the offset is in a temporary file, which
\* nobody reads, and synced.
WriteTmp ==
    /\ wpc = "process" /\ chunk = <<>>
    /\ wpc' = "replace"
    /\ UNCHANGED <<engine, subscriber, offset, chunk, checkpoint, runs, crashes>>

\* Mutant of Replace: the new checkpoint is never put in place.
ReplaceNot ==
    /\ wpc = "replace"
    /\ wpc' = "loop"
    /\ UNCHANGED <<engine, subscriber, offset, chunk, checkpoint, runs, crashes>>

\* os.replace puts it in place of the old one.
Replace ==
    /\ wpc = "replace"
    /\ checkpoint' = offset
    /\ wpc' = "loop"
    /\ UNCHANGED <<engine, subscriber, offset, chunk, runs, crashes>>

\* The worker dies anywhere.
Crash ==
    /\ wpc # "down" /\ crashes < MaxCrashes
    /\ crashes' = crashes + 1
    /\ wpc' = "down" /\ offset' = 0 /\ chunk' = <<>>
    /\ UNCHANGED <<engine, subscriber, checkpoint, runs>>

-----------------------------------------------------------------------------
SubStep(s) == Read(s) \/ Yield(s) \/ Test(s)
WorkerStep == StartWorker \/ ReadChunk \/ Process \/ WriteTmp \/ Replace
WriterEnd(w) == AppendEnd(w) \/ AppendFail(w)

Next ==
    \/ \E w \in Writer : WriterEnd(w) \/ \E n \in 1..MaxBatch : AppendBegin(w, n)
    \/ Close \/ CloseFds
    \/ \E s \in Sub : SubStep(s) \/ \E o \in Offset : Subscribe(s, o)
    \/ WorkerStep \/ Crash

Spec == Init /\ [][Next]_vars

\* Threads go on when they can, an append that has begun ends, and somebody
\* runs the worker again.  Appends are finitely many: the lock is not fair, and
\* a thread could wait for it forever otherwise.
Fairness ==
    /\ \A w \in Writer : WF_vars(WriterEnd(w))
    /\ \A s \in Sub : WF_vars(SubStep(s))
    /\ WF_vars(WorkerStep)

FairSpec == Spec /\ Fairness

-----------------------------------------------------------------------------
(* Properties.                                                             *)

TypeOK ==
    /\ next \in 0..MaxRecords /\ closed \in BOOLEAN /\ fileOpen \in BOOLEAN
    /\ lock \in Writer \cup {Nobody} /\ adding \in 0..MaxBatch
    /\ fileOpen \/ closed
    /\ pc \in [Sub -> {"new", "read", "yield", "test", "wait", "ended", "raised"}]
    /\ from \in [Sub -> Offset \cup {0}] /\ pos \in [Sub -> Int]
    /\ wpc \in {"down", "loop", "process", "replace"}
    /\ offset \in 0..MaxRecords /\ checkpoint \in 0..MaxRecords

\* A subscribe yields records one after the other from its offset on and skips
\* none.  From offset -k it goes back, and yields k records twice in all.
NoneSkipped ==
    \A s \in Sub :
        /\ got[s] # <<>> => got[s][1] = Clamped(from[s])
        /\ \A i \in 1..Len(got[s]) - 1 : got[s][i + 1] <= got[s][i] + 1
        /\ Len(got[s]) - Cardinality(ToSet(got[s])) <= Max({0, -from[s]})

\* Nobody sleeps on the Condition with a record to fetch or a close to see:
\* the test and the wait are one critical section, and each change notifies all.
NoSleeper == \A s \in Sub : pc[s] = "wait" => next <= pos[s] /\ ~closed

\* A subscribe that ended has yielded all of the closed stream ("ends when the
\* stream is closed (or deleted) and drained").
EndedDrained ==
    \A s \in Sub : pc[s] = "ended" =>
        closed /\ \A k \in 0..next - 1 : k >= from[s] => k \in ToSet(got[s])

\* Every job below the checkpoint has been processed, whenever the worker died.
CheckpointProcessed == \A j \in 0..checkpoint - 1 : runs[j] > 0

\* A crash costs at most one chunk of work done again ("at-least-once").
ReworkBounded ==
    FoldFunction(+, 0, runs) - Cardinality({j \in DOMAIN runs : runs[j] > 0})
        <= crashes * Chunk

\* Closing the stream ends every subscribe from a proper offset.
CloseEndsAll ==
    \A s \in Sub : (closed /\ pc[s] # "new" /\ from[s] >= 0)
        ~> pc[s] \in {"ended", "raised"}

\* Every job is processed in the end, unless the queue is deleted.
AllProcessed == \A j \in 0..MaxRecords - 1 : (next > j) ~> (runs[j] > 0 \/ ~fileOpen)
=============================================================================
