# durastream in TLA+

Specifications, TLC models and TLAPS proofs for durastream, an embedded
append-only stream store: one log file per stream, a SQLite file of metadata, a
thread-safe engine and an asyncio layer that fans appended records out to live
subscribers. Paths and line numbers refer to `src/durastream/`, unless they name
`demos/` or `scripts/`.

    tlasany M.tla                    parse a module
    tlc -config X.cfg MCxxx.tla      run a model (the table below names them)
    tlapm XxxProofs.tla              check the proofs about module Xxx

## 1. The system

| Component | State | Operations | Interacts with |
|---|---|---|---|
| Stream engine, `stream.py` | the log file; the `flock` on it; per handle `_index`, `_closed`, `_owner`, `_file`, a lock and condition, the listeners | open and `_recover`, `append_many`, `read`, `subscribe`, `close`, `_close_fds`, listeners | other processes through the file and the flock; `meta.db` for the closed flag; listeners called in the writer's thread |
| Store, `store.py` | `meta.db` rows, the directory of logs, `_open` (one handle per name), the store's lock | `create`, `open`, `delete`, `list`, `close` | other processes through SQLite, the directory, flock |
| Metadata, `store._Meta` | one SQLite connection (WAL) behind a lock | one statement and its commit at a time | engine and store |
| Async fan-out, `aio._Sub`, `_Hub`, `AsyncDurableStream` | per subscriber a buffer, its start offset, `stale`, an event; per stream a hub with one engine listener | `subscribe`, `wait`, `read`, deliveries by `call_soon_threadsafe` | writer threads, the event loop, the engine |
| Batch writer, `aio.AsyncBatchWriter` | `_buf`, `_timer`, `_error`, `_closed`, an `asyncio.Lock` | `write`, `flush`, `close`, the timer `_flush_later` | `append_many` in a thread, cancellation of its callers |
| `aio.AsyncStore` | one hub per name | the store's, in threads; `_wrap` and the removal of hubs on the loop | store, hubs |
| Codec, `codec.py` | none | `pack_frame`, `iter_frames`, offset tokens | engine |
| Work queue, `demos/work_queue.py` | a checkpoint file, the worker's offset | `run_worker`, `read_checkpoint`, `write_checkpoint` | engine |
| Benchmark client, `scripts/bench_duplex.py` | the reader's offset | subscribe, drop the subscription halfway, subscribe again | `AsyncStore` |
| Names, errors, other demos, tests, packaging | none, or straight-line use of the API | | |

### What is hard about it

* **Failure and recovery.** A write, an fsync, the truncate that undoes them and
  its fsync can each fail; a process can be killed between any two of them;
  power can go at any time, with any part of the page cache written back. After
  all that the index must delimit exactly the acknowledged records.
* **Two processes.** Only the flock and SQLite's statements keep them apart. A
  read-only view is opened in the middle of the writer's append; the flag in
  the row and the flock are read at different times; unlink, flock and row
  changes of `create` and `delete` interleave.
* **Threads and one event loop.** Writers publish under the engine's lock and
  notify outside it, so notifications may be swapped or overtaken by a close. A
  subscriber hands over from disk to live records and back, while the lag limit,
  the close and the removal of the listener race it.
* **Cancellation.** A flush is cancelled while its append runs on in a thread, and
  cancelled again while it waits for it. A `create` or `open` is cancelled while
  its thread has already done it.
* **Bytes.** Frames have different sizes and a write may be cut inside a header or
  a payload; a power loss may leave the file's new length with zeros in it, and
  eight zeros are an intact empty frame. An index may cut bytes that were
  replaced since it was built.
* **Names that come back.** A stream is deleted and created again under its name
  while hubs, handles and subscriptions of the old one are still around, and a
  hub may outlive the event loop of its subscribers.
* **Sleeping threads.** The blocking `subscribe` sleeps on a condition variable that
  every append, close and release of the file must notify.

### What makes each part correct

* Engine: an acknowledged record survives everything; offsets are never reused;
  the writer's next frame lands at the offset it is given; a read returns what
  was acknowledged or raises; a closed stream stays closed.
* Store: acknowledged records stay until a delete; deleted records never come
  back; one writer per stream, and it writes to the file at the path.
* Fan-out: every record from the offset on, once, in order; bounded buffers; no
  lost wake-up; a close ends everybody, after the last record.
* Blocking `subscribe`: no record skipped, nobody asleep with something to see, the
  end only after the last record.
* Codec and scan: the frames found are exactly those the bytes begin with; a
  handle reads back what was acknowledged when it was opened; a recovery invents
  nothing.
* AsyncStore: a subscription stays with its stream whatever happens to the name,
  and ends when its stream does; a hub listens for one loop at a time.
* Work queue: every job below the checkpoint was done, and a crash repeats at most
  a chunk.
* Batch writer: the order of `write` is the order in the log, nothing lost or
  doubled, one append at a time, `flush` and `close` return only when what was
  written before is durable, and nothing stays in the buffer for ever.

`PROJECT.json` lists the hazards one by one, each at its line with the
properties that would catch it.

## 2. Modules

    DurableLog            what one stream promises (abstract)
      ^ implemented by
    DurableStream         one log file, its page cache and disk, its handles
      DurableStreamProofs   the inductive invariant and the theorems
      MCStream              TLC instances
    FrameLog              the same file as bytes, calls coarser
      ^ implements DurableLog too
      FrameLogProofs
      MCFrames
    Consumers             blocking subscribe on the engine's Condition, work queue
      ConsumersProofs
      MCConsumers
    StreamStore           one name: row, path, files, flocks, processes
      StreamStoreProofs
      MCStore
    AsyncSubscribe        writer threads, hub, event loop, subscribe and wait
      AsyncSubscribeProofs
      MCSubscribe
    AsyncStore            one name through deletion and creation: objects, hubs, loops
      AsyncStoreProofs
      MCHubs
    BatchWriter           buffer, timer, lock, appends, cancellation
      BatchWriterProofs
      MCBatch
    SetInduction          lemmas: induction over data, recursive functions exist, sums

DurableStream and FrameLog look at the engine from two sides: every system call
over whole frames, and every byte with the calls of one operation taken
together. AsyncSubscribe and AsyncStore split the fan-out likewise: every
interleaving around one hub, and many hubs with a subscription that runs in one
step from await to await.

Operators named as a *mutant* (`FsyncSkipped`, `PutBackLast`, ...) are variants of
the definition after them with a plausible bug. No specification uses them; they
are there to be put in place of the original, and then TLC must find the
property that `PROJECT.json` pairs with them violated.

### DurableStream

A file is a sequence of *cells*: the payload of an intact frame, or `Torn`, bytes
that do not scan as a frame. `cache` is the file as every process sees it,
`disk` what a power loss would leave, `lost` the cells that the kernel takes for
written though a failed fsync lost them. `found[h]` is the file at the time `h` took its
size. There are two histories: `acked`, the first `next_offset` records at the last
append that returned, and `seen[h]`, how many of these there were when `h` took its size.

| Code | Actions |
|---|---|
| `Store.open` reads the row (`store.py` 150-163) | `OpenRow` |
| `__init__`: open, flock, `fstat` (`stream.py` 92-112) | `OpenLog` |
| `_scan`, frame by frame (44-63) | `ScanFrame`, `ScanEnd` |
| `_recover` truncates and syncs (113-118) | `Repair`, `RepairSync`, `RepairSyncFails` |
| `_append_locked` (183-215) | `AppendBegin`, `WriteFrame`, `WriteFails`, `FsyncOk`, `FsyncFails`, `Rollback`, `RollbackFails`, `RollbackSync`, `RollbackSyncFails` |
| an exception that is not an `OSError` (199) | `Interrupt`, in `InterruptedSpec` only |
| `close` (259-272), `_close_fds` (274-284) | `Close`, `CloseFds` |
| environment | `Crash`, `Writeback`, `PowerLoss` |

`read` changes nothing: it is the operator `ReadResults`, evaluated in every
state, the set of what it may return. Frames differ in size, and `index` stands for byte
positions. They are those of the cells of the file as long as no frame of the index has
been cut back. Afterwards other frames lie across them, and what lies at a position is
left open: a scan may find any frame there or none (`NextFrames`), and a read may return
any records, or raise `CorruptStream`. That much more may happen in the model than in
FrameLog, where the bytes decide it; what the properties say holds in spite of it.

Two constants choose faults. With `CleanLost` a failed fsync may make dirty
pages look clean. With `DirtyExit` a handle may go away (killed in mid-append, or
closed after a failed rollback) and leave bytes no fsync covered. With both at
once no program can keep its promise by looking at the file (the next owner
finds intact frames the disk does not have), and `FaultsApart` excludes it.

### StreamStore

One name, several processes. A log is a file number and a set of records; `dir`
is the file at the path, `diskDir` the one a power loss would leave there.
`create`, `open` and `delete` are split at every system call another process can
get between (row read, probe, probe lock, unlink, unlock, insert, open, flock,
directory sync, row deletion). The store's lock makes them exclusive in one
process; appends by other threads go on meanwhile. With `Overlap = FALSE`
operations of different processes do not overlap, though a process may die in
the middle of one. The docs ask for this ("route each stream to a single owning
process"); with `Overlap = TRUE` they may overlap, as the claim that the one-writer
rule "is enforced" would have to allow.

Two histories say what is owed: `kept`, acknowledged records of a log whose
directory entry was synced once, and `dead`, records of streams whose delete
unlinked, synced and returned. The qualifications are the code's: see section 5.

### AsyncSubscribe

A record is its own offset. `next`, `closed`, `fileOpen` and `lock` stand for the
engine; writer threads publish record by record under the lock and notify
later. The event loop runs one client at a time (`running`) up to its next
await, and `ready` is its first-in-first-out queue of deliveries and clients. What
a client reads of the engine without the lock is a step of its own, so that
`subscribe` is the actions from `CatchUp` to `Recheck`, and `wait` the four from
`Test` to `RecheckClosed`. The byte limit of a buffer acts as the record limit
and is not modelled beside it. `AppendFails` is every append or delete that raises: it
notifies without records (`stream.py` 171-181), and whoever sleeps is woken for nothing. It
may begin only while the loop has no more than `MaxReady` things to run, a bound.

### BatchWriter

Written records are numbered. A flush is at `queued` (in the queue of the
`asyncio.Lock`), `append` (awaiting its shielded task), `drain` (cancelled, and
waiting for the task in the `finally`) or, after a second cancellation, `orphan`.
Timers and callers share the actions of a flush. `excused` remembers that an
append failed or a close was cancelled (`AllFlushed` claims nothing from then on, so it
covers neither a batch lost with a caller, `aio.py` 257, nor one put back after the last
flush, 287), `abandoned` that a caller was cancelled a
second time (one caller may be, a bound). From then on `OrderKept`, `OneAppend` and
`DurableOnReturn` claim nothing: see section 5. Cancelling the timer task itself in the
middle of its flush, as the end of the event loop does, is not modelled.

### FrameLog

The file is a sequence of cells: the two fields of a header are one cell each
(`HeaderSize = 2`), and so is every byte of a payload. `Scan` is `_scan`, as a
recursive function of the byte position, `Frames` is `iter_frames` and `Packed` is
what `_append_locked` builds with `pack_frame`; `Crc` is any function that tells the
payloads of an instance apart and is zero for the empty one, as `zlib.crc32` is.
`index` has byte positions, and `Read` does what `read` does: cut the bytes between
two of them and unpack.

| Code | Actions |
|---|---|
| `__init__`: open, flock, `fstat` (`stream.py` 92-112) | `Open` |
| `_recover` (107-118), with the truncate and its fsync | `Recover` |
| `append_many`: pack (183), `_write_all` in parts of any size (66-69) | `AppendBegin`, `Write` |
| fsync, index, return (198-215) | `Publish` |
| a write or fsync fails, with or without a rollback that works (199-210) | `Fail` |
| environment | `Exit`, `PowerLoss` |

What a write-back may have done by a power loss is `Images`: the file has its old
content, or some of the new one, or its new length with zeros for the rest. The
history `tried` has what may lie in the file beyond the acknowledged records,
append by append, and `snap[h]` how many of these there were when `h` was opened.

### Consumers

Writer threads, any number of blocking `subscribe`s and the worker of the work
queue, in one process. What the engine does under its lock is one step, except
that an append holds the lock between `AppendBegin` and `AppendEnd` (or
`AppendFail`), so that others wait for it. A subscriber is at `read` (250), `yield`
(251-252), `test` (254-257) or `wait`, asleep on the Condition (254); the test and
the falling asleep are one step, as `Condition.wait` makes them, and `NotifyAll`
sends every sleeper back to the test. `from[s]` may be negative. The worker is
`run_worker` (`demos/work_queue.py` 31-47) job by job: it may crash before each job,
before the temporary checkpoint is written, and before `os.replace`.

### AsyncStore

One name. Every `DurableStream` object and every `_Hub` has a number, and a record
knows its stream. The part of `create`, `open`, `delete` and `close` that runs in a
thread (`CreateInThread`, ...) and what `AsyncStore` does on the loop with its result
(`Wrap`, `Pop`) are steps of their own; a task that is cancelled in between skips the
second (`Cancelled`). `Notify` takes the snapshot of the listeners and `OnChange`
hands the change to the loop, hub by hub. A loop may be closed (`CloseLoop`) with
everything of it left as it is; `Collect` runs the `finally` of a generator that was
left behind. `meta` is the stream's row; it is `"sealed"` after a `delete` that committed
the closed flag and failed at the row, and a stream opened from such a row is closed from
the start. The notification of a `delete` that is refused, without records, is left to
AsyncSubscribe's `AppendFails`. Subscribing follows `scripts/bench_duplex.py` 82-100: the
consumer may go away and come back to the offset it has reached.

## 3. Runs

Expected to pass:

| Run | Module | Shows | Bounds |
|---|---|---|---|
| `stream` | MCStream | `AckedDurable`, `WriterFileExact`, `ReadsAcked`, `AckedAppendOnly` | 2 handles, 2 payloads, 3 cells, batches of 2, `DirtyExit`, no `CleanLost` |
| `stream_single` | MCStream | `ClosedIsFinal`, and `ImplementsLog` on a forgetful disk | 1 handle, `CleanLost` |
| `frames` | MCFrames | `ScanIsReference`, `OwnerIndexExact`, `SnapshotReadable`, `NothingInvented`, `ImplementsLog` | 2 handles, payloads of 1 and 2 bytes, 9 bytes, batches of 2, 2 faults |
| `consumers` | MCConsumers | `NoneSkipped`, `NoSleeper`, `EndedDrained`, `CheckpointProcessed`, `ReworkBounded`, `CloseEndsAll`, `AllProcessed` | 1 writer, 2 subscribers, offsets -1 and up, 2 records, chunks of 2, 1 failed append, 1 crash |
| `subscribe` | MCSubscribe | `InOrderOnce`, `NoHole`, `LagBounded`, `EndedDrained`, `NoLostWakeup` | 2 writers, 1 subscriber, 3 records, batches of 2, lag limit 1, any number of failing appends |
| `subscribe_live` | MCSubscribe | `AllDelivered`, `CloseEndsAll` | 1 writer, 1 subscriber, 1 waiter, 2 records, any number of failing appends |
| `hubs` | MCHubs | `NoForeignRecords`, `NoLostWakeup`, `OneLoop`, `ClosedEnds` | 2 tasks, 2 streams, 2 hubs, 2 loops, 1 record each |
| `batch` | MCBatch | `OrderKept`, `OneAppend`, `DurableOnReturn`, `AllFlushed` | 2 timers, 2 callers, 2 records, 1 second cancellation |
| `store` | MCStore | `AckedKept`, `NoResurrection`, `WriterAtPath` | 2 processes, 3 files, 2 records, no overlap |

Expected to find a counterexample, each to a sentence of the docs or comments
that the code does not keep:

| Run | Property | What happens |
|---|---|---|
| `stream_interrupt` | `ReadsAcked` | a `KeyboardInterrupt` after the write leaves frames the index does not know (`stream.py` 199); the next append is acknowledged at offsets that read back something else |
| `stream_recovered` | `VisibleIsDurable` | after a kill between write and fsync the next owner serves what only the page cache has (`stream.py` 113) |
| `store_race` | `WriterAtPath` | two creates overlap, and the slower one unlinks the log of the faster (`store.py` 133) |

**Why the bounds are enough.** Three cells and batches of two give an acknowledged
record, a batch of two behind it, and every cut, torn cell and partial
write-back between them. Two handles are the owner and either a view or the next
owner; handles treat each other symmetrically. With a lag limit of 1 and batches
of 2 a buffer is refused, overtaken and refilled with three records; two writers
are needed, and enough, to swap two notifications. Two timers are one in its
append and one that sleeps; two callers are one in its append and one that
waits, or is cancelled. Three files are a deleted log, its successor and one more
created by an open. Nine bytes of file hold a durable frame and a batch of two
behind it, each with a header of 2 and a payload of 1, or two frames of any sizes; two
faults are a failed rollback and a power loss, or an exit and a power loss. Two records
are a batch that is durable or in flight and a record behind it. Two tasks of
`AsyncStore` are a subscriber and whoever deletes, creates and appends; two streams, hubs and loops are the old and the new one;
`MaxReady = 0` lets the loop deliver a change before the next append of `hubs` begins, and
everything it has to run before the next failing one of `subscribe` does; AsyncSubscribe
asks neither of appends that succeed. Handles, payloads, threads and processes are symmetric in
runs without liveness properties.

`subscribe`, `subscribe_live`, `consumers` and `hubs` do not check for deadlock: when
every record is written and every client has left, the model stops. The others
never stop.

**What some properties leave out.** `ReadsAcked` speaks of all acknowledged
records for the owner of the flock, and for a view of those acknowledged when it was
opened; of what else a view may have indexed nothing can be promised (a view into a
rolled back append, below). `AckedKept`, `NoResurrection` and `WriterAtPath` are checked
without overlap, so the two hazards of overlapping operations are met by `store_race`
alone, which finds the code at fault. `ClosedIsFinal` is checked for one handle at a time (a close that is missed, below).
A forgetful disk (`CleanLost`) is met in `stream_single` and in the proofs only.

**Fairness.** `subscribe_live`: weak fairness of the event loop, of a writer thread
once it has begun (publish, notify, call the listener), of the thread that reads,
and of the consumer of a generator. Nobody is obliged to append, close or
subscribe. `batch`: weak fairness of each timer (the window ends), each step of a
flush on the loop, and each append (the disk answers, well or badly). An
`asyncio.Lock` is first come first served, so nothing stronger is needed. `consumers`:
weak fairness of each thread and of an append that has begun, and somebody runs
the worker again. The engine's lock is not fair, and weak fairness is enough only
because appends are finitely many in the model: with appends for ever a thread could
miss every moment in which the lock is free. `hubs`: weak fairness of the deliveries, of
threads that notify or read, and of tasks that have something to do on the loop.

**An observation.** The second test of `closed` after `event.clear()` in `subscribe`
(`aio.py` 200), and of both conditions in `wait` (158), can be dropped without
breaking `NoLostWakeup`, `AllDelivered` or `CloseEndsAll`: deliveries run on the
same loop, so none is lost between `clear` and the sleep. They save a suspension
and are no safeguard. Nor is the fall-back for a hole between replay and live records
(`aio.py` 187-189) ever taken: `NoHole` is an invariant, and the model has no
action for that branch.

**Further observations.** Each of these was a counterexample TLC found while the
properties above got their present form.

* *A close that is missed.* The closed flag is read before the flock is taken
  (`store.py` 155): with two processes, one may open between another's close and its
  release of the file, and append to a closed stream. `ClosedIsFinal` is checked, and
  proved, for one handle at a time.
* *`wait` returning False.* It tests `next_offset` and then `closed` (`aio.py` 154); an
  append and a close fit in between.
* *A second cancellation.* `await asyncio.wait([task])` in the `finally` of `_append`
  (`aio.py` 285) can be cancelled itself. The lock is given up while the append runs
  on, and the next batch may overtake it, although `_append` is there for "keeping
  order even if the caller is cancelled". If that append then fails, nobody puts its batch
  back (`aio.py` 286-287 are never reached), and all of it is lost.
* *A negative offset on an empty stream.* `subscribe(-1)` (`stream.py` 250) reads nothing,
  finds `next_offset` 0 above -1 and reads again, for ever, even after a close. On a
  stream with records it yields some of them again until the offset has caught up,
  and no more often than it was below zero (`NoneSkipped`). `CloseEndsAll` speaks of
  proper offsets.
* *Zeros are records.* A zero-filled tail after a power loss becomes empty records
  behind the last append that returned (`codec.py` 25). `NothingInvented` allows that
  and nothing else.
* *A view into a rolled back append.* A view opened while an append is being written
  may index its frames. When these are rolled back, the view's index points beyond the file,
  or, once other frames are appended, somewhere into them: `read` raises `CorruptStream` or
  returns other records for that range, even if acknowledged ones are there by then. The docs
  promise more ("`read` and `subscribe` work, on the snapshot", `docs/concurrency.md` 30).
  Stated over FrameLog for all that a view has indexed, the claim fails after an open, a write
  and a rollback. What was acknowledged when the view was opened is not affected
  (`ReadsAcked`, `SnapshotReadable`).

## 4. Proofs

Every theorem is for any values of the constants that satisfy the module's named
assumptions, and each module is proved the same way: an inductive invariant, one
lemma per action, one lemma that collects them, and the theorems.

| Module | Theorem | Statement |
|---|---|---|
| DurableStreamProofs | `AckedSurvives` | `Spec => []AckedDurable` |
| | `WriterIndexExact` | `Spec => []WriterFileExact` |
| | `OffsetsNeverReused` | `Spec => AckedAppendOnly` |
| | `AckedReadable` | `Spec => []ReadsAcked` |
| | `ClosedForGood` | one handle at a time: `Spec => ClosedIsFinal` |
| | `StreamKeepsLog` | `Spec /\ ClosedIsFinal => ImplementsLog` |
| | `StreamImplementsLog` | one handle at a time: `Spec => ImplementsLog` |
| | `TypeCorrect` | `Spec => []TypeOK` |
| StreamStoreProofs | `WritersAtPath` | `~Overlap => (Spec => []WriterAtPath)` |
| | `AckedAreKept` | `~Overlap => (Spec => []AckedKept)` |
| | `NothingResurrected` | `~Overlap => (Spec => []NoResurrection)` |
| | `TypesKept` | `Spec => []TypeOK`, with overlap too |
| BatchWriterProofs | `OrderIsKept` | `Spec => []OrderKept` |
| | `AppendsOneByOne` | `Spec => []OneAppend` |
| | `ReturnsDurable` | `Spec => []DurableOnReturn` |
| | `TypesKept` | `Spec => []TypeOK` |
| ConsumersProofs | `NobodySleeps` | `Spec => []NoSleeper` |
| | `EndsDrained` | `Spec => []EndedDrained` |
| | `NoJobLost` | `Spec => []CheckpointProcessed` |
| | `SkipsNone` | `Spec => []NoneSkipped` |
| | `ReworkIsBounded` | `Spec => []ReworkBounded` |
| | `TypesKept` | `Spec => []TypeOK` |
| AsyncSubscribeProofs | `EachOnceInOrder` | `Spec => []InOrderOnce` |
| | `NoHoleEver` | `Spec => []NoHole` |
| | `BuffersBounded` | `Spec => []LagBounded` |
| | `EndsDrained` | `Spec => []EndedDrained` |
| | `NobodySleepsThrough` | `Spec => []NoLostWakeup` |
| | `TypesKept` | `Spec => []TypeOK` |
| AsyncStoreProofs | `OwnRecordsOnly` | `Spec => []NoForeignRecords` |
| | `WhoSleepsIsWoken` | `Spec => []NoLostWakeup` |
| | `OneLoopEach` | `Spec => []OneLoop` |
| FrameLogProofs | `ScanFindsFrames` | `Spec => []ScanIsReference` |
| | `OwnersIndexIsExact` | `Spec => []OwnerIndexExact` |
| | `SnapshotsAreReadable` | `Spec => []SnapshotReadable` |
| | `NothingIsInvented` | `Spec => []NothingInvented` |
| | `FramesImplementLog` | `Spec => ImplementsLog` |

*DurableStream.* The theorems hold for any set of handles, any payloads and bounds,
under `FaultsApart`: a failed fsync that makes dirty pages look clean is never combined
with a handle that goes away before its rollback. `AckedReadable` is about the owner,
for all acknowledged records, and about a view, for those acknowledged when it was opened.
`AckedDurable` is not inductive: nothing in it says that the owner's
truncate stays above the acknowledged records. `IInv` adds, besides the types:

* `OwnerInv`: only the owner of the flock is at a step that changes the file;
* `KeptInv`: the acknowledged records are a prefix of the disk *and* of the cache;
* `IndexInv`: at each point of its operations, how the owner's index relates to
  the file: a prefix while scanning, exact when ready and not disabled, short by
  the frames written so far during an append, and never shorter than `acked`
  once the scan is over;
* `SeenInv`: what was acknowledged when a handle took its size is a prefix of what it
  found then, and of its index once the scan is over, whatever was cut back meanwhile;
* `LostInv`: cells a failed fsync lost lie above the end the coming rollback cuts
  back to;
* `CleanInv`: on a forgetful disk, everything but the append under way is on disk.

The last two make an fsync mean something: what it writes (`Settled`) agrees with
the cache on the acknowledged prefix. Every action has its own step lemma
(`WriteFrameStep`, `RollbackStep`, ...); before them come lemmas about prefixes,
cuts, partial write-backs (`ImagesKeepPrefix`: every image between two files keeps
their common prefix) and fsync. `NextIInv` collects the steps.

*DurableStream implements DurableLog.* The abstract log is what a scan of the disk
finds before its first torn cell (`Intact`), which exists because the set of places
where a scan could stop has a least element. An append that returns maps to `Ack`, the
commit of the closed flag to `Seal`, whatever else changes the disk (write-back, repair,
rollback, power loss) to `Churn`, and everything else to a stutter; `KeptInv` gives each
the acknowledged prefix it must keep. The abstract log lets nothing be
acknowledged once it is closed. With several handles
that is not so (section 3, a close that is missed), hence the condition of
`StreamKeepsLog`; with one handle at a time `ClosedForGood` provides it.

*StreamStore.* `TypeInv` and `LockInv` hold for operations that overlap in any way:
a writer holds the flock of its file, a flock is a writer's or a removal's between
its lock and its close, and each place in an operation says which handle and file
are open. `PathInv`, `KeptInv` and `DeadInv` need `~Overlap`. The first says that at most
one operation is under way and which file it has in hand (the one at the path, and
from the unlink on none), so that `Unlink` never takes the path from a writer. The
second ties the acknowledged records to the path, the disk and the row: a create
that unlinks found no row, hence nothing is owed. The third keeps deleted records
away from the path *and* the disk, so that a power loss cannot bring them back.

*BatchWriter.* `QueueInv`: the queue of the lock has no repetitions and holds exactly
the flushes at `queued`, `append` and `drain`, only its head beyond `queued`. `PcInv`:
a task belongs to a flush at `append`, `drain` or `orphan`. `Strict`, as long as no append
was abandoned: log, batch of the head and buffer are what was written; a caller
that returned has its mark within the log, and one in its append within the
log and its batch (when it got the lock, what was written before its call was
durable or in the buffer it took).

*Consumers.* A subscriber has yielded every offset from `from` to its position, and what
it holds goes on from there; one that ended is past the end of a closed stream, where
no append is under way, so that `next` stays. `NoSleeper` is inductive with that: whatever
changes `next` or `closed` wakes everybody in the same step. For the worker, every job
below its `offset` and below the checkpoint was processed, and its chunk is the run of
records from `offset` on. `NoneSkipped` follows from two facts kept beside that: a
subscriber has yielded as many records as it has advanced, and its next one is at most one
above its last. `ReworkBounded` rests on an account: the processings so far are at most those
that a living worker's `offset` (a dead one's checkpoint) accounts for, plus a chunk for
each crash. A job processed adds one to both sides; a crash lowers the account by at most
the chunk it pays for. The sum over all jobs is a fold of the community modules; `SetInduction`
proves that its recursion defines a function, and what that function does with one more.

*AsyncSubscribe.* The invariant says where the records are. A writer that publishes holds
the lock, and what it has published but not yet told is its own. A subscription's position
never passes what it has been given: a fresh buffer holds the run of records that starts
at or before the position and goes on without a gap, and every record beyond it is
announced, by a queued delivery or by a writer that has still to notify. That is what
makes swapped notifications harmless, keeps a hole from opening between replay and live
records, and gives every sleeper a delivery that will wake it. The end of a subscription
needs besides that the flag `closed` is set after the last record is published.

*AsyncStore.* Of all stream objects only the current one may have its file open. A hub has a
loop if and only if it has subscribers, and all of them are of that loop. A task's hub is
one of its stream, or the stream's file is closed and nothing will be appended to it. A
buffer holds consecutive records of the stream, and each later one is on its way: in a
delivery to the hub, or in the hands of a thread that has the hub still to tell.

*FrameLog.* The theorems hold for any handles, payloads and bounds. Half of the module is
about bytes, with no step of the specification in it: the records packed into frames can
be read off the bytes in one way only (`PackedPrefix`), the recursion of `Scan` defines a
function and finds the longest run of records that the bytes begin with (`ScanFinds`,
`FramesFound`), the fold with which `append_many` extends its index gives the positions
of the records (`AppendedPositions`), and a write-back or a cut keeps what the two
contents of the file have in common (`ImagesKeep`). The invariant then speaks of records:

* `Files`: both the cache and the disk are the acknowledged records, then a part of one
  entry of `tried`, then zeros (`Sound`; `SoundPart`, `SoundCut` and `SoundImages` say
  that writes, cuts and power losses keep it so);
* `Owned`: the owner's index is the positions of records that begin with the acknowledged
  ones, and these records are the whole file as long as it accepts appends; during one,
  the file and the bytes still to be written are those records with the batch behind them;
* `Viewed`: the index of any handle covers what was acknowledged when it was opened;
* `Role`: only the owner writes, and until it has scanned, the file keeps the size it took.

An append that returns maps to `Ack` of the abstract log, every other step to `Churn`.
`NothingIsInvented` needs more than the invariant: a payload of which a zero-filled tail
was lost fails its checksum. Of `Crc` the proofs use that it is zero for the empty payload
only and that lowering bytes of a payload changes it (`CrcOfTornPayload`). The model's `Crc`
has both for payloads of any bytes; of crc32 they hold but for one chance in 2^32.

*Induction over data.* An induction theorem takes a predicate, and no prover here can
instantiate it. `AllNaturals` and `AllSubsets` take the set of the values that satisfy the
predicate instead, and that a set of naturals has a least element. `RecursionExists` says
that a recursion along a rank defines a function: a guess is put right rank by rank.

## 5. Limits

*Only model-checked.* Liveness under fairness (`AllDelivered`, `CloseEndsAll`,
`ClosedEnds`, `AllFlushed`, `AllProcessed`) is beyond the prover and stays with TLC.

*Qualified.* In StreamStore a log whose directory entry was never synced owes
nothing: if `create` dies (or its sync fails) before `_fsync_dir`, a later `open`
appends to a log whose entry nobody ever syncs, and by the letter of POSIX a
power loss takes it away. Likewise `delete` syncs the directory only if it
unlinked the file itself: if an earlier delete died just after its unlink, the
second one removes the row without a sync, and a power loss during the next
`create` puts the old log under the new row. Without the two qualifications TLC
finds these behaviours for `AckedKept` and `NoResurrection`. Common file systems
order their journals so that neither happens.

*Not modelled.* The inside of SQLite, whose statements are atomic and durable here, and
a commit that fails; systems without flock; forked children; a view's
permissions; the byte limit of a buffer beside the record limit; `_Hub.join` on a
second loop while the first is still open, which raises; content types and names;
offset tokens; the measuring in the benchmark and the other demos, which are
straight-line uses of the engine. A power loss is not combined with the work
queue: the checkpoint may then be ahead of jobs that a reopened engine served
from the page cache only (`stream_recovered`).

## 6. Plan

1. Done: DurableLog, DurableStream, FrameLog, Consumers, AsyncSubscribe, AsyncStore,
   BatchWriter, StreamStore; proofs of the safety properties of all of them, and that
   DurableStream and FrameLog implement DurableLog.
2. *Metadata*: `_Meta` with a commit that fails, and the transaction it leaves open.
3. *Work queue with power loss*: Consumers over DurableStream's disk.
