--------------------------- MODULE DurableStream ---------------------------
(***************************************************************************)
(* One log file of durastream and the DurableStream handles on it.         *)
(*                                                                         *)
(* A handle is one DurableStream object of one process: it reads the       *)
(* stream's row in meta.db, opens the log, tries the exclusive flock,      *)
(* scans the file into an index, and, when it is the flock's owner,        *)
(* truncates a torn tail and may append and close.  Appends write their    *)
(* frames to the page cache, fsync, and only then publish the records in   *)
(* the index; a failed write or fsync is cut back to the last durable end. *)
(*                                                                         *)
(* A file is a sequence of cells.  A cell is the payload of one intact     *)
(* frame, or Torn: bytes that do not scan as a frame (a short header or    *)
(* payload, a CRC mismatch).  Offsets are cell positions.  Frames differ   *)
(* in size all the same: once the frame that an index delimits was cut     *)
(* back and another one is in its place, the stored positions may fall     *)
(* anywhere, and what a scan or a read finds there is a choice.            *)
(***************************************************************************)
EXTENDS Naturals, SequencesExt

CONSTANTS
    Handle,     \* the handles (one per process or Store) that may open the log
    NoHandle,   \* the value of owner when nobody holds the flock
    Payload,    \* what a record may contain
    Torn,       \* a cell that does not scan as an intact frame
    MaxCells,   \* bound: cells in the file
    MaxBatch,   \* bound: records in one append_many
    CleanLost,  \* BOOLEAN: a failed fsync may mark dirty pages clean ("fsyncgate")
    DirtyExit   \* BOOLEAN: a handle may go away leaving bytes no fsync covered
                \* (process killed mid-append, close after a failed rollback)

ASSUME NamesDistinct == NoHandle \notin Handle /\ Torn \notin Payload
ASSUME Bounds == MaxCells \in Nat /\ MaxBatch \in Nat
ASSUME FaultsBoolean == CleanLost \in BOOLEAN /\ DirtyExit \in BOOLEAN

VARIABLES
    cache,      \* the log as every process sees it (page cache)
    disk,       \* the log as it would be found after a power loss
    lost,       \* cells of cache that the kernel believes written and are not
    rowClosed,  \* meta.db: streams.closed of this stream
    owner,      \* who holds the flock, or NoHandle
    pc,         \* pc[h]: where h is; an operation in progress holds h's lock
    closed,     \* closed[h]: DurableStream._closed
    index,      \* index[h]: the records h's _index delimits; next_offset is its length
    found,      \* found[h]: the file when h took its size, until h's scan has ended
    seen,       \* history: seen[h], the records acknowledged by then
    batch,      \* the records of the append in progress
    written,    \* how many of them _write_all has written
    acked       \* history: the first next_offset records at the last append that returned

fileVars   == <<cache, disk, lost>>
handleVars == <<closed, index, found, seen>>
appendVars == <<batch, written>>
vars == <<cache, disk, lost, rowClosed, owner, pc, closed, index, found, seen,
          batch, written, acked>>

Cell == Payload \cup {Torn}

-----------------------------------------------------------------------------
(* The file.                                                               *)

\* The file cut after its first n cells (ftruncate).
Cut(f, n) == SubSeq(f, 1, n)

\* What reaches the platter of the cells the kernel would write now: a cell
\* it wrongly believes clean is not written.
Settled == [i \in DOMAIN cache |-> IF i \in lost THEN Torn ELSE cache[i]]

\* The cells of the page cache that differ from the disk.
Dirty == {i \in DOMAIN cache : ~(i \in DOMAIN disk /\ disk[i] = cache[i])}

\* d and c agree on their first m cells.
Agree(d, c, m) == \A i \in 1..m : d[i] = c[i]

\* How far a write-back from content d towards content c may have come: the
\* common prefix stays, then some further cells of c, then perhaps one cell
\* half written or zero filled.
Images(d, c) ==
    {d} \cup UNION {
        {Cut(c, m)} \cup (IF m < Len(c) \/ m < Len(d)
                          THEN {Append(Cut(c, m), Torn)} ELSE {}) :
        m \in {k \in 0..Len(c) :
                 \A j \in 1..Len(c) : j <= Len(d) /\ Agree(d, c, j) => j <= k}}

-----------------------------------------------------------------------------
Init ==
    /\ cache = <<>> /\ disk = <<>> /\ lost = {}
    /\ rowClosed = FALSE
    /\ owner = NoHandle
    /\ pc = [h \in Handle |-> "gone"]
    /\ closed = [h \in Handle |-> TRUE]
    /\ index = [h \in Handle |-> <<>>]
    /\ found = [h \in Handle |-> <<>>] /\ seen = [h \in Handle |-> 0]
    /\ batch = <<>> /\ written = 0
    /\ acked = <<>>

\* fsync fails; the kernel may now take the dirty pages for clean.
SyncFails == lost' \in IF CleanLost THEN {lost, lost \cup Dirty} ELSE {lost}

Goto(h, label) == pc' = [pc EXCEPT ![h] = label]

\* The handle h is no more (and, if it was the owner, the flock is free).
Gone(h) ==
    /\ Goto(h, "gone")
    /\ closed' = [closed EXCEPT ![h] = TRUE]
    /\ index' = [index EXCEPT ![h] = <<>>]
    /\ found' = [found EXCEPT ![h] = <<>>] /\ seen' = [seen EXCEPT ![h] = 0]
    /\ owner' = IF owner = h THEN NoHandle ELSE owner

\* Mutant of NextFrames: without the checksum test.
NextFramesUnchecked(h) ==
    LET next == Len(index[h]) + 1
    IN  IF index[h] # found[h] /\ next <= Len(cache) THEN {cache[next]} ELSE {}

\* The frames that the scan may find next.  Its position is where the file's
\* next cell begins unless a frame it has found was cut back meanwhile: then it
\* is anywhere in what was written instead (MaxCells bounds what it makes of it).
NextFrames(h) ==
    LET next == Len(index[h]) + 1
    IN  IF IsPrefix(index[h], cache)
        THEN IF index[h] # found[h] /\ next <= Len(cache)
             THEN {cache[next]} \ {Torn} ELSE {}
        ELSE IF next <= MaxCells THEN Payload ELSE {}

\* One of them is there for sure and ends within the size that was taken: it
\* was there then.  Another one may be too long.
FrameAhead(h) ==
    \E p \in NextFrames(h) :
        IsPrefix(Append(index[h], p), cache) /\ IsPrefix(Append(index[h], p), found[h])

-----------------------------------------------------------------------------
(* Mutants: definitions below with a plausible bug each.                   *)

\* OpenRow that takes every stream for open.
OpenRowForgets(h) ==
    /\ pc[h] = "gone"
    /\ Goto(h, "row")
    /\ closed' = [closed EXCEPT ![h] = FALSE]
    /\ UNCHANGED <<fileVars, rowClosed, owner, index, found, seen, appendVars, acked>>

\* ScanEnd that leaves a torn tail in place when the handle owns the log.
ScanEndNoRepair(h) ==
    /\ pc[h] = "scan"
    /\ ~FrameAhead(h)
    /\ Goto(h, "ready")
    /\ found' = [found EXCEPT ![h] = <<>>]
    /\ UNCHANGED <<fileVars, rowClosed, owner, closed, index, seen, appendVars, acked>>

\* FsyncOk that publishes what it has not synced.
FsyncSkipped(h) ==
    /\ pc[h] = "write"
    /\ written = Len(batch)
    /\ index' = [index EXCEPT ![h] = @ \o batch]
    /\ acked' = index'[h]
    /\ batch' = <<>> /\ written' = 0
    /\ Goto(h, "ready")
    /\ UNCHANGED <<fileVars, rowClosed, owner, closed, found, seen>>

\* FsyncFails that tries the fsync again instead of rolling back.
FsyncRetried(h) ==
    /\ pc[h] = "write"
    /\ written = Len(batch)
    /\ SyncFails
    /\ UNCHANGED <<cache, disk, rowClosed, owner, pc, handleVars, appendVars, acked>>

\* Rollback without the truncate.
RollbackKeeps(h) ==
    /\ pc[h] = "rollback"
    /\ Goto(h, "resync")
    /\ UNCHANGED <<fileVars, rowClosed, owner, handleVars, appendVars, acked>>

\* Close that persists the row and leaves the handle open.
CloseRowOnly(h) ==
    /\ pc[h] = "ready"
    /\ owner = h
    /\ rowClosed' = TRUE
    /\ UNCHANGED <<fileVars, owner, pc, handleVars, appendVars, acked>>

-----------------------------------------------------------------------------
(* Opening: Store.open reads the row, then DurableStream.__init__ opens    *)
(* and locks the log and _recover scans it.                                *)

\* Store.open reads the row; its closed flag is handed to the new handle.
OpenRow(h) ==
    /\ pc[h] = "gone"
    /\ Goto(h, "row")
    /\ closed' = [closed EXCEPT ![h] = rowClosed]
    /\ UNCHANGED <<fileVars, rowClosed, owner, index, found, seen, appendVars, acked>>

\* __init__ opens the log and tries the flock.  Without it (or without the
\* permission to write) the handle is a read-only view.  _recover takes the
\* file's size once, before it scans.
OpenLog(h) ==
    /\ pc[h] = "row"
    /\ Goto(h, "scan")
    /\ \/ owner = NoHandle /\ owner' = h
       \/ UNCHANGED owner
    /\ found' = [found EXCEPT ![h] = cache]
    /\ seen' = [seen EXCEPT ![h] = Len(acked)]
    /\ index' = [index EXCEPT ![h] = <<>>]
    /\ UNCHANGED <<fileVars, rowClosed, closed, appendVars, acked>>

ScanFrame(h) ==
    /\ pc[h] = "scan"
    /\ \E p \in NextFrames(h) : index' = [index EXCEPT ![h] = Append(@, p)]
    /\ UNCHANGED <<fileVars, rowClosed, owner, pc, closed, found, seen, appendVars, acked>>

\* The scan ends and the log needs no repair, or the handle is a view.
ScanEnd(h) ==
    /\ pc[h] = "scan"
    /\ ~FrameAhead(h)
    /\ owner # h \/ index[h] = found[h]
    /\ Goto(h, "ready")
    /\ found' = [found EXCEPT ![h] = <<>>]
    /\ UNCHANGED <<fileVars, rowClosed, owner, closed, index, seen, appendVars, acked>>

\* The owner found a torn or corrupt tail and truncates it.
Repair(h) ==
    /\ pc[h] = "scan"
    /\ ~FrameAhead(h)
    /\ owner = h /\ index[h] # found[h]
    /\ cache' = Cut(cache, Len(index[h]))
    /\ lost' = lost \cap 1..Len(index[h])
    /\ Goto(h, "repair")
    /\ found' = [found EXCEPT ![h] = <<>>]
    /\ UNCHANGED <<disk, rowClosed, owner, closed, index, seen, appendVars, acked>>

RepairSync(h) ==
    /\ pc[h] = "repair"
    /\ disk' = Settled
    /\ Goto(h, "ready")
    /\ UNCHANGED <<cache, lost, rowClosed, owner, handleVars, appendVars, acked>>

\* The repair's fsync fails: __init__ raises and its file object is dropped.
RepairSyncFails(h) ==
    /\ pc[h] = "repair"
    /\ SyncFails
    /\ Gone(h)
    /\ UNCHANGED <<cache, disk, rowClosed, appendVars, acked>>

-----------------------------------------------------------------------------
(* append_many: the whole of _append_locked runs under the handle's lock.  *)

\* The guards in the code's order: not closed, writable, something to write.
AppendBegin(h, b) ==
    /\ pc[h] = "ready"
    /\ ~closed[h]
    /\ owner = h
    /\ b # <<>>
    /\ Len(cache) + Len(b) <= MaxCells
    /\ Goto(h, "write")
    /\ batch' = b /\ written' = 0
    /\ UNCHANGED <<fileVars, rowClosed, owner, handleVars, acked>>

\* _write_all: the file is in append mode, a frame lands at the end of it.
WriteFrame(h) ==
    /\ pc[h] = "write"
    /\ written < Len(batch)
    /\ cache' = Append(cache, batch[written + 1])
    /\ written' = written + 1
    /\ UNCHANGED <<disk, lost, rowClosed, owner, pc, handleVars, batch, acked>>

\* A write fails (ENOSPC, EIO), perhaps after a part of a frame.
WriteFails(h) ==
    /\ pc[h] = "write"
    /\ written < Len(batch)
    /\ cache' \in {cache, Append(cache, Torn)}
    /\ Goto(h, "rollback")
    /\ UNCHANGED <<disk, lost, rowClosed, owner, handleVars, appendVars, acked>>

\* fsync succeeds, the index takes the batch, append_many returns next_offset.
FsyncOk(h) ==
    /\ pc[h] = "write"
    /\ written = Len(batch)
    /\ disk' = Settled
    /\ index' = [index EXCEPT ![h] = @ \o batch]
    /\ acked' = index'[h]
    /\ batch' = <<>> /\ written' = 0
    /\ Goto(h, "ready")
    /\ UNCHANGED <<cache, lost, rowClosed, owner, closed, found, seen>>

\* fsync fails.
FsyncFails(h) ==
    /\ pc[h] = "write"
    /\ written = Len(batch)
    /\ SyncFails
    /\ Goto(h, "rollback")
    /\ UNCHANGED <<cache, disk, rowClosed, owner, handleVars, appendVars, acked>>

\* The except branch truncates to the end the index had when the append began.
Rollback(h) ==
    /\ pc[h] = "rollback"
    /\ cache' = Cut(cache, Len(index[h]))
    /\ lost' = lost \cap 1..Len(index[h])
    /\ Goto(h, "resync")
    /\ UNCHANGED <<disk, rowClosed, owner, handleVars, appendVars, acked>>

\* The truncate itself fails: the handle refuses further appends.
RollbackFails(h) ==
    /\ DirtyExit
    /\ pc[h] = "rollback"
    /\ closed' = [closed EXCEPT ![h] = TRUE]
    /\ batch' = <<>> /\ written' = 0
    /\ Goto(h, "ready")
    /\ UNCHANGED <<fileVars, rowClosed, owner, index, found, seen, acked>>

\* The fsync after the truncate: the append raises and the handle is usable.
RollbackSync(h) ==
    /\ pc[h] = "resync"
    /\ disk' = Settled
    /\ batch' = <<>> /\ written' = 0
    /\ Goto(h, "ready")
    /\ UNCHANGED <<cache, lost, rowClosed, owner, handleVars, acked>>

\* That fsync fails: the handle refuses further appends.
RollbackSyncFails(h) ==
    /\ pc[h] = "resync"
    /\ SyncFails
    /\ closed' = [closed EXCEPT ![h] = TRUE]
    /\ batch' = <<>> /\ written' = 0
    /\ Goto(h, "ready")
    /\ UNCHANGED <<cache, disk, rowClosed, owner, index, found, seen, acked>>

\* An exception that "except OSError" does not catch leaves _append_locked:
\* the lock is released and the file stays as it is.
Interrupt(h) ==
    /\ pc[h] \in {"write", "rollback", "resync"}
    /\ batch' = <<>> /\ written' = 0
    /\ Goto(h, "ready")
    /\ UNCHANGED <<fileVars, rowClosed, owner, handleVars, acked>>

-----------------------------------------------------------------------------
(* Closing the stream, releasing the handle, crashes and power.            *)

\* close(): the row first, then the flag, under the handle's lock.
Close(h) ==
    /\ pc[h] = "ready"
    /\ owner = h
    /\ rowClosed' = TRUE
    /\ closed' = [closed EXCEPT ![h] = TRUE]
    /\ UNCHANGED <<fileVars, owner, pc, index, found, seen, appendVars, acked>>

\* Bytes of the log beyond the records this handle vouches for.
Untidy(h) == owner = h /\ Len(cache) > Len(index[h])

\* Store.close() or the collector closes the file and so frees the flock.
CloseFds(h) ==
    /\ pc[h] = "ready"
    /\ Untidy(h) => DirtyExit
    /\ Gone(h)
    /\ UNCHANGED <<fileVars, rowClosed, appendVars, acked>>

\* The process dies.  A write in progress may leave a part of a frame.
Crash(h) ==
    /\ pc[h] # "gone"
    /\ pc[h] \in {"write", "rollback"} \/ Untidy(h) => DirtyExit
    /\ \/ UNCHANGED cache
       \/ /\ pc[h] = "write" /\ written < Len(batch)
          /\ cache' = Append(cache, Torn)
    /\ IF pc[h] \in {"write", "rollback", "resync"}
       THEN batch' = <<>> /\ written' = 0
       ELSE UNCHANGED appendVars
    /\ Gone(h)
    /\ UNCHANGED <<disk, lost, rowClosed, acked>>

\* The kernel writes pages back whenever it likes.
Writeback ==
    /\ disk' \in Images(disk, Settled)
    /\ UNCHANGED <<cache, lost, rowClosed, owner, pc, handleVars, appendVars, acked>>

\* The machine stops: every process dies and the page cache is gone.
PowerLoss ==
    /\ cache' = disk /\ lost' = {}
    /\ owner' = NoHandle
    /\ pc' = [h \in Handle |-> "gone"]
    /\ closed' = [h \in Handle |-> TRUE]
    /\ index' = [h \in Handle |-> <<>>]
    /\ found' = [h \in Handle |-> <<>>] /\ seen' = [h \in Handle |-> 0]
    /\ batch' = <<>> /\ written' = 0
    /\ UNCHANGED <<disk, rowClosed, acked>>

Step(h) ==
    \/ OpenRow(h) \/ OpenLog(h) \/ ScanFrame(h) \/ ScanEnd(h)
    \/ Repair(h) \/ RepairSync(h) \/ RepairSyncFails(h)
    \/ \E b \in BoundedSeq(Payload, MaxBatch) : AppendBegin(h, b)
    \/ WriteFrame(h) \/ WriteFails(h) \/ FsyncOk(h) \/ FsyncFails(h)
    \/ Rollback(h) \/ RollbackFails(h) \/ RollbackSync(h) \/ RollbackSyncFails(h)
    \/ Close(h) \/ CloseFds(h) \/ Crash(h)

Next == (\E h \in Handle : Step(h)) \/ Writeback \/ PowerLoss

Spec == Init /\ [][Next]_vars

\* The same with interrupted appends, which Spec leaves out.
InterruptedNext == Next \/ \E h \in Handle : Interrupt(h)
InterruptedSpec == Init /\ [][InterruptedNext]_vars

-----------------------------------------------------------------------------
(* What a handle's read returns.                                           *)

Ok(records) == [status |-> "ok", records |-> records]

\* What read(offset, end) may return.  The range is clamped to the index, and the
\* bytes between two stored positions are cut out of the file.  While the file
\* begins with the frames that the index delimits these are the frames asked for.
\* Otherwise the positions may cut other frames anywhere: as many frames that
\* pass their checksums, whatever they hold, or CorruptStream.
ReadResults(h, offset, end) ==
    LET last == Min({end, Len(index[h])})
    IN  IF offset >= last THEN {Ok(<<>>)}
        ELSE IF IsPrefix(Cut(index[h], last), cache)
        THEN {Ok(SubSeq(cache, offset + 1, last))}
        ELSE {[status |-> "corrupt", records |-> <<>>]}
               \cup {Ok(records) : records \in [1..last - offset -> Payload]}

-----------------------------------------------------------------------------
(* Properties.                                                             *)

TypeOK ==
    /\ cache \in Seq(Cell) /\ disk \in Seq(Cell)
    /\ lost \subseteq 1..Len(cache)
    /\ rowClosed \in BOOLEAN
    /\ owner \in Handle \cup {NoHandle}
    /\ pc \in [Handle -> {"gone", "row", "scan", "repair", "ready",
                          "write", "rollback", "resync"}]
    /\ closed \in [Handle -> BOOLEAN]
    /\ index \in [Handle -> Seq(Payload)]
    /\ found \in [Handle -> Seq(Cell)] /\ seen \in [Handle -> Nat]
    /\ batch \in Seq(Payload) /\ written \in 0..Len(batch)
    /\ acked \in Seq(Payload)

\* What append has acknowledged survives a power loss at any moment: it is a
\* prefix of the log on disk, through failed writes and syncs, torn tails,
\* crashes and changes of owner (append_many "durable when it returns").
AckedDurable == IsPrefix(acked, disk)

\* Offsets are never reused: the log acknowledged later extends the log
\* acknowledged earlier, whichever handle appended it.
AckedAppendOnly == [][IsPrefix(acked, acked')]_vars

\* An owner that accepts appends has an index that delimits exactly the
\* records of the file, so the next frame lands at the offset it is given.
WriterFileExact ==
    \A h \in Handle :
        owner = h /\ pc[h] = "ready" /\ ~closed[h] => cache = index[h]

\* The owner reads back whatever was acknowledged, by it or before it, even if
\* it is disabled; a read-only view what was acknowledged when it was opened
\* (concurrency.md: "a snapshot of the log at open time"), although it scanned
\* the file while the owner wrote, cut back and wrote again.
ReadsAcked ==
    \A h \in Handle : \A o, e \in 0..(IF owner = h THEN Len(acked) ELSE seen[h]) :
        pc[h] = "ready" /\ o < e => ReadResults(h, o, e) = {Ok(SubSeq(acked, o + 1, e))}

\* Nothing is acknowledged once the stream's row says it is closed
\* (README: "no more appends", "persisted").
ClosedIsFinal == [][rowClosed => acked' = acked]_vars

\* A writer's records are on disk once it serves them (aio.py: "a record is on
\* disk before any reader can see it").
VisibleIsDurable ==
    \A h \in Handle : owner = h /\ pc[h] = "ready" => IsPrefix(index[h], disk)

\* The records of the durable log: the disk up to its first torn cell.
DurableRecords ==
    Cut(disk, CHOOSE n \in 0..Len(disk) :
                 /\ \A i \in 1..n : disk[i] # Torn
                 /\ n = Len(disk) \/ disk[n + 1] = Torn)

\* The promise to users: see DurableLog.
Log == INSTANCE DurableLog
         WITH log <- DurableRecords, acked <- acked, sealed <- rowClosed

\* The file with its page cache, crashes and repairs implements that promise.
ImplementsLog == Log!Spec
=============================================================================
