------------------------------ MODULE FrameLog ------------------------------
(***************************************************************************)
(* The bytes of one log file: frames of unequal size, the scan that finds  *)
(* them again, and reads by byte range.                                    *)
(*                                                                         *)
(* DurableStream has every system call of the engine over whole frames.    *)
(* Here the calls are coarser and the file is a sequence of bytes: writes  *)
(* that stop anywhere, tails a power loss filled with zeros, and an index  *)
(* that may cut the bytes in the wrong places.                             *)
(*                                                                         *)
(* The two fields of a header are one cell each, a payload byte is a cell. *)
(***************************************************************************)
EXTENDS Integers, SequencesExt

CONSTANTS
    Handle,      \* handles on the log; the first one in owns it
    NoHandle,    \* the value of owner when nobody holds the flock
    Payload,     \* the payloads given to append: sequences of bytes
    MaxPayload,  \* MAX_PAYLOAD
    MaxBytes,    \* bound: bytes in the file
    MaxBatch,    \* bound: records in one append_many
    MaxFaults    \* bound: failures, ends of an owner and power losses

ASSUME FrameAssumption ==
    /\ NoHandle \notin Handle
    /\ Payload \subseteq Seq(Nat)
    /\ MaxPayload \in Nat /\ MaxBytes \in Nat /\ MaxBatch \in Nat /\ MaxFaults \in Nat

VARIABLES
    cache,    \* the file as every process sees it
    disk,     \* the file as a power loss would leave it
    owner,    \* who holds the flock, or NoHandle
    pc,       \* pc[h]: where h is
    size,     \* size[h]: the file's size when h was opened
    index,    \* index[h]: _index, byte positions, the last one the end of the log
    closed,   \* closed[h]: _closed
    rest,     \* bytes of the append in progress that are still to be written
    batch,    \* its records
    acked,    \* history: the first next_offset records at the last append that returned
    snap,     \* snap[h]: history, how many of those there were when h took the size,
              \* or, for the owner, when its last append returned
    tried,    \* history: what the log may hold beyond acked
    faults    \* how many there have been

file == <<cache, disk>>
handles == <<size, index, closed>>
append == <<rest, batch>>
history == <<acked, snap, tried>>
vars == <<cache, disk, owner, pc, size, index, closed, rest, batch, acked, snap, tried, faults>>

-----------------------------------------------------------------------------
(* codec.py.                                                               *)

HeaderSize == 2

\* zlib.crc32: no two payloads of an instance share one, and that of the empty
\* payload is zero.
Crc(p) ==
    LET c[i \in 0..Len(p)] == IF i = 0 THEN 0 ELSE 10 * c[i - 1] + p[i] + 1
    IN  c[Len(p)]

PackFrame(p) == <<Len(p), Crc(p)>> \o p

Packed(ps) == FlattenSeq([i \in DOMAIN ps |-> PackFrame(ps[i])])

\* Where the frame at byte position i would end, and what it would hold.
FrameEnd(f, i) == i + HeaderSize + f[i + 1]
PayloadAt(f, i) == SubSeq(f, i + HeaderSize + 1, FrameEnd(f, i))

\* Mutant of Intact: the header's checksum is not compared.
IntactUnchecked(f, i, n) ==
    i + HeaderSize <= n /\ FrameEnd(f, i) <= n

\* The first n bytes of f hold an intact frame at position i.
Intact(f, i, n) ==
    /\ i + HeaderSize <= n
    /\ FrameEnd(f, i) <= n
    /\ Crc(PayloadAt(f, i)) = f[i + 2]

\* _scan: positions of the intact frames in the first n bytes, and their end.
\* The file may have shrunk below n meanwhile.
Scan(f, n) ==
    LET m == IF n < Len(f) THEN n ELSE Len(f)
        from[i \in 0..m] == IF Intact(f, i, m) THEN <<i>> \o from[FrameEnd(f, i)] ELSE <<i>>
    IN  from[0]

\* iter_frames: the payloads of the frames in f up to the first one that is torn.
Frames(f) == LET ends == Scan(f, Len(f))
             IN  [k \in 1..Len(ends) - 1 |-> PayloadAt(f, ends[k])]

-----------------------------------------------------------------------------
(* The file and its handles.                                               *)

Goto(h, label) == pc' = [pc EXCEPT ![h] = label]

Cut(f, n) == SubSeq(f, 1, n)
Span(f, i, n) == SubSeq(f, i + 1, IF n < Len(f) THEN n ELSE Len(f))
Zeros(n) == [i \in 1..n |-> 0]

\* How far a write-back from content d towards content c may have come: the
\* file may have its new size before it has its new bytes.  It is taken where a
\* later one would not do: at a power loss, and at a cut that is not synced.
Images(d, c) ==
    LET common == {n \in 0..Len(c) : n <= Len(d) /\ Cut(c, n) = Cut(d, n)}
        least  == CHOOSE n \in common : \A k \in common : k <= n
    IN  {d} \cup UNION {{Cut(c, n), Cut(c, n) \o Zeros(Len(c) - n)} : n \in least..Len(c)}

Init ==
    /\ cache = <<>> /\ disk = <<>> /\ owner = NoHandle
    /\ pc = [h \in Handle |-> "gone"]
    /\ size = [h \in Handle |-> 0]
    /\ index = [h \in Handle |-> <<0>>]
    /\ closed = [h \in Handle |-> FALSE]
    /\ rest = <<>> /\ batch = <<>>
    /\ acked = <<>> /\ snap = [h \in Handle |-> 0] /\ tried = {} /\ faults = 0

\* __init__ opens the log, tries the flock and takes the file's size.
Open(h) ==
    /\ pc[h] = "gone"
    /\ \/ owner = NoHandle /\ owner' = h
       \/ owner # NoHandle /\ UNCHANGED owner
    /\ size' = [size EXCEPT ![h] = Len(cache)]
    /\ snap' = [snap EXCEPT ![h] = Len(acked)]
    /\ Goto(h, "scan")
    /\ UNCHANGED <<file, index, closed, append, acked, tried, faults>>

\* Mutant of Recover: a handle that does not own the log truncates it too.
RecoverByView(h) ==
    /\ pc[h] = "scan"
    /\ index' = [index EXCEPT ![h] = Scan(cache, size[h])]
    /\ IF Last(index'[h]) # size[h]
       THEN cache' = Cut(cache, Last(index'[h])) /\ disk' = cache'
       ELSE UNCHANGED file
    /\ Goto(h, "ready")
    /\ UNCHANGED <<owner, size, closed, append, history, faults>>

\* _recover builds the index; the owner truncates what is left and syncs.
Recover(h) ==
    /\ pc[h] = "scan"
    /\ index' = [index EXCEPT ![h] = Scan(cache, size[h])]
    /\ IF owner = h /\ Last(index'[h]) # size[h]
       THEN cache' = Cut(cache, Last(index'[h])) /\ disk' = cache'
       ELSE UNCHANGED file
    /\ Goto(h, "ready")
    /\ UNCHANGED <<owner, size, closed, append, history, faults>>

\* The records an index delimits.
Indexed(h) == [k \in 1..Len(index[h]) - 1 |-> PayloadAt(cache, index[h][k])]

\* append_many packs its frames; a payload that is too large makes it raise
\* before anything happens.
AppendBegin(h, b) ==
    /\ pc[h] = "ready" /\ owner = h /\ ~closed[h]
    /\ b # <<>> /\ \A i \in DOMAIN b : Len(b[i]) <= MaxPayload
    /\ Len(cache) + Len(Packed(b)) <= MaxBytes
    /\ batch' = b /\ rest' = Packed(b)
    /\ tried' = (IF disk = cache THEN {} ELSE tried)
                  \cup {SubSeq(Indexed(h), Len(acked) + 1, Len(Indexed(h))) \o b}
    /\ Goto(h, "write")
    /\ UNCHANGED <<file, owner, handles, acked, snap, faults>>

\* One write() of _write_all takes some of the bytes.
Write(h, n) ==
    /\ pc[h] = "write" /\ n <= Len(rest)
    /\ cache' = cache \o Cut(rest, n)
    /\ rest' = SubSeq(rest, n + 1, Len(rest))
    /\ UNCHANGED <<disk, owner, pc, handles, batch, history, faults>>

\* Mutant of Publish: the header is left out of a record's length.
PublishShort(h) ==
    /\ pc[h] = "write" /\ rest = <<>>
    /\ disk' = cache
    /\ index' = [index EXCEPT ![h] =
         FoldLeft(LAMBDA ends, p : Append(ends, Last(ends) + Len(p)), @, batch)]
    /\ acked' = Indexed(h) \o batch
    /\ snap' = [snap EXCEPT ![h] = Len(acked')]
    /\ tried' = {} /\ batch' = <<>>
    /\ Goto(h, "ready")
    /\ UNCHANGED <<cache, owner, size, closed, rest, faults>>

\* Mutant of Publish: the fsync is left out.
PublishUnsynced(h) ==
    /\ pc[h] = "write" /\ rest = <<>>
    /\ index' = [index EXCEPT ![h] =
         FoldLeft(LAMBDA ends, p : Append(ends, Last(ends) + Len(PackFrame(p))), @, batch)]
    /\ acked' = Indexed(h) \o batch
    /\ snap' = [snap EXCEPT ![h] = Len(acked')]
    /\ tried' = {} /\ batch' = <<>>
    /\ Goto(h, "ready")
    /\ UNCHANGED <<file, owner, size, closed, rest, faults>>

\* fsync, then the end of each frame goes into the index and the call returns.
Publish(h) ==
    /\ pc[h] = "write" /\ rest = <<>>
    /\ disk' = cache
    /\ index' = [index EXCEPT ![h] =
         FoldLeft(LAMBDA ends, p : Append(ends, Last(ends) + Len(PackFrame(p))), @, batch)]
    /\ acked' = Indexed(h) \o batch
    /\ snap' = [snap EXCEPT ![h] = Len(acked')]
    /\ tried' = {} /\ batch' = <<>>
    /\ Goto(h, "ready")
    /\ UNCHANGED <<cache, owner, size, closed, rest, faults>>

Fault == faults < MaxFaults /\ faults' = faults + 1

\* A write or the fsync fails and the file is cut back to its last durable
\* end; if that fails, before or after the cut, the handle is disabled.
Fail(h) ==
    /\ pc[h] = "write" /\ Fault
    /\ \/ /\ cache' = Cut(cache, Last(index[h]))
          /\ disk' = cache' /\ UNCHANGED closed
       \/ /\ cache' \in {cache, Cut(cache, Last(index[h]))}
          /\ disk' \in IF cache' = cache THEN {disk} ELSE Images(disk, cache)
          /\ closed' = [closed EXCEPT ![h] = TRUE]
    /\ rest' = <<>> /\ batch' = <<>>
    /\ Goto(h, "ready")
    /\ UNCHANGED <<owner, size, index, history>>

\* The memory of these handles is gone.
Forget(hs) ==
    /\ pc' = [h \in Handle |-> IF h \in hs THEN "gone" ELSE pc[h]]
    /\ size' = [h \in Handle |-> IF h \in hs THEN 0 ELSE size[h]]
    /\ index' = [h \in Handle |-> IF h \in hs THEN <<0>> ELSE index[h]]
    /\ closed' = [h \in Handle |-> h \notin hs /\ closed[h]]
    /\ snap' = [h \in Handle |-> IF h \in hs THEN 0 ELSE snap[h]]

\* The process ends, or closes its handle, at any moment.
Exit(h) ==
    /\ pc[h] # "gone"
    /\ IF owner = h THEN Fault ELSE UNCHANGED faults
    /\ owner' = IF owner = h THEN NoHandle ELSE owner
    /\ rest' = IF owner = h THEN <<>> ELSE rest
    /\ batch' = IF owner = h THEN <<>> ELSE batch
    /\ Forget({h})
    /\ UNCHANGED <<file, acked, tried>>

\* Written-back data is what the file is then.
PowerLoss ==
    /\ Fault
    /\ cache' \in Images(disk, cache) /\ disk' = cache'
    /\ owner' = NoHandle
    /\ rest' = <<>> /\ batch' = <<>>
    /\ Forget(Handle)
    /\ UNCHANGED <<acked, tried>>

Next ==
    \/ \E h \in Handle :
         \/ Open(h) \/ Recover(h) \/ Publish(h) \/ Fail(h) \/ Exit(h)
         \/ \E b \in BoundedSeq(Payload, MaxBatch) : AppendBegin(h, b)
         \/ \E n \in 1..MaxBytes : Write(h, n)
    \/ PowerLoss

Spec == Init /\ [][Next]_vars

\* read(offset, end), for o < e within the index: the bytes between the two
\* positions must all be there and hold as many frames as asked for.
Read(h, o, e) ==
    LET to  == index[h][e + 1]
        got == Frames(Span(cache, index[h][o + 1], to))
    IN  [ok |-> to <= Len(cache) /\ Len(got) = e - o, records |-> got]

-----------------------------------------------------------------------------
(* Properties.                                                             *)

\* A scan finds exactly the frames the bytes begin with: they are the packed
\* payloads, and no packed payload could be what comes next (concepts.md:
\* "everything before that point is guaranteed intact").
ScanIsReference ==
    LET found == Frames(cache)
        n     == Len(cache)
        parts == {SubSeq(cache, i, j) : i \in 1..n + 1, j \in 0..n}
    IN  /\ IsPrefix(Packed(found), cache)
        /\ \A p \in parts : ~IsPrefix(Packed(Append(found, p)), cache)

\* The index of an owner that accepts appends ends where the next frame lands,
\* and delimits the file's frames one by one.
OwnerIndexExact ==
    \A h \in Handle : owner = h /\ pc[h] = "ready" /\ ~closed[h] =>
        index[h] = Scan(cache, Len(cache)) /\ Last(index[h]) = Len(cache)

\* A handle reads back the records that were acknowledged when it was opened,
\* for any range of them, whatever has been written, cut back or appended since
\* (concurrency.md: "a snapshot of the log at open time").
SnapshotReadable ==
    \A h \in Handle : \A o, e \in 0..snap[h] :
        pc[h] \in {"ready", "write"} /\ o < e =>
            Read(h, o, e) = [ok |-> TRUE, records |-> SubSeq(acked, o + 1, e)]

\* What a recovery adds to the acknowledged records is the beginning of an
\* append that did not return; a zero-filled tail adds empty records to it.
NothingInvented ==
    \A h \in Handle : owner = h /\ pc[h] = "ready" /\ ~closed[h] =>
        LET extra == SubSeq(Indexed(h), Len(acked) + 1, Len(Indexed(h)))
        IN  \E t \in tried \cup {<<>>} : \E k \in 0..Len(t) :
              /\ IsPrefix(SubSeq(t, 1, k), extra)
              /\ \A i \in k + 1..Len(extra) : extra[i] = <<>>

\* The bytes implement the promise of DurableLog.
Log == INSTANCE DurableLog
         WITH Payload <- Seq(Nat), log <- Frames(disk), acked <- acked, sealed <- FALSE

ImplementsLog == Log!Spec
=============================================================================
