---------------------------- MODULE StreamStore ----------------------------
(***************************************************************************)
(* One stream name in a durastream directory shared by several processes,  *)
(* each with a Store: the row in meta.db, the path streams/<name>.log, the *)
(* files that are or were at that path, and the flock on each file.        *)
(*                                                                         *)
(* Store.create, open and delete are sequences of system calls; the        *)
(* store's lock keeps those of one process apart, nothing but flock and    *)
(* SQLite's statements those of two processes.  An append is one step here *)
(* (DurableStream has its parts).  A directory entry survives a power loss *)
(* for sure only once the directory was synced; a committed row always     *)
(* does.                                                                   *)
(***************************************************************************)
EXTENDS Naturals, FiniteSets

CONSTANTS
    Proc,        \* processes, each with one Store at a time
    NoProc,      \* a flock that nobody holds
    MaxFiles,    \* bound: files ever created at the path
    MaxRecords,  \* bound: records ever appended
    Overlap      \* BOOLEAN: operations of two processes may overlap in time

ASSUME ProcAssumption == NoProc \notin Proc
ASSUME BoundsAssumption == MaxFiles \in Nat /\ MaxRecords \in Nat /\ Overlap \in BOOLEAN

File == 1..MaxFiles
NoFile == 0
Record == 1..MaxRecords

VARIABLES
    row,      \* meta.db has a row for the stream
    dir,      \* the file at the path, or NoFile
    diskDir,  \* the file a power loss would leave at the path
    files,    \* how many files were ever created
    content,  \* content[f]: the records in file f
    flock,    \* flock[f]: who holds the lock of file f
    handle,   \* handle[p]: the file of the DurableStream in _open, or NoFile
    owner,    \* owner[p]: its _owner
    pc,       \* pc[p]: where the operation of p is
    op,       \* op[p]: which operation it is
    fd,       \* fd[p]: the file it has open, to guard or to become the handle
    removed,  \* removed[p]: its unlink found a file
    next,     \* the number of records ever appended
    synced,   \* history: files whose entry was synced after they were created
    kept,     \* history: acknowledged records the stream owes its readers
    dead      \* history: records of streams whose delete synced and returned

disk == <<dir, diskDir, files>>
handles == <<handle, owner>>
local == <<pc, op, fd, removed>>
history == <<synced, kept, dead>>
vars == <<row, dir, diskDir, files, content, flock, handle, owner, pc, op, fd,
          removed, next, synced, kept, dead>>

Init ==
    /\ row = FALSE
    /\ dir = NoFile /\ diskDir = NoFile /\ files = 0
    /\ content = [f \in File |-> {}]
    /\ flock = [f \in File |-> NoProc]
    /\ handle = [p \in Proc |-> NoFile]
    /\ owner = [p \in Proc |-> FALSE]
    /\ pc = [p \in Proc |-> "idle"]
    /\ op = [p \in Proc |-> "open"]
    /\ fd = [p \in Proc |-> NoFile]
    /\ removed = [p \in Proc |-> FALSE]
    /\ next = 0
    /\ synced = {} /\ kept = {} /\ dead = {}

In(f) == IF f = NoFile THEN {} ELSE content[f]

Goto(p, label) == pc' = [pc EXCEPT ![p] = label]

\* p starts an operation of its Store.
Begin(p, name, label) ==
    /\ pc[p] = "idle"
    /\ Overlap \/ \A q \in Proc : pc[q] = "idle"
    /\ op' = [op EXCEPT ![p] = name]
    /\ removed' = [removed EXCEPT ![p] = FALSE]
    /\ Goto(p, label)

-----------------------------------------------------------------------------
(* create, open and delete.                                                *)

\* create, of a name that is not in _open: the row decides what follows.
CreateBegin(p) ==
    /\ handle[p] = NoFile
    /\ Begin(p, IF row THEN "open" ELSE "create", IF row THEN "openFile" ELSE "probe")
    /\ UNCHANGED <<row, disk, content, flock, handles, fd, next, history>>

\* open, of a name that is not in _open; without a row it raises KeyError.
OpenBegin(p) ==
    /\ handle[p] = NoFile
    /\ row
    /\ Begin(p, "open", "openFile")
    /\ UNCHANGED <<row, disk, content, flock, handles, fd, next, history>>

\* delete: the writer unlinks its own file, others must lock it first.
DeleteBegin(p) ==
    /\ Begin(p, "delete", IF owner[p] THEN "unlink" ELSE "probe")
    /\ UNCHANGED <<row, disk, content, flock, handles, fd, next, history>>

\* _lock_for_removal opens the log, if there is one.
Probe(p) ==
    /\ pc[p] = "probe"
    /\ fd' = [fd EXCEPT ![p] = dir]
    /\ Goto(p, IF dir = NoFile THEN "unlink" ELSE "probeLock")
    /\ UNCHANGED <<row, disk, content, flock, handles, op, removed, next, history>>

\* Mutant of ProbeLock: the file is unlinked whoever holds its lock.
ProbeLockIgnored(p) ==
    /\ pc[p] = "probeLock"
    /\ Goto(p, "unlink")
    /\ UNCHANGED <<row, disk, content, flock, handles, op, fd, removed, next, history>>

\* ... and tries its lock; if that is taken, StreamLocked is raised.
ProbeLock(p) ==
    /\ pc[p] = "probeLock"
    /\ IF flock[fd[p]] = NoProc
       THEN /\ flock' = [flock EXCEPT ![fd[p]] = p]
            /\ Goto(p, "unlink")
            /\ UNCHANGED fd
       ELSE /\ fd' = [fd EXCEPT ![p] = NoFile]
            /\ Goto(p, "idle")
            /\ UNCHANGED flock
    /\ UNCHANGED <<row, disk, content, handles, op, removed, next, history>>

\* _remove_if_exists: whatever file is at the path by now.  A delete gives up
\* the records in it, create does not mean to.
Unlink(p) ==
    /\ pc[p] = "unlink"
    /\ removed' = [removed EXCEPT ![p] = dir # NoFile]
    /\ dir' = NoFile
    /\ kept' = IF op[p] = "delete" THEN kept \ In(dir) ELSE kept
    /\ Goto(p, "unguard")
    /\ UNCHANGED <<row, diskDir, files, content, flock, handles, op, fd, next,
                   synced, dead>>

\* Mutant of Unguard: the probe's file is forgotten, not closed.
UnguardKeeps(p) ==
    /\ pc[p] = "unguard"
    /\ fd' = [fd EXCEPT ![p] = NoFile]
    /\ Goto(p, IF op[p] = "create" THEN "insert" ELSE "drop")
    /\ UNCHANGED <<row, disk, content, flock, handles, op, removed, next, history>>

\* The probe's file is closed, and its lock with it.
Unguard(p) ==
    /\ pc[p] = "unguard"
    /\ flock' = [f \in File |-> IF f = fd[p] THEN NoProc ELSE flock[f]]
    /\ fd' = [fd EXCEPT ![p] = NoFile]
    /\ Goto(p, IF op[p] = "create" THEN "insert" ELSE "drop")
    /\ UNCHANGED <<row, disk, content, handles, op, removed, next, history>>

\* create inserts the row; a row that is there by now makes it raise.
Insert(p) ==
    /\ pc[p] = "insert"
    /\ row' = TRUE
    /\ Goto(p, IF row THEN "idle" ELSE "openFile")
    /\ UNCHANGED <<disk, content, flock, handles, op, fd, removed, next, history>>

\* DurableStream.__init__ opens the log in append mode, which creates it if
\* it is missing.
OpenFile(p) ==
    /\ pc[p] = "openFile"
    /\ IF dir # NoFile THEN UNCHANGED <<dir, files>>
       ELSE files < MaxFiles /\ files' = files + 1 /\ dir' = files'
    /\ fd' = [fd EXCEPT ![p] = dir']
    /\ Goto(p, "lock")
    /\ UNCHANGED <<row, diskDir, content, flock, handles, op, removed, next, history>>

\* ... and tries its lock; without it the handle is a read-only view.  The
\* handle goes into _open.
Lock(p) ==
    /\ pc[p] = "lock"
    /\ IF flock[fd[p]] = NoProc
       THEN flock' = [flock EXCEPT ![fd[p]] = p] /\ owner' = [owner EXCEPT ![p] = TRUE]
       ELSE UNCHANGED <<flock, owner>>
    /\ handle' = [handle EXCEPT ![p] = fd[p]]
    /\ fd' = [fd EXCEPT ![p] = NoFile]
    /\ Goto(p, IF op[p] = "create" THEN "syncDir" ELSE "idle")
    /\ UNCHANGED <<row, disk, content, op, removed, next, history>>

\* The handle of p, if it has one, lets go of its file and of the lock.
CloseHandle(p) ==
    /\ flock' = [f \in File |-> IF owner[p] /\ f = handle[p] THEN NoProc ELSE flock[f]]
    /\ handle' = [handle EXCEPT ![p] = NoFile]
    /\ owner' = [owner EXCEPT ![p] = FALSE]

\* Mutant of DropHandle: the directory is not synced after the unlink.
DropHandleNoSync(p) ==
    /\ pc[p] = "drop"
    /\ CloseHandle(p)
    /\ Goto(p, "deleteRow")
    /\ UNCHANGED <<row, disk, content, op, fd, removed, next, history>>

\* delete drops the handle; if it unlinked a file the directory is synced.
DropHandle(p) ==
    /\ pc[p] = "drop"
    /\ CloseHandle(p)
    /\ Goto(p, IF removed[p] THEN "syncDir" ELSE "deleteRow")
    /\ UNCHANGED <<row, disk, content, op, fd, removed, next, history>>

\* Mutant of SyncDir: the sync returns before the entry is on disk.
SyncDirEarly(p) ==
    /\ pc[p] = "syncDir"
    /\ synced' = synced \cup {dir}
    /\ Goto(p, IF op[p] = "create" THEN "idle" ELSE "deleteRow")
    /\ UNCHANGED <<row, disk, content, flock, handles, op, fd, removed, next,
                   kept, dead>>

\* _fsync_dir, the last step of create and the last but one of delete.
SyncDir(p) ==
    /\ pc[p] = "syncDir"
    /\ diskDir' = dir
    /\ synced' = synced \cup {dir}
    /\ Goto(p, IF op[p] = "create" THEN "idle" ELSE "deleteRow")
    /\ UNCHANGED <<row, dir, files, content, flock, handles, op, fd, removed, next,
                   kept, dead>>

\* It fails: the operation raises, and what it has done so far stays.
SyncDirFails(p) ==
    /\ pc[p] = "syncDir"
    /\ Goto(p, "idle")
    /\ UNCHANGED <<row, disk, content, flock, handles, op, fd, removed, next, history>>

\* delete removes the row and returns.
DeleteRow(p) ==
    /\ pc[p] = "deleteRow"
    /\ row' = FALSE
    /\ dead' = IF removed[p] THEN 1..next ELSE dead
    /\ Goto(p, "idle")
    /\ UNCHANGED <<disk, content, flock, handles, op, fd, removed, next, synced, kept>>

-----------------------------------------------------------------------------
(* Appends, which other threads of p make meanwhile; crashes and power.    *)

\* An append returns; create has handed out its handle.  The stream owes the record from now on unless p itself
\* is deleting the stream, or the log is one whose entry was never synced.
AppendRecord(p) ==
    /\ owner[p] /\ pc[p] # "syncDir"
    /\ next < MaxRecords
    /\ next' = next + 1
    /\ content' = [content EXCEPT ![handle[p]] = @ \cup {next'}]
    /\ kept' = IF handle[p] \in synced /\ ~(op[p] = "delete" /\ pc[p] # "idle")
               THEN kept \cup {next'} ELSE kept
    /\ UNCHANGED <<row, disk, flock, handles, local, synced, dead>>

\* Store.close, or the death of the process at any moment.
Exit(p) ==
    /\ handle[p] # NoFile \/ pc[p] # "idle"
    /\ flock' = [f \in File |-> IF flock[f] = p THEN NoProc ELSE flock[f]]
    /\ handle' = [handle EXCEPT ![p] = NoFile]
    /\ owner' = [owner EXCEPT ![p] = FALSE]
    /\ fd' = [fd EXCEPT ![p] = NoFile]
    /\ Goto(p, "idle")
    /\ UNCHANGED <<row, disk, content, op, removed, next, history>>

\* The file system writes the directory back on its own.
Writeback ==
    /\ diskDir # dir
    /\ diskDir' = dir
    /\ UNCHANGED <<row, dir, files, content, flock, handles, local, next, history>>

PowerLoss ==
    /\ dir' = diskDir
    /\ flock' = [f \in File |-> NoProc]
    /\ handle' = [p \in Proc |-> NoFile]
    /\ owner' = [p \in Proc |-> FALSE]
    /\ pc' = [p \in Proc |-> "idle"]
    /\ fd' = [p \in Proc |-> NoFile]
    /\ UNCHANGED <<row, diskDir, files, content, op, removed, next, history>>

Operation(p) ==
    \/ CreateBegin(p) \/ OpenBegin(p) \/ DeleteBegin(p)
    \/ Probe(p) \/ ProbeLock(p) \/ Unlink(p) \/ Unguard(p)
    \/ Insert(p) \/ OpenFile(p) \/ Lock(p)
    \/ DropHandle(p) \/ SyncDir(p) \/ SyncDirFails(p) \/ DeleteRow(p)

Next ==
    \/ \E p \in Proc : Operation(p) \/ AppendRecord(p) \/ Exit(p)
    \/ Writeback \/ PowerLoss

Spec == Init /\ [][Next]_vars

-----------------------------------------------------------------------------
(* Properties.                                                             *)

\* Among the types: a lock is held by a process that has the file open.
TypeOK ==
    /\ row \in BOOLEAN
    /\ dir \in File \cup {NoFile} /\ diskDir \in File \cup {NoFile}
    /\ files \in 0..MaxFiles /\ next \in 0..MaxRecords
    /\ content \in [File -> SUBSET Record]
    /\ flock \in [File -> Proc \cup {NoProc}]
    /\ \A p \in Proc : owner[p] => handle[p] \in File /\ flock[handle[p]] = p
    /\ \A f \in File : flock[f] = NoProc \/ f \in {handle[flock[f]], fd[flock[f]]}
    /\ removed \in [Proc -> BOOLEAN]
    /\ kept \subseteq Record /\ dead \subseteq Record

\* What append acknowledged stays in the stream, now and after a power loss,
\* until the stream is deleted, whoever creates, opens, deletes or crashes
\* (concepts.md: an append is durable when it returns), if the log's entry was
\* ever synced.
AckedKept == kept \subseteq In(dir) \cap In(diskDir)

\* The records of a deleted stream never come back into a stream of the same
\* name (create: "never resurrect its records into the new stream"), if the
\* delete that returned is the one that unlinked the log and synced.
NoResurrection == row => dead \cap In(dir) = {}

\* A process that can append writes to the file at the path, not to one that
\* was unlinked under it (delete: "no other process can start writing a file
\* that is about to vanish"); its own delete is about to drop the handle.
WriterAtPath ==
    \A p \in Proc : owner[p] /\ pc[p] \notin {"unguard", "drop"} => handle[p] = dir
=============================================================================
