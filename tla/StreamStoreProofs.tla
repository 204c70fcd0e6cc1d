-------------------------- MODULE StreamStoreProofs --------------------------
(***************************************************************************)
(* Proofs about StreamStore, for any number of processes, files and        *)
(* records.  The locks are proved for any interleaving; that a writer is   *)
(* at the path, that acknowledged records stay and that deleted ones do    *)
(* not return, for processes whose operations do not overlap in time (with *)
(* overlap TLC finds the first of these violated).                         *)
(***************************************************************************)
EXTENDS StreamStore, TLAPS

-----------------------------------------------------------------------------
(* The inductive invariant.                                                *)

Places == {"idle", "probe", "probeLock", "unlink", "unguard", "insert", "openFile",
           "lock", "drop", "syncDir", "deleteRow"}

\* Types, with the files that exist so far.
TypeInv ==
    /\ files \in 0..MaxFiles /\ next \in 0..MaxRecords
    /\ dir \in 0..files /\ diskDir \in 0..files
    /\ content \in [File -> SUBSET (1..next)]
    /\ \A f \in File : f > files => content[f] = {}
    /\ flock \in [File -> Proc \cup {NoProc}]
    /\ handle \in [Proc -> 0..files] /\ fd \in [Proc -> 0..files]
    /\ owner \in [Proc -> BOOLEAN] /\ removed \in [Proc -> BOOLEAN]
    /\ pc \in [Proc -> Places] /\ op \in [Proc -> {"create", "open", "delete"}]
    /\ synced \subseteq 0..files
    /\ kept \subseteq 1..next /\ dead \subseteq 1..next

\* A writer has its file locked, and a lock is a writer's or a removal's.
HolderInv ==
    /\ \A p \in Proc : owner[p] => handle[p] # NoFile /\ flock[handle[p]] = p
    /\ \A f \in File : \A p \in Proc : flock[f] = p =>
         \/ owner[p] /\ f = handle[p]
         \/ f = fd[p] /\ pc[p] \in {"unlink", "unguard"}
    /\ \A p \in Proc : fd[p] # NoFile /\ pc[p] \in {"unlink", "unguard"} =>
         flock[fd[p]] = p /\ ~owner[p]

\* Where an operation has a file open, and a handle.
PlaceInv ==
    /\ \A p \in Proc : fd[p] # NoFile => pc[p] \in {"probeLock", "unlink", "unguard", "lock"}
    /\ \A p \in Proc : pc[p] \in {"probeLock", "lock"} => fd[p] # NoFile
    /\ \A p \in Proc : pc[p] \in {"openFile", "lock", "insert"} => handle[p] = NoFile
    /\ \A p \in Proc : op[p] = "create" /\ pc[p] \in {"probe", "probeLock", "unlink", "unguard"}
         => handle[p] = NoFile
    /\ \A p \in Proc : pc[p] \in {"probe", "probeLock"} => ~owner[p]
    /\ \A p \in Proc : pc[p] \in {"drop", "deleteRow"} => op[p] = "delete"
    /\ \A p \in Proc : pc[p] = "insert" => op[p] = "create"
    /\ \A p \in Proc : op[p] = "open" => pc[p] \in {"idle", "openFile", "lock"}
    /\ \A p \in Proc : pc[p] \in {"syncDir", "deleteRow"} /\ op[p] = "delete" => ~owner[p]

LockInv == HolderInv /\ PlaceInv

\* One operation at a time; the writer is at the path, and so is the file an
\* operation has in hand.
PathInv ==
    /\ \A p, q \in Proc : pc[p] # "idle" /\ pc[q] # "idle" => p = q
    /\ \A p \in Proc : owner[p] /\ pc[p] \notin {"unguard", "drop"} => handle[p] = dir
    /\ \A p \in Proc : pc[p] \in {"probeLock", "lock"} => fd[p] = dir
    /\ \A p \in Proc : pc[p] = "unlink" => dir = NoFile \/ flock[dir] = p
    /\ \A p \in Proc : pc[p] \in {"unguard", "drop", "deleteRow"} => dir = NoFile
    /\ \A p \in Proc : pc[p] = "syncDir" /\ op[p] = "delete" => dir = NoFile

\* Acknowledged records are in the file at the path, and that is the file on
\* disk.
KeptFile ==
    /\ kept \subseteq In(dir)
    /\ kept # {} => dir = diskDir
    /\ dir # NoFile /\ dir \in synced => dir = diskDir

\* Whoever can append, or is about to open, finds the row there.
KeptRow ==
    /\ kept # {} => row
    /\ \A p \in Proc : owner[p] => row
    /\ \A p \in Proc : pc[p] \in {"openFile", "lock"} => row
    /\ \A p \in Proc : op[p] = "create" /\ pc[p] \in {"probe", "probeLock", "unlink", "unguard"}
         => ~row

KeptInv == KeptFile /\ KeptRow

\* Deleted records are in no file that is at the path or that a power loss
\* would bring back there.
DeadInv ==
    /\ dead \cap In(dir) = {} /\ dead \cap In(diskDir) = {}
    /\ \A p \in Proc : pc[p] = "deleteRow" /\ removed[p] => diskDir = NoFile

Apart == PathInv /\ KeptInv /\ DeadInv

-----------------------------------------------------------------------------
(* It holds at the start and every step keeps it.                          *)

LEMMA InitInv == Init => TypeInv /\ LockInv /\ Apart
<1> SUFFICES ASSUME Init PROVE TypeInv /\ LockInv /\ Apart
  OBVIOUS
<1> USE ProcAssumption, BoundsAssumption DEF Init
<1>1. TypeInv
  BY DEF TypeInv, Places, File, NoFile
<1>2. LockInv
  BY DEF LockInv, HolderInv, PlaceInv, NoFile
<1>3. Apart
  BY DEF Apart, PathInv, KeptInv, KeptFile, KeptRow, DeadInv, In, NoFile
<1> QED BY <1>1, <1>2, <1>3

LEMMA CreateBeginStep ==
    ASSUME TypeInv, LockInv, NEW p \in Proc, CreateBegin(p)
    PROVE  TypeInv' /\ LockInv' /\ (~Overlap /\ Apart => Apart')
<1> USE ProcAssumption, BoundsAssumption
  DEF CreateBegin, Goto, disk, handles, local, history, Begin
<1>1. TypeInv'
  BY DEF TypeInv, Places, File, NoFile
<1>2. LockInv'
  BY DEF TypeInv, LockInv, HolderInv, PlaceInv, Places, File, NoFile
<1>3. ASSUME ~Overlap, Apart PROVE PathInv'
  BY <1>3 DEF TypeInv, LockInv, HolderInv, PlaceInv, Apart, PathInv, Places,
     File, NoFile
<1>4. ASSUME ~Overlap, Apart PROVE KeptInv'
  BY <1>4 DEF TypeInv, LockInv, HolderInv, PlaceInv, Apart, PathInv, KeptInv,
     KeptFile, KeptRow, In, Places, File, NoFile
<1>5. ASSUME ~Overlap, Apart PROVE DeadInv'
  BY <1>5 DEF TypeInv, LockInv, HolderInv, PlaceInv, Apart, PathInv, DeadInv,
     In, Places, File, NoFile
<1> QED BY <1>1, <1>2, <1>3, <1>4, <1>5 DEF Apart

LEMMA OpenBeginStep ==
    ASSUME TypeInv, LockInv, NEW p \in Proc, OpenBegin(p)
    PROVE  TypeInv' /\ LockInv' /\ (~Overlap /\ Apart => Apart')
<1> USE ProcAssumption, BoundsAssumption
  DEF OpenBegin, Goto, disk, handles, local, history, Begin
<1>1. TypeInv'
  BY DEF TypeInv, Places, File, NoFile
<1>2. LockInv'
  BY DEF TypeInv, LockInv, HolderInv, PlaceInv, Places, File, NoFile
<1>3. ASSUME ~Overlap, Apart PROVE PathInv'
  BY <1>3 DEF TypeInv, LockInv, HolderInv, PlaceInv, Apart, PathInv, Places,
     File, NoFile
<1>4. ASSUME ~Overlap, Apart PROVE KeptInv'
  BY <1>4 DEF TypeInv, LockInv, HolderInv, PlaceInv, Apart, PathInv, KeptInv,
     KeptFile, KeptRow, In, Places, File, NoFile
<1>5. ASSUME ~Overlap, Apart PROVE DeadInv'
  BY <1>5 DEF TypeInv, LockInv, HolderInv, PlaceInv, Apart, PathInv, DeadInv,
     In, Places, File, NoFile
<1> QED BY <1>1, <1>2, <1>3, <1>4, <1>5 DEF Apart

LEMMA DeleteBeginStep ==
    ASSUME TypeInv, LockInv, NEW p \in Proc, DeleteBegin(p)
    PROVE  TypeInv' /\ LockInv' /\ (~Overlap /\ Apart => Apart')
<1> USE ProcAssumption, BoundsAssumption
  DEF DeleteBegin, Goto, disk, handles, local, history, Begin
<1>1. TypeInv'
  BY DEF TypeInv, Places, File, NoFile
<1>2. LockInv'
  BY DEF TypeInv, LockInv, HolderInv, PlaceInv, Places, File, NoFile
<1>3. ASSUME ~Overlap, Apart PROVE PathInv'
  <2>1. /\ pc[p] = "idle" /\ pc \in [Proc -> Places]
        /\ pc' = [pc EXCEPT ![p] = IF owner[p] THEN "unlink" ELSE "probe"]
        /\ UNCHANGED <<dir, flock, handle, owner, fd>>
    BY DEF TypeInv
  <2>2. \A q \in Proc : pc[q] = "idle"
    BY <1>3
  <2>3. owner[p] => handle[p] = dir /\ flock[dir] = p
    BY <1>3, <2>1 DEF Apart, PathInv, LockInv, HolderInv
  <2>4. \A q \in Proc : q # p => pc'[q] = "idle"
    BY <2>1, <2>2
  <2>5. \A q \in Proc : owner[q] => handle[q] = dir
    BY <1>3, <2>2 DEF Apart, PathInv
  <2> QED BY <2>1, <2>3, <2>4, <2>5 DEF PathInv
<1>4. ASSUME ~Overlap, Apart PROVE KeptInv'
  BY <1>4 DEF TypeInv, LockInv, HolderInv, PlaceInv, Apart, PathInv, KeptInv,
     KeptFile, KeptRow, In, Places, File, NoFile
<1>5. ASSUME ~Overlap, Apart PROVE DeadInv'
  BY <1>5 DEF TypeInv, LockInv, HolderInv, PlaceInv, Apart, PathInv, DeadInv,
     In, Places, File, NoFile
<1> QED BY <1>1, <1>2, <1>3, <1>4, <1>5 DEF Apart

LEMMA ProbeStep ==
    ASSUME TypeInv, LockInv, NEW p \in Proc, Probe(p)
    PROVE  TypeInv' /\ LockInv' /\ (~Overlap /\ Apart => Apart')
<1> USE ProcAssumption, BoundsAssumption
  DEF Probe, Goto, disk, handles, local, history
<1>1. TypeInv'
  BY DEF TypeInv, Places, File, NoFile
<1>2. LockInv'
  BY DEF TypeInv, LockInv, HolderInv, PlaceInv, Places, File, NoFile
<1>3. ASSUME ~Overlap, Apart PROVE PathInv'
  <2>1. /\ pc[p] = "probe" /\ pc \in [Proc -> Places] /\ fd \in [Proc -> 0..files]
        /\ fd' = [fd EXCEPT ![p] = dir] /\ UNCHANGED <<dir, flock, handle, owner, op>>
        /\ pc' = [pc EXCEPT ![p] = IF dir = NoFile THEN "unlink" ELSE "probeLock"]
    BY DEF TypeInv
  <2> QED BY <1>3, <2>1 DEF Apart, PathInv
<1>4. ASSUME ~Overlap, Apart PROVE KeptInv'
  BY <1>4 DEF TypeInv, LockInv, HolderInv, PlaceInv, Apart, PathInv, KeptInv,
     KeptFile, KeptRow, In, Places, File, NoFile
<1>5. ASSUME ~Overlap, Apart PROVE DeadInv'
  BY <1>5 DEF TypeInv, LockInv, HolderInv, PlaceInv, Apart, PathInv, DeadInv,
     In, Places, File, NoFile
<1> QED BY <1>1, <1>2, <1>3, <1>4, <1>5 DEF Apart

LEMMA ProbeLockStep ==
    ASSUME TypeInv, LockInv, NEW p \in Proc, ProbeLock(p)
    PROVE  TypeInv' /\ LockInv' /\ (~Overlap /\ Apart => Apart')
<1> USE ProcAssumption, BoundsAssumption
  DEF ProbeLock, Goto, disk, handles, local, history
<1>0. /\ fd[p] \in File /\ fd[p] \in 0..files /\ pc \in [Proc -> Places] /\ fd \in [Proc -> 0..files]
      /\ flock \in [File -> Proc \cup {NoProc}] /\ ~owner[p]
      /\ NoFile \in 0..files
  BY DEF TypeInv, LockInv, PlaceInv, File, NoFile
<1>1. TypeInv'
  <2>1. CASE flock[fd[p]] = NoProc
    BY <1>0, <2>1 DEF TypeInv, Places
  <2>2. CASE flock[fd[p]] # NoProc
    BY <1>0, <2>2 DEF TypeInv, Places
  <2> QED BY <2>1, <2>2
<1>2. LockInv'
  <2>1. CASE flock[fd[p]] = NoProc
    <3>1. pc' = [pc EXCEPT ![p] = "unlink"] /\ flock' = [flock EXCEPT ![fd[p]] = p]
          /\ fd' = fd /\ pc[p] = "probeLock" /\ pc'[p] = "unlink"
      BY <1>0, <2>1
    <3>2. \A q \in Proc : owner[q] => handle[q] \in File /\ handle[q] # fd[p]
      BY <1>0, <2>1 DEF TypeInv, LockInv, HolderInv, File, NoFile
    <3>3. \A q \in Proc : owner[q] => flock'[handle[q]] = q
      BY <1>0, <3>1, <3>2 DEF LockInv, HolderInv
    <3>4. \A f \in File : \A q \in Proc : flock'[f] = q =>
            \/ owner[q] /\ f = handle[q]
            \/ f = fd[q] /\ pc'[q] \in {"unlink", "unguard"}
      BY <1>0, <3>1 DEF LockInv, HolderInv
    <3>5. ASSUME NEW q \in Proc, fd[q] # NoFile, pc'[q] \in {"unlink", "unguard"}
          PROVE  flock'[fd[q]] = q /\ ~owner[q]
      <4>1. CASE q = p
        BY <1>0, <3>1, <4>1
      <4>2. CASE q # p
        <5>1. pc[q] = pc'[q] /\ fd[q] \in File /\ flock[fd[q]] = q /\ ~owner[q]
          BY <1>0, <3>1, <3>5, <4>2 DEF TypeInv, LockInv, HolderInv, File, NoFile
        <5> QED BY <1>0, <2>1, <3>1, <5>1, ProcAssumption
      <4> QED BY <4>1, <4>2
    <3>6. HolderInv'
      BY <3>1, <3>3, <3>4, <3>5 DEF LockInv, HolderInv
    <3>7. PlaceInv'
      BY <1>0, <2>1 DEF LockInv, PlaceInv
    <3> QED BY <3>6, <3>7 DEF LockInv
  <2>2. CASE flock[fd[p]] # NoProc
    <3>1. HolderInv'
      BY <1>0, <2>2 DEF LockInv, HolderInv, PlaceInv
    <3>2. PlaceInv'
      BY <1>0, <2>2 DEF LockInv, PlaceInv
    <3> QED BY <3>1, <3>2 DEF LockInv
  <2> QED BY <2>1, <2>2
<1>3. ASSUME ~Overlap, Apart PROVE PathInv'
  <2>1. CASE flock[fd[p]] = NoProc
    BY <1>0, <1>3, <2>1 DEF TypeInv, Apart, PathInv, NoFile, Places
  <2>2. CASE flock[fd[p]] # NoProc
    BY <1>0, <1>3, <2>2 DEF TypeInv, Apart, PathInv, NoFile, Places
  <2> QED BY <2>1, <2>2
<1>4. ASSUME ~Overlap, Apart PROVE KeptInv'
  BY <1>4 DEF TypeInv, LockInv, HolderInv, PlaceInv, Apart, PathInv, KeptInv,
     KeptFile, KeptRow, In, Places, File, NoFile
<1>5. ASSUME ~Overlap, Apart PROVE DeadInv'
  BY <1>5 DEF TypeInv, LockInv, HolderInv, PlaceInv, Apart, PathInv, DeadInv,
     In, Places, File, NoFile
<1> QED BY <1>1, <1>2, <1>3, <1>4, <1>5 DEF Apart

LEMMA UnlinkStep ==
    ASSUME TypeInv, LockInv, NEW p \in Proc, Unlink(p)
    PROVE  TypeInv' /\ LockInv' /\ (~Overlap /\ Apart => Apart')
<1> USE ProcAssumption, BoundsAssumption
  DEF Unlink, Goto, disk, handles, local, history
<1>1. TypeInv'
  <2>1. removed' \in [Proc -> BOOLEAN]
    BY Zenon DEF TypeInv
  <2>2. kept' \subseteq 1..next' /\ pc' \in [Proc -> Places]
    BY DEF TypeInv, Places
  <2> QED BY <2>1, <2>2 DEF TypeInv, NoFile
<1>2. LockInv'
  BY DEF TypeInv, LockInv, HolderInv, PlaceInv, Places, File, NoFile
<1>3. ASSUME ~Overlap, Apart PROVE PathInv'
  BY <1>3 DEF TypeInv, LockInv, HolderInv, PlaceInv, Apart, PathInv, Places,
     File, NoFile
<1>4. ASSUME ~Overlap, Apart PROVE KeptInv'
  <2>1. pc[p] = "unlink" /\ pc' = [pc EXCEPT ![p] = "unguard"] /\ pc \in [Proc -> Places]
    BY DEF TypeInv
  <2>2. dir' = NoFile /\ UNCHANGED <<row, op, owner, synced, diskDir, content>>
    OBVIOUS
  <2>3. kept' = {}
    <3>1. CASE op[p] = "delete"
      BY <1>4, <3>1 DEF Apart, KeptInv, KeptFile
    <3>2. CASE op[p] # "delete"
      <4>1. op[p] = "create"
        BY <2>1, <3>2 DEF TypeInv, LockInv, PlaceInv
      <4>2. ~row
        BY <1>4, <2>1, <4>1 DEF Apart, KeptInv, KeptRow
      <4> QED BY <1>4, <4>2, <3>2 DEF Apart, KeptInv, KeptRow
    <3> QED BY <3>1, <3>2
  <2>4. KeptFile'
    BY <2>2, <2>3 DEF KeptFile
  <2>5. KeptRow'
    BY <1>4, <2>1, <2>2, <2>3 DEF Apart, KeptInv, KeptRow
  <2> QED BY <2>4, <2>5 DEF KeptInv
<1>5. ASSUME ~Overlap, Apart PROVE DeadInv'
  BY <1>5 DEF TypeInv, LockInv, HolderInv, PlaceInv, Apart, PathInv, DeadInv,
     In, Places, File, NoFile
<1> QED BY <1>1, <1>2, <1>3, <1>4, <1>5 DEF Apart

LEMMA UnguardStep ==
    ASSUME TypeInv, LockInv, NEW p \in Proc, Unguard(p)
    PROVE  TypeInv' /\ LockInv' /\ (~Overlap /\ Apart => Apart')
<1> USE ProcAssumption, BoundsAssumption
  DEF Unguard, Goto, disk, handles, local, history
<1>0. /\ pc[p] = "unguard" /\ op[p] \in {"create", "delete"}
      /\ pc \in [Proc -> Places] /\ fd \in [Proc -> 0..files] /\ op \in [Proc -> {"create", "open", "delete"}]
      /\ flock \in [File -> Proc \cup {NoProc}]
  BY DEF TypeInv, LockInv, PlaceInv
<1>1. TypeInv'
  BY DEF TypeInv, Places, File, NoFile
<1>2. LockInv'
  <2>1. /\ pc' = [pc EXCEPT ![p] = IF op[p] = "create" THEN "insert" ELSE "drop"]
        /\ fd'[p] = NoFile /\ (\A q \in Proc : q # p => fd'[q] = fd[q])
        /\ UNCHANGED <<handle, owner, op>>
    BY <1>0
  <2>2. PlaceInv'
    BY <1>0, <2>1 DEF LockInv, PlaceInv
  <2>3. ASSUME NEW q \in Proc, owner[q] PROVE handle[q] # NoFile /\ flock'[handle[q]] = q
    <3>1. handle[q] \in File /\ handle[q] # NoFile /\ flock[handle[q]] = q
      BY <2>3 DEF TypeInv, LockInv, HolderInv, File, NoFile
    <3>2. handle[q] # fd[p]
      BY <1>0, <2>3, <3>1 DEF LockInv, HolderInv
    <3> QED BY <3>1, <3>2
  <2>4. \A f \in File : \A q \in Proc : flock'[f] = q =>
          \/ owner[q] /\ f = handle[q]
          \/ f = fd'[q] /\ pc'[q] \in {"unlink", "unguard"}
    BY <1>0, <2>1, ProcAssumption DEF LockInv, HolderInv
  <2>5. \A q \in Proc : fd'[q] # NoFile /\ pc'[q] \in {"unlink", "unguard"} =>
          q # p /\ fd[q] # NoFile /\ pc[q] \in {"unlink", "unguard"}
    BY <1>0, <2>1
  <2>6. ASSUME NEW q \in Proc, fd'[q] # NoFile, pc'[q] \in {"unlink", "unguard"}
        PROVE  flock'[fd'[q]] = q /\ ~owner[q]
    <3>1. q # p /\ fd'[q] = fd[q] /\ fd[q] \in File /\ flock[fd[q]] = q /\ ~owner[q]
      BY <2>1, <2>5, <2>6 DEF TypeInv, LockInv, HolderInv, File, NoFile
    <3>2. fd[q] # fd[p]
      BY <1>0, <3>1 DEF LockInv, HolderInv, File, NoFile
    <3> QED BY <3>1, <3>2
  <2>7. HolderInv'
    BY <2>1, <2>3, <2>4, <2>6 DEF HolderInv
  <2> QED BY <2>2, <2>7 DEF LockInv
<1>3. ASSUME ~Overlap, Apart PROVE PathInv'
  BY <1>3 DEF TypeInv, LockInv, HolderInv, PlaceInv, Apart, PathInv, Places,
     File, NoFile
<1>4. ASSUME ~Overlap, Apart PROVE KeptInv'
  BY <1>4 DEF TypeInv, LockInv, HolderInv, PlaceInv, Apart, PathInv, KeptInv,
     KeptFile, KeptRow, In, Places, File, NoFile
<1>5. ASSUME ~Overlap, Apart PROVE DeadInv'
  BY <1>5 DEF TypeInv, LockInv, HolderInv, PlaceInv, Apart, PathInv, DeadInv,
     In, Places, File, NoFile
<1> QED BY <1>1, <1>2, <1>3, <1>4, <1>5 DEF Apart

LEMMA InsertStep ==
    ASSUME TypeInv, LockInv, NEW p \in Proc, Insert(p)
    PROVE  TypeInv' /\ LockInv' /\ (~Overlap /\ Apart => Apart')
<1> USE ProcAssumption, BoundsAssumption
  DEF Insert, Goto, disk, handles, local, history
<1>1. TypeInv'
  BY DEF TypeInv, Places, File, NoFile
<1>2. LockInv'
  BY DEF TypeInv, LockInv, HolderInv, PlaceInv, Places, File, NoFile
<1>3. ASSUME ~Overlap, Apart PROVE PathInv'
  BY <1>3 DEF TypeInv, LockInv, HolderInv, PlaceInv, Apart, PathInv, Places,
     File, NoFile
<1>4. ASSUME ~Overlap, Apart PROVE KeptInv'
  <2>1. row' = TRUE /\ pc[p] = "insert" /\ UNCHANGED <<dir, diskDir, content, op, owner, synced, kept>>
        /\ pc \in [Proc -> Places]
    BY DEF TypeInv
  <2>2. pc' = [pc EXCEPT ![p] = IF row THEN "idle" ELSE "openFile"]
    OBVIOUS
  <2>3. \A q \in Proc : pc'[q] \notin {"probe", "probeLock", "unlink", "unguard"}
    BY <1>4, <2>1, <2>2 DEF Apart, PathInv
  <2> QED BY <1>4, <2>1, <2>3 DEF Apart, KeptInv, KeptFile, KeptRow, In
<1>5. ASSUME ~Overlap, Apart PROVE DeadInv'
  BY <1>5 DEF TypeInv, LockInv, HolderInv, PlaceInv, Apart, PathInv, DeadInv,
     In, Places, File, NoFile
<1> QED BY <1>1, <1>2, <1>3, <1>4, <1>5 DEF Apart

LEMMA OpenFileStep ==
    ASSUME TypeInv, LockInv, NEW p \in Proc, OpenFile(p)
    PROVE  TypeInv' /\ LockInv' /\ (~Overlap /\ Apart => Apart')
<1> USE ProcAssumption, BoundsAssumption
  DEF OpenFile, Goto, disk, handles, local, history
<1>1. TypeInv'
  BY DEF TypeInv, Places, File, NoFile
<1>2. LockInv'
  BY DEF TypeInv, LockInv, HolderInv, PlaceInv, Places, File, NoFile
<1>3. ASSUME ~Overlap, Apart PROVE PathInv'
  <2>1. /\ pc[p] = "openFile" /\ pc \in [Proc -> Places] /\ fd \in [Proc -> 0..files]
        /\ fd' = [fd EXCEPT ![p] = dir'] /\ UNCHANGED <<flock, handle, owner, op>>
        /\ pc' = [pc EXCEPT ![p] = "lock"] /\ (dir # NoFile => dir' = dir)
    BY DEF TypeInv
  <2>2. \A q \in Proc : q # p => pc[q] = "idle"
    BY <1>3, <2>1 DEF Apart, PathInv
  <2>3. \A q \in Proc : owner[q] => q # p /\ handle[q] = dir /\ handle[q] # NoFile
    BY <1>3, <2>1, <2>2 DEF Apart, PathInv, LockInv, HolderInv, PlaceInv
  <2> QED BY <1>3, <2>1, <2>2, <2>3 DEF Apart, PathInv
<1>4. ASSUME ~Overlap, Apart PROVE KeptInv'
  <2>1. row' = row /\ pc[p] = "openFile" /\ UNCHANGED <<diskDir, content, op, owner, synced, kept>>
        /\ pc \in [Proc -> Places] /\ pc' = [pc EXCEPT ![p] = "lock"]
    BY DEF TypeInv
  <2>2. KeptRow'
    BY <1>4, <2>1 DEF Apart, KeptInv, KeptRow
  <2>3. CASE dir # NoFile
    BY <1>4, <2>1, <2>2, <2>3 DEF Apart, KeptInv, KeptFile, In
  <2>4. CASE dir = NoFile
    <3>1. kept = {}
      BY <1>4, <2>4 DEF Apart, KeptInv, KeptFile, In
    <3>2. dir' \notin synced
      BY <2>4 DEF TypeInv
    <3> QED BY <2>1, <2>2, <3>1, <3>2 DEF KeptInv, KeptFile
  <2> QED BY <2>3, <2>4
<1>5. ASSUME ~Overlap, Apart PROVE DeadInv'
  BY <1>5 DEF TypeInv, LockInv, HolderInv, PlaceInv, Apart, PathInv, DeadInv,
     In, Places, File, NoFile
<1> QED BY <1>1, <1>2, <1>3, <1>4, <1>5 DEF Apart

LEMMA LockStep ==
    ASSUME TypeInv, LockInv, NEW p \in Proc, Lock(p)
    PROVE  TypeInv' /\ LockInv' /\ (~Overlap /\ Apart => Apart')
<1> USE ProcAssumption, BoundsAssumption
  DEF Lock, Goto, disk, handles, local, history
<1>0. /\ fd[p] \in File /\ fd[p] \in 0..files /\ pc \in [Proc -> Places] /\ fd \in [Proc -> 0..files]
      /\ flock \in [File -> Proc \cup {NoProc}] /\ ~owner[p] /\ handle[p] = NoFile
      /\ NoFile \in 0..files /\ handle \in [Proc -> 0..files] /\ owner \in [Proc -> BOOLEAN]
      /\ pc[p] = "lock" /\ fd[p] # NoFile /\ op \in [Proc -> {"create", "open", "delete"}]
  <2>1. pc[p] = "lock" /\ fd[p] # NoFile /\ handle[p] = NoFile
    BY DEF LockInv, PlaceInv
  <2>2. ~owner[p]
    BY <2>1 DEF LockInv, HolderInv
  <2>3. fd[p] \in File /\ fd[p] \in 0..files /\ NoFile \in 0..files
    BY <2>1 DEF TypeInv, File, NoFile
  <2> QED BY <2>1, <2>2, <2>3 DEF TypeInv
<1>1. TypeInv'
  <2>1. owner' \in [Proc -> BOOLEAN]
    BY <1>0, Zenon
  <2>2. flock' \in [File -> Proc \cup {NoProc}]
    BY <1>0
  <2>3. handle' \in [Proc -> 0..files] /\ fd' \in [Proc -> 0..files] /\ pc' \in [Proc -> Places]
    BY <1>0 DEF Places
  <2> QED BY <2>1, <2>2, <2>3 DEF TypeInv
<1>2. LockInv'
  <2>1. pc'[p] \in {"syncDir", "idle"} /\ handle'[p] = fd[p] /\ fd'[p] = NoFile
        /\ \A q \in Proc : q # p => pc'[q] = pc[q] /\ handle'[q] = handle[q]
                                    /\ fd'[q] = fd[q] /\ owner'[q] = owner[q]
        /\ op' = op /\ (pc'[p] = "syncDir" => op[p] = "create")
    BY <1>0
  <2>2. PlaceInv'
    BY <1>0, <2>1 DEF LockInv, PlaceInv
  <2>3. CASE flock[fd[p]] = NoProc
    <3>1. owner'[p] /\ flock' = [flock EXCEPT ![fd[p]] = p]
      BY <1>0, <2>3
    <3>2. \A q \in Proc : owner[q] => handle[q] \in File /\ handle[q] # fd[p]
      BY <1>0, <2>3 DEF TypeInv, LockInv, HolderInv, File, NoFile
    <3>3. \A q \in Proc : owner'[q] => handle'[q] # NoFile /\ flock'[handle'[q]] = q
      BY <1>0, <2>1, <3>1, <3>2 DEF LockInv, HolderInv
    <3>4. \A f \in File : \A q \in Proc : flock'[f] = q =>
            \/ owner'[q] /\ f = handle'[q]
            \/ f = fd'[q] /\ pc'[q] \in {"unlink", "unguard"}
      BY <1>0, <2>1, <3>1 DEF LockInv, HolderInv
    <3>5. ASSUME NEW q \in Proc, fd'[q] # NoFile, pc'[q] \in {"unlink", "unguard"}
          PROVE  flock'[fd'[q]] = q /\ ~owner'[q]
      <4>1. q # p
        BY <2>1, <3>5
      <4>2. fd'[q] = fd[q] /\ fd[q] \in File /\ flock[fd[q]] = q /\ ~owner[q]
        BY <2>1, <3>5, <4>1 DEF TypeInv, LockInv, HolderInv, File, NoFile
      <4> QED BY <1>0, <2>1, <2>3, <3>1, <4>1, <4>2, ProcAssumption
    <3> QED BY <2>2, <3>3, <3>4, <3>5 DEF LockInv, HolderInv
  <2>4. CASE flock[fd[p]] # NoProc
    <3>1. owner' = owner /\ flock' = flock
      BY <2>4
    <3>2. HolderInv'
      BY <1>0, <2>1, <3>1 DEF LockInv, HolderInv
    <3> QED BY <2>2, <3>2 DEF LockInv
  <2> QED BY <2>3, <2>4
<1>3. ASSUME ~Overlap, Apart PROVE PathInv'
  BY <1>3 DEF TypeInv, LockInv, HolderInv, PlaceInv, Apart, PathInv, Places,
     File, NoFile
<1>4. ASSUME ~Overlap, Apart PROVE KeptInv'
  BY <1>4 DEF TypeInv, LockInv, HolderInv, PlaceInv, Apart, PathInv, KeptInv,
     KeptFile, KeptRow, In, Places, File, NoFile
<1>5. ASSUME ~Overlap, Apart PROVE DeadInv'
  BY <1>5 DEF TypeInv, LockInv, HolderInv, PlaceInv, Apart, PathInv, DeadInv,
     In, Places, File, NoFile
<1> QED BY <1>1, <1>2, <1>3, <1>4, <1>5 DEF Apart

LEMMA DropHandleStep ==
    ASSUME TypeInv, LockInv, NEW p \in Proc, DropHandle(p)
    PROVE  TypeInv' /\ LockInv' /\ (~Overlap /\ Apart => Apart')
<1> USE ProcAssumption, BoundsAssumption
  DEF DropHandle, Goto, disk, handles, local, history, CloseHandle
<1>1. TypeInv'
  BY DEF TypeInv, Places, File, NoFile
<1>2. LockInv'
  BY DEF TypeInv, LockInv, HolderInv, PlaceInv, Places, File, NoFile
<1>3. ASSUME ~Overlap, Apart PROVE PathInv'
  BY <1>3 DEF TypeInv, LockInv, HolderInv, PlaceInv, Apart, PathInv, Places,
     File, NoFile
<1>4. ASSUME ~Overlap, Apart PROVE KeptInv'
  BY <1>4 DEF TypeInv, LockInv, HolderInv, PlaceInv, Apart, PathInv, KeptInv,
     KeptFile, KeptRow, In, Places, File, NoFile
<1>5. ASSUME ~Overlap, Apart PROVE DeadInv'
  BY <1>5 DEF TypeInv, LockInv, HolderInv, PlaceInv, Apart, PathInv, DeadInv,
     In, Places, File, NoFile
<1> QED BY <1>1, <1>2, <1>3, <1>4, <1>5 DEF Apart

LEMMA SyncDirStep ==
    ASSUME TypeInv, LockInv, NEW p \in Proc, SyncDir(p)
    PROVE  TypeInv' /\ LockInv' /\ (~Overlap /\ Apart => Apart')
<1> USE ProcAssumption, BoundsAssumption
  DEF SyncDir, Goto, disk, handles, local, history
<1>1. TypeInv'
  BY DEF TypeInv, Places, File, NoFile
<1>2. LockInv'
  BY DEF TypeInv, LockInv, HolderInv, PlaceInv, Places, File, NoFile
<1>3. ASSUME ~Overlap, Apart PROVE PathInv'
  <2>1. /\ pc[p] = "syncDir" /\ pc \in [Proc -> Places]
        /\ pc' = [pc EXCEPT ![p] = IF op[p] = "create" THEN "idle" ELSE "deleteRow"]
        /\ UNCHANGED <<dir, flock, handle, owner, fd, op>>
    BY DEF TypeInv
  <2>2. op[p] # "create" => op[p] = "delete" /\ dir = NoFile
    BY <1>3, <2>1 DEF Apart, PathInv, LockInv, PlaceInv, TypeInv
  <2> QED BY <1>3, <2>1, <2>2 DEF Apart, PathInv
<1>4. ASSUME ~Overlap, Apart PROVE KeptInv'
  BY <1>4 DEF TypeInv, LockInv, HolderInv, PlaceInv, Apart, PathInv, KeptInv,
     KeptFile, KeptRow, In, Places, File, NoFile
<1>5. ASSUME ~Overlap, Apart PROVE DeadInv'
  BY <1>5 DEF TypeInv, LockInv, HolderInv, PlaceInv, Apart, PathInv, DeadInv,
     In, Places, File, NoFile
<1> QED BY <1>1, <1>2, <1>3, <1>4, <1>5 DEF Apart

LEMMA SyncDirFailsStep ==
    ASSUME TypeInv, LockInv, NEW p \in Proc, SyncDirFails(p)
    PROVE  TypeInv' /\ LockInv' /\ (~Overlap /\ Apart => Apart')
<1> USE ProcAssumption, BoundsAssumption
  DEF SyncDirFails, Goto, disk, handles, local, history
<1>1. TypeInv'
  BY DEF TypeInv, Places, File, NoFile
<1>2. LockInv'
  BY DEF TypeInv, LockInv, HolderInv, PlaceInv, Places, File, NoFile
<1>3. ASSUME ~Overlap, Apart PROVE PathInv'
  BY <1>3 DEF TypeInv, LockInv, HolderInv, PlaceInv, Apart, PathInv, Places,
     File, NoFile
<1>4. ASSUME ~Overlap, Apart PROVE KeptInv'
  BY <1>4 DEF TypeInv, LockInv, HolderInv, PlaceInv, Apart, PathInv, KeptInv,
     KeptFile, KeptRow, In, Places, File, NoFile
<1>5. ASSUME ~Overlap, Apart PROVE DeadInv'
  BY <1>5 DEF TypeInv, LockInv, HolderInv, PlaceInv, Apart, PathInv, DeadInv,
     In, Places, File, NoFile
<1> QED BY <1>1, <1>2, <1>3, <1>4, <1>5 DEF Apart

LEMMA DeleteRowStep ==
    ASSUME TypeInv, LockInv, NEW p \in Proc, DeleteRow(p)
    PROVE  TypeInv' /\ LockInv' /\ (~Overlap /\ Apart => Apart')
<1> USE ProcAssumption, BoundsAssumption
  DEF DeleteRow, Goto, disk, handles, local, history
<1>1. TypeInv'
  BY DEF TypeInv, Places, File, NoFile
<1>2. LockInv'
  BY DEF TypeInv, LockInv, HolderInv, PlaceInv, Places, File, NoFile
<1>3. ASSUME ~Overlap, Apart PROVE PathInv'
  BY <1>3 DEF TypeInv, LockInv, HolderInv, PlaceInv, Apart, PathInv, Places,
     File, NoFile
<1>4. ASSUME ~Overlap, Apart PROVE KeptInv'
  <2>1. pc[p] = "deleteRow" /\ UNCHANGED <<dir, diskDir, content, op, owner, synced, kept>>
        /\ pc \in [Proc -> Places] /\ pc' = [pc EXCEPT ![p] = "idle"]
    BY DEF TypeInv
  <2>2. dir = NoFile /\ kept = {}
    BY <1>4, <2>1 DEF Apart, PathInv, KeptInv, KeptFile, In
  <2>3. \A q \in Proc : pc'[q] = "idle"
    BY <1>4, <2>1 DEF Apart, PathInv
  <2>4. \A q \in Proc : ~owner[q]
    <3>1. ~owner[p]
      BY <2>1 DEF LockInv, PlaceInv
    <3>2. ASSUME NEW q \in Proc, q # p PROVE ~owner[q]
      BY <1>4, <2>1, <2>2, <2>3, <3>2 DEF Apart, PathInv, LockInv, HolderInv
    <3> QED BY <3>1, <3>2
  <2> QED BY <2>1, <2>2, <2>3, <2>4 DEF KeptInv, KeptFile, KeptRow
<1>5. ASSUME ~Overlap, Apart PROVE DeadInv'
  BY <1>5 DEF TypeInv, LockInv, HolderInv, PlaceInv, Apart, PathInv, DeadInv,
     In, Places, File, NoFile
<1> QED BY <1>1, <1>2, <1>3, <1>4, <1>5 DEF Apart

LEMMA AppendRecordStep ==
    ASSUME TypeInv, LockInv, NEW p \in Proc, AppendRecord(p)
    PROVE  TypeInv' /\ LockInv' /\ (~Overlap /\ Apart => Apart')
<1> USE ProcAssumption, BoundsAssumption
  DEF AppendRecord, Goto, disk, handles, local, history
<1>0. handle[p] \in File /\ handle[p] # NoFile /\ handle[p] \in 1..files
  BY DEF TypeInv, LockInv, HolderInv, File, NoFile
<1>1. TypeInv'
  <2>1. next' = next + 1 /\ next' \in 0..MaxRecords /\ next \in 0..MaxRecords
    BY DEF TypeInv
  <2>2. \A S : S \subseteq 1..next => S \subseteq 1..next' /\ S \cup {next'} \subseteq 1..next'
    BY <2>1
  <2>3. content' \in [File -> SUBSET (1..next')]
    BY <2>2, <1>0 DEF TypeInv
  <2>4. \A f \in File : f > files => content'[f] = {}
    BY <1>0 DEF TypeInv
  <2>5. kept' \subseteq 1..next' /\ dead' \subseteq 1..next'
    BY <2>2 DEF TypeInv
  <2> QED BY <2>1, <2>3, <2>4, <2>5 DEF TypeInv
<1>2. LockInv'
  BY DEF TypeInv, LockInv, HolderInv, PlaceInv, Places, File, NoFile
<1>3. ASSUME ~Overlap, Apart PROVE PathInv'
  BY <1>3 DEF TypeInv, LockInv, HolderInv, PlaceInv, Apart, PathInv, Places,
     File, NoFile
<1>4. ASSUME ~Overlap, Apart PROVE KeptInv'
  <2>1. UNCHANGED <<row, dir, diskDir, op, pc, owner, synced>> /\ owner[p]
    OBVIOUS
  <2>2. row
    BY <1>4, <2>1 DEF Apart, KeptInv, KeptRow
  <2>3. KeptRow'
    BY <1>4, <2>1, <2>2 DEF Apart, KeptInv, KeptRow
  <2>4. In(dir) \subseteq In(dir)'
    BY <1>0 DEF In, TypeInv
  <2>5. CASE kept' = kept
    BY <1>4, <2>1, <2>3, <2>4, <2>5 DEF Apart, KeptInv, KeptFile
  <2>6. CASE kept' # kept
    <3>1. handle[p] \in synced /\ ~(op[p] = "delete" /\ pc[p] # "idle") /\ kept' = kept \cup {next'}
      BY <2>6
    <3>2. pc[p] \notin {"unguard", "drop"}
      BY <1>0, <2>1, <3>1 DEF LockInv, PlaceInv, TypeInv
    <3>3. handle[p] = dir
      BY <1>4, <2>1, <3>2 DEF Apart, PathInv
    <3>4. next' \in In(dir)'
      BY <1>0, <2>1, <3>3 DEF In, TypeInv
    <3>5. dir = diskDir
      BY <1>0, <1>4, <3>1, <3>3 DEF Apart, KeptInv, KeptFile
    <3>6. KeptFile'
      BY <1>4, <2>1, <2>4, <3>1, <3>4, <3>5 DEF Apart, KeptInv, KeptFile
    <3> QED BY <2>3, <3>6 DEF KeptInv
  <2> QED BY <2>3, <2>5, <2>6 DEF KeptInv
<1>5. ASSUME ~Overlap, Apart PROVE DeadInv'
  BY <1>5 DEF TypeInv, LockInv, HolderInv, PlaceInv, Apart, PathInv, DeadInv,
     In, Places, File, NoFile
<1> QED BY <1>1, <1>2, <1>3, <1>4, <1>5 DEF Apart

LEMMA ExitStep ==
    ASSUME TypeInv, LockInv, NEW p \in Proc, Exit(p)
    PROVE  TypeInv' /\ LockInv' /\ (~Overlap /\ Apart => Apart')
<1> USE ProcAssumption, BoundsAssumption
  DEF Exit, Goto, disk, handles, local, history
<1>1. TypeInv'
  BY DEF TypeInv, Places, File, NoFile
<1>2. LockInv'
  BY DEF TypeInv, LockInv, HolderInv, PlaceInv, Places, File, NoFile
<1>3. ASSUME ~Overlap, Apart PROVE PathInv'
  BY <1>3 DEF TypeInv, LockInv, HolderInv, PlaceInv, Apart, PathInv, Places,
     File, NoFile
<1>4. ASSUME ~Overlap, Apart PROVE KeptInv'
  BY <1>4 DEF TypeInv, LockInv, HolderInv, PlaceInv, Apart, PathInv, KeptInv,
     KeptFile, KeptRow, In, Places, File, NoFile
<1>5. ASSUME ~Overlap, Apart PROVE DeadInv'
  BY <1>5 DEF TypeInv, LockInv, HolderInv, PlaceInv, Apart, PathInv, DeadInv,
     In, Places, File, NoFile
<1> QED BY <1>1, <1>2, <1>3, <1>4, <1>5 DEF Apart

LEMMA WritebackStep ==
    ASSUME TypeInv, LockInv, Writeback
    PROVE  TypeInv' /\ LockInv' /\ (~Overlap /\ Apart => Apart')
<1> USE ProcAssumption, BoundsAssumption
  DEF Writeback, Goto, disk, handles, local, history
<1>1. TypeInv'
  BY DEF TypeInv, Places, File, NoFile
<1>2. LockInv'
  BY DEF TypeInv, LockInv, HolderInv, PlaceInv, Places, File, NoFile
<1>3. ASSUME ~Overlap, Apart PROVE PathInv'
  BY <1>3 DEF TypeInv, LockInv, HolderInv, PlaceInv, Apart, PathInv, Places,
     File, NoFile
<1>4. ASSUME ~Overlap, Apart PROVE KeptInv'
  BY <1>4 DEF TypeInv, LockInv, HolderInv, PlaceInv, Apart, PathInv, KeptInv,
     KeptFile, KeptRow, In, Places, File, NoFile
<1>5. ASSUME ~Overlap, Apart PROVE DeadInv'
  BY <1>5 DEF TypeInv, LockInv, HolderInv, PlaceInv, Apart, PathInv, DeadInv,
     In, Places, File, NoFile
<1> QED BY <1>1, <1>2, <1>3, <1>4, <1>5 DEF Apart

LEMMA PowerLossStep ==
    ASSUME TypeInv, LockInv, PowerLoss
    PROVE  TypeInv' /\ LockInv' /\ (~Overlap /\ Apart => Apart')
<1> USE ProcAssumption, BoundsAssumption
  DEF PowerLoss, Goto, disk, handles, local, history
<1>1. TypeInv'
  BY DEF TypeInv, Places, File, NoFile
<1>2. LockInv'
  BY DEF TypeInv, LockInv, HolderInv, PlaceInv, Places, File, NoFile
<1>3. ASSUME ~Overlap, Apart PROVE PathInv'
  BY <1>3 DEF TypeInv, LockInv, HolderInv, PlaceInv, Apart, PathInv, Places,
     File, NoFile
<1>4. ASSUME ~Overlap, Apart PROVE KeptInv'
  BY <1>4 DEF TypeInv, LockInv, HolderInv, PlaceInv, Apart, PathInv, KeptInv,
     KeptFile, KeptRow, In, Places, File, NoFile
<1>5. ASSUME ~Overlap, Apart PROVE DeadInv'
  BY <1>5 DEF TypeInv, LockInv, HolderInv, PlaceInv, Apart, PathInv, DeadInv,
     In, Places, File, NoFile
<1> QED BY <1>1, <1>2, <1>3, <1>4, <1>5 DEF Apart

LEMMA Stutter ==
    ASSUME TypeInv, LockInv, UNCHANGED vars
    PROVE  TypeInv' /\ LockInv' /\ (~Overlap /\ Apart => Apart')
<1> USE DEF vars
<1>1. TypeInv'
  BY DEF TypeInv
<1>2. LockInv'
  BY DEF LockInv, HolderInv, PlaceInv
<1>3. Apart => Apart'
  BY DEF Apart, PathInv, KeptInv, KeptFile, KeptRow, DeadInv, In
<1> QED BY <1>1, <1>2, <1>3

LEMMA Inductive ==
    ASSUME TypeInv, LockInv, [Next]_vars
    PROVE  TypeInv' /\ LockInv' /\ (~Overlap /\ Apart => Apart')
<1>1. ASSUME NEW p \in Proc, Operation(p)
      PROVE  TypeInv' /\ LockInv' /\ (~Overlap /\ Apart => Apart')
  <2>1. CASE CreateBegin(p) BY <2>1, CreateBeginStep
  <2>2. CASE OpenBegin(p) BY <2>2, OpenBeginStep
  <2>3. CASE DeleteBegin(p) BY <2>3, DeleteBeginStep
  <2>4. CASE Probe(p) BY <2>4, ProbeStep
  <2>5. CASE ProbeLock(p) BY <2>5, ProbeLockStep
  <2>6. CASE Unlink(p) BY <2>6, UnlinkStep
  <2>7. CASE Unguard(p) BY <2>7, UnguardStep
  <2>8. CASE Insert(p) BY <2>8, InsertStep
  <2>9. CASE OpenFile(p) BY <2>9, OpenFileStep
  <2>10. CASE Lock(p) BY <2>10, LockStep
  <2>11. CASE DropHandle(p) BY <2>11, DropHandleStep
  <2>12. CASE SyncDir(p) BY <2>12, SyncDirStep
  <2>13. CASE SyncDirFails(p) BY <2>13, SyncDirFailsStep
  <2>14. CASE DeleteRow(p) BY <2>14, DeleteRowStep
  <2> QED BY <1>1, <2>1, <2>2, <2>3, <2>4, <2>5, <2>6, <2>7, <2>8, <2>9, <2>10,
             <2>11, <2>12, <2>13, <2>14 DEF Operation
<1>2. CASE \E p \in Proc : AppendRecord(p)
  BY <1>2, AppendRecordStep
<1>3. CASE \E p \in Proc : Exit(p)
  BY <1>3, ExitStep
<1>4. CASE Writeback
  BY <1>4, WritebackStep
<1>5. CASE PowerLoss
  BY <1>5, PowerLossStep
<1>6. CASE UNCHANGED vars
  BY <1>6, Stutter
<1> QED BY <1>1, <1>2, <1>3, <1>4, <1>5, <1>6 DEF Next

LEMMA Invariant == Spec => [](TypeInv /\ LockInv)
<1>1. Init => TypeInv /\ LockInv
  BY InitInv
<1>2. TypeInv /\ LockInv /\ [Next]_vars => (TypeInv /\ LockInv)'
  BY Inductive
<1> QED BY <1>1, <1>2, PTL DEF Spec

LEMMA InvariantApart == ~Overlap => (Spec => [](TypeInv /\ LockInv /\ Apart))
<1> SUFFICES ASSUME ~Overlap PROVE Spec => [](TypeInv /\ LockInv /\ Apart)
  OBVIOUS
<1>1. Init => TypeInv /\ LockInv /\ Apart
  BY InitInv
<1>2. TypeInv /\ LockInv /\ Apart /\ [Next]_vars => (TypeInv /\ LockInv /\ Apart)'
  BY Inductive
<1> QED BY <1>1, <1>2, PTL DEF Spec

\* The row is a Boolean, whatever the operations do.
LEMMA RowIsBoolean == Spec => [](row \in BOOLEAN)
<1>1. Init => row \in BOOLEAN
  BY Zenon DEF Init
<1>2. row \in BOOLEAN /\ [Next]_vars => (row \in BOOLEAN)'
  <2> SUFFICES ASSUME row \in BOOLEAN, [Next]_vars PROVE row' \in BOOLEAN
    OBVIOUS
  <2>1. UNCHANGED row \/ row' = TRUE \/ row' = FALSE
    BY Zenon DEF Next, Operation, CreateBegin, OpenBegin, DeleteBegin, Probe, ProbeLock,
       Unlink, Unguard, Insert, OpenFile, Lock, DropHandle, SyncDir, SyncDirFails,
       DeleteRow, AppendRecord, Exit, Writeback, PowerLoss, vars
  <2> QED BY <2>1, Zenon
<1> QED BY <1>1, <1>2, PTL DEF Spec

-----------------------------------------------------------------------------
(* The theorems.                                                           *)

\* The state of the directory and of the stores keeps its types, and a lock
\* is held by a process that has the file open, however the operations of
\* the processes overlap (fcntl.flock in _try_lock and _lock_for_removal).
THEOREM TypesKept == Spec => []TypeOK
<1>1. TypeInv /\ LockInv /\ row \in BOOLEAN => TypeOK
  <2> SUFFICES ASSUME TypeInv, LockInv, row \in BOOLEAN PROVE TypeOK
    OBVIOUS
  <2> USE ProcAssumption, BoundsAssumption
  <2>1. dir \in File \cup {NoFile} /\ diskDir \in File \cup {NoFile}
    BY DEF TypeInv, File, NoFile
  <2>2. \A S : S \subseteq 1..next => S \subseteq Record
    BY DEF TypeInv, Record
  <2>3. content \in [File -> SUBSET Record] /\ kept \subseteq Record /\ dead \subseteq Record
    BY <2>2 DEF TypeInv
  <2>4. \A p \in Proc : owner[p] => handle[p] \in File /\ flock[handle[p]] = p
    BY DEF TypeInv, LockInv, HolderInv, File, NoFile
  <2>5. \A f \in File : flock[f] = NoProc \/ f \in {handle[flock[f]], fd[flock[f]]}
    BY DEF TypeInv, LockInv, HolderInv
  <2>6. removed \in [Proc -> BOOLEAN] /\ flock \in [File -> Proc \cup {NoProc}]
        /\ files \in 0..MaxFiles /\ next \in 0..MaxRecords
    BY DEF TypeInv
  <2> QED BY <2>1, <2>3, <2>4, <2>5, <2>6, Zenon DEF TypeOK
<1> QED BY <1>1, Invariant, RowIsBoolean, PTL

\* Without overlap a process that can append writes to the file at the path:
\* delete locks the log before it unlinks it (_lock_for_removal).
THEOREM WritersAtPath == ~Overlap => (Spec => []WriterAtPath)
<1> SUFFICES ASSUME ~Overlap PROVE Spec => []WriterAtPath
  OBVIOUS
<1>1. Apart => WriterAtPath
  BY DEF Apart, PathInv, WriterAtPath
<1> QED BY <1>1, InvariantApart, PTL

\* Without overlap every record append acknowledged is in the log at the path
\* and in the one a power loss leaves there, until a delete gives it up
\* (_fsync_dir as the last step of create).
THEOREM AckedAreKept == ~Overlap => (Spec => []AckedKept)
<1> SUFFICES ASSUME ~Overlap PROVE Spec => []AckedKept
  OBVIOUS
<1>1. Apart => AckedKept
  BY DEF Apart, KeptInv, KeptFile, AckedKept
<1> QED BY <1>1, InvariantApart, PTL

\* Without overlap the records of a deleted stream do not come back into a
\* stream of the same name (_fsync_dir before delete removes the row).
THEOREM NothingResurrected == ~Overlap => (Spec => []NoResurrection)
<1> SUFFICES ASSUME ~Overlap PROVE Spec => []NoResurrection
  OBVIOUS
<1>1. Apart => NoResurrection
  BY DEF Apart, DeadInv, NoResurrection
<1> QED BY <1>1, InvariantApart, PTL

=============================================================================
