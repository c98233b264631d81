--------------------------- MODULE FileLockProofs ---------------------------
(***************************************************************************)
(* Proofs about FileLock for any number of workers, processes and names.   *)
(***************************************************************************)
EXTENDS FileLock, TLAPS

\* A worker is at an owner place exactly when byte 0 of its file is its own,
\* and only a worker that wants a file ever owns it.
OwnerInv ==
    /\ \A w \in Workers : pc[w] \in OwnerPcs <=> osOwner[NameOf[w]] = w
    /\ \A n \in Names : osOwner[n] \in Workers => NameOf[osOwner[n]] = n

\* What is true of the lock file wherever a worker has it open; under the
\* body of the reservation it also holds data.
OpenFileInv ==
    /\ \A w \in Workers : pc[w] \in OpenPcs => lockFile[NameOf[w]] # "absent"
    /\ HeldFileKept
    /\ ~TruncateOnLock => \A w \in Workers :
          /\ pc[w] \notin {"locked", "truncated"}
          /\ pc[w] = "spin" => lockFile[NameOf[w]] = "data"

LockInv == LockTypeOK /\ OwnerInv /\ OpenFileInv

\* The constants are what the module assumes of them.
LEMMA PlacementLemma ==
    ASSUME NEW w \in Workers
    PROVE  ProcOf[w] \in Procs /\ NameOf[w] \in Names /\ w # NoWorker
  BY PlacementAssumption, WorkersAssumption

\* The initial states have nobody at an owner place and no file open.
LEMMA LockInitInv == LockInit => LockInv
  BY PlacementLemma, CrashBoundAssumption
  DEF LockInit, LockInv, LockTypeOK, OwnerInv, OpenFileInv, HeldFileKept,
      OwnerPcs, OpenPcs, ThreadPcs, Pcs, EndPcs, FileContents, Failures

\* Each step of the protocol keeps the types.
LEMMA LockTypeStep ==
    ASSUME LockTypeOK, [LockNext]_lockVars
    PROVE  LockTypeOK'
  <1> USE DEF LockTypeOK, Pcs, ThreadPcs, OpenPcs, EndPcs, FileContents, Failures,
              Goto, Fail, SetThreadOwner, SetOsOwner, WriteLockFile
  <1>1. CASE UNCHANGED lockVars
    BY <1>1 DEF lockVars
  <1>2. ASSUME NEW w \in Workers, Enter(w) PROVE LockTypeOK'
    BY <1>2 DEF Enter
  <1>3. ASSUME NEW w \in Workers, Decline(w) PROVE LockTypeOK'
    BY <1>3 DEF Decline
  <1>4. ASSUME NEW w \in Workers, AcquireThread(w) PROVE LockTypeOK'
    BY <1>4, PlacementLemma DEF AcquireThread
  <1>5. ASSUME NEW w \in Workers, ThreadTimeout(w) PROVE LockTypeOK'
    BY <1>5 DEF ThreadTimeout
  <1>6. ASSUME NEW w \in Workers, OpenLockFile(w) PROVE LockTypeOK'
    BY <1>6, PlacementLemma DEF OpenLockFile
  <1>7. ASSUME NEW w \in Workers, FillEmptyFile(w) PROVE LockTypeOK'
    BY <1>7, PlacementLemma DEF FillEmptyFile
  <1>8. ASSUME NEW w \in Workers, FillDenied(w) PROVE LockTypeOK'
    BY <1>8 DEF FillDenied
  <1>9. ASSUME NEW w \in Workers, TryLock(w) PROVE LockTypeOK'
    BY <1>9, PlacementLemma DEF TryLock
  <1>10. ASSUME NEW w \in Workers, SpinTimeout(w) PROVE LockTypeOK'
    BY <1>10 DEF SpinTimeout
  <1>11. ASSUME NEW w \in Workers, Truncate(w) PROVE LockTypeOK'
    BY <1>11, PlacementLemma DEF Truncate
  <1>12. ASSUME NEW w \in Workers, WritePid(w) PROVE LockTypeOK'
    BY <1>12, PlacementLemma DEF WritePid
  <1>13. ASSUME NEW w \in Workers, Leave(w) PROVE LockTypeOK'
    BY <1>13, PlacementLemma DEF Leave
  <1>14. ASSUME NEW w \in Workers, ReleaseThread(w) PROVE LockTypeOK'
    BY <1>14, PlacementLemma DEF ReleaseThread
  <1>15. ASSUME NEW n \in Names, Unlink(n) PROVE LockTypeOK'
    BY <1>15 DEF Unlink
  <1>16. ASSUME NEW p \in Procs, Crash(p) PROVE LockTypeOK'
    <2>1. crashes' \in 0..MaxCrashes
      BY <1>16, CrashBoundAssumption DEF Crash
    <2>2. pc' \in [Workers -> Pcs]
      BY <1>16 DEF Crash
    <2>3. threadOwner' \in [Procs -> [Names -> Workers \cup {NoWorker}]]
      BY <1>16 DEF Crash
    <2>4. osOwner' \in [Names -> Workers \cup {NoWorker}]
      BY <1>16 DEF Crash
    <2> QED
      BY <1>16, <2>1, <2>2, <2>3, <2>4 DEF Crash
  <1> QED
    BY <1>1, <1>2, <1>3, <1>4, <1>5, <1>6, <1>7, <1>8, <1>9, <1>10, <1>11,
       <1>12, <1>13, <1>14, <1>15, <1>16
    DEF LockNext, LockStep, Reserve

\* Ownership of byte 0 moves only by the locking call, the unlocking call and
\* the death of a process.
LEMMA OwnerStep ==
    ASSUME LockTypeOK, OwnerInv, [LockNext]_lockVars
    PROVE  OwnerInv'
  <1> USE PlacementLemma
  <1> USE DEF OwnerInv, OwnerPcs, LockTypeOK, Goto, SetOsOwner
  <1>1. CASE UNCHANGED lockVars
    BY <1>1 DEF lockVars
  <1>2. ASSUME NEW w \in Workers, Enter(w) \/ Decline(w) PROVE OwnerInv'
    BY <1>2 DEF Enter, Decline
  <1>3. ASSUME NEW w \in Workers, AcquireThread(w) \/ ThreadTimeout(w) PROVE OwnerInv'
    BY <1>3 DEF AcquireThread, ThreadTimeout
  <1>4. ASSUME NEW w \in Workers, OpenLockFile(w) PROVE OwnerInv'
    BY <1>4 DEF OpenLockFile
  <1>5. ASSUME NEW w \in Workers, FillEmptyFile(w) \/ FillDenied(w) PROVE OwnerInv'
    BY <1>5 DEF FillEmptyFile, FillDenied
  <1>6. ASSUME NEW w \in Workers, TryLock(w) PROVE OwnerInv'
    BY <1>6 DEF TryLock
  <1>7. ASSUME NEW w \in Workers, SpinTimeout(w) PROVE OwnerInv'
    BY <1>7 DEF SpinTimeout
  <1>8. ASSUME NEW w \in Workers, Truncate(w) \/ WritePid(w) PROVE OwnerInv'
    BY <1>8 DEF Truncate, WritePid
  <1>9. ASSUME NEW w \in Workers, Leave(w) PROVE OwnerInv'
    BY <1>9 DEF Leave
  <1>10. ASSUME NEW w \in Workers, ReleaseThread(w) PROVE OwnerInv'
    BY <1>10 DEF ReleaseThread
  <1>11. ASSUME NEW n \in Names, Unlink(n) PROVE OwnerInv'
    BY <1>11 DEF Unlink
  <1>12. ASSUME NEW p \in Procs, Crash(p) PROVE OwnerInv'
    BY <1>12 DEF Crash
  <1> QED
    BY <1>1, <1>2, <1>3, <1>4, <1>5, <1>6, <1>7, <1>8, <1>9, <1>10, <1>11, <1>12
    DEF LockNext, LockStep, Reserve

\* Owning byte 0 is exclusive: the invariant names one owner per file.
LEMMA OwnerExclusive == OwnerInv => MutualExclusion
  BY DEF OwnerInv, MutualExclusion

\* Nobody removes or empties a lock file under the body of a reservation.
LEMMA OpenFileStep ==
    ASSUME LockTypeOK, OwnerInv, OpenFileInv, [LockNext]_lockVars
    PROVE  OpenFileInv'
  <1> USE PlacementLemma, OwnerExclusive
  <1> USE DEF OpenFileInv, HeldFileKept, OpenPcs, LockTypeOK, FileContents,
              Goto, WriteLockFile
  <1>1. CASE UNCHANGED lockVars
    BY <1>1 DEF lockVars
  <1>2. ASSUME NEW w \in Workers, Enter(w) \/ Decline(w) PROVE OpenFileInv'
    BY <1>2 DEF Enter, Decline
  <1>3. ASSUME NEW w \in Workers, AcquireThread(w) \/ ThreadTimeout(w) PROVE OpenFileInv'
    BY <1>3 DEF AcquireThread, ThreadTimeout
  <1>4. ASSUME NEW w \in Workers, OpenLockFile(w) PROVE OpenFileInv'
    BY <1>4 DEF OpenLockFile
  <1>5. ASSUME NEW w \in Workers, FillEmptyFile(w) \/ FillDenied(w) PROVE OpenFileInv'
    BY <1>5 DEF FillEmptyFile, FillDenied
  <1>6. ASSUME NEW w \in Workers, TryLock(w) PROVE OpenFileInv'
    BY <1>6 DEF TryLock
  <1>7. ASSUME NEW w \in Workers, SpinTimeout(w) PROVE OpenFileInv'
    BY <1>7 DEF SpinTimeout
  <1>8. ASSUME NEW w \in Workers, Truncate(w) PROVE OpenFileInv'
    BY <1>8 DEF Truncate, MutualExclusion, OwnerPcs
  <1>9. ASSUME NEW w \in Workers, WritePid(w) PROVE OpenFileInv'
    BY <1>9 DEF WritePid
  <1>10. ASSUME NEW w \in Workers, Leave(w) \/ ReleaseThread(w) PROVE OpenFileInv'
    BY <1>10 DEF Leave, ReleaseThread
  <1>11. ASSUME NEW n \in Names, Unlink(n) PROVE OpenFileInv'
    BY <1>11 DEF Unlink, OpenBySome
  <1>12. ASSUME NEW p \in Procs, Crash(p) PROVE OpenFileInv'
    BY <1>12 DEF Crash
  <1> QED
    BY <1>1, <1>2, <1>3, <1>4, <1>5, <1>6, <1>7, <1>8, <1>9, <1>10, <1>11, <1>12
    DEF LockNext, LockStep, Reserve

\* A denied write needs an owner of an empty file: without truncation an
\* owner is always at "held", where the file holds data.
LEMMA DeniedStep ==
    ASSUME LockInv, WaiterNeverDenied, ~TruncateOnLock, [LockNext]_lockVars
    PROVE  WaiterNeverDenied'
  <1> USE DEF WaiterNeverDenied
  <1>1. ASSUME NEW w \in Workers PROVE ~FillDenied(w)
    <2>1. SUFFICES ASSUME FillDenied(w) PROVE FALSE
      OBVIOUS
    <2> DEFINE v == osOwner[NameOf[w]]
    <2>2. v \in Workers /\ NameOf[v] = NameOf[w]
      BY <2>1, PlacementLemma DEF FillDenied, LockInv, LockTypeOK, OwnerInv
    <2>3. pc[v] \in OwnerPcs
      BY <2>2 DEF LockInv, OwnerInv
    <2>4. pc[v] = "held"
      BY <2>2, <2>3 DEF LockInv, OpenFileInv, OwnerPcs
    <2>5. lockFile[NameOf[w]] = "data"
      BY <2>2, <2>4 DEF LockInv, OpenFileInv, HeldFileKept
    <2> QED
      BY <2>1, <2>5 DEF FillDenied
  <1>2. CASE UNCHANGED lockVars
    BY <1>2 DEF lockVars
  <1>3. ASSUME NEW w \in Workers, LockStep(w) PROVE WaiterNeverDenied'
    BY <1>1, <1>3 DEF LockStep, Reserve, Enter, Decline, AcquireThread, ThreadTimeout,
       OpenLockFile, FillEmptyFile, TryLock, SpinTimeout, Truncate, WritePid, Leave,
       ReleaseThread, Fail, LockInv, LockTypeOK
  <1>4. ASSUME NEW n \in Names, Unlink(n) PROVE WaiterNeverDenied'
    BY <1>4 DEF Unlink
  <1>5. ASSUME NEW p \in Procs, Crash(p) PROVE WaiterNeverDenied'
    BY <1>5 DEF Crash
  <1> QED
    BY <1>2, <1>3, <1>4, <1>5 DEF LockNext, lockVars

-----------------------------------------------------------------------------
\* Places before the body of the with statement.
BeforeBody == {"out", "wait", "open", "fill", "spin", "locked", "truncated"}

\* A call moves through the reservation by its own steps, and these are the
\* moves; the modules that give the reservation a body rely on them.
LEMMA LockMoves ==
    ASSUME LockTypeOK, NEW w \in Workers,
           Enter(w) \/ Reserve(w) \/ Leave(w) \/ ReleaseThread(w)
    PROVE  /\ \A v \in Workers \ {w} :
                 pc'[v] = pc[v] /\ lockFailure'[v] = lockFailure[v]
           /\ \/ pc[w] \in BeforeBody /\ pc'[w] \in BeforeBody \cup {"held"}
                 /\ lockFailure'[w] = lockFailure[w]
              \/ pc[w] \in BeforeBody /\ pc'[w] \in {"release", "done"}
              \/ pc[w] = "held" /\ Leave(w) /\ pc'[w] = "release"
                 /\ lockFailure'[w] = lockFailure[w]
              \/ pc[w] = "release" /\ pc'[w] = "done" /\ lockFailure'[w] = lockFailure[w]
  <1> USE DEF LockTypeOK, BeforeBody, Goto, Fail
  <1>1. CASE Enter(w)
    BY <1>1 DEF Enter
  <1>2. CASE AcquireThread(w) \/ ThreadTimeout(w)
    BY <1>2 DEF AcquireThread, ThreadTimeout
  <1>3. CASE OpenLockFile(w)
    BY <1>3 DEF OpenLockFile
  <1>4. CASE FillEmptyFile(w) \/ FillDenied(w)
    BY <1>4 DEF FillEmptyFile, FillDenied
  <1>5. CASE TryLock(w) \/ SpinTimeout(w)
    BY <1>5 DEF TryLock, SpinTimeout
  <1>6. CASE Truncate(w) \/ WritePid(w)
    BY <1>6 DEF Truncate, WritePid
  <1>7. CASE Leave(w)
    BY <1>7 DEF Leave
  <1>8. CASE ReleaseThread(w)
    BY <1>8 DEF ReleaseThread
  <1> QED
    BY <1>1, <1>2, <1>3, <1>4, <1>5, <1>6, <1>7, <1>8 DEF Reserve

\* A dying process leaves the failures of its calls as they are.
LEMMA CrashMoves ==
    ASSUME LockTypeOK, NEW p \in Procs, Crash(p)
    PROVE  /\ UNCHANGED lockFailure
           /\ \A v \in Workers :
                 \/ pc'[v] = pc[v]
                 \/ pc'[v] = "dead" /\ pc[v] \notin {"out", "done"}
  BY DEF Crash, LockTypeOK

\* Two calls are never both in the body of the reservation of one name.
LEMMA OneHolder ==
    ASSUME LockInv, NEW v \in Workers, NEW w \in Workers,
           pc[v] = "held", pc[w] = "held", NameOf[v] = NameOf[w]
    PROVE  v = w
  BY OwnerExclusive DEF LockInv, MutualExclusion, OwnerPcs

-----------------------------------------------------------------------------
\* The inductive invariant holds in every reachable state.
THEOREM LockInvariant == LockSpec => []LockInv
  <1>1. LockInit => LockInv
    BY LockInitInv
  <1>2. LockInv /\ [LockNext]_lockVars => LockInv'
    BY LockTypeStep, OwnerStep, OpenFileStep DEF LockInv
  <1> QED
    BY <1>1, <1>2, PTL DEF LockSpec

\* The reservation of runner.py and snapshot_store.py is well typed.
THEOREM LockTypes == LockSpec => []LockTypeOK
  <1>1. LockInv => LockTypeOK
    BY DEF LockInv
  <1> QED
    BY <1>1, LockInvariant, PTL

\* Two calls never run the bodies of their reservations of one name at the
\* same time, for any threads, processes and deaths of processes.
THEOREM LockExcludes == LockSpec => []MutualExclusion
  <1>1. LockInv => MutualExclusion
    BY OwnerExclusive DEF LockInv
  <1> QED
    BY <1>1, LockInvariant, PTL

\* Under the body of a reservation the lock file keeps its data.
THEOREM LockFileKept == LockSpec => []HeldFileKept
  <1>1. LockInv => HeldFileKept
    BY DEF LockInv, OpenFileInv
  <1> QED
    BY <1>1, LockInvariant, PTL

\* The variant of snapshot_store.py, which does not truncate the lock file,
\* never throws a waiting call out with a PermissionError.
THEOREM SnapshotWaiterNeverDenied ==
    ~TruncateOnLock => (LockSpec => []WaiterNeverDenied)
  <1> SUFFICES ASSUME ~TruncateOnLock PROVE LockSpec => []WaiterNeverDenied
    OBVIOUS
  <1>1. LockInit => WaiterNeverDenied
    BY DEF LockInit, WaiterNeverDenied
  <1>2. LockInv /\ WaiterNeverDenied /\ [LockNext]_lockVars => WaiterNeverDenied'
    BY DeniedStep
  <1> QED
    BY <1>1, <1>2, LockInvariant, PTL DEF LockSpec
=============================================================================
