------------------------------ MODULE FileLock ------------------------------
(***************************************************************************)
(* The two-level reservation that runner.py (_run_reservation) and         *)
(* snapshot_store.py (_target_lock) take before they touch a run directory *)
(* or an immutable snapshot: a threading.Lock per lock path inside each    *)
(* process, then a one-byte Windows byte-range lock on the lock file       *)
(* itself, polled until a deadline.  A worker is one call of the program   *)
(* (run_pilot or install_snapshot); it makes at most one reservation.      *)
(*                                                                         *)
(* The two implementations differ in one point: the runner truncates the   *)
(* lock file once it owns it and writes its pid there.  TruncateOnLock     *)
(* selects that variant.                                                   *)
(***************************************************************************)
EXTENDS Naturals, FiniteSets

CONSTANTS
    Workers,        \* calls that want a reservation
    Procs,          \* operating-system processes
    Names,          \* lock files, one per run name or snapshot target
    ProcOf,         \* the process each worker runs in
    NameOf,         \* the lock file each worker wants
    NoWorker,       \* nobody
    TruncateOnLock, \* TRUE: _run_reservation, FALSE: _target_lock
    MaxCrashes      \* bound on process deaths

ASSUME WorkersAssumption == NoWorker \notin Workers
ASSUME PlacementAssumption ==
    /\ ProcOf \in [Workers -> Procs]
    /\ NameOf \in [Workers -> Names]
ASSUME VariantAssumption == TruncateOnLock \in BOOLEAN
ASSUME CrashBoundAssumption == MaxCrashes \in Nat

VARIABLES
    pc,           \* where each worker is in the reservation protocol
    threadOwner,  \* owner of the in-process lock, per process and lock path
    osOwner,      \* owner of byte 0 of each lock file
    lockFile,     \* content of each lock file
    lockFailure,  \* the exception a reservation ended with, if it failed
    crashes       \* processes killed so far

lockVars == <<pc, threadOwner, osOwner, lockFile, lockFailure, crashes>>

\* The lock file is open at these places; Windows opens it without
\* FILE_SHARE_DELETE, so nobody can unlink it meanwhile.
OpenPcs    == {"fill", "spin", "locked", "truncated", "held"}
\* The worker owns byte 0 of the lock file.
OwnerPcs   == {"locked", "truncated", "held"}
\* The worker owns its process's threading.Lock for the path.
ThreadPcs  == OpenPcs \cup {"open", "release"}
\* The call has returned, raised, or died with its process.
EndPcs     == {"done", "dead"}
Pcs        == {"out", "wait"} \cup ThreadPcs \cup EndPcs

FileContents == {"absent", "empty", "data"}
Failures     == {"none", "timeout", "permission"}

LockTypeOK ==
    /\ pc \in [Workers -> Pcs]
    /\ threadOwner \in [Procs -> [Names -> Workers \cup {NoWorker}]]
    /\ osOwner \in [Names -> Workers \cup {NoWorker}]
    /\ lockFile \in [Names -> FileContents]
    /\ lockFailure \in [Workers -> Failures]
    /\ crashes \in 0..MaxCrashes

LockInit ==
    /\ pc = [w \in Workers |-> "out"]
    /\ threadOwner = [p \in Procs |-> [n \in Names |-> NoWorker]]
    /\ osOwner = [n \in Names |-> NoWorker]
    /\ lockFile \in [Names -> {"absent", "data"}]
    /\ lockFailure = [w \in Workers |-> "none"]
    /\ crashes = 0

-----------------------------------------------------------------------------
Goto(w, place) == pc' = [pc EXCEPT ![w] = place]
Fail(w, error) == lockFailure' = [lockFailure EXCEPT ![w] = error]

ThreadOwner(w) == threadOwner[ProcOf[w]][NameOf[w]]
SetThreadOwner(w, owner) ==
    threadOwner' = [threadOwner EXCEPT ![ProcOf[w]][NameOf[w]] = owner]
SetOsOwner(w, owner) == osOwner' = [osOwner EXCEPT ![NameOf[w]] = owner]
WriteLockFile(w, content) ==
    lockFile' = [lockFile EXCEPT ![NameOf[w]] = content]

OpenBySome(n) == \E w \in Workers : NameOf[w] = n /\ pc[w] \in OpenPcs

\* The caller decides to reserve: it enters the context manager.
Enter(w) ==
    /\ pc[w] = "out"
    /\ Goto(w, "wait")
    /\ UNCHANGED <<threadOwner, osOwner, lockFile, lockFailure, crashes>>

\* The caller raises before it reaches the context manager.
Decline(w) ==
    /\ pc[w] = "out"
    /\ Goto(w, "done")
    /\ UNCHANGED <<threadOwner, osOwner, lockFile, lockFailure, crashes>>

\* thread_lock.acquire(timeout=...) succeeds.
AcquireThread(w) ==
    /\ pc[w] = "wait"
    /\ ThreadOwner(w) = NoWorker
    /\ SetThreadOwner(w, w)
    /\ Goto(w, "open")
    /\ UNCHANGED <<osOwner, lockFile, lockFailure, crashes>>

\* Mutant of ThreadTimeout: it gives up on a lock that is free.
ThreadTimeoutEager(w) ==
    /\ pc[w] = "wait"
    /\ Fail(w, "timeout")
    /\ Goto(w, "done")
    /\ UNCHANGED <<threadOwner, osOwner, lockFile, crashes>>

\* thread_lock.acquire(timeout=...) gives up: TimeoutError.
ThreadTimeout(w) ==
    /\ pc[w] = "wait"
    /\ ThreadOwner(w) # NoWorker
    /\ Fail(w, "timeout")
    /\ Goto(w, "done")
    /\ UNCHANGED <<threadOwner, osOwner, lockFile, crashes>>

\* open("a+b") creates the file if need be; the size decides what is next.
OpenLockFile(w) ==
    /\ pc[w] = "open"
    /\ WriteLockFile(w, IF lockFile[NameOf[w]] = "absent"
                          THEN "empty" ELSE lockFile[NameOf[w]])
    /\ Goto(w, IF lockFile[NameOf[w]] = "data" THEN "spin" ELSE "fill")
    /\ UNCHANGED <<threadOwner, osOwner, lockFailure, crashes>>

\* The file was empty when it was opened: write b"\0" at its end.
FillEmptyFile(w) ==
    /\ pc[w] = "fill"
    /\ lockFile[NameOf[w]] = "empty" => osOwner[NameOf[w]] = NoWorker
    /\ WriteLockFile(w, "data")
    /\ Goto(w, "spin")
    /\ UNCHANGED <<threadOwner, osOwner, lockFailure, crashes>>

\* The write lands on byte 0, which another process has locked.
FillDenied(w) ==
    /\ pc[w] = "fill"
    /\ lockFile[NameOf[w]] = "empty"
    /\ osOwner[NameOf[w]] # NoWorker
    /\ Fail(w, "permission")
    /\ Goto(w, "release")
    /\ UNCHANGED <<threadOwner, osOwner, lockFile, crashes>>

\* Mutant of TryLock: only the in-process lock keeps others out.
TryLockBlind(w) ==
    /\ pc[w] = "spin"
    /\ SetOsOwner(w, w)
    /\ Goto(w, IF TruncateOnLock THEN "locked" ELSE "held")
    /\ UNCHANGED <<threadOwner, lockFile, lockFailure, crashes>>

\* Mutant of TryLock: the file is emptied as soon as it is locked.
TryLockEmptying(w) ==
    /\ pc[w] = "spin"
    /\ osOwner[NameOf[w]] = NoWorker
    /\ SetOsOwner(w, w)
    /\ WriteLockFile(w, "empty")
    /\ Goto(w, IF TruncateOnLock THEN "locked" ELSE "held")
    /\ UNCHANGED <<threadOwner, lockFailure, crashes>>

\* msvcrt.locking(..., LK_NBLCK, 1) succeeds.
TryLock(w) ==
    /\ pc[w] = "spin"
    /\ osOwner[NameOf[w]] = NoWorker
    /\ SetOsOwner(w, w)
    /\ Goto(w, IF TruncateOnLock THEN "locked" ELSE "held")
    /\ UNCHANGED <<threadOwner, lockFile, lockFailure, crashes>>

\* LK_NBLCK fails and the deadline has passed: TimeoutError.
SpinTimeout(w) ==
    /\ pc[w] = "spin"
    /\ osOwner[NameOf[w]] # NoWorker
    /\ Fail(w, "timeout")
    /\ Goto(w, "release")
    /\ UNCHANGED <<threadOwner, osOwner, lockFile, crashes>>

\* handle.truncate() at position 0.
Truncate(w) ==
    /\ pc[w] = "locked"
    /\ WriteLockFile(w, "empty")
    /\ Goto(w, "truncated")
    /\ UNCHANGED <<threadOwner, osOwner, lockFailure, crashes>>

\* Mutant of WritePid: the body starts with an empty lock file.
WritePidNot(w) ==
    /\ pc[w] = "truncated"
    /\ Goto(w, "held")
    /\ UNCHANGED <<threadOwner, osOwner, lockFile, lockFailure, crashes>>

\* The pid is written and the body of the with statement starts.
WritePid(w) ==
    /\ pc[w] = "truncated"
    /\ WriteLockFile(w, "data")
    /\ Goto(w, "held")
    /\ UNCHANGED <<threadOwner, osOwner, lockFailure, crashes>>

\* The body ended, normally or not: LK_UNLCK, and the file is closed.
Leave(w) ==
    /\ pc[w] = "held"
    /\ SetOsOwner(w, NoWorker)
    /\ Goto(w, "release")
    /\ UNCHANGED <<threadOwner, lockFile, lockFailure, crashes>>

\* thread_lock.release().
ReleaseThread(w) ==
    /\ pc[w] = "release"
    /\ SetThreadOwner(w, NoWorker)
    /\ Goto(w, "done")
    /\ UNCHANGED <<osOwner, lockFile, lockFailure, crashes>>

\* A directory sweep unlinks a lock file that nobody has open.
Unlink(n) ==
    /\ lockFile[n] # "absent"
    /\ ~OpenBySome(n)
    /\ lockFile' = [lockFile EXCEPT ![n] = "absent"]
    /\ UNCHANGED <<pc, threadOwner, osOwner, lockFailure, crashes>>

\* Process p dies: its calls end where they are, its in-process locks vanish
\* with it and the operating system drops its byte locks.
Crash(p) ==
    LET victims == {w \in Workers : ProcOf[w] = p /\ pc[w] \notin {"out", "done"}}
    IN  /\ crashes < MaxCrashes
        /\ \E w \in victims : pc[w] # "dead"
        /\ crashes' = crashes + 1
        /\ pc' = [w \in Workers |-> IF w \in victims THEN "dead" ELSE pc[w]]
        /\ threadOwner' = [threadOwner EXCEPT ![p] = [n \in Names |-> NoWorker]]
        /\ osOwner' = [n \in Names |-> IF osOwner[n] \in victims
                                         THEN NoWorker ELSE osOwner[n]]
        /\ UNCHANGED <<lockFile, lockFailure>>

-----------------------------------------------------------------------------
\* What a worker does to reserve, up to the body of the with statement.
Reserve(w) ==
    \/ AcquireThread(w) \/ ThreadTimeout(w)
    \/ OpenLockFile(w)
    \/ FillEmptyFile(w) \/ FillDenied(w)
    \/ TryLock(w) \/ SpinTimeout(w)
    \/ Truncate(w) \/ WritePid(w)

LockStep(w) == Enter(w) \/ Decline(w) \/ Reserve(w) \/ Leave(w) \/ ReleaseThread(w)

\* Every call has ended: the system stops.
AllEnded == \A w \in Workers : pc[w] \in EndPcs

LockNext ==
    \/ \E w \in Workers : LockStep(w)
    \/ \E n \in Names : Unlink(n)
    \/ \E p \in Procs : Crash(p)
    \/ AllEnded /\ UNCHANGED lockVars

LockSpec == LockInit /\ [][LockNext]_lockVars

-----------------------------------------------------------------------------
\* Two calls never run the bodies of their reservations on the same name at
\* the same time, whatever processes and threads they belong to.
MutualExclusion ==
    \A v, w \in Workers :
        /\ v # w
        /\ NameOf[v] = NameOf[w]
        => ~(pc[v] \in OwnerPcs /\ pc[w] \in OwnerPcs)

\* A call that waits for a reservation is never thrown out of the waiting by
\* the lock file itself: it gets the lock or runs into the deadline.
WaiterNeverDenied == \A w \in Workers : lockFailure[w] # "permission"

\* While a body runs, its lock file exists and holds data, so that a sweep
\* cannot unlink it and a later call that opens it goes straight to waiting.
HeldFileKept == \A w \in Workers : pc[w] = "held" => lockFile[NameOf[w]] = "data"
=============================================================================
