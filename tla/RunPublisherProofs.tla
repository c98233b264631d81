------------------------- MODULE RunPublisherProofs -------------------------
(***************************************************************************)
(* Proofs about RunPublisher for any number of calls, processes, run names *)
(* and any shadowing relation between the names.                           *)
(***************************************************************************)
EXTENDS RunPublisher, FileLockProofs

\* Steps before the call has made its stage.
BeforeStage == {"recheck", "list", "sweep", "stage"}

\* A call's step, stage and result agree with its place in the reservation.
ControlInv ==
    \A w \in Workers :
        /\ pc[w] \in BeforeBody => step[w] = "recheck" /\ result[w] = "none"
        /\ pc[w] \in BeforeBody \cup {"held"} => lockFailure[w] = "none"
        /\ lockFailure[w] # "none" => step[w] = "recheck" /\ result[w] = "none"
        /\ step[w] \in BeforeStage =>
              /\ stage[w] = "none"
              /\ result[w] \in {"none", "exists"}
              /\ result[w] = "exists" => pc[w] = "done"
        /\ step[w] \in LiveSteps => pc[w] \in {"held", "dead"} /\ result[w] = "none"
        /\ step[w] = "end" /\ result[w] # "unclean" => stage[w] = "none"
        /\ result[w] = "unclean" => step[w] = "end"
        /\ step[w] = "cleanup" => pc[w] \in {"held", "dead"} /\ result[w] \in {"failed", "exists"}
        /\ pc[w] = "release" => step[w] \in {"recheck", "end"}

\* The stage of a live call is there, and sealed before it is renamed.
StageInv ==
    \A w \in Workers :
        /\ At(w, "build") => stage[w] = "partial"
        /\ At(w, "rename") => stage[w] = "sealed"

\* What a sweep still has to do: the stages it has listed were made before it
\* began, a live one among them is guarded by its lock file, which the sweep
\* meets first and cannot unlink, and every leftover of its own name is listed.
SweepInv ==
    \A w \in Workers : At(w, "sweep") =>
        /\ \A v \in sweepStages[w] :
              /\ step[v] \notin BeforeStage
              /\ Live(v) => NameOf[v] \in sweepLocks[w]
        /\ \A v \in Workers :
              v # w /\ NameOf[v] = NameOf[w] /\ stage[v] # "none" => v \in sweepStages[w]

\* Once a call has swept, there is no stage of its name but its own.
CleanInv ==
    \A v, w \in Workers :
        /\ v # w
        /\ NameOf[v] = NameOf[w]
        /\ pc[w] = "held"
        /\ step[w] \in {"stage", "build", "rename"}
        => stage[v] = "none"

OutputInv == PublishedIsSealed /\ SuccessIsTruthful /\ ExistsIsTruthful

RunInv ==
    /\ LockInv
    /\ RunTypeOK
    /\ ControlInv
    /\ StageInv
    /\ SweepInv
    /\ CleanInv
    /\ OutputInv

-----------------------------------------------------------------------------
\* Steps that move calls through the reservation and touch nothing else.
Protocol(w) ==
    \/ Start(w)
    \/ Reserve(w) /\ UNCHANGED runVars
    \/ LeaveReservation(w)
    \/ ReleaseThread(w) /\ UNCHANGED runVars

\* Steps of the body that leave the reservation alone.
Inner(w) ==
    \/ Recheck(w)
    \/ ListAbandoned(w)
    \/ \E n \in Names : SweepDenied(w, n)
    \/ \E v \in Workers : SweepStage(w, v)
    \/ SweepFails(w) \/ SweepDone(w)
    \/ MakeStage(w) \/ Build(w) \/ Raise(w) \/ Rename(w)
    \/ Cleanup(w) \/ CleanupFails(w)

\* Every step of the specification is of one of these kinds.
LEMMA NextCases ==
    ASSUME [Next]_vars
    PROVE  \/ UNCHANGED vars
           \/ \E w \in Workers : RefuseEarly(w)
           \/ \E w \in Workers : Protocol(w)
           \/ \E w \in Workers : Inner(w)
           \/ \E w \in Workers, n \in Names : SweepLockFile(w, n)
           \/ \E p \in Procs : Crash(p) /\ UNCHANGED runVars
           \/ \E n \in Names : ForeignDirectory(n)
  BY DEF Next, Begin, Proceed, Body, Fault, Protocol, Inner

\* The reservation of a run is a behaviour of FileLock.
LEMMA RunStepIsLockStep ==
    ASSUME [Next]_vars
    PROVE  [LockNext]_lockVars
  <1>1. CASE UNCHANGED vars
    BY <1>1 DEF vars
  <1>2. ASSUME NEW w \in Workers, RefuseEarly(w) \/ Protocol(w) PROVE LockNext
    BY <1>2 DEF RefuseEarly, Protocol, Start, LeaveReservation, LockNext, LockStep
  <1>3. ASSUME NEW w \in Workers, Inner(w) PROVE UNCHANGED lockVars
    BY <1>3 DEF Inner, Recheck, ListAbandoned, SweepDenied, SweepStage, SweepFails, SweepDone,
       MakeStage, Build, Raise, Rename, Cleanup, CleanupFails
  <1>4. ASSUME NEW w \in Workers, NEW n \in Names, SweepLockFile(w, n)
        PROVE  [LockNext]_lockVars
    BY <1>4 DEF SweepLockFile, LockNext
  <1>5. ASSUME NEW p \in Procs, Crash(p) PROVE LockNext
    BY <1>5 DEF LockNext
  <1>6. ASSUME NEW n \in Names, ForeignDirectory(n) PROVE UNCHANGED lockVars
    BY <1>6 DEF ForeignDirectory
  <1> QED
    BY <1>1, <1>2, <1>3, <1>4, <1>5, <1>6, NextCases

\* A call's place moves only by its own step, and these are the moves.
LEMMA ProtocolMoves ==
    ASSUME LockTypeOK, NEW w \in Workers, Protocol(w)
    PROVE  /\ UNCHANGED runVars
           /\ \A v \in Workers \ {w} :
                 pc'[v] = pc[v] /\ lockFailure'[v] = lockFailure[v]
           /\ \/ pc[w] \in BeforeBody /\ pc'[w] \in BeforeBody \cup {"held"}
                 /\ lockFailure'[w] = lockFailure[w]
              \/ pc[w] \in BeforeBody /\ pc'[w] \in {"release", "done"}
              \/ pc[w] = "held" /\ step[w] = "end" /\ pc'[w] = "release"
                 /\ lockFailure'[w] = lockFailure[w]
              \/ pc[w] = "release" /\ pc'[w] = "done" /\ lockFailure'[w] = lockFailure[w]
  <1>1. Enter(w) \/ Reserve(w) \/ Leave(w) \/ ReleaseThread(w)
    BY DEF Protocol, Start, LeaveReservation
  <1>2. Leave(w) /\ pc[w] = "held" => step[w] = "end"
    BY DEF Protocol, Start, LeaveReservation, Enter, Reserve, AcquireThread, ThreadTimeout,
       OpenLockFile, FillEmptyFile, FillDenied, TryLock, SpinTimeout, Truncate, WritePid,
       ReleaseThread
  <1>3. UNCHANGED runVars
    BY DEF Protocol, Start, LeaveReservation
  <1> QED
    BY <1>1, <1>2, <1>3, LockMoves

-----------------------------------------------------------------------------
LEMMA RunInitInv == RunInit => RunInv
  <1> SUFFICES ASSUME RunInit PROVE RunInv
    OBVIOUS
  <1>1. LockInv
    BY LockInitInv DEF RunInit
  <1>2. RunTypeOK
    BY <1>1 DEF LockInv, RunInit, RunTypeOK, Steps, Results, Stages, Contents
  <1>3. ControlInv
    BY DEF RunInit, LockInit, ControlInv, BeforeBody, BeforeStage, LiveSteps
  <1>4. StageInv /\ SweepInv /\ CleanInv
    BY DEF RunInit, LockInit, StageInv, SweepInv, CleanInv, At
  <1>5. OutputInv
    BY PlacementLemma, OutsiderAssumption, NoRunAssumption
    DEF RunInit, OutputInv, PublishedIsSealed, SuccessIsTruthful, ExistsIsTruthful
  <1> QED
    BY <1>1, <1>2, <1>3, <1>4, <1>5 DEF RunInv

\* Each step keeps the types of the run variables.
LEMMA RunTypeStep ==
    ASSUME RunTypeOK, [Next]_vars
    PROVE  RunTypeOK'
  <1> USE DEF RunTypeOK, Steps, Results, Stages, Contents, ToStep, Conclude, SetStage
  <1>1. LockTypeOK'
    BY RunStepIsLockStep, LockTypeStep
  <1>2. CASE UNCHANGED runVars
    BY <1>1, <1>2 DEF runVars
  <1>3. ASSUME NEW w \in Workers, RefuseEarly(w) PROVE RunTypeOK'
    BY <1>1, <1>3 DEF RefuseEarly
  <1>4. ASSUME NEW w \in Workers, Recheck(w) \/ SweepDone(w) PROVE RunTypeOK'
    BY <1>1, <1>4 DEF Recheck, SweepDone
  <1>5. ASSUME NEW w \in Workers, ListAbandoned(w) PROVE RunTypeOK'
    BY <1>1, <1>5 DEF ListAbandoned
  <1>6. ASSUME NEW w \in Workers, NEW n \in Names, SweepLockFile(w, n) PROVE RunTypeOK'
    BY <1>1, <1>6 DEF SweepLockFile
  <1>7. ASSUME NEW w \in Workers, SweepFails(w) \/ \E n \in Names : SweepDenied(w, n)
        PROVE  RunTypeOK'
    BY <1>1, <1>7 DEF SweepDenied, SweepFails
  <1>8. ASSUME NEW w \in Workers, NEW v \in Workers, SweepStage(w, v) PROVE RunTypeOK'
    BY <1>1, <1>8 DEF SweepStage
  <1>9. ASSUME NEW w \in Workers, MakeStage(w) \/ Build(w) PROVE RunTypeOK'
    BY <1>1, <1>9 DEF MakeStage, Build
  <1>10. ASSUME NEW w \in Workers, Raise(w) \/ Cleanup(w) \/ CleanupFails(w)
        PROVE  RunTypeOK'
    BY <1>1, <1>10 DEF Raise, Cleanup, CleanupFails
  <1>11. ASSUME NEW w \in Workers, Rename(w) PROVE RunTypeOK'
    BY <1>1, <1>11, PlacementLemma DEF Rename
  <1>12. ASSUME NEW n \in Names, ForeignDirectory(n) PROVE RunTypeOK'
    BY <1>1, <1>12 DEF ForeignDirectory
  <1>13. ASSUME NEW w \in Workers, Protocol(w) PROVE UNCHANGED runVars
    BY <1>13, ProtocolMoves
  <1> QED
    BY <1>2, <1>3, <1>4, <1>5, <1>6, <1>7, <1>8, <1>9, <1>10, <1>11, <1>12, <1>13,
       NextCases DEF Inner, vars

\* The steps of a call stay in step with its reservation.
LEMMA ControlStep ==
    ASSUME RunTypeOK, ControlInv, [Next]_vars
    PROVE  ControlInv'
  <1> USE DEF ControlInv, RunTypeOK, LockTypeOK, Steps, Results, BeforeBody, BeforeStage,
              LiveSteps, ToStep, Conclude, SetStage, At
  <1>1. CASE UNCHANGED vars
    BY <1>1 DEF vars, lockVars, runVars
  <1>2. ASSUME NEW w \in Workers, RefuseEarly(w) PROVE ControlInv'
    BY <1>2 DEF RefuseEarly, Decline, Goto
  <1>3. ASSUME NEW w \in Workers, Protocol(w) PROVE ControlInv'
    BY <1>3, ProtocolMoves DEF runVars, Pcs, EndPcs, ThreadPcs, OpenPcs
  <1>4. ASSUME NEW w \in Workers, Recheck(w) \/ SweepDone(w) PROVE ControlInv'
    BY <1>4 DEF Recheck, SweepDone, lockVars
  <1>5. ASSUME NEW w \in Workers, ListAbandoned(w) PROVE ControlInv'
    BY <1>5 DEF ListAbandoned, lockVars
  <1>6. ASSUME NEW w \in Workers, NEW n \in Names, SweepLockFile(w, n) PROVE ControlInv'
    BY <1>6 DEF SweepLockFile, Unlink, lockVars
  <1>7. ASSUME NEW w \in Workers, SweepFails(w) \/ \E n \in Names : SweepDenied(w, n)
        PROVE  ControlInv'
    BY <1>7 DEF SweepDenied, SweepFails, lockVars
  <1>8. ASSUME NEW w \in Workers, NEW v \in Workers, SweepStage(w, v) PROVE ControlInv'
    BY <1>8 DEF SweepStage, lockVars
  <1>9. ASSUME NEW w \in Workers, MakeStage(w) \/ Build(w) PROVE ControlInv'
    BY <1>9 DEF MakeStage, Build, lockVars
  <1>10. ASSUME NEW w \in Workers, Raise(w) \/ Cleanup(w) \/ CleanupFails(w)
        PROVE  ControlInv'
    BY <1>10 DEF Raise, Cleanup, CleanupFails, lockVars
  <1>11. ASSUME NEW w \in Workers, Rename(w) PROVE ControlInv'
    BY <1>11 DEF Rename, lockVars
  <1>12. ASSUME NEW p \in Procs, Crash(p), UNCHANGED runVars PROVE ControlInv'
    BY <1>12, CrashMoves DEF runVars
  <1>13. ASSUME NEW n \in Names, ForeignDirectory(n) PROVE ControlInv'
    BY <1>13 DEF ForeignDirectory, lockVars
  <1> QED
    BY <1>1, <1>2, <1>3, <1>4, <1>5, <1>6, <1>7, <1>8, <1>9, <1>10, <1>11, <1>12, <1>13,
       NextCases DEF Inner

\* No sweep has a live stage next: one of its own name would need a second
\* holder, and one of a shadowed name is still behind its lock file.
LEMMA SweepSparesTheLive ==
    ASSUME RunInv, NEW w \in Workers, NEW v \in Workers, SweepStage(w, v)
    PROVE  ~Live(v)
  BY DEF RunInv, SweepInv, SweepStage, At

\* A call keeps its stage while it builds, and seals it before the rename.
LEMMA StageStep ==
    ASSUME RunInv, [Next]_vars
    PROVE  StageInv'
  <1> USE DEF RunInv, StageInv, RunTypeOK, LockTypeOK, ToStep, SetStage, At
  <1>1. CASE UNCHANGED vars
    BY <1>1 DEF vars, lockVars, runVars
  <1>2. ASSUME NEW w \in Workers, RefuseEarly(w) PROVE StageInv'
    BY <1>2 DEF RefuseEarly, Decline, Goto
  <1>3. ASSUME NEW w \in Workers, Protocol(w) PROVE StageInv'
    BY <1>3, ProtocolMoves DEF runVars, ControlInv, BeforeBody
  <1>4. ASSUME NEW w \in Workers, Recheck(w) \/ ListAbandoned(w) \/ SweepDone(w)
        PROVE  StageInv'
    BY <1>4 DEF Recheck, ListAbandoned, SweepDone, lockVars
  <1>5. ASSUME NEW w \in Workers, NEW n \in Names, SweepLockFile(w, n) PROVE StageInv'
    BY <1>5 DEF SweepLockFile, Unlink, lockVars
  <1>6. ASSUME NEW w \in Workers, SweepFails(w) \/ \E n \in Names : SweepDenied(w, n)
        PROVE  StageInv'
    BY <1>6 DEF SweepDenied, SweepFails, lockVars
  <1>7. ASSUME NEW w \in Workers, NEW v \in Workers, SweepStage(w, v) PROVE StageInv'
    BY <1>7, SweepSparesTheLive DEF SweepStage, lockVars, Live, LiveSteps
  <1>8. ASSUME NEW w \in Workers, 
               \/ MakeStage(w) \/ Build(w) \/ Raise(w) \/ Cleanup(w) \/ CleanupFails(w)
        PROVE  StageInv'
    BY <1>8 DEF MakeStage, Build, Raise, Cleanup, CleanupFails, lockVars
  <1>9. ASSUME NEW w \in Workers, Rename(w) PROVE StageInv'
    BY <1>9 DEF Rename, lockVars
  <1>10. ASSUME NEW p \in Procs, Crash(p), UNCHANGED runVars PROVE StageInv'
    BY <1>10, CrashMoves DEF runVars
  <1>11. ASSUME NEW n \in Names, ForeignDirectory(n) PROVE StageInv'
    BY <1>11 DEF ForeignDirectory, lockVars
  <1> QED
    BY <1>1, <1>2, <1>3, <1>4, <1>5, <1>6, <1>7, <1>8, <1>9, <1>10, <1>11, NextCases
    DEF Inner

\* A listing finds every leftover of its name, and behind every live stage of
\* a shadowed name the lock file that its owner holds open.
LEMMA ListingIsGuarded ==
    ASSUME RunInv, NEW w \in Workers, ListAbandoned(w)
    PROVE  /\ \A v \in sweepStages'[w] :
                 /\ step[v] \notin BeforeStage
                 /\ v # w
                 /\ Live(v) => NameOf[v] \in sweepLocks'[w]
           /\ \A v \in Workers :
                 NameOf[v] = NameOf[w] /\ stage[v] # "none" => v \in sweepStages'[w]
  <1> USE DEF RunInv, RunTypeOK, ListAbandoned, At
  <1>1. ASSUME NEW v \in sweepStages'[w]
        PROVE  /\ v \in Workers /\ stage[v] # "none" /\ Swept(w, NameOf[v])
               /\ step[v] \notin BeforeStage
               /\ v # w
    BY <1>1 DEF ControlInv, BeforeStage
  <1>2. ASSUME NEW v \in sweepStages'[w], Live(v)
        PROVE  NameOf[v] \in sweepLocks'[w]
    <2>1. NameOf[v] # NameOf[w]
      BY <1>1, <1>2, OneHolder DEF Live
    <2>2. <<NameOf[w], NameOf[v]>> \in Shadows
      BY <1>1, <2>1 DEF Swept
    <2>3. lockFile[NameOf[v]] = "data"
      BY <1>1, <1>2 DEF Live, LockInv, OpenFileInv, HeldFileKept
    <2> QED
      BY <1>1, <2>2, <2>3, PlacementLemma
  <1>3. ASSUME NEW v \in Workers, NameOf[v] = NameOf[w], stage[v] # "none"
        PROVE  v \in sweepStages'[w]
    BY <1>3 DEF Swept
  <1> QED
    BY <1>1, <1>2, <1>3

\* A sweep's list stays guarded while other calls, and the sweep, go on.
LEMMA SweepStep ==
    ASSUME RunInv, [Next]_vars
    PROVE  SweepInv'
  <1> USE DEF RunInv, SweepInv, RunTypeOK, LockTypeOK, ToStep, SetStage, At, Live, LiveSteps,
              BeforeStage
  <1>1. CASE UNCHANGED vars
    BY <1>1 DEF vars, lockVars, runVars
  <1>2. ASSUME NEW w \in Workers, RefuseEarly(w) PROVE SweepInv'
    BY <1>2 DEF RefuseEarly, Decline, Goto
  <1>3. ASSUME NEW w \in Workers, Protocol(w) PROVE SweepInv'
    BY <1>3, ProtocolMoves DEF runVars, ControlInv, BeforeBody
  <1>4. ASSUME NEW w \in Workers, Recheck(w) \/ SweepDone(w) PROVE SweepInv'
    BY <1>4 DEF Recheck, SweepDone, lockVars
  <1>5. ASSUME NEW w \in Workers, ListAbandoned(w) PROVE SweepInv'
    <2>1. /\ UNCHANGED <<pc, stage>>
          /\ \A v \in Workers \ {w} :
                /\ step'[v] = step[v]
                /\ sweepStages'[v] = sweepStages[v]
                /\ sweepLocks'[v] = sweepLocks[v]
          /\ step[w] = "list" /\ step'[w] = "sweep"
      BY <1>5 DEF ListAbandoned, lockVars
    <2>2. sweepStages'[w] \subseteq Workers
      BY <1>5 DEF ListAbandoned
    <2>3. ASSUME NEW u \in Workers, At(u, "sweep")', u = w
          PROVE  /\ \A v \in sweepStages'[u] :
                       step'[v] \notin BeforeStage /\ (Live(v)' => NameOf[v] \in sweepLocks'[u])
                 /\ \A v \in Workers :
                       v # u /\ NameOf[v] = NameOf[u] /\ stage'[v] # "none" => v \in sweepStages'[u]
      BY <1>5, <2>1, <2>2, <2>3, ListingIsGuarded
    <2>4. ASSUME NEW u \in Workers, At(u, "sweep")', u # w
          PROVE  /\ \A v \in sweepStages'[u] :
                       step'[v] \notin BeforeStage /\ (Live(v)' => NameOf[v] \in sweepLocks'[u])
                 /\ \A v \in Workers :
                       v # u /\ NameOf[v] = NameOf[u] /\ stage'[v] # "none" => v \in sweepStages'[u]
      BY <1>5, <2>1, <2>4
    <2> QED
      BY <2>3, <2>4
  <1>6. ASSUME NEW w \in Workers, NEW n \in Names, SweepLockFile(w, n) PROVE SweepInv'
    BY <1>6 DEF SweepLockFile, Unlink, lockVars, OpenBySome, OpenPcs
  <1>7. ASSUME NEW w \in Workers, SweepFails(w) \/ \E n \in Names : SweepDenied(w, n)
        PROVE  SweepInv'
    BY <1>7 DEF SweepDenied, SweepFails, lockVars
  <1>8. ASSUME NEW w \in Workers, NEW v \in Workers, SweepStage(w, v) PROVE SweepInv'
    BY <1>8, OneHolder DEF SweepStage, lockVars
  <1>9. ASSUME NEW w \in Workers, MakeStage(w) PROVE SweepInv'
    BY <1>9, OneHolder DEF MakeStage, lockVars
  <1>10. ASSUME NEW w \in Workers, Build(w) PROVE SweepInv'
    BY <1>10, OneHolder DEF Build, lockVars
  <1>11. ASSUME NEW w \in Workers, Raise(w) \/ Cleanup(w) \/ CleanupFails(w)
        PROVE  SweepInv'
    BY <1>11 DEF Raise, Cleanup, CleanupFails, lockVars
  <1>12. ASSUME NEW w \in Workers, Rename(w) PROVE SweepInv'
    BY <1>12 DEF Rename, lockVars
  <1>13. ASSUME NEW p \in Procs, Crash(p), UNCHANGED runVars PROVE SweepInv'
    BY <1>13, CrashMoves DEF runVars
  <1>14. ASSUME NEW n \in Names, ForeignDirectory(n) PROVE SweepInv'
    BY <1>14 DEF ForeignDirectory, lockVars
  <1> QED
    BY <1>1, <1>2, <1>3, <1>4, <1>5, <1>6, <1>7, <1>8, <1>9, <1>10, <1>11, <1>12, <1>13,
       <1>14, NextCases DEF Inner

\* After its sweep a call stays alone with its own stage.
LEMMA CleanStep ==
    ASSUME RunInv, [Next]_vars
    PROVE  CleanInv'
  <1> USE DEF RunInv, CleanInv, RunTypeOK, LockTypeOK, ToStep, SetStage, At
  <1>1. CASE UNCHANGED vars
    BY <1>1 DEF vars, lockVars, runVars
  <1>2. ASSUME NEW w \in Workers, RefuseEarly(w) PROVE CleanInv'
    BY <1>2 DEF RefuseEarly, Decline, Goto
  <1>3. ASSUME NEW w \in Workers, Protocol(w) PROVE CleanInv'
    BY <1>3, ProtocolMoves DEF runVars, ControlInv, BeforeBody
  <1>4. ASSUME NEW w \in Workers, Recheck(w) \/ ListAbandoned(w) PROVE CleanInv'
    BY <1>4 DEF Recheck, ListAbandoned, lockVars
  <1>5. ASSUME NEW w \in Workers, SweepDone(w) PROVE CleanInv'
    BY <1>5 DEF SweepDone, SweepInv, lockVars
  <1>6. ASSUME NEW w \in Workers, NEW n \in Names, SweepLockFile(w, n) PROVE CleanInv'
    BY <1>6 DEF SweepLockFile, Unlink, lockVars
  <1>7. ASSUME NEW w \in Workers, SweepFails(w) \/ \E n \in Names : SweepDenied(w, n)
        PROVE  CleanInv'
    BY <1>7 DEF SweepDenied, SweepFails, lockVars
  <1>8. ASSUME NEW w \in Workers, NEW v \in Workers, SweepStage(w, v) PROVE CleanInv'
    BY <1>8 DEF SweepStage, lockVars
  <1>9. ASSUME NEW w \in Workers, MakeStage(w) \/ Build(w) PROVE CleanInv'
    BY <1>9, OneHolder DEF MakeStage, Build, lockVars
  <1>10. ASSUME NEW w \in Workers, Raise(w) \/ Cleanup(w) \/ CleanupFails(w)
        PROVE  CleanInv'
    BY <1>10 DEF Raise, Cleanup, CleanupFails, lockVars
  <1>11. ASSUME NEW w \in Workers, Rename(w) PROVE CleanInv'
    BY <1>11 DEF Rename, lockVars
  <1>12. ASSUME NEW p \in Procs, Crash(p), UNCHANGED runVars PROVE CleanInv'
    BY <1>12, CrashMoves DEF runVars
  <1>13. ASSUME NEW n \in Names, ForeignDirectory(n) PROVE CleanInv'
    BY <1>13 DEF ForeignDirectory, lockVars
  <1> QED
    BY <1>1, <1>2, <1>3, <1>4, <1>5, <1>6, <1>7, <1>8, <1>9, <1>10, <1>11, <1>12, <1>13,
       NextCases DEF Inner

\* Only the rename publishes, and what callers are told follows the outputs.
LEMMA OutputStep ==
    ASSUME RunInv, [Next]_vars
    PROVE  OutputInv'
  <1> USE PlacementLemma, OutsiderAssumption, NoRunAssumption
  <1> USE DEF RunInv, OutputInv, PublishedIsSealed, SuccessIsTruthful, ExistsIsTruthful,
              RunTypeOK, Conclude, ToStep, Exists, At
  <1>1. CASE UNCHANGED <<output, content, result>>
    BY <1>1
  <1>2. ASSUME NEW w \in Workers, RefuseEarly(w) PROVE OutputInv'
    BY <1>2 DEF RefuseEarly, Decline, ControlInv, BeforeBody
  <1>3. ASSUME NEW w \in Workers, Recheck(w) PROVE OutputInv'
    BY <1>3 DEF Recheck, ControlInv, BeforeStage
  <1>4. ASSUME NEW w \in Workers, SweepFails(w) \/ \E n \in Names : SweepDenied(w, n)
        PROVE  OutputInv'
    BY <1>4 DEF SweepDenied, SweepFails, ControlInv, BeforeStage
  <1>5. ASSUME NEW w \in Workers, Raise(w) \/ CleanupFails(w) PROVE OutputInv'
    BY <1>5 DEF Raise, CleanupFails, ControlInv, BeforeStage, LiveSteps
  <1>6. ASSUME NEW w \in Workers, Rename(w) PROVE OutputInv'
    BY <1>6 DEF Rename, ControlInv, StageInv, LiveSteps
  <1>7. ASSUME NEW n \in Names, ForeignDirectory(n) PROVE OutputInv'
    BY <1>7 DEF ForeignDirectory
  <1>8. ASSUME NEW w \in Workers, Protocol(w) PROVE UNCHANGED <<output, content, result>>
    BY <1>8, ProtocolMoves DEF runVars
  <1>9. ASSUME NEW w \in Workers,
               \/ ListAbandoned(w) \/ SweepDone(w)
               \/ MakeStage(w) \/ Build(w) \/ Cleanup(w)
               \/ \E v \in Workers : SweepStage(w, v)
               \/ \E n \in Names : SweepLockFile(w, n)
        PROVE  UNCHANGED <<output, content, result>>
    BY <1>9 DEF ListAbandoned, SweepDone, MakeStage, Build, Cleanup, SweepStage, SweepLockFile
  <1> QED
    BY <1>1, <1>2, <1>3, <1>4, <1>5, <1>6, <1>7, <1>8, <1>9, NextCases
    DEF Inner, vars, runVars

-----------------------------------------------------------------------------
\* The inductive invariant holds in every reachable state.
THEOREM RunInvariant == Spec => []RunInv
  <1>1. RunInit => RunInv
    BY RunInitInv
  <1>2. RunInv /\ [Next]_vars => RunInv'
    <2> SUFFICES ASSUME RunInv, [Next]_vars PROVE RunInv'
      OBVIOUS
    <2>1. LockInv'
      BY RunStepIsLockStep, LockTypeStep, OwnerStep, OpenFileStep DEF RunInv, LockInv
    <2> QED
      BY <2>1, RunTypeStep, ControlStep, StageStep, SweepStep, CleanStep, OutputStep
      DEF RunInv
  <1> QED
    BY <1>1, <1>2, PTL DEF Spec

\* Every variable of run_pilot's model keeps its type.
THEOREM RunTypes == Spec => []RunTypeOK
  <1>1. RunInv => RunTypeOK
    BY DEF RunInv
  <1> QED
    BY <1>1, RunInvariant, PTL

\* The staging directory of a running call is never swept away, for any run
\* names that shadow one another and any crashes.
THEOREM RunKeepsLiveStages == Spec => []LiveStageKept
  <1>1. RunInv => LiveStageKept
    BY DEF RunInv, StageInv, LiveStageKept, Live, LiveSteps, At
  <1> QED
    BY <1>1, RunInvariant, PTL

\* A call that builds has no leftovers of its run name beside it.
THEOREM RunRecoversStages == Spec => []NoLeftovers
  <1>1. RunInv => NoLeftovers
    BY DEF RunInv, CleanInv, NoLeftovers, Live, LiveSteps
  <1> QED
    BY <1>1, RunInvariant, PTL

\* What is published is sealed, by the call that reports it, and calls that
\* report success or an existing directory tell the truth.
THEOREM RunOutcomes ==
    Spec => [](PublishedIsSealed /\ SuccessIsTruthful /\ ExistsIsTruthful)
  <1>1. RunInv => PublishedIsSealed /\ SuccessIsTruthful /\ ExistsIsTruthful
    BY DEF RunInv, OutputInv
  <1> QED
    BY <1>1, RunInvariant, PTL

\* Only a call whose process died, or whose stage cannot be removed, leaves a
\* staging directory behind.
THEOREM RunLitter == Spec => []OnlyTheDeadLitter
  <1>1. RunInv => OnlyTheDeadLitter
    BY DEF RunInv, RunTypeOK, Steps, ControlInv, OnlyTheDeadLitter, Live, LiveSteps,
       BeforeStage, At
  <1> QED
    BY <1>1, RunInvariant, PTL

\* The body of run_pilot's reservation is a critical section per run name.
THEOREM RunExcludes == Spec => []MutualExclusion
  <1>1. RunInv => MutualExclusion
    BY OwnerExclusive DEF RunInv, LockInv
  <1> QED
    BY <1>1, RunInvariant, PTL

\* A run directory, whoever made it, is never replaced or changed.
THEOREM RunNeverReplaces == Spec => NeverReplaced
  <1>1. RunTypeOK /\ [Next]_vars =>
          [\A n \in Names : output[n] # NoRun =>
              output'[n] = output[n] /\ content'[n] = content[n]]_vars
    <2> SUFFICES ASSUME RunTypeOK, [Next]_vars, NEW n \in Names, output[n] # NoRun
                 PROVE  output'[n] = output[n] /\ content'[n] = content[n]
      OBVIOUS
    <2>1. CASE UNCHANGED <<output, content>>
      BY <2>1
    <2>2. ASSUME NEW w \in Workers, Rename(w)
          PROVE  output'[n] = output[n] /\ content'[n] = content[n]
      BY <2>2, PlacementLemma DEF Rename, Exists, RunTypeOK
    <2>3. ASSUME NEW m \in Names, ForeignDirectory(m)
          PROVE  output'[n] = output[n] /\ content'[n] = content[n]
      BY <2>3 DEF ForeignDirectory, RunTypeOK
    <2>4. ASSUME NEW w \in Workers, Protocol(w) PROVE UNCHANGED <<output, content>>
      BY <2>4, ProtocolMoves DEF runVars, RunTypeOK
    <2>5. ASSUME NEW w \in Workers,
                 \/ RefuseEarly(w) \/ Recheck(w)
                 \/ ListAbandoned(w) \/ SweepDone(w)
                 \/ MakeStage(w) \/ Build(w) \/ Raise(w) \/ Cleanup(w) \/ CleanupFails(w)
                 \/ SweepFails(w)
                 \/ \E v \in Workers : SweepStage(w, v)
                 \/ \E m \in Names : SweepLockFile(w, m) \/ SweepDenied(w, m)
          PROVE  UNCHANGED <<output, content>>
      BY <2>5 DEF RefuseEarly, Recheck, ListAbandoned, SweepDone, MakeStage, Build, Raise,
         Cleanup, CleanupFails, SweepFails, SweepStage, SweepLockFile, SweepDenied
    <2> QED
      BY <2>1, <2>2, <2>3, <2>4, <2>5, NextCases DEF Inner, vars, runVars
  <1> QED
    BY <1>1, RunTypes, PTL DEF Spec, NeverReplaced

-----------------------------------------------------------------------------
\* A step of one call changes what its own caller sees, and nobody else's view.
LEMMA OneSees ==
    ASSUME NEW w \in Workers,
           \A v \in Workers \ {w} :
              /\ step'[v] = step[v] /\ result'[v] = result[v]
              /\ lockFailure'[v] = lockFailure[v]
    PROVE  CallerSees' = [CallerSees EXCEPT ![w] = Sees(w)']
  <1>1. ASSUME NEW v \in Workers \ {w} PROVE Sees(v)' = Sees(v)
    BY <1>1 DEF Sees
  <1>2. CallerSees' = [v \in Workers |-> Sees(v)']
    BY DEF CallerSees
  <1>3. CallerSees = [v \in Workers |-> Sees(v)]
    BY DEF CallerSees
  <1>4. CallerSees' = [v \in Workers |-> IF v = w THEN Sees(w)' ELSE CallerSees[v]]
    BY <1>1, <1>2, <1>3, Zenon
  <1>5. [CallerSees EXCEPT ![w] = Sees(w)']
            = [v \in Workers |-> IF v = w THEN Sees(w)' ELSE CallerSees[v]]
    BY <1>3, Zenon
  <1> QED
    BY <1>4, <1>5

\* What callers see changes only with a result, a lock failure or the end of a
\* finally clause.
LEMMA SeesUnchanged ==
    ASSUME UNCHANGED <<result, lockFailure>>,
           \A v \in Workers : step'[v] = "cleanup" <=> step[v] = "cleanup"
    PROVE  UNCHANGED CallerSees
  BY DEF CallerSees, Sees

\* A step of a call after which its caller sees what it saw before, or sees
\* an outcome for the first time, with the outputs left alone.
LEMMA OneReports ==
    ASSUME NEW w \in Workers,
           \A v \in Workers \ {w} :
              /\ step'[v] = step[v] /\ result'[v] = result[v]
              /\ lockFailure'[v] = lockFailure[v],
           UNCHANGED <<output, content>>,
           \/ Sees(w)' = Sees(w)
           \/ Sees(w) = "none" /\ Sees(w)' = "error"
           \/ Sees(w) = "none" /\ Sees(w)' = "exists" /\ output[NameOf[w]] # NoRun
    PROVE  [Directory!Next]_(Directory!dirVars)
  <1>1. CallerSees' = [CallerSees EXCEPT ![w] = Sees(w)'] /\ CallerSees[w] = Sees(w)
    BY OneSees DEF CallerSees
  <1>2. CASE Sees(w)' = Sees(w)
    BY <1>1, <1>2 DEF CallerSees, Directory!dirVars
  <1>3. CASE Sees(w) = "none" /\ Sees(w)' = "error"
    BY <1>1, <1>3 DEF Directory!GiveUp, Directory!Report, Directory!Next
  <1>4. CASE Sees(w) = "none" /\ Sees(w)' = "exists" /\ output[NameOf[w]] # NoRun
    BY <1>1, <1>4 DEF Directory!Refuse, Directory!Report, Directory!Next
  <1> QED
    BY <1>2, <1>3, <1>4

\* Each step of run_pilot is a step of the abstract specification, or none.
LEMMA RunStepRefines ==
    ASSUME RunInv, [Next]_vars
    PROVE  [Directory!Next]_(Directory!dirVars)
  <1> USE DEF RunInv, RunTypeOK
  <1> DEFINE Abstract == [Directory!Next]_(Directory!dirVars)
  <1>1. ASSUME UNCHANGED <<output, content, result, lockFailure>>,
               \A v \in Workers : step'[v] = "cleanup" <=> step[v] = "cleanup"
        PROVE  Abstract
    BY <1>1, SeesUnchanged DEF Directory!dirVars
  <1>2. ASSUME NEW w \in Workers,
               \/ RefuseEarly(w) \/ Recheck(w) \/ Raise(w)
               \/ SweepFails(w) \/ \E n \in Names : SweepDenied(w, n)
        PROVE  Abstract
    <2>1. UNCHANGED <<output, content, lockFailure>>
      BY <1>2 DEF RefuseEarly, Decline, Recheck, Raise, SweepDenied, SweepFails, lockVars
    <2>2. /\ result[w] = "none" /\ lockFailure[w] = "none"
          /\ step[w] # "cleanup"
      BY <1>2 DEF RefuseEarly, Decline, Recheck, Raise, SweepDenied, SweepFails, At,
         ControlInv, BeforeBody, BeforeStage, LiveSteps
    <2>3. \A v \in Workers \ {w} : step'[v] = step[v] /\ result'[v] = result[v]
      BY <1>2 DEF RefuseEarly, Recheck, Raise, SweepDenied, SweepFails, Conclude, ToStep
    <2>4. \/ result'[w] = "none"
          \/ result'[w] = "exists" /\ output[NameOf[w]] # NoRun
          \/ result'[w] \in {"failed", "sharing"}
      BY <1>2, <2>2 DEF RefuseEarly, Recheck, Raise, SweepDenied, SweepFails, Conclude, Exists
    <2>5. lockFailure'[w] = "none"
      BY <2>1, <2>2
    <2>6. Sees(w) = "none"
      BY <2>2 DEF Sees
    <2>7. \/ Sees(w)' \in {"none", "error"}
          \/ Sees(w)' = "exists" /\ output[NameOf[w]] # NoRun
      BY <2>4, <2>5 DEF Sees
    <2> QED
      BY <2>1, <2>3, <2>6, <2>7, OneReports
  <1>3. ASSUME NEW w \in Workers, Cleanup(w) \/ CleanupFails(w) PROVE Abstract
    <2>1. UNCHANGED <<output, content, lockFailure>>
      BY <1>3 DEF Cleanup, CleanupFails, lockVars
    <2>2. step[w] = "cleanup" /\ step'[w] = "end" /\ result[w] \in {"failed", "exists"}
      BY <1>3 DEF Cleanup, CleanupFails, At, ControlInv, ToStep
    <2>3. \A v \in Workers \ {w} : step'[v] = step[v] /\ result'[v] = result[v]
      BY <1>3 DEF Cleanup, CleanupFails, Conclude, ToStep
    <2>4. result'[w] \in {result[w], "unclean"}
      BY <1>3 DEF Cleanup, CleanupFails, Conclude
    <2>5. result[w] = "exists" => output[NameOf[w]] # NoRun
      BY DEF OutputInv, ExistsIsTruthful
    <2>6. /\ Sees(w) = "none"
          /\ \/ Sees(w)' = "error"
             \/ Sees(w)' = "exists" /\ output[NameOf[w]] # NoRun
      BY <2>2, <2>4, <2>5 DEF Sees
    <2> QED
      BY <2>1, <2>3, <2>6, OneReports
  <1>4. ASSUME NEW w \in Workers, Rename(w) PROVE Abstract
    <2>1. result[w] = "none" /\ lockFailure[w] = "none" /\ stage[w] = "sealed"
      BY <1>4 DEF Rename, At, ControlInv, LiveSteps, StageInv
    <2>2. UNCHANGED lockFailure /\ step[w] = "rename"
      BY <1>4 DEF Rename, At, lockVars
    <2>3. \A v \in Workers \ {w} : step'[v] = step[v] /\ result'[v] = result[v]
      BY <1>4 DEF Rename, Conclude, ToStep
    <2>4. CASE Exists(w)
      <3>1. UNCHANGED <<output, content>> /\ step'[w] = "cleanup"
        BY <1>4, <2>4 DEF Rename, ToStep
      <3>2. Sees(w) = "none" /\ Sees(w)' = "none"
        BY <2>1, <2>2, <3>1 DEF Sees
      <3> QED
        BY <2>2, <2>3, <3>1, <3>2, OneReports
    <2>5. CASE ~Exists(w)
      <3>1. Sees(w) = "none"
        BY <2>1, <2>2 DEF Sees
      <3>2. Sees(w)' = "published"
        BY <1>4, <2>5 DEF Rename, Conclude, ToStep, Sees
      <3>3. /\ CallerSees' = [CallerSees EXCEPT ![w] = "published"]
            /\ CallerSees[w] = "none"
        BY <2>2, <2>3, <3>1, <3>2, OneSees DEF CallerSees
      <3> QED
        BY <1>4, <2>1, <2>5, <3>3
        DEF Rename, Exists, Directory!Publish, Directory!Report, Directory!Next
    <2> QED
      BY <2>4, <2>5
  <1>5. ASSUME NEW n \in Names, ForeignDirectory(n) PROVE Abstract
    BY <1>5, SeesUnchanged
    DEF ForeignDirectory, lockVars, Directory!Foreign, Directory!Next
  <1>6. ASSUME NEW w \in Workers, Protocol(w) PROVE Abstract
    <2>1. UNCHANGED <<output, content, result, step>>
      BY <1>6, ProtocolMoves DEF runVars
    <2>2. \/ UNCHANGED lockFailure
          \/ /\ result[w] = "none" /\ lockFailure[w] = "none" /\ step[w] = "recheck"
             /\ \E e \in {"timeout", "permission"} : Fail(w, e)
      BY <1>6 DEF Protocol, Start, LeaveReservation, Reserve, Enter, AcquireThread,
         ThreadTimeout, OpenLockFile, FillEmptyFile, FillDenied, TryLock, SpinTimeout,
         Truncate, WritePid, Leave, ReleaseThread, ControlInv, BeforeBody
    <2>3. CASE UNCHANGED lockFailure
      BY <1>1, <2>1, <2>3
    <2>4. CASE /\ result[w] = "none" /\ lockFailure[w] = "none" /\ step[w] = "recheck"
               /\ \E e \in {"timeout", "permission"} : Fail(w, e)
      <3>1. \A v \in Workers \ {w} : lockFailure'[v] = lockFailure[v]
        BY <2>4 DEF Fail
      <3>2. lockFailure'[w] # "none"
        BY <2>4 DEF Fail, LockTypeOK
      <3>3. Sees(w) = "none" /\ Sees(w)' = "error"
        BY <2>1, <2>4, <3>2 DEF Sees
      <3> QED
        BY <2>1, <3>1, <3>3, OneReports
    <2> QED
      BY <2>2, <2>3, <2>4
  <1>7. ASSUME NEW w \in Workers,
               \/ ListAbandoned(w) \/ SweepDone(w)
               \/ MakeStage(w) \/ Build(w)
               \/ \E v \in Workers : SweepStage(w, v)
               \/ \E n \in Names : SweepLockFile(w, n)
        PROVE  Abstract
    <2>1. UNCHANGED <<output, content, result, lockFailure>>
      BY <1>7 DEF ListAbandoned, SweepDone, MakeStage, Build, SweepStage,
         SweepLockFile, Unlink, lockVars
    <2>2. \A v \in Workers : step'[v] = "cleanup" <=> step[v] = "cleanup"
      BY <1>7 DEF ListAbandoned, SweepDone, MakeStage, Build, SweepStage, SweepLockFile,
         At, ToStep
    <2> QED
      BY <1>1, <2>1, <2>2
  <1>8. ASSUME NEW p \in Procs, Crash(p), UNCHANGED runVars PROVE Abstract
    BY <1>1, <1>8 DEF Crash, runVars
  <1>9. CASE UNCHANGED vars
    BY <1>1, <1>9 DEF vars, lockVars, runVars
  <1> QED
    BY <1>2, <1>3, <1>4, <1>5, <1>6, <1>7, <1>8, <1>9, NextCases DEF Inner

\* run_pilot implements its abstract specification: every run directory is
\* published once, whole, by one call, and every report is truthful.
THEOREM RunPublisherImplementsRunDirectory == Spec => ImplementsRunDirectory
  <1>1. RunInit => Directory!Init
    BY DEF RunInit, LockInit, Directory!Init, CallerSees, Sees
  <1>2. RunInv /\ [Next]_vars => [Directory!Next]_(Directory!dirVars)
    BY RunStepRefines
  <1> QED
    BY <1>1, <1>2, RunInvariant, PTL DEF Spec, ImplementsRunDirectory, Directory!Spec
=============================================================================
