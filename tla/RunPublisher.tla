---------------------------- MODULE RunPublisher ----------------------------
(***************************************************************************)
(* run_pilot (runner.py): calls that compete, from threads and processes,  *)
(* to build and publish run directories in one parent directory.  A call   *)
(* checks that its output does not exist, reserves the run name, checks    *)
(* again, sweeps abandoned stages, builds a private stage and renames it   *)
(* to the output.  FileLock gives the reservation; this module adds the    *)
(* body it protects.                                                       *)
(*                                                                         *)
(* The sweep removes everything that matches ".<name>.stage-*".  A longer  *)
(* run name can begin with "<name>.stage-": its lock file and its stages   *)
(* match too.  Shadows is that relation between run names.                 *)
(***************************************************************************)
EXTENDS FileLock

CONSTANTS
    Shadows,   \* <<n, m>>: m's dot files match the sweep pattern of n
    Outsider,  \* whoever else may create an output directory
    NoRun      \* the output does not exist

ASSUME ShadowsAssumption ==
    /\ Shadows \subseteq Names \X Names
    /\ \A n \in Names : <<n, n>> \notin Shadows
ASSUME OutsiderAssumption == Outsider \notin Workers \cup {NoRun}
ASSUME NoRunAssumption == NoRun \notin Workers

VARIABLES
    step,         \* where each call is inside its reservation
    result,       \* how each call ended, apart from failures to reserve
    stage,        \* the staging directory each call made
    output,       \* who made each output directory
    content,      \* what each output directory holds
    sweepLocks,   \* lock files a sweep has listed and not yet removed
    sweepStages   \* stages a sweep has listed and not yet removed

runVars == <<step, result, stage, output, content, sweepLocks, sweepStages>>
vars    == <<lockVars, runVars>>

Steps    == {"recheck", "list", "sweep", "stage", "build", "rename", "cleanup", "end"}
Results  == {"none", "published", "exists", "failed", "sharing", "unclean"}
\* A stage is partial until seal.json is in it.
Stages   == {"none", "partial", "sealed"}
Contents == {"none", "partial", "sealed", "foreign"}

\* The call owns a stage it is still working on.
LiveSteps == {"build", "rename"}
Live(w)   == pc[w] = "held" /\ step[w] \in LiveSteps

RunTypeOK ==
    /\ LockTypeOK
    /\ step \in [Workers -> Steps]
    /\ result \in [Workers -> Results]
    /\ stage \in [Workers -> Stages]
    /\ output \in [Names -> Workers \cup {Outsider, NoRun}]
    /\ content \in [Names -> Contents]
    /\ sweepLocks \in [Workers -> SUBSET Names]
    /\ sweepStages \in [Workers -> SUBSET Workers]

RunInit ==
    /\ LockInit
    /\ step = [w \in Workers |-> "recheck"]
    /\ result = [w \in Workers |-> "none"]
    /\ stage = [w \in Workers |-> "none"]
    /\ output = [n \in Names |-> NoRun]
    /\ content = [n \in Names |-> "none"]
    /\ sweepLocks = [w \in Workers |-> {}]
    /\ sweepStages = [w \in Workers |-> {}]

-----------------------------------------------------------------------------
Exists(w)        == output[NameOf[w]] # NoRun
At(w, s)         == pc[w] = "held" /\ step[w] = s
ToStep(w, s)     == step' = [step EXCEPT ![w] = s]
Conclude(w, r)   == result' = [result EXCEPT ![w] = r]
SetStage(w, s)   == stage' = [stage EXCEPT ![w] = s]

\* output_dir.exists() before the reservation: FileExistsError.
RefuseEarly(w) ==
    /\ Exists(w)
    /\ Decline(w)
    /\ Conclude(w, "exists")
    /\ UNCHANGED <<step, stage, output, content, sweepLocks, sweepStages>>

Start(w) == ~Exists(w) /\ Enter(w) /\ UNCHANGED runVars

\* Mutant of Recheck: it waits for the existing run to go away.
RecheckWaits(w) ==
    /\ At(w, "recheck")
    /\ ~Exists(w)
    /\ ToStep(w, "list")
    /\ UNCHANGED <<lockVars, result, stage, output, content, sweepLocks, sweepStages>>

\* os.path.lexists(output_dir) under the reservation: FileExistsError.
Recheck(w) ==
    /\ At(w, "recheck")
    /\ IF Exists(w)
         THEN ToStep(w, "end") /\ Conclude(w, "exists")
         ELSE ToStep(w, "list") /\ UNCHANGED result
    /\ UNCHANGED <<lockVars, stage, output, content, sweepLocks, sweepStages>>

\* The glob of _remove_abandoned_staging reads the parent directory once.
Swept(w, n) == n = NameOf[w] \/ <<NameOf[w], n>> \in Shadows

\* Mutant of ListAbandoned: it sees only what its own process left.
ListOwnProcess(w) ==
    /\ At(w, "list")
    /\ sweepLocks' = [sweepLocks EXCEPT ![w] = {}]
    /\ sweepStages' = [sweepStages EXCEPT ![w] =
           {v \in Workers : stage[v] # "none" /\ Swept(w, NameOf[v]) /\ ProcOf[v] = ProcOf[w]}]
    /\ ToStep(w, "sweep")
    /\ UNCHANGED <<lockVars, result, stage, output, content>>

ListAbandoned(w) ==
    /\ At(w, "list")
    /\ sweepLocks' = [sweepLocks EXCEPT ![w] =
           {n \in Names : <<NameOf[w], n>> \in Shadows /\ lockFile[n] # "absent"}]
    /\ sweepStages' = [sweepStages EXCEPT ![w] =
           {v \in Workers : stage[v] # "none" /\ Swept(w, NameOf[v])}]
    /\ ToStep(w, "sweep")
    /\ UNCHANGED <<lockVars, result, stage, output, content>>

\* The sweep reaches another name's lock file: unlink it, or fail because
\* somebody has it open.
SweepLockFile(w, n) ==
    /\ At(w, "sweep")
    /\ n \in sweepLocks[w]
    /\ ~OpenBySome(n)
    /\ IF lockFile[n] = "absent" THEN UNCHANGED lockVars ELSE Unlink(n)
    /\ sweepLocks' = [sweepLocks EXCEPT ![w] = @ \ {n}]
    /\ UNCHANGED <<step, result, stage, output, content, sweepStages>>

\* Mutant of SweepDenied: an open lock file is skipped and the sweep goes on.
SweepGoesOn(w, n) ==
    /\ At(w, "sweep")
    /\ n \in sweepLocks[w]
    /\ OpenBySome(n)
    /\ sweepLocks' = [sweepLocks EXCEPT ![w] = @ \ {n}]
    /\ UNCHANGED <<lockVars, step, result, stage, output, content, sweepStages>>

SweepDenied(w, n) ==
    /\ At(w, "sweep")
    /\ n \in sweepLocks[w]
    /\ OpenBySome(n)
    /\ ToStep(w, "end")
    /\ Conclude(w, "sharing")
    /\ sweepLocks' = [sweepLocks EXCEPT ![w] = {}]
    /\ sweepStages' = [sweepStages EXCEPT ![w] = {}]
    /\ UNCHANGED <<lockVars, stage, output, content>>

\* The sweep reaches a stage and removes its tree.  In the listing's order
\* ".<m>.lock" comes before ".<m>.stage-...".
SweepStage(w, v) ==
    /\ At(w, "sweep")
    /\ v \in sweepStages[w]
    /\ NameOf[v] \notin sweepLocks[w]
    /\ SetStage(v, "none")
    /\ sweepStages' = [sweepStages EXCEPT ![w] = @ \ {v}]
    /\ UNCHANGED <<lockVars, step, result, output, content, sweepLocks>>

\* The tree of an abandoned stage cannot be removed, or not all of it.
SweepFails(w) ==
    /\ At(w, "sweep")
    /\ \E v \in sweepStages[w] : NameOf[v] \notin sweepLocks[w]
    /\ ToStep(w, "end")
    /\ Conclude(w, "failed")
    /\ sweepLocks' = [sweepLocks EXCEPT ![w] = {}]
    /\ sweepStages' = [sweepStages EXCEPT ![w] = {}]
    /\ UNCHANGED <<lockVars, stage, output, content>>

SweepDone(w) ==
    /\ At(w, "sweep")
    /\ sweepLocks[w] = {} /\ sweepStages[w] = {}
    /\ ToStep(w, "stage")
    /\ UNCHANGED <<lockVars, result, stage, output, content, sweepLocks, sweepStages>>

\* tempfile.mkdtemp: a fresh directory beside the output.
MakeStage(w) ==
    /\ At(w, "stage")
    /\ SetStage(w, "partial")
    /\ ToStep(w, "build")
    /\ UNCHANGED <<lockVars, result, output, content, sweepLocks, sweepStages>>

\* _build_pilot returns: the last thing it did was build_run_seal.
Build(w) ==
    /\ At(w, "build")
    /\ stage[w] = "partial"
    /\ SetStage(w, "sealed")
    /\ ToStep(w, "rename")
    /\ UNCHANGED <<lockVars, result, output, content, sweepLocks, sweepStages>>

\* Mutant of Raise: the exception skips the finally clause.
RaisePastCleanup(w) ==
    /\ At(w, "stage") \/ At(w, "build") \/ At(w, "rename")
    /\ Conclude(w, "failed")
    /\ ToStep(w, "end")
    /\ UNCHANGED <<lockVars, stage, output, content, sweepLocks, sweepStages>>

\* mkdtemp, _build_pilot or os.rename raises.
Raise(w) ==
    /\ At(w, "stage") \/ At(w, "build") \/ At(w, "rename")
    /\ Conclude(w, "failed")
    /\ ToStep(w, IF step[w] = "stage" THEN "end" ELSE "cleanup")
    /\ UNCHANGED <<lockVars, stage, output, content, sweepLocks, sweepStages>>

\* Mutant of Rename: the stage replaces whatever is there.
RenameOver(w) ==
    /\ At(w, "rename")
    /\ stage[w] # "none"
    /\ Conclude(w, "published")
    /\ ToStep(w, "end")
    /\ output' = [output EXCEPT ![NameOf[w]] = w]
    /\ content' = [content EXCEPT ![NameOf[w]] = stage[w]]
    /\ SetStage(w, "none")
    /\ UNCHANGED <<lockVars, sweepLocks, sweepStages>>

\* os.rename(staging, output_dir): refused when the output exists.
Rename(w) ==
    /\ At(w, "rename")
    /\ stage[w] # "none"
    /\ IF Exists(w)
         THEN /\ Conclude(w, "exists")
              /\ ToStep(w, "cleanup")
              /\ UNCHANGED <<stage, output, content>>
         ELSE /\ Conclude(w, "published")
              /\ ToStep(w, "end")
              /\ output' = [output EXCEPT ![NameOf[w]] = w]
              /\ content' = [content EXCEPT ![NameOf[w]] = stage[w]]
              /\ SetStage(w, "none")
    /\ UNCHANGED <<lockVars, sweepLocks, sweepStages>>

\* The finally clause removes the stage of a run that was not published.
Cleanup(w) ==
    /\ At(w, "cleanup")
    /\ SetStage(w, "none")
    /\ ToStep(w, "end")
    /\ UNCHANGED <<lockVars, result, output, content, sweepLocks, sweepStages>>

\* It cannot remove all of it: that error replaces the one that led here.
CleanupFails(w) ==
    /\ At(w, "cleanup")
    /\ Conclude(w, "unclean")
    /\ ToStep(w, "end")
    /\ UNCHANGED <<lockVars, stage, output, content, sweepLocks, sweepStages>>

LeaveReservation(w) == step[w] = "end" /\ Leave(w) /\ UNCHANGED runVars

\* Somebody else makes the output directory.
ForeignDirectory(n) ==
    /\ output[n] = NoRun
    /\ output' = [output EXCEPT ![n] = Outsider]
    /\ content' = [content EXCEPT ![n] = "foreign"]
    /\ UNCHANGED <<lockVars, step, result, stage, sweepLocks, sweepStages>>

-----------------------------------------------------------------------------
Body(w) ==
    \/ Recheck(w)
    \/ ListAbandoned(w)
    \/ \E n \in Names : SweepLockFile(w, n) \/ SweepDenied(w, n)
    \/ \E v \in Workers : SweepStage(w, v)
    \/ SweepDone(w)
    \/ MakeStage(w) \/ Build(w) \/ Rename(w)
    \/ Cleanup(w)

\* An operation of the body fails.
Fault(w) == SweepFails(w) \/ Raise(w) \/ CleanupFails(w)

Begin(w) == RefuseEarly(w) \/ Start(w)

\* A call that has begun keeps running until it ends or its process dies.
Proceed(w) ==
    \/ Reserve(w) /\ UNCHANGED runVars
    \/ Body(w)
    \/ LeaveReservation(w)
    \/ ReleaseThread(w) /\ UNCHANGED runVars

Next ==
    \/ \E w \in Workers : Begin(w) \/ Proceed(w) \/ Fault(w)
    \/ \E p \in Procs : Crash(p) /\ UNCHANGED runVars
    \/ \E n \in Names : ForeignDirectory(n)
    \/ AllEnded /\ UNCHANGED vars

Spec == RunInit /\ [][Next]_vars

\* The operating system schedules every running call; nothing obliges a call
\* to be made, an operation to fail, a process to die or an outsider to act.
FairSpec == Spec /\ \A w \in Workers : WF_vars(Proceed(w))

-----------------------------------------------------------------------------
\* A live stage is never taken away from the call that builds it: neither by
\* a call for the same name nor by one whose sweep pattern reaches it.
LiveStageKept == \A w \in Workers : Live(w) => stage[w] # "none"

\* A call that builds works beside no leftovers: every stage of its name that
\* an earlier call abandoned, in whatever process it died, has been removed.
NoLeftovers ==
    \A v, w \in Workers :
        /\ v # w
        /\ NameOf[v] = NameOf[w]
        /\ Live(w)
        => stage[v] = "none"

\* A call leaves a stage behind only if its process died or the operating
\* system refused to remove it, whatever else went wrong.
OnlyTheDeadLitter ==
    \A w \in Workers : stage[w] # "none" =>
        pc[w] = "dead" \/ Live(w) \/ At(w, "cleanup") \/ result[w] = "unclean"

\* What a call published is complete: its content was sealed by that call.
PublishedIsSealed ==
    \A n \in Names : output[n] \in Workers =>
        /\ content[n] = "sealed"
        /\ NameOf[output[n]] = n

\* A call reports success exactly when its own directory is the output.
SuccessIsTruthful ==
    \A w \in Workers : result[w] = "published" <=> output[NameOf[w]] = w

\* FileExistsError is reported only about an output somebody else made.
ExistsIsTruthful ==
    \A w \in Workers : result[w] = "exists" => output[NameOf[w]] \notin {NoRun, w}

\* An output directory, once there, is never replaced or changed.
NeverReplaced ==
    [][\A n \in Names : output[n] # NoRun =>
          output'[n] = output[n] /\ content'[n] = content[n]]_vars

\* Every call that has begun comes to an end.
EveryCallEnds ==
    \A w \in Workers : pc[w] = "wait" ~> pc[w] \in EndPcs

\* Waiting calls do not all give up on one another: once a call has begun,
\* the output appears or some call for the name got far enough to fail.
SomeCallGetsThrough ==
    \A n \in Names :
        (\E w \in Workers : NameOf[w] = n /\ pc[w] = "wait") ~>
            \/ output[n] # NoRun
            \/ \E w \in Workers :
                 NameOf[w] = n /\ (pc[w] = "dead" \/ result[w] \in {"failed", "sharing", "unclean"})

-----------------------------------------------------------------------------
\* What the caller of run_pilot sees: a value, FileExistsError, or any other
\* exception, those of the reservation included; nothing as long as the
\* finally clause may still replace the exception.
Sees(w) ==
    IF step[w] = "cleanup" THEN "none"
    ELSE IF result[w] \in {"published", "exists"} THEN result[w]
    ELSE IF result[w] # "none" \/ lockFailure[w] # "none" THEN "error"
    ELSE "none"

CallerSees == [w \in Workers |-> Sees(w)]

Directory == INSTANCE RunDirectory WITH report <- CallerSees

\* Locks, sweeps, stages and crashes together keep the promise of the
\* abstract specification: published once, whole, and truthfully reported.
ImplementsRunDirectory == Directory!Spec
=============================================================================
