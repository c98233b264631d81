------------------------------- MODULE Batch -------------------------------
(***************************************************************************)
(* run_all.py: batches, each a process, that run every supplier in turn.   *)
(* All share a state root; run directories, approval artifacts and         *)
(* aggregate.json lie under the output root of a batch, which other        *)
(* batches may share.  For one supplier a batch captures the previous      *)
(* missing-product state, lets run_pilot publish a run, verifies it,       *)
(* writes its approval artifact and, if asked to, promotes the state of    *)
(* the run; at the end it writes aggregate.json.                           *)
(*                                                                         *)
(* run_pilot is taken at its abstract specification, RunDirectory, which   *)
(* RunPublisher implements.  A state file stands for the runs it counts,   *)
(* oldest first: what the counters in it are is the matter of              *)
(* MissingState.                                                           *)
(***************************************************************************)
EXTENDS Naturals, Sequences, FiniteSets

CONSTANTS
    Batches,    \* invocations of run_all.py
    Suppliers,  \* keys of SUPPLIER_CONFIGS
    Order,      \* the order of SUPPLIER_CONFIGS
    Roots,      \* output roots
    RootOf,     \* the output root of each batch
    RunNames,   \* run directory names under a root
    RunNameOf,  \* the run name of each task: supplier, fetched-at, source hash
    RunIds,     \* canonical run ids: supplier, source, catalog, policy
    RunIdOf,    \* the run id of each task
    Artifacts,  \* names of approval artifacts
    ArtifactOf, \* the artifact name of each task: its run id cut to 32 characters
    Installing, \* batches started with --install-state
    NoRun,      \* no run directory
    NoFile,     \* no such file
    MaxBatches, \* bound on batches that start
    MaxCrashes  \* bound on process deaths

\* A task is one supplier of one batch; it makes at most one run.
Tasks == Batches \X Suppliers

\* Run directories and approval artifacts, each under an output root.
Names  == Roots \X RunNames
NameOf == [t \in Tasks |-> <<RootOf[t[1]], RunNameOf[t]>>]
Keys   == Roots \X Artifacts
KeyOf  == [t \in Tasks |-> <<RootOf[t[1]], ArtifactOf[t]>>]

ASSUME OrderAssumption ==
    /\ Order \in Seq(Suppliers) /\ Order # <<>>
    /\ \A s \in Suppliers : \E i \in DOMAIN Order : Order[i] = s
    /\ \A i, j \in DOMAIN Order : Order[i] = Order[j] => i = j
ASSUME NamingAssumption ==
    /\ RootOf \in [Batches -> Roots]
    /\ RunNameOf \in [Tasks -> RunNames]
    /\ RunIdOf \in [Tasks -> RunIds]
    /\ ArtifactOf \in [Tasks -> Artifacts]
    /\ \A t, u \in Tasks : RunIdOf[t] = RunIdOf[u] => ArtifactOf[t] = ArtifactOf[u]
    /\ \A t, u \in Tasks :
         RunNameOf[t] = RunNameOf[u] \/ ArtifactOf[t] = ArtifactOf[u] => t[2] = u[2]
ASSUME ModeAssumption == Installing \subseteq Batches
ASSUME NothingAssumption == NoRun \notin Tasks /\ NoFile \notin Tasks \cup Batches
ASSUME BoundAssumption == MaxBatches \in Nat /\ MaxCrashes \in Nat

VARIABLES
    pos,        \* the supplier each batch is at
    step,       \* where each batch is with it
    prior,      \* the previous state each batch has captured
    status,     \* the result of each task so far
    output,     \* run directories: who made them
    content,    \* and what is in them
    report,     \* what run_pilot told each task
    approval,   \* the approval artifacts, by the run they bind
    readonly,   \* whether it is marked read-only
    draft,      \* its temporary file
    state,      \* the promoted state of each supplier
    aggregate,  \* aggregate.json of each root
    aggDraft,   \* its temporary file
    beside,     \* the batches that each has run beside
    crashes     \* processes killed so far

runVars == <<output, content, report>>
fileVars == <<approval, readonly, draft>>
aggVars == <<aggregate, aggDraft>>
vars == <<pos, step, prior, status, runVars, fileVars, state, aggVars, beside, crashes>>

Directory == INSTANCE RunDirectory WITH Workers <- Tasks, Outsider <- NoRun

ApprovalSteps == {"approve", "draft", "draftcheck", "replace", "replacecheck", "protect"}
SupplierSteps ==
    {"supplier", "run", "verify", "tidy", "install", "installcheck"} \cup ApprovalSteps
AggregateSteps == {"aggregate", "aggcheck", "aggreplace", "aggreplacecheck"}
EndSteps == {"done", "aborted", "dead"}
Steps == {"idle"} \cup SupplierSteps \cup AggregateSteps \cup EndSteps
Statuses == {"none", "PASS", "FAIL", "BLOCKED"}

BatchTypeOK ==
    /\ pos \in [Batches -> 1..Len(Order) + 1]
    /\ step \in [Batches -> Steps]
    /\ prior \in [Batches -> Seq(Tasks)]
    /\ status \in [Tasks -> Statuses]
    /\ output \in [Names -> Tasks \cup {NoRun}]
    /\ content \in [Names -> {"none", "sealed"}]
    /\ report \in [Tasks -> {"none", "published", "exists", "error"}]
    /\ approval \in [Keys -> Tasks \cup {NoFile}]
    /\ readonly \in [Keys -> BOOLEAN]
    /\ draft \in [Keys -> Tasks \cup {NoFile}]
    /\ state \in [Suppliers -> Seq(Tasks)]
    /\ aggregate \in [Roots -> Batches \cup {NoFile}]
    /\ aggDraft \in [Roots -> Batches \cup {NoFile}]
    /\ beside \in [Batches -> SUBSET Batches]
    /\ crashes \in 0..MaxCrashes

BatchInit ==
    /\ pos = [b \in Batches |-> 1]
    /\ step = [b \in Batches |-> "idle"]
    /\ prior = [b \in Batches |-> <<>>]
    /\ status = [t \in Tasks |-> "none"]
    /\ Directory!Init
    /\ approval = [k \in Keys |-> NoFile]
    /\ readonly = [k \in Keys |-> FALSE]
    /\ draft = [k \in Keys |-> NoFile]
    /\ state = [s \in Suppliers |-> <<>>]
    /\ aggregate = [r \in Roots |-> NoFile]
    /\ aggDraft = [r \in Roots |-> NoFile]
    /\ beside = [b \in Batches |-> {}]
    /\ crashes = 0

-----------------------------------------------------------------------------
Supplier(b) == Order[pos[b]]
Task(b)     == <<b, Supplier(b)>>
Key(b)      == KeyOf[Task(b)]
Active(b)   == step[b] \in SupplierSteps \cup AggregateSteps

At(b, s)     == step[b] = s
ToStep(b, s) == step' = [step EXCEPT ![b] = s] /\ UNCHANGED pos
SetStatus(b, r) == status' = [status EXCEPT ![Task(b)] = r]

\* The result of the supplier stands: the next one, or the aggregate.
Advance(b) ==
    /\ pos' = [pos EXCEPT ![b] = @ + 1]
    /\ step' = [step EXCEPT ![b] = IF pos[b] < Len(Order) THEN "supplier" ELSE "aggregate"]

MayBegin(b) ==
    /\ At(b, "idle")
    /\ Cardinality({c \in Batches : ~At(c, "idle")}) < MaxBatches

Begin(b) ==
    /\ MayBegin(b)
    /\ ToStep(b, "supplier")
    /\ LET others == {c \in Batches : Active(c)}
       IN  beside' = [c \in Batches |->
                        IF c = b THEN beside[b] \cup others
                        ELSE IF c \in others THEN beside[c] \cup {b} ELSE beside[c]]
    /\ UNCHANGED <<prior, status, runVars, fileVars, state, aggVars, crashes>>

\* Invalid configuration, or no source or catalog file.
BlockEarly(b) ==
    /\ At(b, "supplier")
    /\ SetStatus(b, "BLOCKED")
    /\ Advance(b)
    /\ UNCHANGED <<prior, runVars, fileVars, state, aggVars, beside, crashes>>

\* Hashing the source for the run name fails: nobody catches that.
Escape(b) ==
    /\ At(b, "supplier")
    /\ ToStep(b, "aborted")
    /\ UNCHANGED <<prior, status, runVars, fileVars, state, aggVars, beside, crashes>>

\* run_pilot copies the previous state, if there is one, into its bundle.
Capture(b) ==
    /\ At(b, "supplier")
    /\ prior' = [prior EXCEPT ![b] = state[Supplier(b)]]
    /\ ToStep(b, "run")
    /\ UNCHANGED <<status, runVars, fileVars, state, aggVars, beside, crashes>>

\* run_pilot refuses an existing directory, or rejects the feed.
RejectRun(b) ==
    /\ At(b, "run")
    /\ Directory!Refuse(Task(b)) \/ Directory!GiveUp(Task(b))
    /\ SetStatus(b, "BLOCKED")
    /\ Advance(b)
    /\ UNCHANGED <<prior, fileVars, state, aggVars, beside, crashes>>

\* It raises something else, a RuntimeError or a database error.
EscapeRun(b) ==
    /\ At(b, "run")
    /\ Directory!GiveUp(Task(b))
    /\ ToStep(b, "aborted")
    /\ UNCHANGED <<prior, status, fileVars, state, aggVars, beside, crashes>>

PublishRun(b) ==
    /\ At(b, "run")
    /\ Directory!Publish(Task(b))
    /\ ToStep(b, "verify")
    /\ UNCHANGED <<prior, status, fileVars, state, aggVars, beside, crashes>>

VerifyPasses(b) ==
    /\ At(b, "verify")
    /\ SetStatus(b, "PASS")
    /\ ToStep(b, "approve")
    /\ UNCHANGED <<prior, runVars, fileVars, state, aggVars, beside, crashes>>

VerifyFails(b) ==
    /\ At(b, "verify")
    /\ SetStatus(b, "FAIL")
    /\ Advance(b)
    /\ UNCHANGED <<prior, runVars, fileVars, state, aggVars, beside, crashes>>

-----------------------------------------------------------------------------
\* What follows the approval artifact of a run that passed.
AfterApproval(b) == IF b \in Installing THEN ToStep(b, "install") ELSE Advance(b)

\* Mutant of Disapprove: the exception does not reach the result.
DisapproveQuietly(b) ==
    /\ UNCHANGED status
    /\ IF At(b, "approve") THEN Advance(b) ELSE ToStep(b, "tidy")

\* The approval raises; if it has a temporary file, the finally clause is next.
Disapprove(b) ==
    /\ SetStatus(b, "FAIL")
    /\ IF At(b, "approve") THEN Advance(b) ELSE ToStep(b, "tidy")

\* Mutant of FindApproval: any artifact of that name will do.
FindApprovalAny(b) ==
    /\ At(b, "approve")
    /\ IF approval[Key(b)] = NoFile THEN ToStep(b, "draft") ELSE AfterApproval(b)
    /\ UNCHANGED <<prior, status, runVars, fileVars, state, aggVars, beside, crashes>>

\* There is an artifact of that name: it must be this run's.
FindApproval(b) ==
    /\ At(b, "approve")
    /\ IF approval[Key(b)] = NoFile
         THEN ToStep(b, "draft") /\ UNCHANGED status
       ELSE IF approval[Key(b)] = Task(b)
         THEN AfterApproval(b) /\ UNCHANGED status
       ELSE Disapprove(b)
    /\ UNCHANGED <<prior, runVars, fileVars, state, aggVars, beside, crashes>>

WriteDraft(b) ==
    /\ At(b, "draft")
    /\ draft' = [draft EXCEPT ![Key(b)] = Task(b)]
    /\ ToStep(b, "draftcheck")
    /\ UNCHANGED <<prior, status, runVars, approval, readonly, state, aggVars, beside, crashes>>

CheckDraft(b) ==
    /\ At(b, "draftcheck")
    /\ IF draft[Key(b)] = Task(b) THEN ToStep(b, "replace") /\ UNCHANGED status
                                  ELSE Disapprove(b)
    /\ UNCHANGED <<prior, runVars, fileVars, state, aggVars, beside, crashes>>

\* os.replace needs the temporary file, and a target that is not read-only.
ReplaceApproval(b) ==
    /\ At(b, "replace")
    /\ IF draft[Key(b)] # NoFile /\ ~readonly[Key(b)]
         THEN /\ approval' = [approval EXCEPT ![Key(b)] = draft[Key(b)]]
              /\ draft' = [draft EXCEPT ![Key(b)] = NoFile]
              /\ ToStep(b, "replacecheck")
              /\ UNCHANGED status
         ELSE Disapprove(b) /\ UNCHANGED <<approval, draft>>
    /\ UNCHANGED <<prior, runVars, readonly, state, aggVars, beside, crashes>>

CheckApproval(b) ==
    /\ At(b, "replacecheck")
    /\ IF approval[Key(b)] = Task(b) THEN ToStep(b, "protect") /\ UNCHANGED status
                                     ELSE Disapprove(b)
    /\ UNCHANGED <<prior, runVars, fileVars, state, aggVars, beside, crashes>>

Protect(b) ==
    /\ At(b, "protect")
    /\ readonly' = [readonly EXCEPT ![Key(b)] = TRUE]
    /\ ToStep(b, "tidy")
    /\ UNCHANGED <<prior, status, runVars, approval, draft, state, aggVars, beside, crashes>>

\* Any file operation of the approval may fail.
ApprovalError(b) ==
    /\ step[b] \in ApprovalSteps
    /\ Disapprove(b)
    /\ UNCHANGED <<prior, runVars, fileVars, state, aggVars, beside, crashes>>

\* Mutant of Tidy: the state is promoted whatever became of the approval.
TidyAndGoOn(b) ==
    /\ At(b, "tidy")
    /\ draft' = [draft EXCEPT ![Key(b)] = NoFile]
    /\ AfterApproval(b)
    /\ UNCHANGED <<prior, status, runVars, approval, readonly, state, aggVars, beside, crashes>>

\* The finally clause removes the temporary file, whoever wrote it.
Tidy(b) ==
    /\ At(b, "tidy")
    /\ draft' = [draft EXCEPT ![Key(b)] = NoFile]
    /\ IF status[Task(b)] = "PASS" THEN AfterApproval(b) ELSE Advance(b)
    /\ UNCHANGED <<prior, status, runVars, approval, readonly, state, aggVars, beside, crashes>>

\* It cannot be removed: the approval raises, even if it was written.
TidyFails(b) ==
    /\ At(b, "tidy")
    /\ SetStatus(b, "FAIL")
    /\ Advance(b)
    /\ UNCHANGED <<prior, runVars, fileVars, state, aggVars, beside, crashes>>

-----------------------------------------------------------------------------
\* Mutant of NextState: the run starts from an empty state.
NextStateAfresh(b) == <<Task(b)>>

\* The state of the run: the previous state it captured, and itself.
NextState(b) == Append(prior[b], Task(b))

\* os.replace of the promoted state, from a temporary file of its own.
InstallState(b) ==
    /\ At(b, "install")
    /\ state' = [state EXCEPT ![Supplier(b)] = NextState(b)]
    /\ ToStep(b, "installcheck")
    /\ UNCHANGED <<prior, status, runVars, fileVars, aggVars, beside, crashes>>

CheckState(b) ==
    /\ At(b, "installcheck")
    /\ state[Supplier(b)] = NextState(b)
    /\ Advance(b)
    /\ UNCHANGED <<prior, status, runVars, fileVars, state, aggVars, beside, crashes>>

\* A file operation fails, or another batch has promoted its state meanwhile.
InstallError(b) ==
    /\ At(b, "install") \/ At(b, "installcheck")
    /\ SetStatus(b, "FAIL")
    /\ Advance(b)
    /\ UNCHANGED <<prior, runVars, fileVars, state, aggVars, beside, crashes>>

\* _write_aggregate: the batches of a root write the same temporary file.
WriteAggregateDraft(b) ==
    /\ At(b, "aggregate")
    /\ aggDraft' = [aggDraft EXCEPT ![RootOf[b]] = b]
    /\ ToStep(b, "aggcheck")
    /\ UNCHANGED <<prior, status, runVars, fileVars, state, aggregate, beside, crashes>>

CheckAggregateDraft(b) ==
    /\ At(b, "aggcheck")
    /\ ToStep(b, IF aggDraft[RootOf[b]] = b THEN "aggreplace" ELSE "aborted")
    /\ UNCHANGED <<prior, status, runVars, fileVars, state, aggVars, beside, crashes>>

ReplaceAggregate(b) ==
    /\ At(b, "aggreplace")
    /\ IF aggDraft[RootOf[b]] # NoFile
         THEN /\ aggregate' = [aggregate EXCEPT ![RootOf[b]] = aggDraft[RootOf[b]]]
              /\ aggDraft' = [aggDraft EXCEPT ![RootOf[b]] = NoFile]
              /\ ToStep(b, "aggreplacecheck")
         ELSE ToStep(b, "aborted") /\ UNCHANGED aggVars
    /\ UNCHANGED <<prior, status, runVars, fileVars, state, beside, crashes>>

CheckAggregate(b) ==
    /\ At(b, "aggreplacecheck")
    /\ ToStep(b, IF aggregate[RootOf[b]] = b THEN "done" ELSE "aborted")
    /\ UNCHANGED <<prior, status, runVars, fileVars, state, aggVars, beside, crashes>>

Crash(b) ==
    /\ Active(b)
    /\ crashes < MaxCrashes
    /\ crashes' = crashes + 1
    /\ ToStep(b, "dead")
    /\ UNCHANGED <<prior, status, runVars, fileVars, state, aggVars, beside>>

AllEnded ==
    \A b \in Batches : step[b] \in EndSteps \/ (At(b, "idle") /\ ~MayBegin(b))

-----------------------------------------------------------------------------
RunSupplier(b) ==
    \/ BlockEarly(b) \/ Escape(b) \/ Capture(b)
    \/ RejectRun(b) \/ EscapeRun(b) \/ PublishRun(b)
    \/ VerifyPasses(b) \/ VerifyFails(b)

WriteApproval(b) ==
    \/ FindApproval(b)
    \/ WriteDraft(b) \/ CheckDraft(b)
    \/ ReplaceApproval(b) \/ CheckApproval(b)
    \/ Protect(b) \/ ApprovalError(b)
    \/ Tidy(b) \/ TidyFails(b)

PromoteState(b) == InstallState(b) \/ CheckState(b) \/ InstallError(b)

WriteAggregate(b) ==
    \/ WriteAggregateDraft(b) \/ CheckAggregateDraft(b)
    \/ ReplaceAggregate(b) \/ CheckAggregate(b)

Next ==
    \/ \E b \in Batches :
         \/ Begin(b)
         \/ RunSupplier(b) \/ WriteApproval(b) \/ PromoteState(b) \/ WriteAggregate(b)
         \/ Crash(b)
    \/ AllEnded /\ UNCHANGED vars

Spec == BatchInit /\ [][Next]_vars

-----------------------------------------------------------------------------
\* The batch has gone past the task with this result.
Settled(t, r) ==
    /\ status[t] = r
    /\ \E i \in DOMAIN Order : Order[i] = t[2] /\ i < pos[t[1]]

\* What main returns, from the results of the suppliers.
ExitCode(b) ==
    IF \E s \in Suppliers : status[<<b, s>>] = "FAIL" THEN 1
    ELSE IF \E s \in Suppliers : status[<<b, s>>] = "BLOCKED" THEN 2
    ELSE 0

\* No promoted state counts two runs of one approval artifact, hence no feed of
\* one output root whose artifact name stops at the source hash counts twice:
\* not after a retry, a death, or when batches overlap.  A retry under another
\* output root (README.md, three-supplier batch) finds no artifact and counts.
CountedOncePerRoot ==
    \A s \in Suppliers : \A i, j \in DOMAIN state[s] :
        KeyOf[state[s][i]] = KeyOf[state[s][j]] => i = j

\* A promoted state counts published runs only, each of them under a name that
\* has an approval artifact.
CountedRunsAreReviewable ==
    \A s \in Suppliers : \A i \in DOMAIN state[s] :
        LET t == state[s][i]
        IN  output[NameOf[t]] = t /\ approval[KeyOf[t]] # NoFile

\* A batch that returns 0 has published a run for every supplier, each under a
\* name whose approval artifact is there and protected (ARCHITECTURE.md 8.1).
ZeroIsEarned ==
    \A b \in Batches : At(b, "done") /\ ExitCode(b) = 0 =>
        \A s \in Suppliers :
            /\ output[NameOf[<<b, s>>]] = <<b, s>>
            /\ approval[KeyOf[<<b, s>>]] # NoFile
            /\ readonly[KeyOf[<<b, s>>]]

\* A run that passed has an approval artifact that binds its own seal
\* (README.md, output layout: approval files are bound to the run seal), or that
\* of a batch that ran beside it and shares the artifact and its temporary file:
\* never an earlier run's, nor one left by a batch that died.
ApprovalBindsItsRun ==
    \A t \in Tasks : Settled(t, "PASS") =>
        LET u == approval[KeyOf[t]]
        IN  u = t \/ (u \in Tasks /\ u[1] \in beside[t[1]] /\ KeyOf[u] = KeyOf[t])

\* A verified run whose state was promoted stays in the state of its supplier
\* (README.md: the state is carried between successful verified runs), unless a
\* run in that state comes from a batch that ran beside it: batches that follow
\* one another lose nothing, and an overlap loses only runs it overlapped.
PromotedStateIsCarried ==
    \A t \in Tasks :
        t[1] \in Installing /\ Settled(t, "PASS") =>
            \E i \in DOMAIN state[t[2]] :
                LET u == state[t[2]][i] IN u = t \/ u[1] \in beside[t[1]]

\* Another run's artifact stands in the way of this run's only if both have
\* the same run id (README.md: approval/<supplier>-<run-id>.json).
ApprovalNamedByRunId ==
    \A b \in Batches : At(b, "approve") =>
        \/ approval[Key(b)] = NoFile
        \/ RunIdOf[approval[Key(b)]] = RunIdOf[Task(b)]
=============================================================================
