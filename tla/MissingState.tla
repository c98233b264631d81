---------------------------- MODULE MissingState ----------------------------
(***************************************************************************)
(* The missing-product state of one supplier over a sequence of runs:      *)
(* update_missing_state (state.py), called by _build_pilot (runner.py) on  *)
(* the state file that an earlier run left, and _install_state             *)
(* (run_all.py), which makes the state a run computed the previous state   *)
(* of the next one.  A run that is not verified, whose approval artifact   *)
(* fails, or that is started without --install-state, installs nothing.    *)
(* The file lies where anybody may remove it or put another one in its     *)
(* place, and the profile may change from run to run.                      *)
(*                                                                         *)
(* update_missing_state takes any judgement of completeness.  The runner   *)
(* makes it itself: a feed is complete when no catalog product is missing. *)
(***************************************************************************)
EXTENDS Naturals, Sequences

CONSTANTS
    Scope,     \* catalog products in the supplier's scope
    Thresholds,   \* values of consecutive_missing_runs that a profile may have
    GatedByMatch, \* TRUE: called by the runner, FALSE: by any caller
    StrangeCount, \* a counter in a file that is not a state of this supplier
    MaxFeeds      \* bound on installed states

ASSUME ThresholdsAssumption == Thresholds \subseteq Nat \ {0}
ASSUME GateAssumption == GatedByMatch \in BOOLEAN
ASSUME BoundsAssumption == StrangeCount \in Nat /\ MaxFeeds \in Nat

VARIABLES
    fit,           \* whether the state file is a valid state of this supplier
    counts,        \* consecutive_missing_runs of the products in it
    proposed,      \* products in proposed_actions of the latest run from it
    latest,        \* what that run saw
    feeds,         \* the missing products of the runs that it goes back to
    completeFeeds  \* those of the complete ones among them

stateVars == <<fit, counts, proposed, latest, feeds, completeFeeds>>

\* What a run sees; a profile without action or threshold is never due.
Never == 0
Views == [missing : SUBSET Scope, complete : BOOLEAN, due : Thresholds \cup {Never}]
NoView == [missing |-> {}, complete |-> FALSE, due |-> Never]

StateTypeOK ==
    /\ fit \in {"absent", "fit", "unfit"}
    /\ \E ids \in SUBSET Scope : counts \in [ids -> Nat]
    /\ proposed \subseteq Scope
    /\ latest \in Views
    /\ feeds \in Seq(SUBSET Scope)
    /\ completeFeeds \in Seq(SUBSET Scope)
    /\ Len(completeFeeds) <= Len(feeds)

StateInit ==
    /\ fit = "absent"
    /\ counts = [p \in {} |-> 0]
    /\ proposed = {}
    /\ latest = NoView
    /\ feeds = <<>>
    /\ completeFeeds = <<>>

-----------------------------------------------------------------------------
\* feed_complete = not missing_products, where the runner decides.
Judgements(absent) == IF GatedByMatch THEN {absent = {}} ELSE BOOLEAN

Count(p) == IF p \in DOMAIN counts THEN counts[p] ELSE 0

\* Mutant of NextCounts: a product that is back keeps its count.
NextCountsKept(view) ==
    IF view.complete
      THEN [p \in DOMAIN counts \cup view.missing |->
              IF p \in view.missing THEN Count(p) + 1 ELSE Count(p)]
      ELSE counts

\* The products of the next state.
NextCounts(view) ==
    IF view.complete
      THEN [p \in DOMAIN counts \cup view.missing |->
              IF p \in view.missing THEN Count(p) + 1 ELSE 0]
      ELSE counts

\* Mutant of ProposedActions: one absence too many.
ProposedActionsLate(view) ==
    {p \in view.missing :
        view.complete /\ view.due # Never /\ NextCounts(view)[p] > view.due}

\* proposed_actions of the run.
ProposedActions(view) ==
    {p \in view.missing :
        view.complete /\ view.due # Never /\ NextCounts(view)[p] >= view.due}

\* Mutant of ValidPrevious: any JSON object with counters will do.
ValidPreviousAny == TRUE

\* The previous state is one of this schema and supplier, with sound records.
ValidPrevious == fit # "unfit"

\* A run computes the next state and its proposals from the installed state.
Run(view) ==
    /\ ValidPrevious
    /\ view.complete \in Judgements(view.missing)
    /\ latest' = view
    /\ proposed' = ProposedActions(view)

\* The run passes and its state replaces the previous one.
RunAndInstall(view) ==
    /\ Len(feeds) < MaxFeeds
    /\ Run(view)
    /\ fit' = "fit"
    /\ counts' = NextCounts(view)
    /\ feeds' = Append(feeds, view.missing)
    /\ completeFeeds' = IF view.complete THEN Append(completeFeeds, view.missing)
                                         ELSE completeFeeds

\* The run's state stays in its bundle.
RunOnly(view) ==
    /\ Run(view)
    /\ UNCHANGED <<fit, counts, feeds, completeFeeds>>

\* The run stops at its previous state: there is no bundle.
RefuseRun(view) ==
    /\ ~ValidPrevious
    /\ latest' = view
    /\ proposed' = {}
    /\ UNCHANGED <<fit, counts, feeds, completeFeeds>>

\* What is there now goes back to no run.
Forget ==
    /\ proposed' = {}
    /\ latest' = NoView
    /\ feeds' = <<>>
    /\ completeFeeds' = <<>>

\* Somebody removes the state file: the next run starts afresh.
Remove ==
    /\ fit # "absent"
    /\ fit' = "absent"
    /\ counts' = [p \in {} |-> 0]
    /\ Forget

\* Somebody puts a file there that belongs to another supplier, or is damaged.
Misplace ==
    /\ fit' = "unfit"
    /\ \E ids \in SUBSET Scope : counts' = [p \in ids |-> StrangeCount]
    /\ Forget

StateNext ==
    \/ \E view \in Views : RunAndInstall(view) \/ RunOnly(view) \/ RefuseRun(view)
    \/ Remove
    \/ Misplace

StateSpec == StateInit /\ [][StateNext]_stateVars

-----------------------------------------------------------------------------
\* p was absent from each of the last k complete feeds on record.
AbsentFromLast(p, k) ==
    /\ k <= Len(completeFeeds)
    /\ \A i \in 1..Len(completeFeeds) :
          i > Len(completeFeeds) - k => p \in completeFeeds[i]

\* The counter of a product is the length of its latest streak of absences from
\* complete feeds, whatever incomplete, failed and uninstalled runs came between,
\* and whatever was in the place of the state file before.
CountsAbsenceStreak ==
    fit # "unfit" => \A p \in Scope : \A k \in 1..Len(completeFeeds) + 1 :
        Count(p) >= k <=> AbsentFromLast(p, k)

\* A run proposes an action for exactly the products that this complete feed and
\* the complete feeds on record before it all miss, as many in all as the profile
\* of this run says; a run whose previous state is not fit proposes nothing.
ProposesWhenDue ==
    [][\A p \in Scope :
          p \in proposed' <=>
              /\ fit # "unfit"
              /\ latest'.due # Never
              /\ latest'.complete
              /\ p \in latest'.missing
              /\ AbsentFromLast(p, latest'.due - 1)]_stateVars
=============================================================================
