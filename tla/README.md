# Verification of mks123-parsing

This directory holds TLA+ models of the supplier-feed pipeline in `src/`, the
TLC configurations that check them on small instances, and proofs, checked by
TLAPS, of the properties that matter most. Paths below are relative to `src/`
unless they name a module; `runner.py` and its siblings are in
`mks123_pipeline/`. `PROJECT.json` maps every definition to the lines it models
and lists the runs, the theorems, the hazards and the findings.

1. The system · 2. The modules · 3. The runs · 4. Fairness · 5. The proofs ·
6. Disagreements between code and documents · 7. Abstractions · 8. What is not
modelled · 9. Plan

## 1. The system

The pipeline reads one supplier feed and one catalog export, matches the offers
of the feed with the products of the catalog, proposes prices and categories for
review, and publishes everything as an immutable, sealed run directory. It never
writes to a shop. `run_all.py` runs it for every supplier; `verify_run.py`
judges a run afterwards; the snapshot store keeps the feeds it starts from.

| Component | State | Operations | Interacts with |
|---|---|---|---|
| Reservation lock (`runner.py` `_run_reservation`, `snapshot_store.py` `_target_lock`) | thread locks of a process, lock file, byte lock | acquire with deadline, release, death | run publication, snapshot store |
| Run publication (`runner.py` `run_pilot`) | parent directory: stages and outputs | check, sweep, stage, build, rename, clean up | lock, pilot build; competing calls |
| Pilot build (`runner.py` `_build_pilot`) | the stage | capture, parse, match, write, seal | all of the following |
| Input capture and manifest (`manifest.py`) | `inputs/` of the run | capture each input once, record hashes | inputs that others may replace |
| Run seal (`integrity.py`) | `seal.json` | seal, load | whoever changes the directory |
| Run verifier (`verifier.py`, `verify_run.py`) | none | the checks of a run | seal, external inputs |
| Identity matcher (`matcher.py`) | indexes, products used | one pass over the offers | missing-product state, pricing |
| Missing-product state (`state.py`) | counters by product | update, propose | promoted by the batch operator |
| Pricing (`pricing.py`), profiles (`config.py`) | policy | one proposal per offer | capture |
| Category proposals (`category_mapping.py`) | none | support and dominance of categories | matcher |
| Database digest (`db_digest.py`) | none | hash of the tables, a pure function | summary, verifier |
| Batch operator (`run_all.py`) | promoted states, approval artifacts, aggregate | run, verify, approve, promote | run publication; overlapping batches |
| Snapshot store (`snapshot_store.py`) | snapshot and metadata per hash-named target | install, adopt, roll back | connector, manual drops, interrupts |
| Connector and manual drop importer (`scripts/`) | one temporary file per call | download or copy, compare, parse, install, clean up | snapshot store; whoever writes the source files |
| Price feed parsers (`electrozone.py`, `legacy_xml.py`), adapters | categories and items of one pass | bytes to offers, or a refusal | pilot build, connector, importer |
| Netlab property feed (`netlab_properties.py`) | ids met, counters | one pass that hands on every value | its caller |
| Catalog loader | none | CSV to products | pilot build |
| Command lines, PowerShell wrappers | none | arguments, credentials | everything |

**What is hard here.** Several calls of `run_pilot` or `install_snapshot`, in
threads and in processes, meet at one name, and no single lock excludes both
kinds. A process dies between any two file operations, and the next call, in
another process, finds what it left. A call that fails late has to remove what it
made and nothing that an earlier call already reported. Inputs lie outside the
run and may be replaced while it is built; a run is verified file by file while
somebody may change it. Batches overlap, are repeated and die. Absences are
counted over long sequences of runs, of which some are incomplete, fail or are
never promoted, and the state file lies where anybody may remove it. Products are
given out in the order of the feed. Source files are copied while somebody may
still be writing them. Category trees may loop, and values are handed on before
the document they come from is known to be sound.

**What makes each part correct.**

- Lock: one body per name at a time, whatever threads, processes and deaths
  there are; waiting ends.
- Publication: a run directory appears once, whole, made by one call, and stays;
  reports agree with it; a stage in use is not swept, an abandoned one is.
- Snapshot store: what was reported as installed stays, with its metadata, and is
  what the caller asked for; half-written files and refusals always have a cause.
- Connector and importer: only whole feeds get onto the shelf, success means the
  caller's own feed, temporary files do not outlive their call without a reason.
- Parsers: a feed is refused exactly when something is wrong with it that the
  parser answers for; otherwise every offer becomes one item under a whole
  category path; every parse ends.
- Property feed: the caller has received every value once, in order, and the
  counters of an accepted scan are those of what it received.
- Matcher: no product twice, nothing contradicts an exact match, shared identity
  selects nothing, the set of missing products does not depend on order.
- Missing-product state: a counter is the streak of absences, and an action is
  proposed exactly at the threshold.
- Batch: no feed counted twice under one output root, an approval binds its own run,
  a promoted state stays unless batches overlap, exit code 0 means what it says.
- Seal, verifier, capture: a run that passes was intact and is what its bundled
  inputs make of it; a run fails only for a reason.
- Pricing and categories: a price is up for review only at the approved markup,
  for an exact match, near the current price; every offer is in one place.

## 2. The modules

| Module | Models | Builds on |
|---|---|---|
| `FileLock` | the reservation, in both variants (`TruncateOnLock`) | |
| `RunDirectory` | abstract: what `run_pilot` promises | |
| `RunPublisher` | `run_pilot` | `FileLock`; implements `RunDirectory` |
| `SnapshotShelf` | abstract: what `install_snapshot` promises | |
| `SnapshotStore` | `install_snapshot` | `FileLock`; implements `SnapshotShelf` |
| `Acquisition` | `fetch_electrozone_current.py`, `import_manual_drop.py` | an instance of `SnapshotShelf` |
| `FeedParser` | `parse_yml`, `parse_legacy_xml`, `create_adapter` | |
| `NetlabProperties` | `scan_netlab_properties` | |
| `Matcher` | `match_supplier_items` | |
| `MissingState` | `update_missing_state` over many runs | |
| `Batch` | `run_all.py` | an instance of `RunDirectory` |
| `Proposals` | pricing, profile approval, category mapping: operators only | |
| `SealedRun` | `build_run_seal`, `load_sealed_run`, somebody changing the run | |
| `RunBundle` | `_build_pilot`, capture, manifest, `verify_run` | `SealedRun`, `Proposals` |

Every `MC...` module fixes the constants of one of these for TLC (`MCFeeds` those
of both kinds of parser). Every
`...Proofs` module holds the theorems about one, `MatchingProofs` about `Matcher` and
`MissingState`, `FeedProofs` about both kinds of parser. A definition commented "Mutant
of X" is a faulty variant of X that no specification uses; each property was seen
to fail under such a variant, so it does say something about the code.

**FileLock.** A worker is one call. `pc` is its place in the reservation:
`AcquireThread` and `ThreadTimeout` are `thread_lock.acquire(timeout=...)`;
`OpenLockFile`, `FillEmptyFile` and `FillDenied` are the `open("a+b")` and the
first byte written into an empty file; `TryLock` and `SpinTimeout` the polling of
`msvcrt.locking`. The runner then truncates the file and writes its pid
(`Truncate`, `WritePid`), the snapshot store does not. `Crash` kills a process:
its thread locks vanish and the system drops its byte locks, the files stay.

**RunPublisher** adds the body: `Recheck`, `ListAbandoned` and the steps of the
sweep, `MakeStage`, `Build`, `Rename`, and the `finally` clause. `Shadows` says
which names' dot files match another name's pattern `.<name>.stage-*`: a run may
be called `<name>.stage-2`. Any operation may fail (`Raise`, `SweepFails`,
`CleanupFails`); an outsider may make the output directory.

**RunDirectory** has an output, its content and a report per call, and only the
actions publish, refuse, give up and foreign directory. The refinement maps a
call's report to what its caller sees (`CallerSees`): nothing while the `finally`
clause can still replace an exception, `"error"` for any other exception, those of
the reservation included.

**SnapshotStore.** `CreateTarget`, `GuardTarget`, `WriteTarget`, `BindCreated` are the
exclusive creation (`CreateFileW`, `snapshot_store.py:160`), the entry of the `try`
that removes the file again (line 175), the writing, and the local variable that
remembers it; the same four exist for the metadata. A file that cannot be written is
removed where that happens (`DiscardTarget`, `DiscardMeta`), but not when an interrupt
comes before the `try`; a failure afterwards runs `Handler`,
which removes what the variables say this call made (`Undo`, `UndoTarget`). Any of
these removals may fail in turn (`RemovalFails`), and then the new exception is
what the caller sees. `Interrupt` is a `KeyboardInterrupt` between two steps.
Workers in `Strict` insist on the metadata's terms, as the manual drop importer
does. Two payloads may have one file name: the name has 12 hash digits.

**SnapshotShelf** knows no locks, files or processes: a shelf with at most one
snapshot under each name, and one report per call. Its actions are put, find and
fail. The refinement puts a target on the shelf when some call has reported it as
installed (`KeptAt`), and maps a call to what its caller sees (`CallerSees`).

**Acquisition** composes the two programs that feed the store with the shelf, so
that their properties rest on what `SnapshotStore` is proved to implement. A file is
a sequence of blocks of one `read()` each; somebody writes the source, replaces it
or puts a link in its place at any moment (`Edit`), and may change a temporary file
(`Tamper`). For the importer there is one action per system call: `Look` (`lstat`),
`Open`, `Stat` (`fstat`), `Verify` (`lstat`), `Copy` block by block, `Restat`,
`Reverify`. Both then go through `Parse`, `Install` and the `finally` clause
(`Cleanup`, `CleanupFails`). `Fails` ends any statement with an exception, `Die` the
process.

**FeedParser.** One call of `create_adapter` and `parse`, for a document in which
texts are members of a small alphabet and an element may occur several times. The
category tree is climbed one parent per step, since that is where the two parsers
differ: `parse_yml` first validates every category (`ValidateCategory`,
`ClimbToValidate`) and passes over strays afterwards, `parse_legacy_xml` checks
what its offers are in while it climbs (`Climb`). `Faulty` is the field contract of
an offer, by supplier.

**NetlabProperties.** One action per end of an element (`DefineProperty`,
`CloseContainer`, `EndItem`) and per value of an item (`EmitValue`). `emitted` is what
the caller has received; `EmitRaises` is the caller's own exception.

**Matcher.** The state is the pass over the offers: records so far, products
used, the outcome. There is one action per way an offer can end: warned,
ambiguous, unmatched, product already used, exact, high confidence, conflict.
Identities are model values that are equal or not.

**MissingState.** `feeds` and `completeFeeds` are histories used only by the
properties. A run sees which products are missing, whether the feed counts as
complete and what threshold its profile has, which may differ from run to run;
`GatedByMatch` makes the judgement of completeness the way `runner.py` does. The
result may be promoted (`RunAndInstall`) or not (`RunOnly`). Somebody may `Remove`
the state file, after which counting starts afresh, or `Misplace` another one in
its place, which `_validated_previous` refuses: such a run ends without a result
(`RefuseRun`).

**Batch.** Each batch is a process at one supplier and one step. A state file
stands for the runs it counts, oldest first, so that "counted twice" and
"discarded" can be said; what the counters are is the matter of `MissingState`.
`run_pilot` is an action of `RunDirectory`. Approval and aggregate are written
through temporary files that overlapping batches of one output root share, and these
are variables. Run directories, approvals and the aggregate lie under the output root
of a batch (`RootOf`), the promoted states under one state root for all of them, which
is the worst case. `beside` remembers for each batch which others it overlapped.

**SealedRun and RunBundle.** A hash stands for the content it was made of. The
directory is a function from file names to contents; `load_sealed_run` takes one
step per file that it reads. Before, between and after these, `Tamper`
overwrites, deletes or restores files. `Capture` is one step per input, the
profile is read for the policy before and for the bundle later, as
`run_all.py`/`run_pilot.py` and `manifest.py` do, and `Replace` may come in
between. `Bundle` says what every artifact contains: the tables from the matches,
the proposals and the category mapping, the summary, the manifest and the
database. `verify_run` is `CheckManifest`, `CompareInput` for each input it is
given, and `Conclude`. Reading the run, an input or the database may fail at any of
these (`RunUnreadable`, and an alternative of `CompareInput` and of `Conclude`). What
the verifier does not read back as it was written is part of the data: `Torn` items,
whose JSON line `str.splitlines` breaks (`JsonlReadable`), and `TooLong` cells, beyond
the `csv` module's field limit (`CsvReadable`).

## 3. The runs

| Run | States | Question |
|---|---|---|
| `run_publisher` | 69,570 | Three calls for one name, two of them threads of one process, one death, faults, an outsider. `MutualExclusion`; `NoLeftovers`: a call builds only after every abandoned stage is gone; `OnlyTheDeadLitter`; `ImplementsRunDirectory`; under `FairSpec`, `EveryCallEnds` and `SomeCallGetsThrough` |
| `run_publisher_shadow` | 554,946 | Two names, one inside the sweep pattern of the other, two deaths. `LiveStageKept`, `HeldFileKept`: neither the stage nor the lock file of a running body is swept away |
| `snapshot_store` | 238,588 | Three calls at one target, one with another content, one strict, one death, one interrupt, removals that fail. `ImplementsSnapshotShelf`; `TornHasCause`, `OrphanHasCause`, `RefusedWithReason`; `WaiterNeverDenied`; `EveryCallEnds` |
| `acquisition` | 3,312,512 | A download and a manual drop at once; two writes or replacements of the source, one change of a temporary file, one death. `ShelfHoldsWholeFeeds`, `SuccessIsOwnFeed`, `PartsHaveCause` |
| `feeds` | 91,234 | Every category tree of up to three categories, every odd offer, every property document of up to three ends. `PathsAreWhole`, `SnapshotIsTheFeed`, `VerdictIsDeserved`, `StatsMatchEmission`; `ParseAdvances`: no step is spent in place or goes back; under `FeedsSpec`, `EveryParseEnds` |
| `matcher` | 77,714 | Every feed of up to three of eight offers against every catalog of up to two of six listings. `NoProductTwice`, `ExactIsBeyondDoubt`, `SharedIdentitySelectsNothing`, `MissingWhateverTheOrder` |
| `missing_state` | 88,530 | Two products, thresholds 2 and 3, up to four promoted feeds, with runs between that promote nothing, and a state file that is removed or replaced. `CountsAbsenceStreak`, `ProposesWhenDue` |
| `batch` | 1,654,231 | Two of three batches of two suppliers start, in turn or overlapping, under one output root or two; one death. `CountedOncePerRoot`, `CountedRunsAreReviewable`, `ZeroIsEarned`, `ApprovalBindsItsRun`, `PromotedStateIsCarried` |
| `run_bundle` | 445,670 | Five feeds, two catalogs, four profiles, with and without a state; one input replaced at any moment, two changes of the run, reads that fail. `PassMeansIntact`, `PassMeansReproducible`, `FailedForAReason`, `ReadyPricesAreApproved`, `EveryItemIsAccountedFor` |

Two more runs each show one disagreement (section 6): `matcher_primary` and
`batch_artifact`. Every module's type invariant is a theorem
(section 5); those of the two parser modules are `FeedType` and `ScanType`, the first
part of `FeedInvariant` and `ScanInvariant`.

**Why these bounds are enough.** A reservation needs two threads of one process
and a second process, so that the thread lock and the byte lock each have to do
their part alone; the third call finds what a dead and a failed one left. Two
deaths let a shadowed name be abandoned and its sweeper die as well. In the
snapshot store the third call sees both an adopted and a colliding file. The
matcher's eight offers and six listings have absent, shared and contradicting
SKUs, EANs, manufacturers and models, blank values, and a warned offer, so that
every action of the pass is taken; three offers are needed for two to share an identity and a
third to take the product. The thresholds 2 and 3 with four promoted feeds have
streaks that start, are broken, reach and exceed them, and a profile that changes
in the middle of one; `StrangeCount` is the counter in a file of another supplier.
Whether a feed is complete is a free choice in this run (`GatedByMatch = FALSE`), as
the parameter `feed_complete` of `update_missing_state` allows; `runner.py:308` calls it
complete only if nothing is missing, and then, by `RunnerNeverProposes`, nothing is ever
proposed.
In `acquisition`, an edition has three blocks, of which the second closes the root,
or two, so that there are copies that break off, that parse without being whole, and
that are too long; two edits allow a source to be written and replaced, or changed
and put back, and the two source files are symmetric. Calls of one program interact
only through the shelf, which one call of each already shows. In `feeds`, three
categories give every loop and every broken chain of length up to three; an oddity
is one field of one of two offers; three ends of elements, or two items between
well-formed containers in both orders, give every repetition and every missing
definition. Two batches that start (`MaxBatches`) give retry and overlap, under the
same output root and under two; two suppliers an abort in the middle. In the bundle,
the feeds contain all matches, an item id that a spreadsheet reads as a formula, one
whose JSON line breaks, a cell that is too long, and one id twice; prices are below,
at and beyond the limit in both directions; the profiles are approved, not approved,
invalid and with a secret; the two changes reach a table, the seal and a file that does
not belong there. The files that are
not in `Exposed` are read in the same loop as those that are; the proof in
section 5 covers all of them and any number of changes.

`run_publisher`, `snapshot_store`, `acquisition` and `batch` stop only with all
calls ended, `feeds` only with a verdict; each of these is an explicit stuttering
step, and deadlock is checked in every run.

## 4. Fairness

`FairSpec` of `RunPublisher` and `SnapshotStore` asks weak fairness of every
call's `Proceed`: the operating system schedules a running thread. A waiting call
makes progress because both waits in the code have a deadline
(`runner.py`, `_run_reservation`; `snapshot_store.py`, `_target_lock`), modelled by
`ThreadTimeout` and `SpinTimeout`, which are part of `Proceed`. Nothing is asked of faults,
interrupts, deaths, outsiders, or of a call being made. The specification of the
`feeds` run asks weak fairness of the steps of the two parsers, which are sequential
code without any wait: what `EveryParseEnds` adds is that no category tree keeps one
climbing. The other modules state no liveness: `Acquisition` waits for the network
and for `install_snapshot` only, whose calls end, batches wait for `run_pilot`, and
the rest are single passes.

`SomeCallGetsThrough` excludes that waiting calls all give up on one another: a
timeout needs a holder, and the holder publishes, fails, or dies.

## 5. The proofs

A theorem holds for every value of the constants that satisfies the module's named
assumptions: any number of workers, processes, names, deaths, source files, edits, batches,
suppliers, offers, products, artifacts, changes, categories or documents. The
assumptions say that the placement of calls is a function, that markers such as
`NoWorker` are not values, that bounds are natural numbers; in `RunBundle` which
artifacts exist, what shape matches have, that feeds and catalogs are finite, that
prices are integers and that what a stranger writes is not what a run would have
written; in the parsers that a document is a finite sequence of elements and that a
field of an offer has finitely many texts. TLC evaluates all of them in the runs.

| Module | Invariant | Result |
|---|---|---|
| `FileLockProofs` | `LockInv`: types, `OwnerInv`, `OpenFileInv` | `LockTypes`, `LockExcludes`, `LockFileKept`, `SnapshotWaiterNeverDenied` |
| `RunPublisherProofs` | `RunInv`: `LockInv` and `ControlInv`, `StageInv`, `SweepInv`, `CleanInv`, `OutputInv` | `RunTypes`, `RunKeepsLiveStages`, `RunRecoversStages`, `RunOutcomes`, `RunLitter`, `RunNeverReplaces`, `RunPublisherImplementsRunDirectory` |
| `SnapshotStoreProofs` | `StoreInv`: `LockInv` and `ControlInv`, `FilesInv`, `UnreliedInv`, `TornInv`, `OriginInv`, `OrphanInv`, and the properties | `StoreTypes`, `StoreKeepsInstalled`, `StoreTornHasCause`, `StoreOrphanHasCause`, `StoreRefusesWithReason`, `StoreNeverRewrites`, `StoreImplementsShelf` |
| `AcquisitionProofs` | `AcqInv`: types, `PathInv`, `ShelfInv`, and `CallOK` of every call | `AcquisitionInvariant`, `AcquisitionTypes`, `AcquisitionShelf`, `AcquisitionSuccess`, `AcquisitionParts` |
| `BatchProofs` | `BatchInv`: types, `FileOK`, `StateOK`, `BesideOK`, `BatchOK` of every batch, `TaskOK` of every supplier behind it | `BatchInvariant`, `BatchTypes`, `BatchCountsOnce`, `BatchCountsReviewable`, `BatchZero`, `BatchApprovals`, `BatchCarriesState` |
| `MatchingProofs` | `MatchInv`: types, `SeenInv`, `RecordInv`, `NoProductTwice`, `FinishedInv` | `MatcherTypes`, `MatcherNeverReusesProduct`, `ExactMatches`, `SharedIdentities`, `MissingProducts` |
| `MatchingProofs` | `StateInv`: types and `CountsAbsenceStreak` | `StateTypes`, `CounterIsStreak`, `ProposalsAreDue`, `RunnerNeverProposes` |
| `RunBundleProofs` | `VerifyInv`: `DiskInv`, `PassInv`; `InputInv`, `PriceInv`, `ReasonInv` | `BundleTypes`, `PassedRunsWereIntact`, `PassedRunsAreReproducible`, `ReadyPrices`, `ItemsAreAccountedFor`, `RunsFailForAReason` |
| `FeedProofs` | `ScanInv`: `ScanType`, `KnownInv`, `ReceivedInv`, `CountInv` | `ScanInvariant`, `ScanEmitsTheDocument` |
| `FeedProofs` | `FeedInv`: `FeedType`, `AdapterInv`, `TreeInv`, `YmlInv`, `ClimbInv`, `ItemInv`, `VerdictInv` | `FeedInvariant`, `PathsAreWholeAlways`, `SnapshotIsTheFeedAlways`, `VerdictIsDeservedAlways`, `ParseAlwaysAdvances` |

**Why the invariants have to be stronger.** Exclusion alone is not inductive: it
says nothing of who owns the two locks. `OwnerInv` ties the place of a call to both
owners, and `OpenFileInv` adds that the lock file exists wherever a call has it
open, and holds data while a body runs. `RunPublisher` and
`SnapshotStore` take their lock steps from `FileLock`, so `LockInv` is proved once
and carried over by a lemma that each of their steps is a lock step or a stutter.

*Publication.* `StageInv` says where a stage may exist. `SweepInv` is the heart:
if a sweep has listed a live stage of a longer name, it still has that name's lock
file before it in its list, and this file is open, so the sweep will fail first;
the order of the listing is what protects the stage. `SweepInv`
also says that a sweep's list contains every leftover of its own name, and
`CleanInv` that after the sweep there is none. The refinement follows with
one lemma per report: a step of a call changes its own report at most once and
changes the output only by publishing.

*Snapshot store.* `UnreliedInv` says that what a call would roll back has not been
reported by anybody; `OriginInv` gives every whole file an author that has begun,
which is what a refusal points at; `TornInv` ties a torn file to a call that is
writing it or has left it behind (interrupted before its `try:`, stopped in its
clean-up, dead, or unable to remove it), and `OrphanInv` says that a call that may
still remove a snapshot has removed its metadata or will, until an interrupt comes or a
removal fails. The refinement needs
`UnreliedInv` once more: the step that reports a snapshot puts it on the shelf, and
no later step of any call may change what is there. Two further
properties, that installed snapshots stay (`StoreKeepsInstalled`) and that whole
files are never rewritten (`StoreNeverRewrites`), are stated as theorems only; the
run checks the shelf, which contains the first.

*Acquisition.* The importer compares, after the copy, the modification time of the
open file with the one it saw before. The invariant that makes this enough is about
the time between: as long as the times agree, what has been copied is a prefix of
the file's present content, and the path has named that content (`DropOK`). The
second half needs that a file can be written only through a step that changes its
time, and that the path named this very file after the first look. What is
installed was hashed again, so a changed temporary file is refused.

*Batch.* Published runs, protected artifacts and existing artifacts are never taken
back (`Lasting`). A batch that stands at the approval of a run and finds the name
free knows from this that the state it captured earlier does not count a run of that
name: whatever a state counts has a protected artifact (`StateOK`). Appending its
own run after protecting its artifact keeps all of that, whatever state files the
other batch has written meanwhile. `TaskOK` says what is left behind for each
supplier a batch has passed: the artifact is bound to the task's run, or to that of
a batch beside it (`Bound`), and the supplier's state contains the run, or one of a
batch beside it (`Kept`). `BesideOK` makes `beside` complete, any two batches that are
active at once being in each other's, so that whoever could have overwritten something
is named there.

*Run bundle.* `PassInv` divides the files by the position of the pass: a file that
the first pass has read and found good and that is not in `gone` is still good, and
the second pass finds none in `gone`; hence at the second listing, between the two,
all of them were good at once. This needs that nothing that is gone is put back
within one verification (section 7). `InputInv` ties what has been captured to the
policy that was loaded, unless the profile was replaced in between. `PriceInv`
says that the loaded profile has been validated and that feed and catalog are in the
bundle once they have been read; from there lemma `ReadyPrice`, an argument about
integers, gives what `build_proposal` guarantees of a ready price.

That every item is in one place (`ItemsAreAccountedFor`) is a matter of counting: the
rows of a table are the items selected for it, in their order (`SelectedRows`,
`Ranks`), the selections divide the items (`ItemPartition`), and the share of the
dominant target, counted from the matches themselves (`Supported`), bounds the items
that went elsewhere (`MappingShare`). That a run fails
only for a reason (`RunsFailForAReason`) goes through the verification backwards: the
disk is as sealed while nobody has edited it, so the seal is loaded
(`IntactRunIsLoaded`), an input differs from its captured copy only if it was replaced
(`ReasonInv`), and the checks of the summary, the counts and the artifacts agree with
what `Bundle` writes (`ManifestAgrees`, `SummaryAgrees`, `CountsAgree`,
`ArtifactsAgree`), unless a row does not come back as it was written: a quoted id, a
JSON line that breaks, a cell that is too long. What is left is a read that failed.

*Property feed.* What was handed on is always exactly the values before the present
place (`ReceivedInv`), and the counters count that (`CountInv`), whatever was accepted
on the way; the values behind the place of a refusal were handed to nobody.

*Price feeds.* `ClimbInv` is the heart: the categories that a climb has passed are
distinct, each is the parent of the one after it, and they are the lower end of
every whole path that leads to the climb's start (`Follows`). A whole path never
comes through a category twice, since the first one that it met again would have two
different ways up (`WaysAreDistinct`). So a climb that strays, to an unknown parent or into
a loop, proves that there is no whole path and the refusal is deserved (`NoStray`), and
one that reaches a root has passed the whole path (`WholeWay`). For `parse_yml`,
`YmlInv` keeps what the validation found: every category is `Rooted`, and its parent
known or blank; both together give it a whole path (`RootedWay`), which is why its
second climb, in spite of passing over strays, never meets one. That paths are no longer
than the tree, and ids without doubles as many as their elements, is counted with the
pigeonhole lemmas on finite sets (`DistinctLine`, `IdsCounted`). The same count bounds a
climb, and with it a whole parse (`ParseAlwaysAdvances`): every step comes
further by stage, element or category passed, and each of the three is bounded. What is
left of `EveryParseEnds` is that a parse which has not ended can take a step.

*Missing-product state.* The counters alone are inductive once they are tied to the
histories: a complete feed lengthens a streak by one or ends it, and a removed or
misplaced file makes the history empty.

**Only model-checked.** Liveness (`EveryCallEnds`, `SomeCallGetsThrough`,
`EveryParseEnds`), which with fairness and ENABLED is beyond the prover, and the
two counterexamples of section 6. Every other property of the runs is a theorem.
Induction over data is beyond the prover as well: it is avoided by stating
what a recursive definition would compute as a count or as the existence of a path.

## 6. Disagreements between code and documents

Each has a run that ends with a counterexample.

1. `ExactSkuIsPrimary` (`matcher_primary`) — an earlier offer takes a product by EAN
   or model, and the later offer with that product's SKU becomes ambiguous
   (`matcher.py:124`); `README.md:34` says that the exact SKU is primary.
2. `ApprovalNamedByRunId` (`batch_artifact`) — the artifact's name keeps 32 characters
   of the run id (`run_all.py:113`); one feed against two catalogs meets at one name,
   and the second run fails.

Seen while modelling, and covered by actions of the models or premises of
properties instead of runs:

- A call that opens the lock file between a holder's `truncate` and its pid
  (`runner.py:107-110`) writes to the locked byte (`runner.py:94`) and gets
  `PermissionError` (`FillDenied`), where `ARCHITECTURE.md:280` promises
  `FileExistsError`. The snapshot store does not truncate and is proved not to have
  this (`SnapshotWaiterNeverDenied`).
- An interrupt between the publication of the metadata and the assignment at
  `snapshot_store.py:330` makes the handler remove the snapshot and leave its
  metadata, against `ARCHITECTURE.md:41`; so does a removal that fails. Without
  either this never happens (`OrphanHasCause`).
- An interrupt between `CreateFileW` (`snapshot_store.py:160`) and the `try:` (line
  175) leaves an empty file, or empty metadata, that nobody discards; from then on
  every call for the name fails. So `TornHasCause` and `RefusedWithReason` name this
  interrupt among the causes.
- A damaged archive that raises `zlib.error` passes the handler at
  `legacy_xml.py:211` and that of `run_all.py:179`, and ends the batch, although a
  rejected feed is `BLOCKED` by `README.md:90`. In `Batch` this is `EscapeRun`.
- `parse_yml` answers for every category of the feed, `parse_legacy_xml` only for
  those that its offers are in (`Unacceptable`).
- The sweep removes an abandoned stage of a longer, shadowed name without holding
  that name's reservation (`runner.py:137`, against `README.md:40`).
- An offer with a unique EAN whose model contradicts the product is
  `high_confidence`, not `conflict` (`matcher.py:143`, against
  `ARCHITECTURE.md:151`). It stays out of pricing all the same.
- Overlapping batches can publish an approval of the other's seal
  (`run_all.py:119`) and lose a promoted state (`run_all.py:66`). `ApprovalBindsItsRun`
  and `PromotedStateIsCarried` say that only a batch that overlapped can be the cause.
- The approvals lie under the output root (`run_all.py:205`), of which `README.md:93-95`
  asks for a new one per batch, while the state root is shared: a retry of the same feed
  under a new root finds no approval and counts the feed again. `CountedOncePerRoot`
  says what is left, once under each root.
- A `temporary.unlink` that fails in the `finally` clause (`run_all.py:129`) makes a
  supplier `FAIL` whose approval has already been published (`TidyFails`).
- An exception outside the caught types ends the batch (`run_all.py:159`, `:179`),
  although `README.md:21` says that a failed supplier does not block another.
- An item id that begins with `=`, `+`, `-` or `@` is quoted in the CSV files and
  not in the JSON lines (`runner.py:58-63`), and the verifier fails the untouched
  run (`verifier.py:297-302`); one of the cases of `FailedForAReason`.
- Text with U+0085, U+2028 or U+2029 is written raw into the JSON lines
  (`runner.py:70`) and split there by `str.splitlines` (`verifier.py:36`), and a cell
  beyond the field limit of `csv` cannot be read back (`verifier.py:32`): the verifier
  fails these untouched runs too, two more of the cases.
- The profile is loaded for the policy (`run_all.py:145`) before it is captured
  (`manifest.py:85-90`), and nobody compares the two; hence the premise of
  `PassMeansReproducible`.

## 7. Abstractions

- A hash is the content it was made of, a serialised file the value in it, the
  digest of a database its tables. Of the conversions, those that change a value are
  modelled: the quoting of formulas and the field limit in CSV files, the line
  separators that break a JSON line, and the cut of names to a few characters.
- An interrupt between `mkdtemp` and the assignment to `staging` (`runner.py:584`)
  is left out: it would leave a stage that the next call for the name sweeps, like the
  one of a dead call.
- Prices are integers and percentages whole; rounding is left out.
- A directory is listed in one step, and in alphabetical order, as NTFS does. The
  argument for shadowed names rests on the order.
- Windows opens files without `FILE_SHARE_DELETE`: an open lock file cannot be
  unlinked. `os.rename` refuses an existing target; `os.replace` refuses a
  read-only one.
- Every write changes the modification time of a source file; the importer has no
  other way to see a write. The server sends whole editions; a download may break
  off, with an error or without (`CopyEnds`). What `http.client` raises for a broken
  chunked answer ends the connector with a traceback instead of a message, which is
  the same outcome here.
- In the parsers a document's containers, archive and XML are one flag (`sound`), and
  so are the fields of an offer that nothing else depends on (`fit`): URLs, texts,
  weights, vendor names. Numbers are a positive, a negative and an unreadable one,
  stocks full, empty, a symbol and unreadable.
- During sealing, the stage belongs to the run alone; it becomes known when it is
  renamed. Afterwards anybody may change the run, also by a link put there, but does not
  forge a seal (the documents say that it is no signature) and within one verification
  does not put back what is gone: two readings cannot tell a file that was changed and
  changed back.
- A table in DuckDB has the rows of its CSV file. The read of the source hash for
  the run's name (`run_all.py`) is in `Batch` as the name of the task.
- `--install-state` is taken with a state root. Code identity, timestamps and
  counters that no check reads are left out. In `MissingState` a file that
  `_validated_previous` refuses is one flag, whatever is wrong with it.
- In `Batch` all batches share one state root, whatever their output roots are, which
  is the case in which they can disturb each other. A temporary copy that `verify_run`
  cannot write or remove is one of its failing reads, although the exception then
  leaves it without a result; in `Batch` that is a batch that dies there.
- In the `batch` instance names are unique to a task, so `RunDirectory`'s refusal
  does not occur there; a retry of one feed meets at the approval artifact.
- Bounds: `MaxCrashes`, `MaxInterrupts`, `MaxOffers`, `MaxFeeds`, `MaxBatches`, `MaxEdits`,
  `MaxTampers`, `MaxMoves`; the theorems hold for every value of them. `MaxBlocks` is
  the byte limit of the code.

## 8. What is not modelled

Of the catalog loader, only its refusals and the products in scope; of the
adapter's validation of a snapshot, only bounds and uniqueness of ids; of the
profile loader, the validators of approval, prices and categories. What is left of
these are field-by-field checks of one file, each of which refuses it independently
of the others: there is no state between two of them, and a model would repeat
them line by line. For the same reason the parsers' checks of single fields are one
flag. The digest of a database (`db_digest.py`) is a pure function. Command lines, the
verifier of one legacy run (`verify_pilot.py`, which compares fixed counts) and the
PowerShell wrappers print, parse arguments and start processes.

## 9. Plan

Written in this order, most important first: `FileLock`, `RunDirectory`,
`RunPublisher` and their proofs; `SnapshotStore`; `Matcher`; `MissingState`;
`Batch`; `Proposals`, `SealedRun`, `RunBundle`; then `SnapshotShelf`, `Acquisition`,
`FeedParser`, `NetlabProperties`, and the proofs of `Batch`, `Acquisition`, of what the
tables of a run contain, and of the parsers. All of these exist. What could still be added:

1. Calls of `run_all.py` and of the two acquisition programs together, in which the
   feed of a run is a snapshot from the shelf; today they share only the content's
   hash, which stands for the content in both.
2. A clock in `FileLock`: a deadline is an alternative of every waiting step today,
   so that nothing is said of how long a call waits.
