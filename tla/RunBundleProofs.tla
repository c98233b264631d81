-------------------------- MODULE RunBundleProofs --------------------------
(***************************************************************************)
(* Proofs about RunBundle, for artifacts, inputs and changes of any        *)
(* number: what a passed verification says of the run directory, and of    *)
(* the inputs the run was made from.                                       *)
(***************************************************************************)
EXTENDS RunBundle, FiniteSetTheorems, FunctionTheorems, TLAPS

BuildSteps == {"load", "source", "catalog", "secret", "config", "state", "build", "blocked"}
\* The seal is read, and so is everything after.
SealedSteps == {"list", "read", "relist", "reseal", "reread",
                "manifest", "external", "artifacts", "passed"}
JudgeSteps == {"manifest", "external", "artifacts", "passed"}

\* A file that was as sealed when it was read: it still is, or it is gone.
ReadGood(f) == Good(f) \/ f \in gone

\* What was sealed, and what can be on the disk since.
DiskInv ==
    /\ DOMAIN made \subseteq Artifacts \cup {SealName}
    /\ made = [f \in DOMAIN made |-> made[f]]
    /\ disk = [f \in DOMAIN disk |-> disk[f]]
    /\ made # Empty => SealName \in DOMAIN made /\ made[SealName] = SealOf(made)
    /\ made = Empty => disk = Empty
    /\ SealName \in DOMAIN disk => disk[SealName] \in {Alien, SealOf(made)}
    /\ gone \subseteq DOMAIN made
    /\ \A f \in gone : ~Good(f)
    /\ step \in BuildSteps <=> made = Empty

\* What the verification knows after each of its passes.
PassInv ==
    /\ pos \in Nat
    /\ step \in SealedSteps => sealed = SealOf(made)
    /\ step \in SealedSteps \ JudgeSteps => ReadGood(SealName)
    /\ step \in {"read", "relist"} =>
         \A i \in DOMAIN Sorted :
            i < pos /\ Sorted[i] \in DOMAIN made => ReadGood(Sorted[i])
    /\ step = "relist" => \A i \in DOMAIN Sorted : i < pos
    /\ step = "reseal" /\ ~intact => gone # {}
    /\ step = "reread" /\ ~intact => \E i \in DOMAIN Sorted : pos <= i /\ Sorted[i] \in gone
    /\ step \in JudgeSteps => intact

VerifyInv == DiskInv /\ PassInv

BeforeConfig == {"load", "source", "catalog", "secret", "config"}

\* What was captured is in the bundle, and the profile is the captured one
\* unless it was replaced between its two readings.
InputInv ==
    /\ DOMAIN input = Inputs /\ \A f \in Inputs : input[f] \in Contents[f]
    /\ DOMAIN captured \subseteq Inputs
    /\ captured = [f \in DOMAIN captured |-> captured[f]]
    /\ step \in BeforeConfig => "config" \notin DOMAIN captured
    /\ step \notin BeforeConfig \cup {"blocked"} => "config" \in DOMAIN captured
    /\ step \notin {"load", "blocked"} /\ "policy" \notin moved =>
         profile = ProfileOf[IF "config" \in DOMAIN captured THEN captured["config"]
                                                            ELSE input["config"]]
    /\ made # Empty =>
         /\ SealOf(made) = Bundle(captured, profile)
         /\ DOMAIN captured = Inputs \cap DOMAIN made
         /\ \A f \in DOMAIN captured : made[f] = captured[f]

LEMMA SortedFacts ==
    /\ Len(Sorted) \in Nat
    /\ DOMAIN Sorted = 1..Len(Sorted)
    /\ \A i \in DOMAIN Sorted : Sorted[i] \in Artifacts
    /\ \A f \in Artifacts : \E i \in DOMAIN Sorted : Sorted[i] = f
    /\ Sorted # <<>> => Len(Sorted) > 0
  BY SortedAssumption DEF Artifacts

LEMMA VerifyInitInv == Init => VerifyInv
  BY DEF Init, SealedInit, VerifyInv, DiskInv, PassInv, Empty, Good, BuildSteps,
         SealedSteps, JudgeSteps

-----------------------------------------------------------------------------
\* Sealing: what is on the disk is what was made, with its own seal.
LEMMA SealStep ==
    ASSUME VerifyInv, step = "build", NEW files, Seal(files, "published"),
           DOMAIN files \subseteq Artifacts
    PROVE  VerifyInv'
  <1> DEFINE bundle == [f \in DOMAIN files \cup {SealName} |->
                          IF f = SealName THEN SealOf(files) ELSE files[f]]
  <1>1. disk' = bundle /\ made' = bundle /\ step' = "published" /\ UNCHANGED <<checkVars, edits>>
    BY DEF Seal
  <1>2. SealName \in DOMAIN bundle /\ bundle[SealName] = SealOf(files)
    OBVIOUS
  <1>3. SealOf(bundle) = SealOf(files)
    BY OtherNamesAssumption DEF SealOf
  <1>4. bundle # Empty
    BY <1>2 DEF Empty
  <1>5. gone = {}
    BY DEF VerifyInv, DiskInv, BuildSteps, Empty
  <1>6. DiskInv'
    <2>1. SealOf(made)' = SealOf(files)
      BY <1>1, <1>3
    <2> HIDE DEF bundle
    <2>2. DOMAIN bundle = DOMAIN files \cup {SealName} /\ bundle = [f \in DOMAIN bundle |-> bundle[f]]
      BY DEF bundle
    <2> QED
      BY <1>1, <1>2, <1>4, <1>5, <2>1, <2>2 DEF DiskInv, checkVars, BuildSteps
  <1>7. PassInv'
    BY <1>1 DEF VerifyInv, PassInv, checkVars, SealedSteps, JudgeSteps
  <1> QED
    BY <1>6, <1>7 DEF VerifyInv

\* Somebody's change: what it spoils is gone.
LEMMA EditStep ==
    ASSUME VerifyInv, NEW f, NEW newDisk, Edit(f, newDisk),
           newDisk = [g \in DOMAIN newDisk |-> newDisk[g]],
           \A g \in DOMAIN made \ {f} :
              g \in DOMAIN newDisk /\ newDisk[g] = made[g] <=> Good(g),
           SealName \in DOMAIN newDisk => newDisk[SealName] \in {Alien, SealOf(made)}
    PROVE  VerifyInv'
  <1>1. /\ made # Empty /\ disk' = newDisk /\ UNCHANGED <<step, made, sealed, pos, intact>>
        /\ f \in gone => ~Good(f)'
        /\ gone' = IF Good(f) /\ ~Good(f)' THEN gone \cup {f} ELSE gone
    BY DEF Edit
  <1>2. \A g \in DOMAIN made : (Good(g) /\ ~Good(g)' => g \in gone') /\ (g \in gone' => ~Good(g)')
    BY <1>1 DEF VerifyInv, DiskInv, Good
  <1>3. gone \subseteq gone' /\ gone' \subseteq DOMAIN made
    BY <1>1 DEF VerifyInv, DiskInv, Good
  <1>4. \A g \in DOMAIN made : ReadGood(g) => ReadGood(g)'
    BY <1>2, <1>3 DEF ReadGood
  <1>5. UNCHANGED SealOf(made)
    BY <1>1
  <1>6. DiskInv'
    BY <1>1, <1>2, <1>3, <1>5 DEF VerifyInv, DiskInv
  <1>7. SealName \in DOMAIN made
    BY <1>1 DEF VerifyInv, DiskInv
  <1>8. PassInv'
    BY <1>1, <1>3, <1>4, <1>5, <1>7 DEF VerifyInv, PassInv
  <1> QED
    BY <1>6, <1>8 DEF VerifyInv

LEMMA TamperStep ==
    ASSUME VerifyInv, NEW f, Overwrite(f) \/ Delete(f) \/ Restore(f)
    PROVE  VerifyInv'
  <1>1. CASE Delete(f)
    <2> DEFINE newDisk == [g \in DOMAIN disk \ {f} |-> disk[g]]
    <2>1. Edit(f, newDisk)
      BY <1>1 DEF Delete
    <2>2. \A g \in DOMAIN made \ {f} : g \in DOMAIN newDisk /\ newDisk[g] = made[g] <=> Good(g)
      BY DEF Good
    <2>3. SealName \in DOMAIN newDisk => newDisk[SealName] \in {Alien, SealOf(made)}
      BY DEF VerifyInv, DiskInv
    <2> QED
      BY <2>1, <2>2, <2>3, EditStep
  <1>2. CASE Restore(f)
    <2> DEFINE newDisk == [g \in DOMAIN disk \cup {f} |-> IF g = f THEN made[f] ELSE disk[g]]
    <2>1. Edit(f, newDisk) /\ f \in DOMAIN made
      BY <1>2 DEF Restore
    <2>2. \A g \in DOMAIN made \ {f} : g \in DOMAIN newDisk /\ newDisk[g] = made[g] <=> Good(g)
      BY DEF Good
    <2>3. made # Empty
      BY <2>1 DEF Empty
    <2>4. SealName \in DOMAIN newDisk => newDisk[SealName] \in {Alien, SealOf(made)}
      BY <2>3 DEF VerifyInv, DiskInv
    <2> QED
      BY <2>1, <2>2, <2>4, EditStep
  <1>3. CASE Overwrite(f)
    <2> DEFINE newDisk == [g \in DOMAIN disk \cup {f} |-> IF g = f THEN Alien ELSE disk[g]]
    <2>1. Edit(f, newDisk) /\ (f \in DOMAIN disk => disk[f] # Alien)
      BY <1>3 DEF Overwrite
    <2>2. \A g \in DOMAIN made \ {f} : g \in DOMAIN newDisk /\ newDisk[g] = made[g] <=> Good(g)
      BY DEF Good
    <2>3. SealName \in DOMAIN newDisk => newDisk[SealName] \in {Alien, SealOf(made)}
      BY DEF VerifyInv, DiskInv
    <2> QED
      BY <2>1, <2>2, <2>3, EditStep
  <1> QED
    BY <1>1, <1>2, <1>3

-----------------------------------------------------------------------------
\* A step that touches neither the directory nor what is gone.
LEMMA DiskKept ==
    ASSUME DiskInv, UNCHANGED <<diskVars, gone>>, step' \in BuildSteps <=> step \in BuildSteps
    PROVE  DiskInv'
  BY DEF DiskInv, diskVars, Good, SealOf

LEMMA ReadGoodKept ==
    ASSUME UNCHANGED <<diskVars, gone>>
    PROVE  \A f : ReadGood(f)' <=> ReadGood(f)
  BY DEF diskVars, ReadGood, Good

\* Every outcome of load_sealed_run that is not a refusal.
LEMMA LoadStep ==
    ASSUME VerifyInv, LoadSealedRun
    PROVE  VerifyInv'
  <1> USE DEF VerifyInv
  <1>1. CASE step' = "failed" /\ UNCHANGED <<diskVars, checkVars>> /\ step \in LoadSteps
    BY <1>1, DiskKept DEF PassInv, diskVars, checkVars, BuildSteps, SealedSteps, JudgeSteps, LoadSteps
  <1>2. CASE ReadSeal
    <2>1. UNCHANGED <<diskVars, pos, gone, intact>> /\ step = "seal" /\ step' = "list"
      BY <1>2 DEF ReadSeal
    <2>2. sealed' = SealOf(made) /\ SealName \in DOMAIN disk /\ disk[SealName] = SealOf(made)
      BY <1>2 DEF ReadSeal, SealReadable, DiskInv
    <2>3. made # Empty
      BY <2>1 DEF DiskInv, BuildSteps
    <2>4. ReadGood(SealName)
      BY <2>2, <2>3 DEF DiskInv, ReadGood, Good
    <2>5. DiskInv'
      BY <2>1, DiskKept DEF BuildSteps
    <2>6. PassInv'
      BY <2>1, <2>2, <2>4, ReadGoodKept DEF PassInv, diskVars, SealedSteps, JudgeSteps, SealOf
    <2> QED
      BY <2>5, <2>6
  <1>3. CASE List
    <2>1. UNCHANGED <<diskVars, sealed, gone, intact>> /\ step = "list" /\ step' = "read" /\ pos' = 1
      BY <1>3 DEF List
    <2>2. DiskInv'
      BY <2>1, DiskKept DEF BuildSteps
    <2>3. PassInv'
      BY <2>1, ReadGoodKept, SortedFacts DEF PassInv, diskVars, SealedSteps, JudgeSteps, SealOf
    <2> QED
      BY <2>2, <2>3
  <1>4. CASE Read
    <2>1. /\ UNCHANGED <<diskVars, sealed, gone, intact>> /\ step = "read" /\ pos' = pos + 1
          /\ step' = IF pos < Len(Sorted) THEN "read" ELSE "relist"
          /\ Agrees
      BY <1>4 DEF Read
    <2>2. sealed = SealOf(made)
      BY <2>1 DEF PassInv, SealedSteps, JudgeSteps
    <2>3. pos \in DOMAIN Sorted /\ Sorted[pos] \in DOMAIN made => ReadGood(Sorted[pos])
      BY <2>1, <2>2, SortedFacts, OtherNamesAssumption DEF Agrees, ReadGood, Good, SealOf
    <2>4. DiskInv'
      BY <2>1, DiskKept DEF BuildSteps
    <2>5. \A i \in DOMAIN Sorted : i < pos + 1 /\ Sorted[i] \in DOMAIN made => ReadGood(Sorted[i])
      BY <2>1, <2>3, SortedFacts DEF PassInv
    <2>6. PassInv'
      BY <2>1, <2>2, <2>5, ReadGoodKept, SortedFacts DEF PassInv, diskVars, SealedSteps, JudgeSteps, SealOf
    <2> QED
      BY <2>4, <2>6
  <1>5. CASE Relist
    <2>1. /\ UNCHANGED <<diskVars, sealed, gone, pos>> /\ step = "relist" /\ step' = "reseal"
          /\ SameFileSet /\ intact' = (disk = made)
      BY <1>5 DEF Relist
    <2>2. sealed = SealOf(made)
      BY <2>1 DEF PassInv, SealedSteps, JudgeSteps
    <2>3. gone = {} => disk = made
      <3> SUFFICES ASSUME gone = {} PROVE disk = made
        OBVIOUS
      <3>1. made # Empty
        BY <2>1 DEF DiskInv, BuildSteps
      <3>2. Good(SealName)
        BY <2>1 DEF PassInv, ReadGood, SealedSteps, JudgeSteps
      <3>3. DOMAIN disk = DOMAIN made
        BY <2>1, <2>2, <3>1, <3>2, OtherNamesAssumption DEF SameFileSet, SealOf, DiskInv, Good
      <3>4. \A f \in DOMAIN made : Good(f)
        BY <2>1, <3>2, SortedFacts DEF PassInv, ReadGood, DiskInv
      <3>5. [f \in DOMAIN disk |-> disk[f]] = [f \in DOMAIN made |-> made[f]]
        BY <3>3, <3>4 DEF Good
      <3> QED
        BY <3>5 DEF DiskInv
    <2>4. DiskInv'
      BY <2>1, DiskKept DEF BuildSteps
    <2>5. PassInv'
      BY <2>1, <2>2, <2>3, ReadGoodKept DEF PassInv, diskVars, SealedSteps, JudgeSteps, SealOf
    <2> QED
      BY <2>4, <2>5
  <1>6. CASE RereadSeal
    <2>1. /\ UNCHANGED <<diskVars, sealed, gone, intact>> /\ step = "reseal" /\ step' = "reread"
          /\ SealUnchanged /\ pos' = 1
      BY <1>6 DEF RereadSeal
    <2>2. sealed = SealOf(made) /\ made # Empty
      BY <2>1 DEF PassInv, DiskInv, SealedSteps, JudgeSteps, BuildSteps
    <2>3. Good(SealName)
      BY <2>1, <2>2 DEF SealUnchanged, Good, DiskInv
    <2>4. ~intact => \E i \in DOMAIN Sorted : 1 <= i /\ Sorted[i] \in gone
      <3> SUFFICES ASSUME ~intact PROVE \E i \in DOMAIN Sorted : 1 <= i /\ Sorted[i] \in gone
        OBVIOUS
      <3>1. PICK f : f \in gone
        BY <2>1 DEF PassInv
      <3>2. f \in Artifacts
        BY <2>3, <3>1 DEF DiskInv
      <3> QED
        BY <3>1, <3>2, SortedFacts
    <2>5. DiskInv'
      BY <2>1, DiskKept DEF BuildSteps
    <2>6. PassInv'
      BY <2>1, <2>2, <2>4, ReadGoodKept DEF PassInv, diskVars, SealedSteps, JudgeSteps, SealOf
    <2> QED
      BY <2>5, <2>6
  <1>7. CASE Reread("manifest")
    <2>1. /\ UNCHANGED <<diskVars, sealed, gone, intact>> /\ step = "reread" /\ pos' = pos + 1
          /\ step' = IF pos < Len(Sorted) THEN "reread" ELSE "manifest"
          /\ Agrees
      BY <1>7 DEF Reread
    <2>2. sealed = SealOf(made)
      BY <2>1 DEF PassInv, SealedSteps, JudgeSteps
    <2>3. pos \in DOMAIN Sorted => Sorted[pos] \notin gone
      BY <2>1, <2>2, SortedFacts, OtherNamesAssumption DEF Agrees, DiskInv, Good, SealOf
    <2>4. ~intact => \E i \in DOMAIN Sorted : pos + 1 <= i /\ Sorted[i] \in gone
      BY <2>1, <2>3, SortedFacts DEF PassInv
    <2>5. DiskInv'
      BY <2>1, DiskKept DEF BuildSteps
    <2>6. PassInv'
      BY <2>1, <2>2, <2>4, ReadGoodKept, SortedFacts DEF PassInv, diskVars, SealedSteps, JudgeSteps, SealOf
    <2> QED
      BY <2>5, <2>6
  <1> QED
    BY <1>1, <1>2, <1>3, <1>4, <1>5, <1>6, <1>7
       DEF LoadSealedRun, Load, NoSeal, WrongFileSet, Mismatch, FileSetChanged, SealChanged,
           ChangedMeanwhile, Refused, LoadSteps

-----------------------------------------------------------------------------
\* Bundle: the inputs as they are, and the artifacts made of them.
LEMMA BundleFacts ==
    ASSUME NEW inputs, DOMAIN inputs \subseteq Inputs, NEW loaded
    PROVE  /\ DOMAIN Bundle(inputs, loaded) = DOMAIN inputs \cup (Artifacts \ Inputs)
           /\ DOMAIN Bundle(inputs, loaded) \subseteq Artifacts
           /\ SealOf(Bundle(inputs, loaded)) = Bundle(inputs, loaded)
           /\ \A f \in DOMAIN inputs : Bundle(inputs, loaded)[f] = inputs[f]
  <1> DEFINE B == Bundle(inputs, loaded)
  <1>1. DOMAIN B = DOMAIN inputs \cup (Artifacts \ Inputs) /\ B = [f \in DOMAIN B |-> B[f]]
    BY DEF Bundle
  <1>2. \A f \in DOMAIN inputs : B[f] = inputs[f]
    BY DEF Bundle
  <1>3. Inputs \subseteq Artifacts
    BY BundleAssumption
  <1> HIDE DEF B
  <1>4. DOMAIN B \subseteq Artifacts
    BY <1>1, <1>3
  <1>5. SealOf(B) = B
    BY <1>1, <1>4, OtherNamesAssumption DEF SealOf
  <1> QED
    BY <1>1, <1>2, <1>4, <1>5 DEF B

LEMMA VerifyStep ==
    ASSUME VerifyInv, DOMAIN captured \subseteq Inputs, [Next]_vars
    PROVE  VerifyInv'
  <1>1. ASSUME UNCHANGED <<diskVars, checkVars>>, step \in BuildSteps, step' \in BuildSteps
        PROVE  VerifyInv'
    BY <1>1, DiskKept DEF VerifyInv, PassInv, checkVars, BuildSteps, SealedSteps, JudgeSteps
  <1>2. CASE UNCHANGED <<step, diskVars, checkVars>>
    BY <1>2 DEF VerifyInv, DiskInv, PassInv, diskVars, checkVars, ReadGood, Good, SealOf
  <1>3. CASE Build
    <2>1. CASE Seal(Bundle(captured, profile), "published")
      BY <1>3, <2>1, SealStep, BundleFacts DEF Build
    <2>2. CASE step' = "blocked" /\ UNCHANGED <<diskVars, checkVars, edits>>
      BY <1>1, <1>3, <2>2 DEF Build, BuildSteps
    <2> QED
      BY <1>3, <2>1, <2>2 DEF Build
  <1>4. CASE BeginVerification
    <2>1. /\ UNCHANGED diskVars /\ step = "published" /\ step' = "seal"
          /\ pos' = 0 /\ gone' = {} /\ intact' = FALSE
      BY <1>4 DEF BeginVerification, BeginLoad
    <2> QED
      BY <2>1 DEF VerifyInv, DiskInv, PassInv, diskVars, Good, SealOf, BuildSteps, SealedSteps, JudgeSteps
  <1>5. CASE CheckManifest \/ CompareInput \/ Conclude
    <2>1. /\ UNCHANGED <<diskVars, sealed, gone, intact>>
          /\ step \in JudgeSteps /\ step' \in JudgeSteps \cup {"failed"}
          /\ pos' \in {1, pos, pos + 1}
      BY <1>5 DEF CheckManifest, CompareInput, Conclude, JudgeSteps, checkVars
    <2>2. DiskInv'
      BY <2>1, DiskKept DEF VerifyInv, BuildSteps, JudgeSteps
    <2>3. PassInv'
      BY <2>1 DEF VerifyInv, PassInv, diskVars, SealedSteps, JudgeSteps, SealOf
    <2> QED
      BY <2>2, <2>3 DEF VerifyInv
  <1>6. CASE Run
    BY <1>1, <1>3, <1>6 DEF Run, LoadProfile, Capture, CheckSecret, GiveUp, BuildSteps, CaptureOrder
  <1>7. CASE Tamper
    BY <1>7, TamperStep DEF Tamper
  <1>8. ASSUME NEW m \in Moving, Replace(m[1], m[2]) PROVE VerifyInv'
    BY <1>2, <1>8 DEF Replace
  <1>9. CASE Ended \/ UNCHANGED vars
    BY <1>2, <1>9 DEF Ended, vars
  <1>10. CASE RunUnreadable
    <2>1. /\ UNCHANGED <<diskVars, checkVars>> /\ step \in LoadSteps /\ step' = "failed"
      BY <1>10 DEF RunUnreadable, ReadFails, Refused
    <2>2. DiskInv'
      BY <2>1, DiskKept DEF VerifyInv, checkVars, BuildSteps, LoadSteps
    <2>3. PassInv'
      BY <2>1 DEF VerifyInv, PassInv, diskVars, checkVars, SealedSteps, JudgeSteps
    <2> QED
      BY <2>2, <2>3 DEF VerifyInv
  <1> QED
    BY <1>4, <1>5, <1>6, <1>7, <1>8, <1>9, <1>10, LoadStep DEF Next, Verify

-----------------------------------------------------------------------------
LEMMA InputInitInv == Init => InputInv
  BY DEF Init, SealedInit, InputInv, Empty, BeforeConfig

\* A step that captures nothing, loads nothing and seals nothing.
LEMMA InputsKept ==
    ASSUME InputInv, UNCHANGED <<input, profile, captured, moved, made>>,
           step \notin BuildSteps => step' \notin BuildSteps,
           step \in BuildSteps =>
              \/ step' \in {"blocked", step}
              \/ step = "secret" /\ step' = "config"
    PROVE  InputInv'
  BY DEF InputInv, BeforeConfig, BuildSteps, SealOf

LEMMA CaptureStep ==
    ASSUME InputInv, VerifyInv, NEW f \in Inputs, NEW next, Capture(f, next),
           <<f, next>> \in {<<"source", "catalog">>, <<"catalog", "secret">>,
                             <<"config", "state">>, <<"state", "build">>}
    PROVE  InputInv'
  <1>1. UNCHANGED <<input, profile, moved, made>> /\ step = f /\ step' = next
    BY DEF Capture, diskVars
  <1>2. made = Empty
    BY <1>1 DEF VerifyInv, DiskInv, BuildSteps
  <1>3. CASE input[f] = Absent
    <2>1. captured' = captured /\ f = "state"
      BY <1>3, AbsentAssumption DEF Capture, InputInv, Contents, Inputs
    <2> QED
      BY <1>1, <1>2, <2>1 DEF InputInv, BeforeConfig, SealOf
  <1>4. CASE input[f] # Absent
    <2>1. captured' = [g \in DOMAIN captured \cup {f} |-> IF g = f THEN input[f] ELSE captured[g]]
      BY <1>4 DEF Capture
    <2>2. /\ DOMAIN captured' = DOMAIN captured \cup {f}
          /\ captured' = [g \in DOMAIN captured' |-> captured'[g]]
          /\ captured'[f] = input[f]
          /\ \A g \in DOMAIN captured \ {f} : captured'[g] = captured[g]
      BY <2>1
    <2> QED
      BY <1>1, <1>2, <2>2 DEF InputInv, BeforeConfig, SealOf
  <1> QED
    BY <1>3, <1>4

LEMMA ReplaceStep ==
    ASSUME InputInv, NEW m \in Moving, Replace(m[1], m[2])
    PROVE  InputInv'
  <1>1. /\ input' = [input EXCEPT ![m[1]] = m[2]] /\ moved' = moved \cup ReadOf(m[1])
        /\ UNCHANGED <<step, made, profile, captured>>
    BY DEF Replace, diskVars
  <1>2. m[1] \in Inputs /\ m[2] \in Contents[m[1]]
    BY BundleAssumption
  <1>3. DOMAIN input' = Inputs /\ \A f \in Inputs : input'[f] \in Contents[f]
    BY <1>1, <1>2 DEF InputInv
  <1>4. CASE m[1] = "config" /\ "config" \notin DOMAIN captured /\ step \notin {"load", "blocked"}
    <2>1. "policy" \in moved'
      <3>1. CASE profile # Absent
        BY <1>1, <1>4, <3>1 DEF ReadOf
      <3>2. CASE profile = Absent
        <4>1. input["config"] \in Profiles
          BY DEF InputInv, Contents, Inputs
        <4>2. "policy" \in moved
          BY <1>4, <3>2, <4>1, AbsentAssumption DEF InputInv
        <4> QED
          BY <1>1, <4>2
      <3> QED
        BY <3>1, <3>2
    <2> QED
      BY <1>1, <1>3, <2>1 DEF InputInv, SealOf, BeforeConfig
  <1>5. CASE ~(m[1] = "config" /\ "config" \notin DOMAIN captured /\ step \notin {"load", "blocked"})
    <2>1. "config" \notin DOMAIN captured /\ step \notin {"load", "blocked"} => input'["config"] = input["config"]
      BY <1>1, <1>2, <1>5 DEF InputInv
    <2> QED
      BY <1>1, <1>3, <1>5, <2>1 DEF InputInv, SealOf, BeforeConfig
  <1> QED
    BY <1>4, <1>5

LEMMA BuildStep ==
    ASSUME InputInv, Build, Seal(Bundle(captured, profile), "published")
    PROVE  InputInv'
  <1> DEFINE B == Bundle(captured, profile)
  <1>1. /\ step = "build" /\ step' = "published"
        /\ UNCHANGED <<input, profile, captured, moved>>
        /\ made' = [f \in DOMAIN B \cup {SealName} |-> IF f = SealName THEN SealOf(B) ELSE B[f]]
    BY DEF Build, Seal, bundleVars
  <1>2. /\ DOMAIN captured \subseteq Inputs
        /\ DOMAIN B = DOMAIN captured \cup (Artifacts \ Inputs)
        /\ DOMAIN B \subseteq Artifacts
        /\ SealOf(B) = B
        /\ \A f \in DOMAIN captured : B[f] = captured[f]
    BY BundleFacts DEF InputInv
  <1> HIDE DEF B
  <1>3. SealOf(made)' = SealOf(B)
    BY <1>1, <1>2, OtherNamesAssumption DEF SealOf
  <1>4. Inputs \subseteq Artifacts
    BY BundleAssumption
  <1>5. DOMAIN captured = Inputs \cap DOMAIN made' /\ \A f \in DOMAIN captured : made'[f] = captured[f]
    BY <1>1, <1>2, <1>4, OtherNamesAssumption
  <1>6. B = Bundle(captured, profile)'
    BY <1>1 DEF B
  <1> QED
    BY <1>1, <1>2, <1>3, <1>5, <1>6 DEF InputInv, BeforeConfig

LEMMA InputStep ==
    ASSUME InputInv, VerifyInv, [Next]_vars
    PROVE  InputInv'
  <1>1. CASE LoadProfile
    <2>1. /\ step = "load" /\ step' \in {"source", "blocked"} /\ profile' = ProfileOf[input["config"]]
          /\ UNCHANGED <<input, captured, moved, made>>
      BY <1>1 DEF LoadProfile, diskVars
    <2>2. made = Empty
      BY <2>1 DEF VerifyInv, DiskInv, BuildSteps
    <2> QED
      BY <2>1, <2>2 DEF InputInv, BeforeConfig
  <1>2. CASE \/ Capture("source", "catalog") \/ Capture("catalog", "secret")
             \/ Capture("config", "state") \/ Capture("state", "build")
    BY <1>2, CaptureStep DEF Inputs
  <1>3. CASE CheckSecret \/ GiveUp
    <2>1. /\ UNCHANGED <<input, profile, captured, moved, made>>
          /\ step \in BuildSteps
          /\ step' = "blocked" \/ (step = "secret" /\ step' = "config")
      BY <1>3 DEF CheckSecret, GiveUp, diskVars, bundleVars, BuildSteps, CaptureOrder
    <2> QED
      BY <2>1, InputsKept
  <1>4. CASE Build
    <2>1. CASE step' = "blocked" /\ UNCHANGED <<diskVars, checkVars, edits>>
      <3>1. UNCHANGED <<input, profile, captured, moved, made>> /\ step \in BuildSteps
        BY <1>4, <2>1 DEF Build, diskVars, bundleVars, BuildSteps
      <3> QED
        BY <2>1, <3>1, InputsKept
    <2> QED
      BY <1>4, <2>1, BuildStep DEF Build
  <1>5. CASE Verify
    <2>1. /\ step \in {"published"} \cup LoadSteps \cup {"manifest", "external", "artifacts"}
          /\ step' \in LoadSteps \cup {"manifest", "external", "artifacts", "passed", "failed"}
      BY <1>5
         DEF Verify, BeginVerification, BeginLoad, LoadSealedRun, RunUnreadable, ReadFails,
             CheckManifest, CompareInput, Conclude, Load, ReadSeal, NoSeal, List, WrongFileSet, Read, Mismatch, Relist, FileSetChanged,
             RereadSeal, SealChanged, Reread, ChangedMeanwhile, Refused, LoadSteps
    <2>2. UNCHANGED <<input, profile, captured, moved, made>>
      <3>1. CASE LoadSealedRun
        BY <3>1
           DEF LoadSealedRun, Load, ReadSeal, NoSeal, List, WrongFileSet, Read, Mismatch, Relist,
               FileSetChanged, RereadSeal, SealChanged, Reread, ChangedMeanwhile, Refused,
               diskVars, bundleVars
      <3> QED
        BY <1>5, <3>1
           DEF Verify, BeginVerification, BeginLoad, RunUnreadable, ReadFails, Refused,
               CheckManifest, CompareInput, Conclude, diskVars
    <2>3. step \notin BuildSteps /\ step' \notin BuildSteps
      BY <2>1 DEF LoadSteps, BuildSteps
    <2> QED
      BY <2>2, <2>3, InputsKept
  <1>6. CASE Tamper /\ UNCHANGED bundleVars
    BY <1>6, InputsKept DEF Tamper, Overwrite, Delete, Restore, Edit, bundleVars
  <1>7. CASE Ended \/ UNCHANGED vars
    BY <1>7, InputsKept DEF Ended, vars, diskVars, bundleVars
  <1> QED
    BY <1>1, <1>2, <1>3, <1>4, <1>5, <1>6, <1>7, ReplaceStep DEF Next, Run

-----------------------------------------------------------------------------
\* The types of the directory and of its verification, and where a pass is.
DirType ==
    /\ step \in Steps
    /\ DOMAIN disk \subseteq FileNames
    /\ DOMAIN sealed \subseteq Artifacts
    /\ pos \in 0..Len(Sorted) + 1
    /\ step \in {"read", "reread"} => pos \in 1..Len(Sorted)
    /\ step = "external" => pos \in 1..3
    /\ intact \in BOOLEAN
    /\ edits \in 0..MaxEdits

\* The types of what lies outside, and of what is asked.
OutsideType ==
    /\ input \in [Inputs -> UNION {Contents[f] : f \in Inputs}]
    /\ \A f \in DOMAIN captured : captured[f] \in Contents[f] \ {Absent}
    /\ moved \subseteq Inputs \cup {"policy"}
    /\ asked \subseteq Inputs
    /\ passing \in BOOLEAN
    /\ unread \in BOOLEAN

LEMMA StepNames ==
    /\ LoadSteps \subseteq Steps
    /\ {"load", "source", "catalog", "secret", "config", "state", "build", "published",
        "manifest", "external", "artifacts", "blocked", "failed", "passed"} \subseteq Steps
  <1>1. DOMAIN CaptureOrder = 1..6
    BY DEF CaptureOrder
  <1>2. /\ CaptureOrder[1] = "source" /\ CaptureOrder[2] = "catalog"
        /\ CaptureOrder[3] = "secret" /\ CaptureOrder[4] = "config"
        /\ CaptureOrder[5] = "state" /\ CaptureOrder[6] = "build"
    BY DEF CaptureOrder
  <1>3. \A i \in 1..6 : CaptureOrder[i] \in Steps
    BY <1>1 DEF Steps
  <1>4. {"source", "catalog", "secret", "config", "state", "build"} \subseteq Steps
    BY <1>2, <1>3
  <1> QED
    BY <1>4 DEF Steps

\* A run has more artifacts than a verification is given inputs.
LEMMA ManyArtifacts == Len(Sorted) \in Nat /\ Len(Sorted) >= 3
  <1>1. {"source", "catalog", "config"} \subseteq Artifacts
    BY BundleAssumption DEF Inputs
  <1>2. PICK i, j, k \in DOMAIN Sorted :
            Sorted[i] = "source" /\ Sorted[j] = "catalog" /\ Sorted[k] = "config"
    BY <1>1, SortedFacts
  <1>3. i # j /\ j # k /\ i # k
    BY <1>2
  <1> QED
    BY <1>3, SortedFacts

\* A step that leaves the directory alone.
LEMMA DirKept ==
    ASSUME DirType, UNCHANGED <<disk, sealed, pos, intact, edits>>, step' \in Steps,
           step' = step \/ step' \notin {"read", "reread", "external"}
    PROVE  DirType'
  BY DEF DirType

LEMMA LoadTypes ==
    ASSUME DirType, VerifyInv, LoadSealedRun
    PROVE  DirType'
  <1> USE DEF DirType
  <1>1. CASE step' = "failed" /\ UNCHANGED <<diskVars, checkVars, edits>>
    BY <1>1, StepNames, DirKept DEF diskVars, checkVars
  <1>2. CASE ReadSeal
    <2>1. sealed' = SealOf(made) /\ DOMAIN made \subseteq Artifacts \cup {SealName}
      BY <1>2 DEF ReadSeal, SealReadable, VerifyInv, DiskInv
    <2>2. DOMAIN sealed' \subseteq Artifacts
      BY <2>1 DEF SealOf
    <2> QED
      BY <1>2, <2>2, StepNames DEF ReadSeal, diskVars, LoadSteps
  <1>3. CASE List \/ RereadSeal
    BY <1>3, StepNames, ManyArtifacts DEF List, RereadSeal, diskVars, LoadSteps
  <1>4. CASE Read \/ Reread("manifest")
    <2>1. /\ pos' = pos + 1 /\ pos \in 1..Len(Sorted)
          /\ step' \in {"read", "reread"} => pos < Len(Sorted)
          /\ step' \in {"read", "reread", "relist", "manifest"}
          /\ UNCHANGED <<disk, sealed, intact, edits>>
      BY <1>4 DEF Read, Reread, diskVars
    <2> QED
      BY <2>1, StepNames, ManyArtifacts DEF LoadSteps
  <1>5. CASE Relist
    BY <1>5, StepNames DEF Relist, diskVars, LoadSteps
  <1> QED
    BY <1>1, <1>2, <1>3, <1>4, <1>5
       DEF LoadSealedRun, Load, NoSeal, WrongFileSet, Mismatch, FileSetChanged, SealChanged,
           ChangedMeanwhile, Refused

LEMMA TamperTypes ==
    ASSUME DirType, VerifyInv, Tamper
    PROVE  DirType'
  <1>1. PICK f \in Exposed : Overwrite(f) \/ Delete(f) \/ Restore(f)
    BY DEF Tamper
  <1>2. f \in FileNames
    BY ExposedAssumption
  <1>3. /\ UNCHANGED <<step, sealed, pos, intact>>
        /\ edits < MaxEdits /\ edits' = edits + 1
        /\ DOMAIN disk' \subseteq DOMAIN disk \cup {f}
    BY <1>1 DEF Overwrite, Delete, Restore, Edit
  <1> QED
    BY <1>2, <1>3, EditBoundAssumption DEF DirType

LEMMA TypeInit == Init => DirType /\ OutsideType
  <1>1. Init => DirType
    <2> SUFFICES ASSUME Init PROVE DirType
      OBVIOUS
    <2>1. DOMAIN disk \subseteq FileNames /\ DOMAIN sealed \subseteq Artifacts
      BY DEF Init, SealedInit, Empty
    <2>2. step \in Steps /\ step = "load"
      BY StepNames DEF Init
    <2>3. pos = 0 /\ edits = 0
      BY DEF Init, SealedInit
    <2>4. intact \in BOOLEAN
      BY DEF Init, SealedInit
    <2> QED
      BY <2>1, <2>2, <2>3, <2>4, SortedFacts, EditBoundAssumption DEF DirType
  <1>2. Init => OutsideType
    BY DEF Init, OutsideType, Empty
  <1> QED
    BY <1>1, <1>2

LEMMA DirTypeStep ==
    ASSUME DirType, VerifyInv, InputInv, [Next]_vars
    PROVE  DirType'
  <1> USE StepNames
  <1>1. CASE LoadProfile \/ CheckSecret \/ GiveUp
    BY <1>1, DirKept DEF LoadProfile, CheckSecret, GiveUp, diskVars, checkVars
  <1>2. CASE \/ Capture("source", "catalog") \/ Capture("catalog", "secret")
             \/ Capture("config", "state") \/ Capture("state", "build")
    BY <1>2, DirKept DEF Capture, diskVars, checkVars
  <1>3. CASE Build
    <2>1. CASE Seal(Bundle(captured, profile), "published")
      <3>1. DOMAIN disk' \subseteq Artifacts \cup {SealName}
        BY <2>1, BundleFacts DEF Seal, InputInv
      <3> QED
        BY <2>1, <3>1 DEF DirType, Seal, checkVars, FileNames
    <2>2. CASE step' = "blocked" /\ UNCHANGED <<diskVars, checkVars, edits>>
      BY <2>2, DirKept DEF diskVars, checkVars
    <2> QED
      BY <1>3, <2>1, <2>2 DEF Build
  <1>4. CASE BeginVerification
    <2>1. step' = "seal" /\ pos' = 0 /\ UNCHANGED <<disk, sealed, edits>>
      BY <1>4 DEF BeginVerification, BeginLoad, diskVars
    <2>2. "seal" \in Steps
      BY DEF LoadSteps
    <2>3. intact' \in BOOLEAN
      BY <1>4 DEF BeginVerification, BeginLoad
    <2> QED
      BY <2>1, <2>2, <2>3, ManyArtifacts DEF DirType
  <1>5. CASE CheckManifest
    BY <1>5, ManyArtifacts DEF CheckManifest, DirType, diskVars
  <1>6. CASE CompareInput
    <2>1. /\ pos \in 1..3 /\ pos' = pos + 1 /\ step' = (IF pos < 3 THEN "external" ELSE "artifacts")
          /\ UNCHANGED <<disk, sealed, intact, edits>>
      BY <1>6 DEF CompareInput, DirType, diskVars
    <2> QED
      BY <2>1, ManyArtifacts DEF DirType
  <1>7. CASE Conclude \/ RunUnreadable
    BY <1>7, DirKept DEF Conclude, RunUnreadable, ReadFails, Refused, diskVars, checkVars
  <1>8. CASE \/ Ended \/ UNCHANGED vars
             \/ \E m \in Moving : Replace(m[1], m[2])
    <2>1. UNCHANGED <<step, diskVars, checkVars, edits>>
      BY <1>8 DEF Ended, vars, Replace
    <2> QED
      BY <2>1 DEF DirType, diskVars, checkVars
  <1> QED
    BY <1>1, <1>2, <1>3, <1>4, <1>5, <1>6, <1>7, <1>8, LoadTypes, TamperTypes DEF Next, Run, Verify

LEMMA OutsideTypeStep ==
    ASSUME OutsideType, InputInv, [Next]_vars
    PROVE  OutsideType'
  <1> USE DEF OutsideType
  <1>1. CASE LoadProfile \/ CheckSecret \/ GiveUp \/ Build \/ LoadSealedRun
    BY <1>1 DEF LoadProfile, CheckSecret, GiveUp, Build, LoadSealedRun, bundleVars
  <1>2. ASSUME NEW f \in Inputs, NEW next, Capture(f, next) PROVE OutsideType'
    <2>1. input[f] \in Contents[f]
      BY DEF InputInv
    <2>2. \A g \in DOMAIN captured' : captured'[g] \in Contents[g] \ {Absent}
      BY <1>2, <2>1 DEF Capture
    <2> QED
      BY <1>2, <2>2 DEF Capture
  <1>3. CASE BeginVerification
    BY <1>3, BundleAssumption DEF BeginVerification, Inputs
  <1>4. CASE CheckManifest
    <2>1. passing' \in BOOLEAN
      BY <1>4 DEF CheckManifest, ManifestChecks
    <2> QED
      BY <1>4, <2>1 DEF CheckManifest
  <1>5. CASE CompareInput \/ Conclude
    <2>1. passing' \in BOOLEAN
      BY <1>5 DEF CompareInput, Conclude
    <2>2. unread' \in BOOLEAN
      BY <1>5 DEF CompareInput, Conclude
    <2> QED
      BY <1>5, <2>1, <2>2 DEF CompareInput, Conclude
  <1>6. ASSUME NEW m \in Moving, Replace(m[1], m[2]) PROVE OutsideType'
    <2>1. m[1] \in Inputs /\ m[2] \in UNION {Contents[f] : f \in Inputs}
      BY BundleAssumption
    <2>2. input' \in [Inputs -> UNION {Contents[f] : f \in Inputs}]
      BY <1>6, <2>1 DEF Replace
    <2>3. moved' \subseteq Inputs \cup {"policy"}
      BY <1>6, <2>1 DEF Replace, ReadOf
    <2> QED
      BY <1>6, <2>2, <2>3 DEF Replace
  <1>7. CASE (Tamper /\ UNCHANGED bundleVars) \/ Ended \/ UNCHANGED vars
    BY <1>7 DEF Ended, vars, bundleVars
  <1>8. CASE Run
    BY <1>1, <1>2, <1>8 DEF Run, Inputs
  <1>9. CASE RunUnreadable
    BY <1>9 DEF RunUnreadable
  <1> QED
    BY <1>1, <1>3, <1>4, <1>5, <1>6, <1>7, <1>8, <1>9 DEF Next, Verify

-----------------------------------------------------------------------------
\* After it has been loaded the profile is a valid one, and after they have been
\* read the feed and the catalog are in the bundle.
PriceInv ==
    /\ step \notin {"load", "blocked"} =>
         ValidPricing(profile.pricing) /\ \E q \in Profiles : profile = ProfileOf[q]
    /\ step \notin {"load", "source", "blocked"} =>
         "source" \in DOMAIN captured /\ captured["source"] \in Feeds
    /\ step \notin {"load", "source", "catalog", "blocked"} =>
         "catalog" \in DOMAIN captured /\ captured["catalog"] \in Catalogs

\* The parts of a run after the loading of the profile.
LEMMA PriceKept ==
    ASSUME PriceInv, UNCHANGED <<profile, captured>>,
           \/ step' \in {"load", "blocked"} \/ step' = step
           \/ step \notin {"load", "source", "catalog", "blocked"}
    PROVE  PriceInv'
  BY DEF PriceInv

LEMMA CapturePrices ==
    ASSUME PriceInv, InputInv, NEW f \in Inputs, NEW next, Capture(f, next),
           <<f, next>> \in {<<"source", "catalog">>, <<"catalog", "secret">>,
                             <<"config", "state">>, <<"state", "build">>}
    PROVE  PriceInv'
  <1>1. step = f /\ step' = next /\ UNCHANGED profile
    BY DEF Capture
  <1>2. CASE f \in {"config", "state"}
    <2>1. /\ DOMAIN captured \subseteq DOMAIN captured'
          /\ \A g \in DOMAIN captured \ {f} : captured'[g] = captured[g]
      BY DEF Capture
    <2> QED
      BY <1>1, <1>2, <2>1 DEF PriceInv
  <1>3. CASE f \in {"source", "catalog"}
    <2>1. input[f] # Absent /\ (f = "source" => input[f] \in Feeds)
            /\ (f = "catalog" => input[f] \in Catalogs)
      BY <1>3, AbsentAssumption DEF InputInv, Contents, Inputs
    <2>2. captured' = [g \in DOMAIN captured \cup {f} |-> IF g = f THEN input[f] ELSE captured[g]]
      BY <2>1 DEF Capture
    <2>3. /\ f \in DOMAIN captured' /\ captured'[f] = input[f]
          /\ DOMAIN captured \subseteq DOMAIN captured'
          /\ \A g \in DOMAIN captured \ {f} : captured'[g] = captured[g]
      BY <2>2
    <2> QED
      BY <1>1, <1>3, <2>1, <2>3 DEF PriceInv
  <1> QED
    BY <1>2, <1>3 DEF Inputs

LEMMA PriceStep ==
    ASSUME PriceInv, InputInv, [Next]_vars
    PROVE  PriceInv'
  <1>1. CASE LoadProfile
    <2>1. step' \in {"source", "blocked"} /\ profile' = ProfileOf[input["config"]]
          /\ (step' = "source" => ValidPricing(profile'.pricing))
      BY <1>1 DEF LoadProfile
    <2>2. input["config"] \in Profiles
      BY DEF InputInv, Contents, Inputs
    <2>3. step' = "source" => ValidPricing(profile.pricing)'
      BY <2>1 DEF ValidPricing
    <2> QED
      BY <2>1, <2>2, <2>3 DEF PriceInv
  <1>2. CASE \/ Capture("source", "catalog") \/ Capture("catalog", "secret")
             \/ Capture("config", "state") \/ Capture("state", "build")
    BY <1>2, CapturePrices DEF Inputs
  <1>3. CASE CheckSecret \/ GiveUp \/ Build
    BY <1>3, PriceKept DEF CheckSecret, GiveUp, Build, Seal, bundleVars
  <1>4. CASE Verify
    <2>1. UNCHANGED <<profile, captured>> /\ step \notin {"load", "source", "catalog", "blocked"}
      <3>1. CASE LoadSealedRun
        BY <3>1
           DEF LoadSealedRun, Load, ReadSeal, NoSeal, List, WrongFileSet, Read, Mismatch, Relist,
               FileSetChanged, RereadSeal, SealChanged, Reread, ChangedMeanwhile, Refused, bundleVars
      <3> QED
        BY <1>4, <3>1
           DEF Verify, BeginVerification, RunUnreadable, ReadFails, Refused, LoadSteps,
               CheckManifest, CompareInput, Conclude
    <2> QED
      BY <2>1, PriceKept
  <1>5. CASE Tamper /\ UNCHANGED bundleVars
    BY <1>5, PriceKept DEF Tamper, Overwrite, Delete, Restore, Edit, bundleVars
  <1>6. ASSUME NEW m \in Moving, Replace(m[1], m[2]) PROVE PriceInv'
    BY <1>6, PriceKept DEF Replace
  <1>7. CASE Ended \/ UNCHANGED vars
    BY <1>7, PriceKept DEF Ended, vars, bundleVars
  <1> QED
    BY <1>1, <1>2, <1>3, <1>4, <1>5, <1>6, <1>7 DEF Next, Run

\* build_proposal: what follows from a price that is up for review.
LEMMA ReadyPrice ==
    ASSUME NEW item, NEW match, NEW pricing, NEW now,
           item.price \in Int, now \in Int, pricing.limit \in Int, ValidPricing(pricing),
           Proposal(item, match, now, Context(pricing)).status = "ready_for_review"
    PROVE  LET row == Proposal(item, match, now, Context(pricing))
           IN  /\ match.status = "exact" /\ match.product # Nobody
               /\ row.product = match.product
               /\ row.proposed = 110 * item.price
               /\ row.proposed - 100 * now <= pricing.limit * now
               /\ 100 * now - row.proposed <= pricing.limit * now
  <1> DEFINE context == Context(pricing)
             proposed == item.price * context.rule.multiplier
             row == Proposal(item, match, now, context)
  <1>1. Blocker(item, match, context) = "none"
    BY DEF Proposal, Blocker
  <1>2. match.status = "exact" /\ match.product # Nobody /\ context.rule # NoRule
    BY <1>1 DEF Blocker
  <1>3. context.rule.multiplier = 110 /\ context.limit = pricing.limit
    BY <1>2 DEF Context, ValidPricing
  <1>4. /\ row.product = match.product /\ row.proposed = proposed
        /\ DeltaStatus(proposed, now, context.limit) = "ready_for_review"
    BY <1>1 DEF Proposal
  <1>5. proposed = 110 * item.price /\ proposed \in Int
    BY <1>3
  <1> HIDE DEF proposed, context, row
  <1>6. pricing.limit * now \in Int
    OBVIOUS
  <1>7. /\ proposed - 100 * now <= pricing.limit * now
        /\ 100 * now - proposed <= pricing.limit * now
    BY <1>3, <1>4, <1>5, <1>6 DEF DeltaStatus
  <1> QED
    BY <1>2, <1>4, <1>5, <1>7 DEF row, context

-----------------------------------------------------------------------------
UpTo(S, n) == {m \in S : m <= n}

\* The elements of a set of naturals have the ranks 1 to their number, each one
\* once.
LEMMA Ranks ==
    ASSUME NEW S \in SUBSET Nat, IsFiniteSet(S)
    PROVE  /\ Cardinality(S) \in Nat
           /\ \A m, n \in S : Cardinality(UpTo(S, m)) = Cardinality(UpTo(S, n)) => m = n
           /\ \A n \in S : Cardinality(UpTo(S, n)) \in 1..Cardinality(S)
           /\ \A k \in 1..Cardinality(S) : \E n \in S : Cardinality(UpTo(S, n)) = k
  <1> DEFINE rank == [n \in S |-> Cardinality(UpTo(S, n))]
  <1>1. \A n \in S : IsFiniteSet(UpTo(S, n)) /\ Cardinality(UpTo(S, n)) <= Cardinality(S)
    BY FS_Subset DEF UpTo
  <1>2. Cardinality(S) \in Nat /\ \A n \in S : Cardinality(UpTo(S, n)) \in Nat
    BY <1>1, FS_CardinalityType
  <1>3. \A n \in S : Cardinality(UpTo(S, n)) \in 1..Cardinality(S)
    <2> SUFFICES ASSUME NEW n \in S PROVE Cardinality(UpTo(S, n)) # 0
      BY <1>1, <1>2
    <2>1. n \in UpTo(S, n)
      BY DEF UpTo
    <2> QED
      BY <1>1, <2>1, FS_EmptySet
  <1>4. ASSUME NEW m \in S, NEW n \in S, m < n
        PROVE  Cardinality(UpTo(S, m)) # Cardinality(UpTo(S, n))
    <2>1. UpTo(S, m) \in SUBSET UpTo(S, n) /\ n \in UpTo(S, n) /\ n \notin UpTo(S, m)
      <3>1. m \in Nat /\ n \in Nat /\ \A l \in S : l \in Nat
        OBVIOUS
      <3>2. /\ \A l \in S : l <= m => l <= n
            /\ n <= n /\ ~(n <= m)
        BY <1>4, <3>1
      <3> QED
        BY <3>2, Zenon DEF UpTo
    <2> QED
      BY <1>1, <2>1, FS_Subset
  <1>5. \A m, n \in S : Cardinality(UpTo(S, m)) = Cardinality(UpTo(S, n)) => m = n
    BY <1>4
  <1>6. rank \in Injection(S, 1..Cardinality(S))
    BY <1>3, <1>5, Fun_IsInj
  <1>7. IsFiniteSet(1..Cardinality(S)) /\ Cardinality(1..Cardinality(S)) = Cardinality(S)
    BY <1>2, FS_Interval
  <1>8. rank \in Surjection(S, 1..Cardinality(S))
    BY <1>6, <1>7, FS_Injection
  <1>9. \A k \in 1..Cardinality(S) : \E n \in S : Cardinality(UpTo(S, n)) = k
    <2>1. \A k \in 1..Cardinality(S) : \E n \in S : rank[n] = k
      <3> HIDE DEF rank
      <3> QED
        BY <1>8, Fun_SurjectionProperties
    <2> QED
      BY <2>1
  <1> QED
    BY <1>2, <1>3, <1>5, <1>9

\* A table whose rows are the chosen ones of another, one by one.
OneByOne(table, rows, chosen) ==
    \E f \in Bijection(1..Cardinality(chosen), chosen) :
       \A k \in 1..Cardinality(chosen) : table[k] = rows[f[k]]

\* The chosen rows are all there: each one once, and nothing else.
LEMMA SelectedRows ==
    ASSUME NEW rows, NEW chosen, chosen \in SUBSET DOMAIN rows,
           DOMAIN rows \in SUBSET Nat, IsFiniteSet(chosen)
    PROVE  /\ Cardinality(chosen) \in Nat
           /\ Len(SelectRows(rows, chosen)) = Cardinality(chosen)
           /\ DOMAIN SelectRows(rows, chosen) = 1..Cardinality(chosen)
           /\ OneByOne(SelectRows(rows, chosen), rows, chosen)
  <1> DEFINE f == [k \in 1..Cardinality(chosen) |->
                     CHOOSE n \in chosen : Cardinality(UpTo(chosen, n)) = k]
             table == [k \in 1..Cardinality(chosen) |-> rows[f[k]]]
  <1>1. /\ Cardinality(chosen) \in Nat
        /\ \A m, n \in chosen : Cardinality(UpTo(chosen, m)) = Cardinality(UpTo(chosen, n)) => m = n
        /\ \A n \in chosen : Cardinality(UpTo(chosen, n)) \in 1..Cardinality(chosen)
        /\ \A k \in 1..Cardinality(chosen) : \E n \in chosen : Cardinality(UpTo(chosen, n)) = k
    BY Ranks
  <1>2. SelectRows(rows, chosen) = table
    <2> DEFINE places == chosen \cap DOMAIN rows
    <2>1. SelectRows(rows, chosen) =
            [k \in 1..Cardinality(places) |->
               rows[CHOOSE n \in places : Cardinality(UpTo(places, n)) = k]]
      BY DEF SelectRows, UpTo
    <2>2. places = chosen
      OBVIOUS
    <2> HIDE DEF places
    <2>3. table = [k \in 1..Cardinality(places) |->
                     rows[CHOOSE n \in places : Cardinality(UpTo(places, n)) = k]]
      BY <2>2
    <2> QED
      BY <2>1, <2>3
  <1>3. \A k \in 1..Cardinality(chosen) : f[k] \in chosen /\ Cardinality(UpTo(chosen, f[k])) = k
    BY <1>1
  <1>4. f \in Bijection(1..Cardinality(chosen), chosen)
    <2>1. f \in [1..Cardinality(chosen) -> chosen]
      BY <1>3
    <2>2. \A j, k \in 1..Cardinality(chosen) : f[j] = f[k] => j = k
      <3> HIDE DEF f
      <3> QED
        BY <1>3
    <2>3. \A n \in chosen : \E k \in 1..Cardinality(chosen) : f[k] = n
      <3> HIDE DEF f
      <3> QED
        BY <1>1, <1>3
    <2> HIDE DEF f
    <2> QED
      BY <2>1, <2>2, <2>3, Fun_IsBij
  <1>5. DOMAIN table = 1..Cardinality(chosen) /\ Len(table) = Cardinality(chosen)
    BY <1>1
  <1>6. OneByOne(table, rows, chosen)
    <2> HIDE DEF f
    <2> QED
      BY <1>4 DEF OneByOne
  <1> HIDE DEF table
  <1> QED
    BY <1>1, <1>2, <1>5, <1>6, Zenon

\* As many rows hold a value as chosen ones did.
LEMMA SelectedTimes ==
    ASSUME NEW rows, NEW chosen, chosen \in SUBSET DOMAIN rows,
           DOMAIN rows \in SUBSET Nat, IsFiniteSet(chosen), NEW t
    PROVE  /\ Times(SelectRows(rows, chosen), t) = Cardinality({i \in chosen : rows[i] = t})
           /\ IsFiniteSet({i \in chosen : rows[i] = t})
  <1> DEFINE table == SelectRows(rows, chosen)
             here  == {k \in DOMAIN table : table[k] = t}
             there == {i \in chosen : rows[i] = t}
  <1>0. chosen \in SUBSET DOMAIN rows /\ DOMAIN rows \in SUBSET Nat /\ IsFiniteSet(chosen)
    OBVIOUS
  <1>1. /\ Cardinality(chosen) \in Nat
        /\ Len(table) = Cardinality(chosen)
        /\ DOMAIN table = 1..Cardinality(chosen)
        /\ OneByOne(table, rows, chosen)
    BY <1>0, SelectedRows, Zenon
  <1> HIDE DEF table
  <1>2. PICK f \in Bijection(DOMAIN table, chosen) : \A k \in DOMAIN table : table[k] = rows[f[k]]
    BY <1>1 DEF OneByOne
  <1>3. /\ f \in [DOMAIN table -> chosen]
        /\ \A j, k \in DOMAIN table : f[j] = f[k] => j = k
        /\ \A i \in chosen : \E k \in DOMAIN table : f[k] = i
    BY Fun_BijectionProperties
  <1> DEFINE g == [k \in here |-> f[k]]
  <1>4. g \in [here -> there]
    BY <1>2, <1>3
  <1>5. \A j, k \in here : g[j] = g[k] => j = k
    BY <1>3
  <1>6. \A i \in there : \E k \in here : g[k] = i
    BY <1>2, <1>3
  <1>7. g \in Bijection(here, there)
    <2> HIDE DEF g, here, there
    <2> QED
      BY <1>4, <1>5, <1>6, Fun_IsBij
  <1>8. IsFiniteSet(DOMAIN table) /\ here \in SUBSET DOMAIN table
    BY <1>1, FS_Interval
  <1>9. IsFiniteSet(here)
    BY <1>8, FS_Subset
  <1>10. ExistsBijection(here, there)
    BY <1>7, Fun_ExistsBij
  <1>11. IsFiniteSet(there) /\ Cardinality(there) = Cardinality(here)
    BY <1>9, <1>10, FS_Bijection
  <1> QED
    BY <1>11 DEF Times, table

\* The exact matches of a source category, and those with another target.
ExactIn(items, matches, path) ==
    {i \in DOMAIN items :
        /\ items[i].path = path
        /\ matches[i].status = "exact" /\ matches[i].product # Nobody}
Against(here, matches, targetOf, target) == {i \in here : targetOf[matches[i].product] # target}

\* mapping_status: a category is only proposed when enough of the exact matches
\* it was learned from are in it.
LEMMA MappingShare ==
    ASSUME NEW items, NEW matches, NEW targetOf, NEW path,
           DOMAIN items \in SUBSET Nat, IsFiniteSet(DOMAIN items)
    PROVE  Supported(Mapping(path, items, matches, targetOf).status,
                     ExactIn(items, matches, path),
                     Against(ExactIn(items, matches, path), matches, targetOf,
                             Mapping(path, items, matches, targetOf).target))
  <1> DEFINE exact == ExactIn(items, matches, path)
             named == [i \in DOMAIN items |->
                         IF i \in exact THEN targetOf[matches[i].product] ELSE NoTarget]
             learned == SelectRows(named, exact)
             top     == TopTarget(learned)
             same    == {i \in exact : named[i] = top}
             others  == {i \in exact : named[i] # top}
             row     == Mapping(path, items, matches, targetOf)
  <1>1. /\ row.support = Len(learned) /\ row.target = top
        /\ row.status = MappingStatus(Len(learned), Times(learned, top))
    <2>1. exact = {i \in {j \in DOMAIN items : items[j].path = path} :
                     matches[i].status = "exact" /\ matches[i].product # Nobody}
      BY DEF ExactIn
    <2> QED
      BY <2>1 DEF Mapping
  <1>2. exact \in SUBSET DOMAIN items
    BY DEF ExactIn
  <1>3. IsFiniteSet(exact)
    BY <1>2, FS_Subset
  <1>4. DOMAIN named = DOMAIN items
    OBVIOUS
  <1> HIDE DEF exact
  <1>5. others = {i \in exact : targetOf[matches[i].product] # top}
    <2>1. \A i \in exact : named[i] = targetOf[matches[i].product]
      BY <1>2
    <2> HIDE DEF top, named
    <2> QED
      BY <2>1
  <1> HIDE DEF named
  <1>6. /\ Len(learned) = Cardinality(exact) /\ Cardinality(exact) \in Nat
        /\ Times(learned, top) = Cardinality(same) /\ IsFiniteSet(same)
    <2>1. exact \in SUBSET DOMAIN named /\ DOMAIN named \in SUBSET Nat
      BY <1>2, <1>4
    <2>2. Len(learned) = Cardinality(exact) /\ Cardinality(exact) \in Nat
      BY <1>3, <2>1, SelectedRows, Zenon
    <2> HIDE DEF top
    <2>3. Times(learned, top) = Cardinality(same) /\ IsFiniteSet(same)
      BY <1>3, <2>1, SelectedTimes, Zenon
    <2> QED
      BY <2>2, <2>3
  <1>7. IsFiniteSet(others)
    BY <1>3, FS_Subset
  <1>8. same \cup others = exact /\ same \cap others = {}
    OBVIOUS
  <1> HIDE DEF same, others, learned, top, row
  <1>9. Cardinality(exact) = Cardinality(same) + Cardinality(others)
        /\ Cardinality(same) \in Nat /\ Cardinality(others) \in Nat
    <2>1. Cardinality(same \cup others) =
             Cardinality(same) + Cardinality(others) - Cardinality(same \cap others)
      BY <1>6, <1>7, FS_Union
    <2>2. Cardinality(same \cap others) = 0
      BY <1>8, FS_EmptySet
    <2>3. Cardinality(same) \in Nat /\ Cardinality(others) \in Nat
      BY <1>6, <1>7, FS_CardinalityType
    <2>4. Cardinality(exact) = Cardinality(same) + Cardinality(others) - 0
      BY <1>8, <2>1, <2>2
    <2> QED
      BY <2>3, <2>4
  <1>10. row.status = "strong_candidate" => Cardinality(exact) >= 3 /\ others = {}
    <2>1. row.status = "strong_candidate" => Cardinality(exact) >= 3 /\ Cardinality(others) = 0
      BY <1>1, <1>6, <1>9 DEF MappingStatus
    <2> QED
      BY <1>7, <2>1, FS_EmptySet
  <1>11. row.status = "review_candidate" =>
            Cardinality(exact) >= 2 /\ Cardinality(others) * 5 <= Cardinality(exact)
    <2> SUFFICES ASSUME row.status = "review_candidate"
                 PROVE  Cardinality(exact) >= 2 /\ Cardinality(others) * 5 <= Cardinality(exact)
      OBVIOUS
    <2>1. Cardinality(exact) >= 2 /\ 5 * Cardinality(same) >= 4 * Cardinality(exact)
      BY <1>1, <1>6 DEF MappingStatus
    <2> QED
      BY <1>9, <2>1
  <1>12. Supported(row.status, exact, others)
    BY <1>10, <1>11 DEF Supported
  <1>13. others = Against(exact, matches, targetOf, row.target)
    BY <1>1, <1>5 DEF Against
  <1> QED
    BY <1>12, <1>13 DEF row, exact

-----------------------------------------------------------------------------
\* A run that exists: its inputs, and that each artifact is as written of them.
LEMMA MadeFacts ==
    ASSUME VerifyInv, InputInv, PriceInv, made # Empty
    PROVE  /\ captured["source"] \in Feeds /\ captured["catalog"] \in Catalogs
           /\ {"source", "catalog", "config"} \subseteq DOMAIN captured
           /\ made["source"] = captured["source"] /\ made["catalog"] = captured["catalog"]
           /\ SealOf(made) = Bundle(captured, profile)
           /\ \A f \in Artifacts \ Inputs :
                /\ f \in DOMAIN SealOf(made)
                /\ made[f] = Written(f, captured, profile)
                /\ SealOf(made)[f] = Written(f, captured, profile)
           /\ \A f \in TableNames :
                /\ f \in Artifacts \ Inputs
                /\ Written(f, captured, profile) =
                     Tables(captured["source"], captured["catalog"], Context(profile.pricing))[f]
  <1>1. step \notin BuildSteps
    BY DEF VerifyInv, DiskInv
  <1>2. /\ captured["source"] \in Feeds /\ captured["catalog"] \in Catalogs
        /\ {"source", "catalog", "config"} \subseteq DOMAIN captured
    BY <1>1 DEF PriceInv, InputInv, BuildSteps, BeforeConfig
  <1>3. /\ made["source"] = captured["source"] /\ made["catalog"] = captured["catalog"]
        /\ SealOf(made) = Bundle(captured, profile)
    BY <1>2 DEF InputInv
  <1>4. ASSUME NEW f \in Artifacts \ Inputs
        PROVE  /\ f \in DOMAIN SealOf(made)
               /\ made[f] = Written(f, captured, profile)
               /\ SealOf(made)[f] = Written(f, captured, profile)
    <2>1. f \in DOMAIN Bundle(captured, profile)
          /\ Bundle(captured, profile)[f] = Written(f, captured, profile)
      BY DEF Bundle
    <2>2. made[f] = SealOf(made)[f]
      BY <1>3, <2>1 DEF SealOf
    <2> QED
      BY <1>3, <2>1, <2>2
  <1>5. ASSUME NEW f \in TableNames
        PROVE  /\ f \in Artifacts \ Inputs
               /\ Written(f, captured, profile) =
                    Tables(captured["source"], captured["catalog"], Context(profile.pricing))[f]
    <2>1. f \in Artifacts \ Inputs
      BY BundleAssumption DEF TableNames, Inputs
    <2>2. f \in DOMAIN Tables(captured["source"], captured["catalog"], Context(profile.pricing))
      BY DEF Tables, TableNames
    <2>3. f \notin {"jsonl", "next_state", "summary", "report", "database", "manifest"}
      BY DEF TableNames
    <2> QED
      BY <2>1, <2>2, <2>3 DEF Written
  <1>6. \A f \in Artifacts \ Inputs :
           /\ f \in DOMAIN SealOf(made)
           /\ made[f] = Written(f, captured, profile)
           /\ SealOf(made)[f] = Written(f, captured, profile)
    BY <1>4, Zenon
  <1>7. \A f \in TableNames :
           /\ f \in Artifacts \ Inputs
           /\ Written(f, captured, profile) =
                Tables(captured["source"], captured["catalog"], Context(profile.pricing))[f]
    BY <1>5, Zenon
  <1> QED
    BY <1>2, <1>3, <1>6, <1>7, Zenon

\* A feed has its items at the places 1 to their number, and every item is
\* matched exactly, or in a way that asks for review, or not at all.
LEMMA ItemPartition ==
    ASSUME NEW feed \in Feeds, NEW catalog \in Catalogs
    PROVE  LET items   == ItemsOf[feed]
               matches == Matched[feed, catalog]
               exact   == {i \in DOMAIN items : matches[i].status = "exact"}
               review  == {i \in DOMAIN items : InReview(matches[i])}
               rest    == {i \in DOMAIN items : SourceOnly(matches[i])}
           IN  /\ Len(items) \in Nat /\ DOMAIN items = 1..Len(items)
               /\ IsFiniteSet(DOMAIN items) /\ Cardinality(DOMAIN items) = Len(items)
               /\ IsFiniteSet(exact) /\ IsFiniteSet(review) /\ IsFiniteSet(rest)
               /\ Len(items) = Cardinality(exact) + Cardinality(review) + Cardinality(rest)
  <1> DEFINE items   == ItemsOf[feed]
             matches == Matched[feed, catalog]
             exact   == {i \in DOMAIN items : matches[i].status = "exact"}
             review  == {i \in DOMAIN items : InReview(matches[i])}
             rest    == {i \in DOMAIN items : SourceOnly(matches[i])}
             known   == exact \cup review
  <1>1. Len(items) \in Nat /\ DOMAIN items = 1..Len(items)
    BY FiniteAssumption
  <1>2. IsFiniteSet(DOMAIN items) /\ Cardinality(DOMAIN items) = Len(items)
    BY <1>1, FS_Interval
  <1>3. \A i \in DOMAIN items : matches[i].status \in MatchStatuses
    BY MatchedAssumption
  <1>4. /\ known \cup rest = DOMAIN items
        /\ exact \cap review = {} /\ known \cap rest = {}
    <2>1. \A i \in DOMAIN items : i \in exact \/ i \in review \/ i \in rest
      BY <1>3 DEF MatchStatuses, InReview, SourceOnly
    <2>2. \A i : ~(i \in exact /\ i \in review) /\ ~(i \in known /\ i \in rest)
      BY DEF InReview, SourceOnly
    <2> QED
      BY <2>1, <2>2
  <1>5. exact \in SUBSET DOMAIN items /\ review \in SUBSET DOMAIN items /\ rest \in SUBSET DOMAIN items
    OBVIOUS
  <1> HIDE DEF items, matches, exact, review, rest
  <1>6. IsFiniteSet(exact) /\ IsFiniteSet(review) /\ IsFiniteSet(rest)
    BY <1>2, <1>5, FS_Subset
  <1>7. /\ IsFiniteSet(known)
        /\ Cardinality(known) = Cardinality(exact) + Cardinality(review) - Cardinality(exact \cap review)
    BY <1>6, FS_Union
  <1> HIDE DEF known
  <1>8. Cardinality(known \cup rest) = Cardinality(known) + Cardinality(rest) - Cardinality(known \cap rest)
    BY <1>6, <1>7, FS_Union
  <1>9. /\ Cardinality(exact) \in Nat /\ Cardinality(review) \in Nat /\ Cardinality(rest) \in Nat
        /\ Cardinality(exact \cap review) = 0 /\ Cardinality(known \cap rest) = 0
    BY <1>4, <1>6, FS_CardinalityType, FS_EmptySet
  <1>10. Len(items) = Cardinality(known) + Cardinality(rest) - 0
    BY <1>2, <1>4, <1>8, <1>9
  <1>11. Cardinality(known) = Cardinality(exact) + Cardinality(review) - 0
    BY <1>7, <1>9
  <1>12. Len(items) = Cardinality(exact) + Cardinality(review) + Cardinality(rest)
    BY <1>9, <1>10, <1>11
  <1> QED
    BY <1>1, <1>2, <1>6, <1>12 DEF items, matches, exact, review, rest

\* What some of the artifacts of a run are.
LEMMA ArtifactFacts ==
    ASSUME VerifyInv, InputInv, PriceInv, made # Empty
    PROVE  LET items    == ItemsOf[captured["source"]]
               matches  == Matched[captured["source"], captured["catalog"]]
               listed   == ListedIn[captured["catalog"]]
               cells    == [i \in DOMAIN items |-> CsvCell(items[i].id)]
               mapping  == CategoryMapping(items, matches, [p \in DOMAIN listed |-> listed[p].target])
               review   == {i \in DOMAIN items : InReview(matches[i])}
               rest     == {i \in DOMAIN items : SourceOnly(matches[i])}
           IN  /\ made["jsonl"] = [i \in DOMAIN items |-> items[i].id]
               /\ made["matches"] = [i \in DOMAIN items |-> [id |-> cells[i], status |-> matches[i].status]]
               /\ made["source_only"] = SelectRows(cells, rest)
               /\ made["review_queue"] = SelectRows(cells, review)
               /\ made["category_mapping"] = mapping
               /\ made["product_categories"] =
                    SelectRows([i \in DOMAIN items |->
                                  [id |-> cells[i], status |-> CategoryProposal(mapping[items[i].path])]],
                               rest)
               /\ \A i \in DOMAIN items : made["proposals"][i].product = matches[i].product
  <1> DEFINE tables == Tables(captured["source"], captured["catalog"], Context(profile.pricing))
  <1>1. \A f \in TableNames : made[f] = tables[f]
    BY MadeFacts
  <1>2. {"matches", "source_only", "review_queue", "category_mapping", "product_categories",
         "proposals"} \subseteq TableNames
    BY DEF TableNames
  <1>3. made["jsonl"] = [i \in DOMAIN ItemsOf[captured["source"]] |-> ItemsOf[captured["source"]][i].id]
    <2>1. "jsonl" \in Artifacts \ Inputs
      BY BundleAssumption DEF Inputs
    <2>2. "jsonl" \notin DOMAIN tables
      BY DEF Tables
    <2>3. made["jsonl"] = Written("jsonl", captured, profile)
      BY <2>1, MadeFacts
    <2> QED
      BY <2>2, <2>3 DEF Written
  <1>4. \A i \in DOMAIN ItemsOf[captured["source"]] :
           made["proposals"][i].product = Matched[captured["source"], captured["catalog"]][i].product
    <2> DEFINE items   == ItemsOf[captured["source"]]
               matches == Matched[captured["source"], captured["catalog"]]
               listed  == ListedIn[captured["catalog"]]
               price(i) == IF matches[i].product = Nobody THEN 0 ELSE listed[matches[i].product].price
               row(i)  == Proposal(items[i], matches[i], price(i), Context(profile.pricing))
    <2>1. made["proposals"] = [i \in DOMAIN items |-> row(i)]
      BY <1>1, <1>2, Zenon DEF Tables
    <2>2. \A i : row(i).product = matches[i].product
      BY DEF Proposal
    <2> HIDE DEF items, matches, row
    <2>3. \A i \in DOMAIN items : made["proposals"][i].product = matches[i].product
      BY <2>1, <2>2
    <2> QED
      BY <2>3 DEF items, matches
  <1> QED
    BY <1>1, <1>2, <1>3, <1>4, Zenon DEF Tables

-----------------------------------------------------------------------------
\* What a run writes: tables, summary and manifest, by name.
TablesOf(inputs, loaded) == Tables(inputs["source"], inputs["catalog"], Context(loaded.pricing))
SummaryOf(inputs, loaded) ==
    Summary(TablesOf(inputs, loaded), ItemsOf[inputs["source"]], ListedIn[inputs["catalog"]],
            loaded.acts)

LEMMA WrittenFacts ==
    ASSUME NEW inputs, NEW loaded
    PROVE  /\ DOMAIN TablesOf(inputs, loaded) = TableNames
           /\ TablesOf(inputs, loaded) = [f \in TableNames |-> TablesOf(inputs, loaded)[f]]
           /\ Written("summary", inputs, loaded) = SummaryOf(inputs, loaded)
           /\ Written("database", inputs, loaded) = TablesOf(inputs, loaded)
           /\ Written("jsonl", inputs, loaded) =
                [i \in DOMAIN ItemsOf[inputs["source"]] |-> ItemsOf[inputs["source"]][i].id]
           /\ Written("manifest", inputs, loaded) =
                Manifest(inputs, Context(loaded.pricing), SummaryOf(inputs, loaded))
  <1> DEFINE tables == TablesOf(inputs, loaded)
  <1>1. DOMAIN tables = TableNames
    BY DEF TablesOf, Tables, TableNames
  <1>2. tables = [f \in DOMAIN tables |-> tables[f]]
    BY DEF TablesOf, Tables
  <1>3. "summary" \notin DOMAIN tables /\ "database" \notin DOMAIN tables
        /\ "jsonl" \notin DOMAIN tables /\ "manifest" \notin DOMAIN tables
    BY <1>1 DEF TableNames
  <1>4. Written("summary", inputs, loaded) = SummaryOf(inputs, loaded)
    BY <1>3 DEF Written, TablesOf, SummaryOf
  <1>5. Written("database", inputs, loaded) = tables
    BY <1>3 DEF Written, TablesOf, SummaryOf
  <1>6. Written("jsonl", inputs, loaded) =
          [i \in DOMAIN ItemsOf[inputs["source"]] |-> ItemsOf[inputs["source"]][i].id]
    BY <1>3 DEF Written, TablesOf, SummaryOf
  <1>7. Written("manifest", inputs, loaded) =
          Manifest(inputs, Context(loaded.pricing), SummaryOf(inputs, loaded))
    BY <1>3 DEF Written, TablesOf, SummaryOf
  <1> HIDE DEF tables
  <1> QED
    BY <1>1, <1>2, <1>4, <1>5, <1>6, <1>7 DEF tables

\* The seal of a run is not what somebody else writes.
LEMMA SealKnown ==
    ASSUME VerifyInv, InputInv, PriceInv, OutsideType, made # Empty
    PROVE  SealOf(made) # Alien
  <1> DEFINE x == [f \in Inputs |-> IF f \in DOMAIN captured THEN captured[f] ELSE Absent]
  <1>1. /\ {"source", "catalog", "config"} \subseteq DOMAIN captured
        /\ SealOf(made) = Bundle(captured, profile)
    BY MadeFacts
  <1>2. \A f \in DOMAIN captured : captured[f] \in Contents[f] /\ captured[f] # Absent
    BY DEF OutsideType
  <1>3. /\ DOMAIN captured \subseteq Inputs
        /\ captured = [f \in DOMAIN captured |-> captured[f]]
    BY DEF InputInv
  <1>4. \A f \in Inputs : x[f] \in Contents[f]
    <2> SUFFICES ASSUME NEW f \in Inputs PROVE x[f] \in Contents[f]
      OBVIOUS
    <2>1. CASE f \in DOMAIN captured
      BY <1>2, <2>1
    <2>2. CASE f \notin DOMAIN captured
      <3>1. f = "state" /\ x[f] = Absent
        BY <1>1, <2>2 DEF Inputs
      <3> QED
        BY <3>1 DEF Contents
    <2> QED
      BY <2>1, <2>2
  <1>5. x \in [Inputs -> UNION {Contents[f] : f \in Inputs}]
    BY <1>4
  <1>6. {g \in Inputs : x[g] # Absent} = DOMAIN captured
    BY <1>2, <1>3
  <1>7. [f \in {g \in Inputs : x[g] # Absent} |-> x[f]] = captured
    <2>1. [f \in DOMAIN captured |-> x[f]] = [f \in DOMAIN captured |-> captured[f]]
      BY <1>3
    <2> QED
      BY <1>3, <1>6, <2>1
  <1>8. PICK q \in Profiles : profile = ProfileOf[q]
    <2>1. step \notin BuildSteps
      BY DEF VerifyInv, DiskInv
    <2> QED
      BY <2>1 DEF PriceInv, BuildSteps
  <1> HIDE DEF x
  <1>9. Bundle([f \in {g \in Inputs : x[g] # Absent} |-> x[f]], ProfileOf[q]) # Alien
    BY <1>4, <1>5, AlienAssumption
  <1> QED
    BY <1>1, <1>7, <1>8, <1>9

\* The sealed manifest agrees with the sealed inputs.
LEMMA ManifestAgrees ==
    ASSUME VerifyInv, InputInv, PriceInv, made # Empty
    PROVE  /\ ManifestChecks(SealOf(made))
           /\ \A f \in DOMAIN captured : SealOf(made)["manifest"].inputs[f] = captured[f]
  <1> DEFINE files == SealOf(made)
  <1>1. /\ {"source", "catalog", "config"} \subseteq DOMAIN captured
        /\ files = Bundle(captured, profile)
        /\ \A f \in Artifacts \ Inputs : f \in DOMAIN files /\ files[f] = Written(f, captured, profile)
    BY MadeFacts
  <1>2. "manifest" \in Artifacts \ Inputs
    BY BundleAssumption DEF Inputs
  <1>3. files["manifest"] = Manifest(captured, Context(profile.pricing), SummaryOf(captured, profile))
    BY <1>1, <1>2, WrittenFacts
  <1>4. /\ DOMAIN captured \subseteq Inputs
        /\ DOMAIN files = DOMAIN captured \cup (Artifacts \ Inputs)
        /\ \A f \in DOMAIN captured : files[f] = captured[f]
    <2>1. DOMAIN captured \subseteq Inputs
      BY DEF InputInv
    <2>2. /\ DOMAIN Bundle(captured, profile) = DOMAIN captured \cup (Artifacts \ Inputs)
          /\ \A f \in DOMAIN captured : Bundle(captured, profile)[f] = captured[f]
      BY <2>1, BundleFacts
    <2> HIDE DEF files
    <2> QED
      BY <1>1, <2>1, <2>2
  <1>5. /\ \A f \in Inputs : files["manifest"].inputs[f] =
              IF f \in DOMAIN captured THEN captured[f] ELSE Absent
        /\ files["manifest"].hash = files["manifest"].policy
    BY <1>3 DEF Manifest
  <1> HIDE DEF files
  <1>6. \A f \in Inputs : f \in DOMAIN files <=> f \in DOMAIN captured
    BY <1>4
  <1>7. \A f \in Inputs \ DOMAIN captured : f \in {"config", "state"}
    BY <1>1 DEF Inputs
  <1>8. ManifestChecks(files)
    BY <1>1, <1>2, <1>4, <1>5, <1>6, <1>7 DEF ManifestChecks
  <1> QED
    BY <1>4, <1>5, <1>8 DEF files

\* The sealed summary agrees with the sealed manifest, and allows nothing when
\* products are missing.
LEMMA SummaryAgrees ==
    ASSUME VerifyInv, InputInv, PriceInv, made # Empty
    PROVE  SummaryChecks(SealOf(made))
  <1> DEFINE files == SealOf(made)
             summary == SummaryOf(captured, profile)
  <1>1. \A f \in Artifacts \ Inputs : f \in DOMAIN files /\ files[f] = Written(f, captured, profile)
    BY MadeFacts
  <1>2. {"summary", "next_state", "manifest"} \subseteq Artifacts \ Inputs
    BY BundleAssumption DEF Inputs
  <1>3. /\ files["summary"] = summary
        /\ files["manifest"] = Manifest(captured, Context(profile.pricing), summary)
    BY <1>1, <1>2, WrittenFacts
  <1>4. ~summary.complete => ~summary.decision.allowed /\ summary.decision.proposed = {}
    BY DEF SummaryOf, Summary
  <1> HIDE DEF files, summary
  <1>5. \A k \in SummaryKeys : files["manifest"].summary[k] = summary[k]
    BY <1>3 DEF Manifest
  <1> QED
    BY <1>1, <1>2, <1>3, <1>4, <1>5 DEF SummaryChecks, files

\* Every sealed table has as many rows as the sealed summary says.
LEMMA CountsAgree ==
    ASSUME NEW inputs, NEW loaded, inputs["source"] \in Feeds, inputs["catalog"] \in Catalogs
    PROVE  CountChecks(RowCounts(TablesOf(inputs, loaded)), SummaryOf(inputs, loaded))
  <1> DEFINE items   == ItemsOf[inputs["source"]]
             matches == Matched[inputs["source"], inputs["catalog"]]
             listed  == ListedIn[inputs["catalog"]]
             cells   == [i \in DOMAIN items |-> CsvCell(items[i].id)]
             mapping == CategoryMapping(items, matches, [p \in DOMAIN listed |-> listed[p].target])
             named   == [i \in DOMAIN items |->
                           [id |-> cells[i], status |-> CategoryProposal(mapping[items[i].path])]]
             review  == {i \in DOMAIN items : InReview(matches[i])}
             rest    == {i \in DOMAIN items : SourceOnly(matches[i])}
             tables  == TablesOf(inputs, loaded)
             summary == SummaryOf(inputs, loaded)
             counts  == RowCounts(tables)
  <1>1. /\ Len(items) \in Nat /\ DOMAIN items = 1..Len(items)
        /\ IsFiniteSet(DOMAIN items) /\ Cardinality(DOMAIN items) = Len(items)
        /\ IsFiniteSet(review) /\ IsFiniteSet(rest)
    BY ItemPartition, Zenon
  <1>2. /\ DOMAIN tables.normalized = DOMAIN items
        /\ DOMAIN tables.matches = DOMAIN items
        /\ DOMAIN tables.proposals = DOMAIN items
    BY DEF TablesOf, Tables
  <1>3. /\ tables.source_only = SelectRows(cells, rest)
        /\ tables.review_queue = SelectRows(cells, review)
        /\ tables.product_categories = SelectRows(named, rest)
    BY Zenon DEF TablesOf, Tables
  <1>4. /\ summary.source_items = Len(items)
        /\ summary.source_only = Len(tables.source_only)
        /\ summary.review_queue = Len(tables.review_queue)
        /\ summary.categories = Rows(tables.category_mapping)
        /\ summary.categorised = Len(tables.product_categories)
        /\ summary.missing = Cardinality(tables.missing)
    BY DEF SummaryOf, Summary
  <1>5. DOMAIN cells = DOMAIN items /\ DOMAIN named = DOMAIN items
    OBVIOUS
  <1>6. review \in SUBSET DOMAIN items /\ rest \in SUBSET DOMAIN items
    OBVIOUS
  <1>7. /\ \A t \in TableNames \ {"missing"} : counts[t] = Cardinality(DOMAIN tables[t])
        /\ counts["missing"] = Cardinality(tables["missing"])
    BY WrittenFacts DEF RowCounts, Rows, TableNames
  <1> HIDE DEF items, matches, listed, cells, mapping, named, review, rest, tables, summary, counts
  <1>8. DOMAIN items \in SUBSET Nat
    <2>1. Len(items) \in Nat /\ DOMAIN items = 1..Len(items)
      BY <1>1, Zenon
    <2> QED
      BY <2>1
  <1>9. ASSUME NEW rows, NEW chosen, DOMAIN rows = DOMAIN items, chosen \in SUBSET DOMAIN items,
               IsFiniteSet(chosen)
        PROVE  Cardinality(DOMAIN SelectRows(rows, chosen)) = Len(SelectRows(rows, chosen))
    <2>1. /\ Cardinality(chosen) \in Nat /\ Len(SelectRows(rows, chosen)) = Cardinality(chosen)
          /\ DOMAIN SelectRows(rows, chosen) = 1..Cardinality(chosen)
      BY <1>8, <1>9, SelectedRows
    <2> QED
      BY <2>1, FS_Interval
  <1>10. /\ Cardinality(DOMAIN tables.source_only) = Len(tables.source_only)
         /\ Cardinality(DOMAIN tables.review_queue) = Len(tables.review_queue)
         /\ Cardinality(DOMAIN tables.product_categories) = Len(tables.product_categories)
    <2>1. Cardinality(DOMAIN tables.source_only) = Len(tables.source_only)
      BY <1>1, <1>3, <1>5, <1>6, <1>9
    <2>2. Cardinality(DOMAIN tables.review_queue) = Len(tables.review_queue)
      BY <1>1, <1>3, <1>5, <1>6, <1>9
    <2>3. Cardinality(DOMAIN tables.product_categories) = Len(tables.product_categories)
      BY <1>1, <1>3, <1>5, <1>6, <1>9
    <2> QED
      BY <2>1, <2>2, <2>3
  <1>11. CountChecks(counts, summary)
    BY <1>1, <1>2, <1>4, <1>7, <1>10 DEF CountChecks, TableNames, Rows
  <1> QED
    BY <1>11 DEF counts, summary, tables

\* The sealed tables agree with the summary, with the database and with the
\* items as JSON lines, when no item is listed twice or quoted in CSV only, and
\* every line and cell is read back as it was written.
LEMMA ArtifactsAgree ==
    ASSUME VerifyInv, InputInv, PriceInv, made # Empty,
           ValidSnapshot(ItemsOf[captured["source"]]),
           \A i \in DOMAIN ItemsOf[captured["source"]] :
              ItemsOf[captured["source"]][i].id \notin Formulas \cup Torn,
           \A t \in TableNames : CsvReadable(t, made[t])
    PROVE  ArtifactChecks(SealOf(made))
  <1> DEFINE files   == SealOf(made)
             items   == ItemsOf[captured["source"]]
             tables  == TablesOf(captured, profile)
             summary == SummaryOf(captured, profile)
  <1>1. /\ captured["source"] \in Feeds /\ captured["catalog"] \in Catalogs
        /\ \A f \in Artifacts \ Inputs : f \in DOMAIN files /\ files[f] = Written(f, captured, profile)
        /\ \A f \in TableNames : f \in Artifacts \ Inputs
                                 /\ Written(f, captured, profile) = tables[f]
    BY MadeFacts DEF TablesOf
  <1>2. {"summary", "database", "jsonl"} \subseteq Artifacts \ Inputs
    BY BundleAssumption DEF Inputs
  <1>3. /\ files["summary"] = summary /\ files["database"] = tables
        /\ files["jsonl"] = [i \in DOMAIN items |-> items[i].id]
    BY <1>1, <1>2, WrittenFacts
  <1>4. [f \in TableNames |-> files[f]] = tables
    <2>1. \A f \in TableNames : files[f] = tables[f]
      BY <1>1
    <2>2. tables = [f \in TableNames |-> tables[f]]
      BY WrittenFacts
    <2> HIDE DEF files, tables
    <2> QED
      BY <2>1, <2>2
  <1>5. CountChecks(RowCounts(tables), summary)
    BY <1>1, CountsAgree
  <1>6. /\ summary.matches = Tally(tables.matches) /\ summary.proposals = Tally(tables.proposals)
        /\ summary.database = tables /\ summary.source_items = Len(items)
    BY DEF SummaryOf, Summary
  <1>7. Len(files["jsonl"]) = summary.source_items
    <2>1. Len(items) \in Nat /\ DOMAIN items = 1..Len(items)
      BY <1>1, FiniteAssumption
    <2> HIDE DEF items
    <2>2. files["jsonl"] = [i \in 1..Len(items) |-> items[i].id]
      BY <1>3, <2>1
    <2>3. Len(files["jsonl"]) = Len(items)
      BY <2>1, <2>2
    <2> QED
      BY <1>6, <2>3
  <1>8. {"normalized", "matches", "proposals"} \subseteq TableNames
    BY DEF TableNames
  <1>9. IdentityChecks(files["normalized"], files["jsonl"])
    <2>1. files["normalized"] = [i \in DOMAIN items |-> [id |-> CsvCell(items[i].id), sku |-> items[i].id]]
      <3>1. files["normalized"] = tables["normalized"]
        BY <1>1, <1>8
      <3> QED
        BY <3>1, Zenon DEF TablesOf, Tables
    <2>2. \A i \in DOMAIN items : CsvCell(items[i].id) = items[i].id
      BY DEF CsvCell
    <2>3. \A i, j \in DOMAIN items : items[i].id = items[j].id => i = j
      BY DEF ValidSnapshot
    <2> HIDE DEF items, files
    <2>4. /\ DOMAIN files["normalized"] = DOMAIN items
          /\ \A i \in DOMAIN items : files["normalized"][i].id = items[i].id
                                     /\ files["normalized"][i].sku = items[i].id
      BY <2>1, <2>2
    <2> QED
      BY <1>3, <2>3, <2>4 DEF IdentityChecks
  <1>10. files["matches"] = tables.matches /\ files["proposals"] = tables.proposals
    BY <1>1, <1>8
  <1>11. TableNames \cup {"jsonl", "database"} \subseteq DOMAIN files
    BY <1>1, <1>2
  <1>12. \A t \in TableNames : CsvReadable(t, files[t])
    <2>1. \A t \in TableNames : files[t] = made[t]
      BY MadeFacts
    <2> QED
      BY <2>1
  <1>13. JsonlReadable(files["jsonl"])
    BY <1>3 DEF JsonlReadable
  <1> HIDE DEF files, items, tables, summary
  <1>14. ArtifactChecks(files)
    BY <1>3, <1>4, <1>5, <1>6, <1>7, <1>9, <1>10, <1>11, <1>12, <1>13 DEF ArtifactChecks
  <1> QED
    BY <1>14 DEF files

-----------------------------------------------------------------------------
\* As long as nobody has touched the run it is as sealed, as long as nobody has
\* replaced an input it is as captured, and a check that has failed so far has
\* found an input it was told to compare replaced, or could not read it.
ReasonInv ==
    /\ edits = 0 => disk = made
    /\ \A f \in DOMAIN captured : f \in moved \/ captured[f] = input[f]
    /\ made # Empty => ValidSnapshot(ItemsOf[captured["source"]])
    /\ step \in {"external", "artifacts"} => passing \/ moved \cap asked # {} \/ unread
    /\ FailedForAReason

\* load_sealed_run refuses no run that is as it was sealed.
LEMMA IntactRunIsLoaded ==
    ASSUME VerifyInv, InputInv, PriceInv, OutsideType, disk = made, LoadSealedRun
    PROVE  step' # "failed"
  <1>1. step \in LoadSteps
    BY DEF LoadSealedRun, Load, ReadSeal, NoSeal, List, WrongFileSet, Read, Mismatch, Relist,
           FileSetChanged, RereadSeal, SealChanged, Reread, ChangedMeanwhile, Refused, LoadSteps
  <1>2. made # Empty
    BY <1>1 DEF VerifyInv, DiskInv, BuildSteps, LoadSteps
  <1>3. /\ SealName \in DOMAIN made /\ made[SealName] = SealOf(made)
        /\ DOMAIN made \subseteq Artifacts \cup {SealName}
    BY <1>2 DEF VerifyInv, DiskInv
  <1>4. SealOf(made) # Alien
    BY <1>2, SealKnown
  <1>5. ~NoSeal
    BY <1>3, <1>4 DEF NoSeal, SealReadable
  <1>6. ASSUME step \in LoadSteps \ {"seal"}
        PROVE  SameFileSet /\ Agrees /\ SealUnchanged
    <2>1. sealed = SealOf(made)
      BY <1>6 DEF VerifyInv, PassInv, SealedSteps, LoadSteps
    <2>2. DOMAIN sealed = DOMAIN made \ {SealName}
      BY <1>3, <2>1, OtherNamesAssumption DEF SealOf
    <2>3. \A f \in DOMAIN sealed : f \in DOMAIN made /\ sealed[f] = made[f]
      BY <2>1 DEF SealOf
    <2> QED
      BY <1>3, <2>1, <2>2, <2>3 DEF SameFileSet, Agrees, SealUnchanged
  <1>7. ~(WrongFileSet \/ Mismatch \/ FileSetChanged \/ SealChanged \/ ChangedMeanwhile)
    BY <1>6 DEF WrongFileSet, Mismatch, FileSetChanged, SealChanged, ChangedMeanwhile, Refused, LoadSteps
  <1> QED
    BY <1>5, <1>7 DEF LoadSealedRun, Load, ReadSeal, List, Read, Relist, RereadSeal, Reread

\* The verification itself: what it may find.
LEMMA JudgeReasons ==
    ASSUME ReasonInv, VerifyInv, InputInv, PriceInv, DirType, CheckManifest \/ CompareInput \/ Conclude
    PROVE  ReasonInv'
  <1>1. /\ UNCHANGED <<disk, made, edits, input, profile, captured, moved, asked>>
        /\ step \in {"manifest", "external", "artifacts"}
    BY DEF CheckManifest, CompareInput, Conclude, diskVars, checkVars
  <1>2. made # Empty
    BY <1>1 DEF VerifyInv, DiskInv, BuildSteps
  <1>3. sealed = SealOf(made)
    BY <1>1 DEF VerifyInv, PassInv, SealedSteps
  <1>4. made["source"] = captured["source"]
    BY <1>2, MadeFacts
  <1>5. ValidSnapshot(ItemsOf[captured["source"]])' <=> ValidSnapshot(ItemsOf[captured["source"]])
    BY <1>1 DEF ValidSnapshot
  <1>6. ASSUME step' \in {"external", "artifacts"} => passing' \/ moved \cap asked # {} \/ unread',
               FailedForAReason'
        PROVE  ReasonInv'
    BY <1>1, <1>5, <1>6 DEF ReasonInv
  <1>7. CASE CheckManifest
    <2>1. passing' = TRUE /\ step' = "external"
      BY <1>2, <1>3, <1>7, ManifestAgrees DEF CheckManifest
    <2> QED
      BY <1>6, <2>1 DEF FailedForAReason
  <1>8. CASE CompareInput
    <2> DEFINE f == <<"source", "catalog", "config">>[pos]
    <2>1. /\ step = "external" /\ step' \in {"external", "artifacts"}
          /\ \/ /\ passing' = (passing /\ (f \in asked => input[f] = sealed["manifest"].inputs[f]))
                /\ UNCHANGED unread
             \/ unread' = TRUE
      BY <1>8 DEF CompareInput
    <2>2. f \in {"source", "catalog", "config"}
      BY <2>1 DEF DirType
    <2> HIDE DEF f
    <2>3. f \in DOMAIN captured
      BY <1>2, <2>2, MadeFacts
    <2>4. sealed["manifest"].inputs[f] = captured[f]
      BY <1>2, <1>3, <2>3, ManifestAgrees
    <2>5. f \in moved \/ captured[f] = input[f]
      BY <2>3 DEF ReasonInv
    <2>6. passing \/ moved \cap asked # {} \/ unread
      BY <2>1 DEF ReasonInv
    <2>7. (f \in asked => input[f] = sealed["manifest"].inputs[f]) \/ moved \cap asked # {}
      BY <2>4, <2>5
    <2>8. passing' \/ moved \cap asked # {} \/ unread'
      <3>1. CASE unread' = TRUE
        BY <3>1
      <3>2. CASE /\ passing' = (passing /\ (f \in asked => input[f] = sealed["manifest"].inputs[f]))
                 /\ UNCHANGED unread
        BY <2>6, <2>7, <3>2
      <3> QED
        BY <2>1, <3>1, <3>2
    <2> QED
      BY <1>6, <2>1, <2>8 DEF FailedForAReason
  <1>9. CASE Conclude
    <2>1. /\ step = "artifacts" /\ step' \in {"passed", "failed"}
          /\ step' = "failed" =>
               ~(passing /\ SummaryChecks(sealed) /\ ArtifactChecks(sealed)) \/ unread'
          /\ unread => unread'
      <3>1. CASE passing' = FALSE /\ unread' = TRUE
        BY <1>9, <3>1 DEF Conclude
      <3>2. CASE /\ passing' = (passing /\ SummaryChecks(sealed) /\ ArtifactChecks(sealed))
                 /\ UNCHANGED unread
        BY <1>9, <3>2 DEF Conclude
      <3> QED
        BY <1>9, <3>1, <3>2 DEF Conclude
    <2>2. ValidSnapshot(ItemsOf[captured["source"]]) /\ (passing \/ moved \cap asked # {} \/ unread)
      BY <1>2, <2>1 DEF ReasonInv
    <2>3. SummaryChecks(sealed)
      BY <1>2, <1>3, SummaryAgrees
    <2>4. /\ \A i \in DOMAIN ItemsOf[made["source"]] :
                ItemsOf[made["source"]][i].id \notin Formulas \cup Torn
          /\ \A t \in TableNames : CsvReadable(t, made[t])
          => ArtifactChecks(sealed)
      BY <1>2, <1>3, <1>4, <2>2, ArtifactsAgree
    <2>5. FailedForAReason'
      BY <1>1, <2>1, <2>2, <2>3, <2>4 DEF FailedForAReason
    <2> QED
      BY <1>6, <2>1, <2>5
  <1> QED
    BY <1>7, <1>8, <1>9

LEMMA ReasonStep ==
    ASSUME ReasonInv, VerifyInv, InputInv, PriceInv, DirType, OutsideType, [Next]_vars
    PROVE  ReasonInv'
  <1>1. ValidSnapshot(ItemsOf[captured["source"]]) /\ UNCHANGED <<captured, profile>>
          => ValidSnapshot(ItemsOf[captured["source"]])'
    BY DEF ValidSnapshot
  <1>2. edits \in Nat
    BY EditBoundAssumption DEF DirType
  <1>3. ASSUME step \in BuildSteps, UNCHANGED <<disk, made, edits, moved>>, step' # "failed",
               step' \notin {"external", "artifacts"},
               \A f \in DOMAIN captured' : f \in moved \/ captured'[f] = input'[f]
        PROVE  ReasonInv'
    <2>1. made = Empty
      BY <1>3 DEF VerifyInv, DiskInv
    <2> QED
      BY <1>3, <2>1 DEF ReasonInv, FailedForAReason, Empty
  <1>4. CASE LoadProfile \/ CheckSecret \/ GiveUp
    <2>1. /\ step \in BuildSteps /\ UNCHANGED <<disk, made, edits, moved, captured, input>>
          /\ step' \in {"source", "config", "blocked"}
      BY <1>4 DEF LoadProfile, CheckSecret, GiveUp, diskVars, bundleVars, BuildSteps, CaptureOrder
    <2> QED
      BY <1>3, <2>1 DEF ReasonInv
  <1>5. CASE \/ Capture("source", "catalog") \/ Capture("catalog", "secret")
             \/ Capture("config", "state") \/ Capture("state", "build")
    <2>1. PICK f \in Inputs, next \in {"catalog", "secret", "state", "build"} : Capture(f, next)
      BY <1>5 DEF Inputs
    <2>2. /\ step \in BuildSteps /\ UNCHANGED <<disk, made, edits, moved, input>> /\ step' = next
      BY <2>1 DEF Capture, diskVars, BuildSteps, Inputs
    <2>3. \A g \in DOMAIN captured' : g \in moved \/ captured'[g] = input[g]
      BY <2>1 DEF Capture, ReasonInv
    <2> QED
      BY <1>3, <2>2, <2>3
  <1>6. CASE Build
    <2>1. CASE Seal(Bundle(captured, profile), "published")
                 /\ ValidSnapshot(ItemsOf[captured["source"]])
      <3>1. /\ disk' = made' /\ step' = "published"
            /\ UNCHANGED <<edits, input, profile, captured, moved>>
        BY <1>6, <2>1 DEF Build, Seal, bundleVars
      <3> QED
        BY <1>1, <2>1, <3>1 DEF ReasonInv, FailedForAReason
    <2>2. CASE step' = "blocked" /\ UNCHANGED <<diskVars, checkVars, edits>>
      <3>1. step \in BuildSteps /\ UNCHANGED <<disk, made, edits, moved, captured, input>>
        BY <1>6, <2>2 DEF Build, diskVars, bundleVars, BuildSteps
      <3> QED
        BY <1>3, <2>2, <3>1 DEF ReasonInv
    <2> QED
      BY <1>6, <2>1, <2>2 DEF Build
  <1>7. CASE BeginVerification
    <2>1. /\ step' = "seal"
          /\ UNCHANGED <<disk, made, edits, input, profile, captured, moved>>
      BY <1>7 DEF BeginVerification, BeginLoad, diskVars
    <2> QED
      BY <1>1, <2>1 DEF ReasonInv, FailedForAReason
  <1>8. CASE LoadSealedRun
    <2>1. /\ UNCHANGED <<disk, made, edits>> /\ UNCHANGED bundleVars
          /\ step' \in LoadSteps \cup {"manifest", "failed"}
      BY <1>8
         DEF LoadSealedRun, Load, ReadSeal, NoSeal, List, WrongFileSet, Read, Mismatch, Relist,
             FileSetChanged, RereadSeal, SealChanged, Reread, ChangedMeanwhile, Refused,
             LoadSteps, diskVars
    <2>2. step' = "failed" => edits > 0
      <3>1. disk = made => step' # "failed"
        BY <1>8, IntactRunIsLoaded
      <3> QED
        BY <1>2, <3>1 DEF ReasonInv
    <2>3. FailedForAReason'
      BY <2>1, <2>2 DEF FailedForAReason
    <2>4. step' \notin {"external", "artifacts"}
      BY <2>1 DEF LoadSteps
    <2> QED
      BY <1>1, <2>1, <2>3, <2>4 DEF ReasonInv, bundleVars
  <1>9. CASE Tamper /\ UNCHANGED bundleVars
    <2>1. UNCHANGED <<step, made>> /\ edits' = edits + 1
      BY <1>9 DEF Tamper, Overwrite, Delete, Restore, Edit
    <2>2. edits' > 0
      BY <1>2, <2>1
    <2> QED
      BY <1>1, <1>9, <2>1, <2>2 DEF ReasonInv, FailedForAReason, bundleVars
  <1>10. ASSUME NEW m \in Moving, Replace(m[1], m[2]) PROVE ReasonInv'
    <2>1. /\ input' = [input EXCEPT ![m[1]] = m[2]] /\ moved' = moved \cup ReadOf(m[1])
          /\ UNCHANGED <<step, disk, made, edits, profile, captured, asked, passing, unread>>
      BY <1>10 DEF Replace, diskVars
    <2>2. \A f \in DOMAIN captured : f \in moved' \/ captured[f] = input'[f]
      <3> SUFFICES ASSUME NEW f \in DOMAIN captured PROVE f \in moved' \/ captured[f] = input'[f]
        OBVIOUS
      <3>1. CASE f = m[1]
        BY <2>1, <3>1 DEF ReadOf
      <3>2. CASE f # m[1]
        <4>1. input'[f] = input[f]
          BY <2>1, <3>2 DEF InputInv
        <4> QED
          BY <2>1, <4>1 DEF ReasonInv
      <3> QED
        BY <3>1, <3>2
    <2>3. moved \cap asked # {} => moved' \cap asked' # {}
      BY <2>1
    <2>4. FailedForAReason'
      BY <2>1, <2>3 DEF ReasonInv, FailedForAReason
    <2> QED
      BY <1>1, <2>1, <2>2, <2>3, <2>4 DEF ReasonInv
  <1>11. CASE Ended \/ UNCHANGED vars
    BY <1>1, <1>11 DEF Ended, vars, diskVars, bundleVars, ReasonInv, FailedForAReason
  <1>12. CASE RunUnreadable
    <2>1. /\ UNCHANGED <<disk, made, edits, input, profile, captured, moved>>
          /\ step' = "failed" /\ unread' = TRUE
      BY <1>12 DEF RunUnreadable, ReadFails, Refused, diskVars
    <2> QED
      BY <1>1, <2>1 DEF ReasonInv, FailedForAReason
  <1> QED
    BY <1>4, <1>5, <1>6, <1>7, <1>8, <1>9, <1>10, <1>11, <1>12, JudgeReasons DEF Next, Run, Verify

\* The inductive invariant holds in every reachable state.
THEOREM VerifyInvariant == Spec => [](VerifyInv /\ InputInv)
  <1>1. Init => VerifyInv /\ InputInv
    BY VerifyInitInv, InputInitInv
  <1>2. VerifyInv /\ InputInv /\ [Next]_vars => (VerifyInv /\ InputInv)'
    BY VerifyStep, InputStep DEF InputInv
  <1> QED
    BY <1>1, <1>2, PTL DEF Spec


\* The run directory, its verification and the inputs keep their types.
THEOREM BundleTypes == Spec => []RunBundleTypeOK
  <1>1. VerifyInv /\ InputInv /\ DirType /\ OutsideType => RunBundleTypeOK
    BY DEF VerifyInv, DiskInv, InputInv, DirType, OutsideType, RunBundleTypeOK
  <1>2. Init => DirType /\ OutsideType
    BY TypeInit
  <1>3. VerifyInv /\ InputInv /\ DirType /\ OutsideType /\ [Next]_vars => (DirType /\ OutsideType)'
    BY DirTypeStep, OutsideTypeStep
  <1>4. Spec => [](VerifyInv /\ InputInv)
    BY VerifyInvariant
  <1> QED
    BY <1>1, <1>2, <1>3, <1>4, PTL DEF Spec

\* A run that passes its verification was, at one moment of it, exactly as it
\* was sealed, whatever number of files somebody changed (integrity.py).
THEOREM PassedRunsWereIntact == Spec => []PassMeansIntact
  <1>1. VerifyInv => PassMeansIntact
    BY DEF VerifyInv, PassInv, PassMeansIntact, JudgeSteps
  <1>2. Spec => [](VerifyInv /\ InputInv)
    BY VerifyInvariant
  <1> QED
    BY <1>1, <1>2, PTL

\* A run that passes is what its own bundled inputs make of it, whatever was
\* replaced outside meanwhile, if no profile came between policy and bundle.
THEOREM PassedRunsAreReproducible == Spec => []PassMeansReproducible
  <1>1. VerifyInv /\ InputInv => PassMeansReproducible
    <2> SUFFICES ASSUME VerifyInv, InputInv, step = "passed", "policy" \notin moved
                 PROVE  SealOf(made) = Bundle([f \in Inputs \cap DOMAIN made |-> made[f]],
                                              ProfileOf[made["config"]])
      BY DEF PassMeansReproducible
    <2>1. made # Empty
      BY DEF VerifyInv, DiskInv, BuildSteps
    <2>2. /\ DOMAIN captured = Inputs \cap DOMAIN made
          /\ \A f \in DOMAIN captured : made[f] = captured[f]
          /\ SealOf(made) = Bundle(captured, profile)
          /\ captured = [f \in DOMAIN captured |-> captured[f]]
      BY <2>1 DEF InputInv
    <2>3. captured = [f \in Inputs \cap DOMAIN made |-> made[f]]
      BY <2>2
    <2>4. profile = ProfileOf[made["config"]]
      BY <2>2 DEF InputInv, BeforeConfig
    <2> QED
      BY <2>2, <2>3, <2>4
  <1>2. Spec => [](VerifyInv /\ InputInv)
    BY VerifyInvariant
  <1> QED
    BY <1>1, <1>2, PTL

\* Whatever is replaced or changed, a price is only up for review for an item
\* matched exactly, at the approved markup and near the current price.
THEOREM ReadyPrices == Spec => []ReadyPricesAreApproved
  <1>1. VerifyInv /\ InputInv /\ PriceInv => ReadyPricesAreApproved
    <2> SUFFICES ASSUME VerifyInv, InputInv, PriceInv, made # Empty,
                        NEW i \in DOMAIN made["proposals"],
                        made["proposals"][i].status = "ready_for_review"
                 PROVE  LET row  == made["proposals"][i]
                            item == ItemsOf[made["source"]][i]
                            now  == ListedIn[made["catalog"]][row.product].price
                        IN  /\ made["matches"][i].status = "exact"
                            /\ row.proposed = 110 * item.price
                            /\ row.proposed - 100 * now <= profile.pricing.limit * now
                            /\ 100 * now - row.proposed <= profile.pricing.limit * now
      BY DEF ReadyPricesAreApproved
    <2> DEFINE feed     == captured["source"]
               catalog  == captured["catalog"]
               items    == ItemsOf[feed]
               matched  == Matched[feed, catalog]
               listed   == ListedIn[catalog]
               context  == Context(profile.pricing)
               now      == IF matched[i].product = Nobody THEN 0
                           ELSE listed[matched[i].product].price
    <2>1. /\ feed \in Feeds /\ catalog \in Catalogs
          /\ made["source"] = feed /\ made["catalog"] = catalog
          /\ ValidPricing(profile.pricing) /\ profile.pricing.limit \in Int
      <3>1. step \notin BuildSteps
        BY DEF VerifyInv, DiskInv
      <3>2. "source" \in DOMAIN captured /\ "catalog" \in DOMAIN captured
            /\ feed \in Feeds /\ catalog \in Catalogs /\ ValidPricing(profile.pricing)
            /\ \E q \in Profiles : profile = ProfileOf[q]
        BY <3>1 DEF PriceInv, BuildSteps
      <3> QED
        BY <3>2, PricesAssumption DEF InputInv
    <2>2. \A f \in {"proposals", "matches"} :
             made[f] = Tables(feed, catalog, context)[f]
      <3> SUFFICES ASSUME NEW f \in {"proposals", "matches"}
                   PROVE  made[f] = Tables(feed, catalog, context)[f]
        OBVIOUS
      <3>1. f \in Artifacts \ Inputs
        BY BundleAssumption DEF TableNames, Inputs
      <3>2. SealOf(made) = Bundle(captured, profile)
        BY DEF InputInv
      <3>3. f \in DOMAIN Bundle(captured, profile)
            /\ Bundle(captured, profile)[f] = Written(f, captured, profile)
        BY <3>1 DEF Bundle
      <3>4. made[f] = SealOf(made)[f]
        BY <3>2, <3>3 DEF SealOf
      <3>5. Written(f, captured, profile) = Tables(feed, catalog, context)[f]
        BY DEF Written, Tables
      <3> QED
        BY <3>2, <3>3, <3>4, <3>5
    <2>3. /\ made["proposals"] =
               [k \in DOMAIN items |->
                  Proposal(items[k], matched[k],
                           IF matched[k].product = Nobody THEN 0
                           ELSE listed[matched[k].product].price, context)]
          /\ made["matches"] =
               [k \in DOMAIN items |-> [id |-> CsvCell(items[k].id), status |-> matched[k].status]]
      BY <2>2 DEF Tables
    <2>4. i \in DOMAIN items
      BY <2>3
    <2>5. matched[i].product \in DOMAIN listed \cup {Nobody}
      BY <2>1, <2>4, MatchedAssumption
    <2> HIDE DEF matched
    <2>6. made["proposals"][i] = Proposal(items[i], matched[i], now, context)
          /\ made["matches"][i].status = matched[i].status
      <3> HIDE DEF items, listed, context, feed, catalog
      <3> QED
        BY <2>3, <2>4
    <2>7. items[i].price \in Int /\ now \in Int
      <3>1. items[i].price \in Int
        BY <2>1, <2>4, PricesAssumption
      <3>2. \A p \in DOMAIN listed : listed[p].price \in Int
        BY <2>1, PricesAssumption
      <3> HIDE DEF items, listed, context, feed, catalog
      <3> QED
        BY <2>5, <3>1, <3>2
    <2> HIDE DEF items, listed, context, now, feed, catalog
    <2>8. LET row == Proposal(items[i], matched[i], now, context)
          IN  /\ matched[i].status = "exact" /\ matched[i].product # Nobody
              /\ row.product = matched[i].product
              /\ row.proposed = 110 * items[i].price
              /\ row.proposed - 100 * now <= profile.pricing.limit * now
              /\ 100 * now - row.proposed <= profile.pricing.limit * now
      BY <2>1, <2>6, <2>7, ReadyPrice DEF context
    <2>9. now = ListedIn[made["catalog"]][made["proposals"][i].product].price
          /\ items[i] = ItemsOf[made["source"]][i]
      BY <2>1, <2>6, <2>8 DEF now, listed, items
    <2> QED
      BY <2>6, <2>8, <2>9
  <1>2. Init => PriceInv
    BY DEF Init, PriceInv
  <1>3. VerifyInv /\ InputInv /\ PriceInv /\ [Next]_vars => PriceInv'
    BY PriceStep
  <1>4. Spec => [](VerifyInv /\ InputInv)
    BY VerifyInvariant
  <1> QED
    BY <1>1, <1>2, <1>3, <1>4, PTL DEF Spec

\* Whatever somebody replaces or changes, every item of a run is in one place:
\* matched exactly, in the review queue or in the source-only list, and an item
\* of that list has a category proposal; and a source category is given a target
\* only if enough of its exact matches are there (runner.py, category_mapping.py).
THEOREM ItemsAreAccountedFor == Spec => []EveryItemIsAccountedFor
  <1>1. VerifyInv /\ InputInv /\ PriceInv => EveryItemIsAccountedFor
    <2> SUFFICES ASSUME VerifyInv, InputInv, PriceInv, made # Empty
                 PROVE  EveryItemIsAccountedFor
      BY DEF EveryItemIsAccountedFor
    <2> DEFINE items    == ItemsOf[captured["source"]]
               matches  == Matched[captured["source"], captured["catalog"]]
               listed   == ListedIn[captured["catalog"]]
               targetOf == [p \in DOMAIN listed |-> listed[p].target]
               cells    == [i \in DOMAIN items |-> CsvCell(items[i].id)]
               mapping  == CategoryMapping(items, matches, targetOf)
               review   == {i \in DOMAIN items : InReview(matches[i])}
               rest     == {i \in DOMAIN items : SourceOnly(matches[i])}
               exact    == {i \in DOMAIN items : matches[i].status = "exact"}
               named    == [i \in DOMAIN items |->
                              [id |-> cells[i], status |-> CategoryProposal(mapping[items[i].path])]]
    <2>1. /\ captured["source"] \in Feeds /\ captured["catalog"] \in Catalogs
          /\ made["source"] = captured["source"] /\ made["catalog"] = captured["catalog"]
      BY MadeFacts
    <2>2. /\ made["jsonl"] = [i \in DOMAIN items |-> items[i].id]
          /\ made["matches"] = [i \in DOMAIN items |-> [id |-> cells[i], status |-> matches[i].status]]
          /\ made["source_only"] = SelectRows(cells, rest)
          /\ made["review_queue"] = SelectRows(cells, review)
          /\ made["category_mapping"] = mapping
          /\ made["product_categories"] = SelectRows(named, rest)
          /\ \A i \in DOMAIN items : made["proposals"][i].product = matches[i].product
      BY ArtifactFacts, Zenon
    <2>3. /\ Len(items) \in Nat /\ DOMAIN items = 1..Len(items)
          /\ IsFiniteSet(DOMAIN items)
          /\ IsFiniteSet(exact) /\ IsFiniteSet(review) /\ IsFiniteSet(rest)
          /\ Len(items) = Cardinality(exact) + Cardinality(review) + Cardinality(rest)
      BY <2>1, ItemPartition, Zenon
    <2>4. /\ \A i \in DOMAIN items : matches[i].status = "exact" =>
               matches[i].product # Nobody /\ matches[i].product \in DOMAIN listed
      <3>1. \A i \in DOMAIN items :
               /\ matches[i].product \in DOMAIN listed \cup {Nobody}
               /\ matches[i].status \in {"ambiguous", "unmatched"} <=> matches[i].product = Nobody
        BY <2>1, MatchedAssumption, Zenon
      <3> HIDE DEF items, matches, listed
      <3> QED
        BY <3>1
    <2>5. {i \in DOMAIN made["matches"] : made["matches"][i].status = "exact"} = exact
      <3> HIDE DEF items, matches, cells
      <3>1. DOMAIN made["matches"] = DOMAIN items
            /\ \A i \in DOMAIN items : made["matches"][i].status = matches[i].status
        BY <2>2
      <3> QED
        BY <3>1 DEF exact
    <2>6. DOMAIN cells = DOMAIN items /\ DOMAIN named = DOMAIN items
      OBVIOUS
    <2>7. DOMAIN items \in SUBSET Nat /\ review \in SUBSET DOMAIN items /\ rest \in SUBSET DOMAIN items
      <3>1. review \in SUBSET DOMAIN items /\ rest \in SUBSET DOMAIN items
        OBVIOUS
      <3> HIDE DEF items, review, rest
      <3>2. Len(items) \in Nat /\ DOMAIN items = 1..Len(items)
        BY <2>3, Zenon
      <3>3. DOMAIN items \in SUBSET Nat
        BY <3>2
      <3> QED
        BY <3>1, <3>3
    <2>8. Len(made["jsonl"]) = Len(items)
      <3> HIDE DEF items
      <3>1. made["jsonl"] = [i \in 1..Len(items) |-> items[i].id]
        BY <2>2, <2>3, Zenon
      <3>2. Len(items) \in Nat
        BY <2>3, Zenon
      <3> QED
        BY <3>1, <3>2
    <2> HIDE DEF items, matches, listed, cells, named, review, rest, mapping, exact
    <2>9. /\ Len(made["source_only"]) = Cardinality(rest)
          /\ Len(made["review_queue"]) = Cardinality(review)
          /\ Len(made["product_categories"]) = Cardinality(rest)
      <3>1. Len(SelectRows(cells, rest)) = Cardinality(rest)
        BY <2>3, <2>6, <2>7, SelectedRows
      <3>2. Len(SelectRows(cells, review)) = Cardinality(review)
        BY <2>3, <2>6, <2>7, SelectedRows
      <3>3. Len(SelectRows(named, rest)) = Cardinality(rest)
        BY <2>3, <2>6, <2>7, SelectedRows
      <3> QED
        BY <2>2, <3>1, <3>2, <3>3
    <2>10. ASSUME NEW p \in DOMAIN made["category_mapping"]
           PROVE  LET row  == made["category_mapping"][p]
                      here == {i \in exact : ItemsOf[made["source"]][i].path = p}
                  IN  Supported(row.status, here,
                        {i \in here :
                           ListedIn[made["catalog"]][made["proposals"][i].product].target
                              # row.target})
      <3> DEFINE row  == Mapping(p, items, matches, targetOf)
                 near == ExactIn(items, matches, p)
                 here == {i \in exact : ItemsOf[made["source"]][i].path = p}
      <3>1. made["category_mapping"][p] = row
        BY <2>2, <2>10, Zenon DEF mapping, CategoryMapping
      <3>2. Supported(row.status, near, Against(near, matches, targetOf, row.target))
        BY <2>3, <2>7, MappingShare
      <3> HIDE DEF row
      <3>3. near = here
        BY <2>1, <2>4 DEF exact, items, ExactIn
      <3>4. Against(near, matches, targetOf, row.target) =
              {i \in here :
                 ListedIn[made["catalog"]][made["proposals"][i].product].target # row.target}
        <4>1. \A i \in exact : made["proposals"][i].product = matches[i].product
                               /\ targetOf[matches[i].product] = listed[matches[i].product].target
          BY <2>2, <2>4 DEF exact
        <4>2. ListedIn[made["catalog"]] = listed
          BY <2>1 DEF listed
        <4>3. \A i \in here : i \in exact
          OBVIOUS
        <4> HIDE DEF targetOf, near, here
        <4> QED
          BY <3>3, <4>1, <4>2, <4>3 DEF Against
      <3> HIDE DEF near
      <3>5. Supported(row.status, here,
              {i \in here :
                 ListedIn[made["catalog"]][made["proposals"][i].product].target # row.target})
        BY <3>2, <3>3, <3>4
      <3> QED
        BY <3>1, <3>5
    <2> QED
      BY <2>3, <2>5, <2>8, <2>9, <2>10 DEF EveryItemIsAccountedFor
  <1>2. Init => PriceInv
    BY DEF Init, PriceInv
  <1>3. VerifyInv /\ InputInv /\ PriceInv /\ [Next]_vars => PriceInv'
    BY PriceStep
  <1>4. Spec => [](VerifyInv /\ InputInv)
    BY VerifyInvariant
  <1> QED
    BY <1>1, <1>2, <1>3, <1>4, PTL DEF Spec

\* A verification only fails for a reason: somebody touched the run, or replaced
\* an input it was told to compare, a read failed, or the run holds what is not
\* read back as it was written: an item id quoted in the CSV files only, a JSON
\* line that breaks, a cell beyond the field limit (runner.py _csv_value and
\* _write_jsonl; verifier.py _csv_rows and _jsonl_rows).
THEOREM RunsFailForAReason == Spec => []FailedForAReason
  <1> DEFINE Inv == VerifyInv /\ InputInv /\ PriceInv /\ DirType /\ OutsideType /\ ReasonInv
  <1>1. Init => Inv
    <2>1. Init => VerifyInv /\ InputInv
      BY VerifyInitInv, InputInitInv
    <2>2. Init => DirType /\ OutsideType
      BY TypeInit
    <2>3. Init => PriceInv /\ ReasonInv
      BY DEF Init, SealedInit, PriceInv, ReasonInv, FailedForAReason, Empty
    <2> QED
      BY <2>1, <2>2, <2>3
  <1>2. Inv /\ [Next]_vars => Inv'
    <2> SUFFICES ASSUME Inv, [Next]_vars PROVE Inv'
      OBVIOUS
    <2>1. (VerifyInv /\ InputInv)'
      BY VerifyStep, InputStep DEF InputInv
    <2>2. PriceInv' /\ DirType' /\ OutsideType' /\ ReasonInv'
      BY PriceStep, DirTypeStep, OutsideTypeStep, ReasonStep
    <2> QED
      BY <2>1, <2>2
  <1>3. Inv => FailedForAReason
    BY DEF ReasonInv
  <1> HIDE DEF Inv
  <1> QED
    BY <1>1, <1>2, <1>3, PTL DEF Spec
=============================================================================
