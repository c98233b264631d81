----------------------------- MODULE SealedRun -----------------------------
(***************************************************************************)
(* integrity.py: a run directory that build_run_seal seals and             *)
(* load_sealed_run reads back, while somebody else changes files in it.    *)
(* load_sealed_run reads the seal, lists the directory, reads every        *)
(* artifact and compares it with the seal, lists the directory again, and  *)
(* then reads the seal and every artifact a second time.                   *)
(*                                                                         *)
(* A hash stands for what was hashed: the seal is the artifacts by name.   *)
(* Listing a directory is one step.  Whoever changes the directory does    *)
(* not forge a seal (ARCHITECTURE.md 8.1: the seal is not a signature),    *)
(* and during one verification never puts back what was there: a second    *)
(* reading can not tell a file that was changed and changed back.          *)
(***************************************************************************)
EXTENDS Integers, Sequences

CONSTANTS
    Sorted,    \* the names of all artifacts a run may have, in sorted order
    SealName,  \* seal.json
    Stray,     \* the name of a file that belongs to no run
    Alien,     \* contents no run writes
    Exposed,   \* bound: the files that somebody changes
    MaxEdits   \* bound on changes to the run directory

Artifacts == {Sorted[i] : i \in DOMAIN Sorted}
FileNames == Artifacts \cup {SealName, Stray}

ASSUME SortedAssumption == Sorted \in Seq(Artifacts)
ASSUME OtherNamesAssumption ==
    SealName \notin Artifacts /\ Stray \notin Artifacts /\ Stray # SealName
ASSUME ExposedAssumption == Exposed \subseteq FileNames
ASSUME EditBoundAssumption == MaxEdits \in Nat

VARIABLES
    step,    \* where the run and its verification are
    disk,    \* the run directory: contents by file name
    made,    \* the directory as it was sealed
    sealed,  \* the seal that the verification has read
    pos,     \* how many artifacts the present pass has read
    gone,    \* files that ceased to be what was sealed during the verification
    intact,  \* the directory was as sealed when it was listed again
    edits    \* changes to the run directory so far

diskVars == <<disk, made>>
checkVars == <<sealed, pos, gone, intact>>

LoadSteps == {"seal", "list", "read", "relist", "reseal", "reread"}

Empty == [f \in {} |-> Alien]

\* A file with what the run wrote into it.
Good(f) == f \in DOMAIN disk /\ f \in DOMAIN made /\ disk[f] = made[f]

\* sha256 and size of every artifact.
SealOf(files) == [f \in DOMAIN files \ {SealName, Stray} |-> files[f]]

SealedInit ==
    /\ disk = Empty /\ made = Empty
    /\ sealed = Empty
    /\ pos = 0
    /\ gone = {}
    /\ intact = FALSE
    /\ edits = 0

-----------------------------------------------------------------------------
\* build_run_seal, on the staged artifacts: the stage is the run's own.
Seal(files, next) ==
    LET bundle == [f \in DOMAIN files \cup {SealName} |->
                     IF f = SealName THEN SealOf(files) ELSE files[f]]
    IN  /\ disk' = bundle /\ made' = bundle
        /\ step' = next
        /\ UNCHANGED <<checkVars, edits>>

-----------------------------------------------------------------------------
\* What load_sealed_run raises, verify_run reports as a failure.
Refused(from) ==
    /\ step = from
    /\ step' = "failed"
    /\ UNCHANGED <<diskVars, checkVars, edits>>

BeginLoad ==
    /\ step' = "seal"
    /\ pos' = 0 /\ gone' = {} /\ intact' = FALSE
    /\ UNCHANGED <<diskVars, sealed, edits>>

\* The seal is there, and is a seal.
SealReadable == SealName \in DOMAIN disk /\ disk[SealName] # Alien
ReadSeal ==
    /\ step = "seal"
    /\ SealReadable
    /\ sealed' = disk[SealName]
    /\ step' = "list"
    /\ UNCHANGED <<diskVars, pos, gone, intact, edits>>
NoSeal == Refused("seal") /\ ~SealReadable

\* _file_paths, both times: exactly the artifacts of the seal.
SameFileSet == DOMAIN disk \ {SealName} = DOMAIN sealed
List ==
    /\ step = "list"
    /\ SameFileSet
    /\ step' = "read" /\ pos' = 1
    /\ UNCHANGED <<diskVars, sealed, gone, intact, edits>>
WrongFileSet == Refused("list") /\ ~SameFileSet

\* One artifact agrees with the seal; what the run has not got is not read.
Agrees == Sorted[pos] \in DOMAIN sealed =>
             /\ Sorted[pos] \in DOMAIN disk
             /\ disk[Sorted[pos]] = sealed[Sorted[pos]]

Read ==
    /\ step = "read"
    /\ Agrees
    /\ pos' = pos + 1
    /\ step' = IF pos < Len(Sorted) THEN "read" ELSE "relist"
    /\ UNCHANGED <<diskVars, sealed, gone, intact, edits>>
Mismatch == Refused("read") /\ ~Agrees

\* Mutant of Relist: what the directory holds by now does not matter.
RelistBlind ==
    /\ step = "relist"
    /\ intact' = (disk = made)
    /\ step' = "reseal"
    /\ UNCHANGED <<diskVars, sealed, pos, gone, edits>>

Relist ==
    /\ step = "relist"
    /\ SameFileSet
    /\ intact' = (disk = made)
    /\ step' = "reseal"
    /\ UNCHANGED <<diskVars, sealed, pos, gone, edits>>
FileSetChanged == Refused("relist") /\ ~SameFileSet

\* _assert_evidence_unchanged, of the seal and then of every artifact.
SealUnchanged == SealName \in DOMAIN disk /\ disk[SealName] = sealed
RereadSeal ==
    /\ step = "reseal"
    /\ SealUnchanged
    /\ step' = "reread" /\ pos' = 1
    /\ UNCHANGED <<diskVars, sealed, gone, intact, edits>>
SealChanged == Refused("reseal") /\ ~SealUnchanged

\* Mutant of Reread: the artifacts are not read a second time.
RereadNothing(next) ==
    /\ step = "reread"
    /\ pos' = pos + 1
    /\ step' = IF pos < Len(Sorted) THEN "reread" ELSE next
    /\ UNCHANGED <<diskVars, sealed, gone, intact, edits>>

Reread(next) ==
    /\ step = "reread"
    /\ Agrees
    /\ pos' = pos + 1
    /\ step' = IF pos < Len(Sorted) THEN "reread" ELSE next
    /\ UNCHANGED <<diskVars, sealed, gone, intact, edits>>
ChangedMeanwhile == Refused("reread") /\ ~Agrees

\* The seal, the directory or a file cannot be read now.
ReadFails == \E from \in LoadSteps : Refused(from)

\* load_sealed_run; what follows it is next.
Load(next) ==
    \/ ReadSeal \/ NoSeal
    \/ List \/ WrongFileSet
    \/ Read \/ Mismatch
    \/ Relist \/ FileSetChanged
    \/ RereadSeal \/ SealChanged
    \/ Reread(next) \/ ChangedMeanwhile

-----------------------------------------------------------------------------
\* Somebody changes a file, whatever the read-only attributes, and does not put
\* back what is gone.
Edit(f, newDisk) ==
    /\ made # Empty
    /\ edits < MaxEdits
    /\ edits' = edits + 1
    /\ disk' = newDisk
    /\ UNCHANGED <<step, made, sealed, pos, intact>>
    /\ f \in gone => ~Good(f)'
    /\ gone' = IF Good(f) /\ ~Good(f)' THEN gone \cup {f} ELSE gone

Overwrite(f) ==
    /\ f \in DOMAIN disk => disk[f] # Alien
    /\ Edit(f, [g \in DOMAIN disk \cup {f} |-> IF g = f THEN Alien ELSE disk[g]])

Delete(f) ==
    /\ f \in DOMAIN disk
    /\ Edit(f, [g \in DOMAIN disk \ {f} |-> disk[g]])

Restore(f) ==
    /\ f \in DOMAIN made
    /\ ~Good(f)
    /\ Edit(f, [g \in DOMAIN disk \cup {f} |-> IF g = f THEN made[f] ELSE disk[g]])

Tamper == \E f \in Exposed : Overwrite(f) \/ Delete(f) \/ Restore(f)
=============================================================================
