--------------------------- MODULE SnapshotStore ---------------------------
(***************************************************************************)
(* install_snapshot (snapshot_store.py): calls of the connectors that      *)
(* install immutable, content-addressed snapshots and their metadata into  *)
(* one raw directory.  Calls with equal feed date and content meet at the  *)
(* same target; so do different contents whose first 12 hash digits agree. *)
(* The reservation is FileLock without truncation.                         *)
(*                                                                         *)
(* Steps follow Python statements: an I/O error may end a statement that   *)
(* touches a file, a KeyboardInterrupt any statement, a process death      *)
(* comes between any two of them.  In _publish_exclusive_readonly the file *)
(* exists from CreateFileW on, but only the try that follows removes it.   *)
(***************************************************************************)
EXTENDS FileLock

CONSTANTS
    Payloads,       \* snapshot contents, identified by their whole SHA-256
    PayloadOf,      \* the content each call installs
    Terms,          \* what metadata says besides the identity
    TermsOf,        \* what each call would write
    Strict,         \* calls that pass required_existing_metadata
    Absent,         \* no such file
    Torn,           \* a file that was not written to its end
    MaxInterrupts   \* bound on KeyboardInterrupts

ASSUME PayloadAssumption ==
    /\ PayloadOf \in [Workers -> Payloads]
    /\ TermsOf \in [Workers -> Terms]
    /\ Strict \subseteq Workers
ASSUME FileStateAssumption ==
    /\ Absent # Torn
    /\ Absent \notin Payloads /\ Torn \notin Payloads
Metadata == [sha256 : Payloads, terms : Terms]
ASSUME MetadataAssumption == Absent \notin Metadata /\ Torn \notin Metadata
ASSUME InterruptBoundAssumption == MaxInterrupts \in Nat

VARIABLES
    step,         \* where each call is in the body of its reservation
    created,      \* local variable created of each call
    metaCreated,  \* local variable metadata_created of each call
    result,       \* how each call ended
    target,       \* the snapshot file under each name
    meta,         \* the metadata file under each name
    interrupts    \* KeyboardInterrupts so far

storeVars == <<step, created, metaCreated, result, target, meta, interrupts>>
vars      == <<lockVars, storeVars>>

Steps ==
    {"create", "opened", "write", "discard", "bind", "adopt",
     "meta", "metaopened", "metawrite", "metadiscard", "metabind", "metaadopt",
     "return", "undo", "undotarget", "end"}
\* A file was created, but no try guards it yet.
Unguarded == {"opened", "metaopened"}
\* The call left a file behind: it was interrupted while that file was
\* unguarded ("cut"), or its clean-up was stopped ("unclean").
LeftBehind == {"cut", "unclean"}
Results == {"none", "installed", "rejected", "failed", "mismatch", "conflict"} \cup LeftBehind

StoreTypeOK ==
    /\ LockTypeOK
    /\ step \in [Workers -> Steps]
    /\ created \in [Workers -> BOOLEAN]
    /\ metaCreated \in [Workers -> BOOLEAN]
    /\ result \in [Workers -> Results]
    /\ target \in [Names -> Payloads \cup {Absent, Torn}]
    /\ meta \in [Names -> Metadata \cup {Absent, Torn}]
    /\ interrupts \in 0..MaxInterrupts

StoreInit ==
    /\ LockInit
    /\ step = [w \in Workers |-> "create"]
    /\ created = [w \in Workers |-> FALSE]
    /\ metaCreated = [w \in Workers |-> FALSE]
    /\ result = [w \in Workers |-> "none"]
    /\ target = [n \in Names |-> Absent]
    /\ meta = [n \in Names |-> Absent]
    /\ interrupts = 0

-----------------------------------------------------------------------------
At(w, s)       == pc[w] = "held" /\ step[w] = s
ToStep(w, s)   == step' = [step EXCEPT ![w] = s]
Conclude(w, r) == result' = [result EXCEPT ![w] = r]
Target(w)      == target[NameOf[w]]
Meta(w)        == meta[NameOf[w]]
PutTarget(w, data) == target' = [target EXCEPT ![NameOf[w]] = data]
PutMeta(w, data)   == meta' = [meta EXCEPT ![NameOf[w]] = data]
NamesOwnContent(w) == Meta(w) \in Metadata /\ Meta(w).sha256 = PayloadOf[w]
OwnMetadata(w)     == [sha256 |-> PayloadOf[w], terms |-> TermsOf[w]]

\* The temporary file does not hash to content_hash, or a name is invalid.
RejectPart(w) ==
    /\ Decline(w)
    /\ Conclude(w, "rejected")
    /\ UNCHANGED <<step, created, metaCreated, target, meta, interrupts>>

Start(w) == Enter(w) /\ UNCHANGED storeVars

\* CreateFileW(CREATE_NEW, no sharing) on the target.
CreateTarget(w) ==
    /\ At(w, "create")
    /\ IF Target(w) = Absent
         THEN ToStep(w, "opened") /\ PutTarget(w, Torn)
         ELSE ToStep(w, "adopt") /\ UNCHANGED target
    /\ UNCHANGED <<lockVars, created, metaCreated, result, meta, interrupts>>

\* The try of _publish_exclusive_readonly begins.
GuardTarget(w) ==
    /\ At(w, "opened")
    /\ ToStep(w, "write")
    /\ UNCHANGED <<lockVars, created, metaCreated, result, target, meta, interrupts>>

\* Write, flush, read back and mark read-only through the same handle.
WriteTarget(w) ==
    /\ At(w, "write")
    /\ PutTarget(w, PayloadOf[w])
    /\ ToStep(w, "bind")
    /\ UNCHANGED <<lockVars, created, metaCreated, result, meta, interrupts>>

\* created = True
BindCreated(w) ==
    /\ At(w, "bind")
    /\ created' = [created EXCEPT ![w] = TRUE]
    /\ ToStep(w, "meta")
    /\ UNCHANGED <<lockVars, metaCreated, result, target, meta, interrupts>>

\* _publish_exclusive_readonly removes the file it failed to write.
DiscardTarget(w) ==
    /\ At(w, "discard")
    /\ PutTarget(w, Absent)
    /\ ToStep(w, "end")
    /\ UNCHANGED <<lockVars, created, metaCreated, result, meta, interrupts>>

\* The target was there: read it and compare its hash.
AdoptTarget(w) ==
    /\ At(w, "adopt")
    /\ IF Target(w) = PayloadOf[w]
         THEN ToStep(w, "meta") /\ UNCHANGED result
         ELSE ToStep(w, "undo") /\ Conclude(w, "mismatch")
    /\ UNCHANGED <<lockVars, created, metaCreated, target, meta, interrupts>>

\* CreateFileW(CREATE_NEW, no sharing) on the metadata.
CreateMeta(w) ==
    /\ At(w, "meta")
    /\ IF Meta(w) = Absent
         THEN ToStep(w, "metaopened") /\ PutMeta(w, Torn)
         ELSE ToStep(w, "metaadopt") /\ UNCHANGED meta
    /\ UNCHANGED <<lockVars, created, metaCreated, result, target, interrupts>>

GuardMeta(w) ==
    /\ At(w, "metaopened")
    /\ ToStep(w, "metawrite")
    /\ UNCHANGED <<lockVars, created, metaCreated, result, target, meta, interrupts>>

WriteMeta(w) ==
    /\ At(w, "metawrite")
    /\ PutMeta(w, OwnMetadata(w))
    /\ ToStep(w, "metabind")
    /\ UNCHANGED <<lockVars, created, metaCreated, result, target, interrupts>>

\* metadata_created = True
BindMetaCreated(w) ==
    /\ At(w, "metabind")
    /\ metaCreated' = [metaCreated EXCEPT ![w] = TRUE]
    /\ ToStep(w, "return")
    /\ UNCHANGED <<lockVars, created, result, target, meta, interrupts>>

\* Mutant of DiscardMeta: the half-written file stays.
DiscardMetaNot(w) ==
    /\ At(w, "metadiscard")
    /\ ToStep(w, "undo")
    /\ UNCHANGED <<lockVars, created, metaCreated, result, target, meta, interrupts>>

DiscardMeta(w) ==
    /\ At(w, "metadiscard")
    /\ PutMeta(w, Absent)
    /\ ToStep(w, "undo")
    /\ UNCHANGED <<lockVars, created, metaCreated, result, target, interrupts>>

\* Mutant of AdoptMeta: every call insists on its own terms, as on identity.
AdoptMetaWhole(w) ==
    /\ At(w, "metaadopt")
    /\ IF Meta(w) # OwnMetadata(w)
         THEN ToStep(w, "undo") /\ Conclude(w, "mismatch")
         ELSE ToStep(w, "return") /\ UNCHANGED result
    /\ UNCHANGED <<lockVars, created, metaCreated, target, meta, interrupts>>

\* Mutant of AdoptMeta: it waits until the metadata is whole.
AdoptMetaWaits(w) ==
    /\ At(w, "metaadopt")
    /\ NamesOwnContent(w)
    /\ ToStep(w, "return")
    /\ UNCHANGED <<lockVars, created, metaCreated, result, target, meta, interrupts>>

\* The metadata was there: it must parse, name this snapshot and, if the
\* caller insists, agree with the caller's terms.
AdoptMeta(w) ==
    /\ At(w, "metaadopt")
    /\ IF ~NamesOwnContent(w)
         THEN ToStep(w, "undo") /\ Conclude(w, "mismatch")
       ELSE IF w \in Strict /\ Meta(w).terms # TermsOf[w]
         THEN ToStep(w, "undo") /\ Conclude(w, "conflict")
       ELSE ToStep(w, "return") /\ UNCHANGED result
    /\ UNCHANGED <<lockVars, created, metaCreated, target, meta, interrupts>>

Return(w) ==
    /\ At(w, "return")
    /\ Conclude(w, "installed")
    /\ ToStep(w, "end")
    /\ UNCHANGED <<lockVars, created, metaCreated, target, meta, interrupts>>

\* Mutant of Undo: it does not ask who created the files.
UndoAll(w) ==
    /\ At(w, "undo")
    /\ PutMeta(w, Absent)
    /\ ToStep(w, "undotarget")
    /\ UNCHANGED <<lockVars, created, metaCreated, result, target, interrupts>>

\* The except clause: metadata first, then the target, and only what this
\* call knows it created.
Undo(w) ==
    /\ At(w, "undo")
    /\ IF created[w] /\ metaCreated[w] THEN PutMeta(w, Absent) ELSE UNCHANGED meta
    /\ ToStep(w, IF created[w] THEN "undotarget" ELSE "end")
    /\ UNCHANGED <<lockVars, created, metaCreated, result, target, interrupts>>

UndoTarget(w) ==
    /\ At(w, "undotarget")
    /\ PutTarget(w, Absent)
    /\ ToStep(w, "end")
    /\ UNCHANGED <<lockVars, created, metaCreated, result, meta, interrupts>>

\* Where a removal that is stopped in turn leads: the new exception replaces the
\* one that was on its way, and what comes after it in the same clause is skipped.
AfterFailedRemoval ==
    [discard |-> "end", metadiscard |-> "undo", undo |-> "end", undotarget |-> "end"]

\* _remove_readonly raises, because somebody else has the file open, or a
\* KeyboardInterrupt ends the clause.
RemovalFails(w) ==
    /\ pc[w] = "held" /\ step[w] \in DOMAIN AfterFailedRemoval
    /\ \/ /\ step[w] = "undo" => created[w] /\ metaCreated[w]
          /\ UNCHANGED interrupts
       \/ interrupts < MaxInterrupts /\ interrupts' = interrupts + 1
    /\ ToStep(w, AfterFailedRemoval[step[w]])
    /\ Conclude(w, "unclean")
    /\ UNCHANGED <<lockVars, created, metaCreated, target, meta>>

\* Mutant of Handler: a failed write leaves its file behind.
HandlerWithoutDiscard ==
    [create |-> "end", opened |-> "end", write |-> "end", bind |-> "end", adopt |-> "undo",
     meta |-> "undo", metaopened |-> "undo", metawrite |-> "metadiscard",
     metabind |-> "undo", metaadopt |-> "undo", return |-> "undo"]

\* Where an exception that ends the current statement leads.  The target is
\* created before the try of install_snapshot, the metadata inside it.
Handler ==
    [create |-> "end", opened |-> "end", write |-> "discard", bind |-> "end", adopt |-> "undo",
     meta |-> "undo", metaopened |-> "undo", metawrite |-> "metadiscard",
     metabind |-> "undo", metaadopt |-> "undo", return |-> "undo"]

Raise(w, r) ==
    /\ pc[w] = "held" /\ step[w] \in DOMAIN Handler
    /\ ToStep(w, Handler[step[w]])
    /\ Conclude(w, r)

\* The statement fails on the file; a failing write may have got anywhere.
\* A file that somebody holds open, if only by the handle that an interrupted
\* call lost, cannot be read.
FileError(w) ==
    /\ Raise(w, "failed")
    /\ step[w] \in {"create", "write", "adopt", "meta", "metawrite", "metaadopt"}
    /\ IF step[w] = "write" THEN \E d \in {Torn, PayloadOf[w]} : PutTarget(w, d)
                            ELSE UNCHANGED target
    /\ IF step[w] = "metawrite" THEN \E d \in {Torn, OwnMetadata(w)} : PutMeta(w, d)
                                ELSE UNCHANGED meta
    /\ UNCHANGED <<lockVars, created, metaCreated, interrupts>>

Interrupt(w) ==
    /\ interrupts < MaxInterrupts
    /\ Raise(w, IF step[w] \in Unguarded THEN "cut" ELSE "failed")
    /\ interrupts' = interrupts + 1
    /\ UNCHANGED <<lockVars, created, metaCreated, target, meta>>

LeaveReservation(w) == step[w] = "end" /\ Leave(w) /\ UNCHANGED storeVars

-----------------------------------------------------------------------------
Body(w) ==
    \/ CreateTarget(w) \/ GuardTarget(w) \/ WriteTarget(w) \/ BindCreated(w)
    \/ DiscardTarget(w) \/ AdoptTarget(w)
    \/ CreateMeta(w) \/ GuardMeta(w) \/ WriteMeta(w) \/ BindMetaCreated(w)
    \/ DiscardMeta(w) \/ AdoptMeta(w)
    \/ Return(w)
    \/ Undo(w) \/ UndoTarget(w)

\* A call that has begun keeps running until it ends or its process dies.
Proceed(w) ==
    \/ Reserve(w) /\ UNCHANGED storeVars
    \/ Body(w)
    \/ LeaveReservation(w)
    \/ ReleaseThread(w) /\ UNCHANGED storeVars

Next ==
    \/ \E w \in Workers :
         \/ RejectPart(w) \/ Start(w) \/ Proceed(w)
         \/ FileError(w) \/ RemovalFails(w) \/ Interrupt(w)
    \/ \E p \in Procs : Crash(p) /\ UNCHANGED storeVars
    \/ AllEnded /\ UNCHANGED vars

Spec == StoreInit /\ [][Next]_vars

\* Nothing obliges a call to be made, a file operation to fail, a user to
\* interrupt or a process to die.
FairSpec == Spec /\ \A w \in Workers : WF_vars(Proceed(w))

-----------------------------------------------------------------------------
\* A call that reported success owns a whole snapshot with metadata that names
\* it, for ever: no other call's failure or rollback takes them away.
InstalledStays ==
    \A w \in Workers : result[w] = "installed" =>
        /\ Target(w) = PayloadOf[w]
        /\ NamesOwnContent(w)
        /\ w \in Strict => Meta(w).terms = TermsOf[w]

\* A half-written file has a cause: it is still in the hands of its writer,
\* its writer's process died, its writer was interrupted before the try that
\* guards the file, or its clean-up was stopped.
TornHasCause ==
    \A n \in Names : target[n] = Torn \/ meta[n] = Torn =>
        \E w \in Workers :
            /\ NameOf[w] = n
            /\ \/ /\ pc[w] \in {"held", "dead"}
                  /\ step[w] \in Unguarded \cup {"write", "discard", "metawrite", "metadiscard"}
               \/ result[w] \in LeftBehind

\* A call is refused over identity only if a call that has got at the files
\* before has another content for the name, or left a file there: it died, was
\* interrupted while the file was unguarded, or its clean-up was stopped.
RefusedWithReason ==
    \A w \in Workers : result[w] = "mismatch" =>
        \E v \in Workers :
            /\ NameOf[v] = NameOf[w] /\ step[v] # "create"
            /\ PayloadOf[v] # PayloadOf[w] \/ pc[v] = "dead" \/ result[v] \in LeftBehind

\* Whole snapshots and metadata are never overwritten, only removed.
NeverRewritten ==
    [][\A n \in Names :
          /\ target[n] \in Payloads => target'[n] \in {target[n], Absent}
          /\ meta[n] \in Metadata => meta'[n] \in {meta[n], Absent}]_vars

\* Metadata never stands without its snapshot: whoever removes a snapshot has
\* removed its metadata first, deaths included.  It takes an interrupt between
\* the publication of the metadata and metadata_created, or a removal that
\* fails, to leave some.
OrphanHasCause ==
    interrupts = 0 /\ (\A w \in Workers : result[w] # "unclean") =>
        \A n \in Names : meta[n] # Absent => target[n] # Absent

\* Every call that has begun comes to an end.
EveryCallEnds ==
    \A w \in Workers : pc[w] = "wait" ~> pc[w] \in EndPcs

-----------------------------------------------------------------------------
AskOf(w) ==
    [name |-> NameOf[w], payload |-> PayloadOf[w],
     terms |-> TermsOf[w], strict |-> w \in Strict]

\* What the caller of w has seen so far.
Sees(w) ==
    IF result[w] = "installed" THEN "installed"
    ELSE IF result[w] = "none" /\ lockFailure[w] = "none" THEN "none"
    ELSE "failed"
CallerSees == [w \in Workers |-> Sees(w)]

\* What was reported as installed under n: a snapshot whose metadata names it.
KeptAt(n) ==
    IF ~\E w \in Workers : NameOf[w] = n /\ result[w] = "installed" THEN Absent
    ELSE IF meta[n] \in Metadata /\ meta[n].sha256 = target[n] THEN meta[n]
    ELSE Torn
Kept == [n \in Names |-> KeptAt(n)]

Shelf == INSTANCE SnapshotShelf WITH
    AsksOf <- [w \in Workers |-> {AskOf(w)}], Empty <- Absent,
    shelf <- Kept, report <- CallerSees

\* Locks, exclusive creation, adoption and rollback together keep the promise
\* of the abstract specification: what was reported as installed is the
\* caller's own, and stays as it was.
ImplementsSnapshotShelf == Shelf!Spec
=============================================================================
