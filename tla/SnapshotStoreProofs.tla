------------------------ MODULE SnapshotStoreProofs ------------------------
(***************************************************************************)
(* Proofs about SnapshotStore for any number of calls, processes, targets, *)
(* contents, crashes and interrupts.                                       *)
(***************************************************************************)
EXTENDS SnapshotStore, FileLockProofs

\* The call is writing, or removing, a file that only it can have made.
OwnTarget  == {"opened", "write", "discard", "bind"}
OwnMeta    == {"metaopened", "metawrite", "metadiscard"}

Held(w) == pc[w] = "held"

\* Names for small sets of steps and results, expanded throughout.
USE DEF Unguarded, LeftBehind

\* A call's step, flags and result agree with its place in the reservation.
ControlInv ==
    \A w \in Workers :
        /\ pc[w] \in BeforeBody => step[w] = "create" /\ result[w] = "none"
        /\ step[w] \in {"create", "adopt"} \cup OwnTarget => ~created[w]
        /\ step[w] = "undotarget" => created[w]
        /\ step[w] = "create" => result[w] \in {"none", "rejected"}
        /\ step[w] \notin {"create", "end"} => pc[w] \in {"held", "dead"}
        /\ result[w] = "installed" => step[w] = "end"
        /\ result[w] \in LeftBehind => step[w] \in {"undo", "undotarget", "end"}

\* Until an exception comes, a call has nothing to report.
Regular ==
    {"create", "opened", "write", "bind", "adopt",
     "meta", "metaopened", "metawrite", "metabind", "metaadopt", "return"}
FreshInv ==
    \A w \in Workers :
        /\ pc[w] \in BeforeBody \cup {"held"} => lockFailure[w] = "none"
        /\ Held(w) /\ step[w] \in Regular => result[w] = "none"

\* What a call in the body has established about the files.
FilesInv ==
    \A w \in Workers : Held(w) =>
        /\ step[w] \in {"opened", "write"} => Target(w) = Torn
        /\ step[w] \in {"bind", "meta", "metaopened", "metawrite", "metabind", "metaadopt",
                        "return"}
              => Target(w) = PayloadOf[w]
        /\ step[w] = "adopt" => Target(w) # Absent
        /\ step[w] \in {"metaopened", "metawrite"} => Meta(w) = Torn
        /\ step[w] = "metaadopt" => Meta(w) # Absent
        /\ step[w] \in {"metabind", "return"} =>
              /\ NamesOwnContent(w)
              /\ w \in Strict => Meta(w).terms = TermsOf[w]

\* While a call may still remove a file it made, nobody relies on that file.
UnreliedInv ==
    \A v, w \in Workers :
        /\ Held(w)
        /\ NameOf[v] = NameOf[w]
        /\ \/ step[w] \in OwnTarget \cup OwnMeta
           \/ created[w] /\ step[w] # "end"
        => result[v] # "installed"

\* A torn file has its writer, at work or dead, or one that left it behind.
TornTarget == {"opened", "write", "discard"}
Writer(v, steps) ==
    \/ pc[v] \in {"held", "dead"} /\ step[v] \in steps
    \/ result[v] \in LeftBehind

TornInv ==
    \A n \in Names :
        /\ target[n] = Torn =>
              \E w \in Workers : NameOf[w] = n /\ Writer(w, TornTarget)
        /\ meta[n] = Torn => \E w \in Workers : NameOf[w] = n /\ Writer(w, OwnMeta)

\* Whole files come from some call for the name that has got at the files.
OriginInv ==
    \A n \in Names :
        /\ target[n] \in Payloads =>
              \E v \in Workers :
                 NameOf[v] = n /\ step[v] # "create" /\ PayloadOf[v] = target[n]
        /\ meta[n] \in Metadata =>
              \E v \in Workers :
                 NameOf[v] = n /\ step[v] # "create" /\ PayloadOf[v] = meta[n].sha256

\* Until an interrupt comes or a removal fails, metadata has its snapshot, and a
\* call that may still remove a snapshot has removed its metadata, or will.
Tidy == interrupts = 0 /\ \A w \in Workers : result[w] # "unclean"
OrphanInv ==
    Tidy =>
        /\ \A n \in Names : meta[n] # Absent => target[n] # Absent
        /\ \A w \in Workers : Held(w) =>
              /\ step[w] \in OwnTarget \cup {"undotarget"} => Meta(w) = Absent
              /\ step[w] = "meta" /\ created[w] => Meta(w) = Absent
              /\ step[w] = "undo" /\ created[w] /\ ~metaCreated[w] => Meta(w) = Absent
              /\ step[w] = "metaadopt" => ~created[w]
              /\ step[w] = "return" /\ created[w] => metaCreated[w]

StoreInv ==
    /\ LockInv
    /\ StoreTypeOK
    /\ ControlInv
    /\ FreshInv
    /\ FilesInv
    /\ UnreliedInv
    /\ TornInv
    /\ OriginInv
    /\ OrphanInv
    /\ InstalledStays
    /\ RefusedWithReason

-----------------------------------------------------------------------------
\* Steps that move calls through the reservation and touch nothing else.
Protocol(w) ==
    \/ Start(w)
    \/ Reserve(w) /\ UNCHANGED storeVars
    \/ LeaveReservation(w)
    \/ ReleaseThread(w) /\ UNCHANGED storeVars

\* Steps of the body, those of an exception included.
Inner(w) == Body(w) \/ FileError(w) \/ RemovalFails(w) \/ Interrupt(w)

\* Every step of the specification is of one of these kinds.
LEMMA NextCases ==
    ASSUME [Next]_vars
    PROVE  \/ UNCHANGED vars
           \/ \E w \in Workers : RejectPart(w)
           \/ \E w \in Workers : Protocol(w)
           \/ \E w \in Workers : Inner(w)
           \/ \E p \in Procs : Crash(p) /\ UNCHANGED storeVars
  BY DEF Next, Proceed, Protocol, Inner

\* The body leaves the reservation alone and runs only while it is held.
LEMMA InnerFrame ==
    ASSUME NEW w \in Workers, Inner(w)
    PROVE  UNCHANGED lockVars /\ Held(w) /\ step[w] # "end"
  BY DEF Inner, Body, CreateTarget, GuardTarget, WriteTarget, BindCreated, DiscardTarget,
     AdoptTarget,
     CreateMeta, GuardMeta, WriteMeta, BindMetaCreated, DiscardMeta, AdoptMeta, Return, Undo,
     UndoTarget,
     FileError, Interrupt, Raise, Handler, RemovalFails, AfterFailedRemoval, At, Held

\* The reservation of an install is a behaviour of FileLock.
LEMMA StoreStepIsLockStep ==
    ASSUME [Next]_vars
    PROVE  [LockNext]_lockVars
  <1>1. CASE UNCHANGED vars
    BY <1>1 DEF vars
  <1>2. ASSUME NEW w \in Workers, RejectPart(w) \/ Protocol(w) PROVE LockNext
    BY <1>2 DEF RejectPart, Protocol, Start, LeaveReservation, LockNext, LockStep
  <1>3. ASSUME NEW p \in Procs, Crash(p) PROVE LockNext
    BY <1>3 DEF LockNext
  <1> QED
    BY <1>1, <1>2, <1>3, InnerFrame, NextCases

LEMMA ProtocolMoves ==
    ASSUME LockTypeOK, NEW w \in Workers, Protocol(w)
    PROVE  /\ UNCHANGED storeVars
           /\ \A v \in Workers \ {w} : pc'[v] = pc[v]
           /\ \/ pc[w] \in BeforeBody /\ pc'[w] \in BeforeBody \cup {"held"}
              \/ pc[w] \in BeforeBody /\ pc'[w] \in {"release", "done"}
              \/ pc[w] = "held" /\ step[w] = "end" /\ pc'[w] = "release"
              \/ pc[w] = "release" /\ pc'[w] = "done"
  <1>1. Enter(w) \/ Reserve(w) \/ Leave(w) \/ ReleaseThread(w)
    BY DEF Protocol, Start, LeaveReservation
  <1>2. Leave(w) /\ pc[w] = "held" => step[w] = "end"
    BY DEF Protocol, Start, LeaveReservation, Enter, Reserve, AcquireThread, ThreadTimeout,
       OpenLockFile, FillEmptyFile, FillDenied, TryLock, SpinTimeout, Truncate, WritePid,
       ReleaseThread
  <1>3. UNCHANGED storeVars
    BY DEF Protocol, Start, LeaveReservation
  <1> QED
    BY <1>1, <1>2, <1>3, LockMoves

-----------------------------------------------------------------------------
LEMMA StoreInitInv == StoreInit => StoreInv
  <1> SUFFICES ASSUME StoreInit PROVE StoreInv
    OBVIOUS
  <1>1. LockInv
    BY LockInitInv DEF StoreInit
  <1>2. StoreTypeOK
    BY <1>1, InterruptBoundAssumption DEF LockInv, StoreInit, StoreTypeOK, Steps, Results
  <1>3. ControlInv /\ FreshInv /\ FilesInv /\ UnreliedInv
    BY DEF StoreInit, LockInit, ControlInv, FreshInv, FilesInv, UnreliedInv, Held, OwnTarget,
       OwnMeta,
       BeforeBody
  <1>4. TornInv /\ OriginInv /\ OrphanInv
    BY FileStateAssumption, MetadataAssumption
    DEF StoreInit, LockInit, TornInv, OriginInv, OrphanInv, Held
  <1>5. InstalledStays /\ RefusedWithReason
    BY DEF StoreInit, InstalledStays, RefusedWithReason
  <1> QED
    BY <1>1, <1>2, <1>3, <1>4, <1>5 DEF StoreInv

\* Each step keeps the types of the store's variables.
LEMMA StoreTypeStep ==
    ASSUME StoreTypeOK, [Next]_vars
    PROVE  StoreTypeOK'
  <1> USE DEF StoreTypeOK, Steps, Results, ToStep, Conclude, PutTarget, PutMeta
  <1> USE PlacementLemma, PayloadAssumption
  <1>1. LockTypeOK'
    BY StoreStepIsLockStep, LockTypeStep
  <1>2. CASE UNCHANGED storeVars
    BY <1>1, <1>2 DEF storeVars
  <1>3. ASSUME NEW w \in Workers, RejectPart(w) PROVE StoreTypeOK'
    BY <1>1, <1>3 DEF RejectPart
  <1>4. ASSUME NEW w \in Workers, CreateTarget(w) \/ GuardTarget(w) \/ WriteTarget(w) \/ DiscardTarget(w)
                    \/ UndoTarget(w)
        PROVE  StoreTypeOK'
    BY <1>1, <1>4 DEF CreateTarget, GuardTarget, WriteTarget, DiscardTarget, UndoTarget
  <1>5. ASSUME NEW w \in Workers PROVE BindCreated(w) \/ AdoptTarget(w) => StoreTypeOK'
    <2>1. BindCreated(w) => StoreTypeOK'
      BY <1>1 DEF BindCreated
    <2>2. AdoptTarget(w) => StoreTypeOK'
      BY <1>1 DEF AdoptTarget
    <2> QED
      BY <2>1, <2>2
  <1>6. ASSUME NEW w \in Workers PROVE OwnMetadata(w) \in Metadata
    BY DEF OwnMetadata, Metadata
  <1>7. ASSUME NEW w \in Workers, CreateMeta(w) \/ GuardMeta(w) \/ WriteMeta(w) \/ DiscardMeta(w)
                    \/ Undo(w)
        PROVE  StoreTypeOK'
    BY <1>1, <1>6, <1>7 DEF CreateMeta, GuardMeta, WriteMeta, DiscardMeta, Undo
  <1>8. ASSUME NEW w \in Workers, NEW q \in Results, Raise(w, q)
        PROVE  step' \in [Workers -> Steps] /\ result' \in [Workers -> Results]
    BY <1>8 DEF Raise, Handler
  <1>9. ASSUME NEW w \in Workers, FileError(w) PROVE StoreTypeOK'
    BY <1>1, <1>6, <1>8, <1>9 DEF FileError
  <1>10. ASSUME NEW w \in Workers, Interrupt(w) PROVE StoreTypeOK'
    BY <1>1, <1>8, <1>10, InterruptBoundAssumption DEF Interrupt
  <1>11. ASSUME NEW w \in Workers, Protocol(w) PROVE UNCHANGED storeVars
    BY <1>11, ProtocolMoves
  <1>12. ASSUME NEW w \in Workers, RemovalFails(w) PROVE StoreTypeOK'
    BY <1>1, <1>12, InterruptBoundAssumption DEF RemovalFails, AfterFailedRemoval
  <1>13. ASSUME NEW w \in Workers
         PROVE  BindMetaCreated(w) \/ AdoptMeta(w) \/ Return(w) => StoreTypeOK'
    <2>1. BindMetaCreated(w) => StoreTypeOK'
      BY <1>1 DEF BindMetaCreated
    <2>2. AdoptMeta(w) => StoreTypeOK'
      BY <1>1 DEF AdoptMeta
    <2>3. Return(w) => StoreTypeOK'
      BY <1>1 DEF Return
    <2> QED
      BY <2>1, <2>2, <2>3
  <1> QED
    BY <1>2, <1>3, <1>4, <1>5, <1>7, <1>9, <1>10, <1>11, <1>12, <1>13, NextCases
    DEF Inner, Body, vars

\* Where an exception takes a call.
LEMMA RaiseMoves ==
    ASSUME StoreTypeOK, NEW w \in Workers, FileError(w) \/ Interrupt(w)
    PROVE  /\ Held(w)
           /\ \E q \in {"failed", "cut"} :
                 /\ result' = [result EXCEPT ![w] = q]
                 /\ step[w] \in Unguarded => q = "cut"
                 /\ step[w] \notin Unguarded => q = "failed"
           /\ \E to \in {"end", "discard", "undo", "metadiscard"} :
                 /\ step' = [step EXCEPT ![w] = to]
                 /\ \/ step[w] \in {"create", "opened", "bind"} /\ to = "end"
                    \/ step[w] = "write" /\ to = "discard"
                    \/ step[w] = "metawrite" /\ to = "metadiscard"
                    \/ /\ step[w] \in {"adopt", "meta", "metaopened", "metabind", "metaadopt",
                                       "return"}
                       /\ to = "undo"
  <1>1. PICK q \in {"failed", "cut"} :
          /\ Raise(w, q)
          /\ step[w] \in Unguarded => q = "cut"
          /\ step[w] \notin Unguarded => q = "failed"
    BY DEF FileError, Interrupt, Unguarded
  <1>2. Held(w) /\ Conclude(w, q) /\ step[w] \in DOMAIN Handler
        /\ step' = [step EXCEPT ![w] = Handler[step[w]]]
    BY <1>1 DEF Raise, Held, ToStep
  <1>3. DOMAIN Handler = {"create", "opened", "write", "bind", "adopt", "meta", "metaopened",
                          "metawrite", "metabind", "metaadopt", "return"}
    BY DEF Handler
  <1>4. /\ step[w] \in {"create", "opened", "bind"} => Handler[step[w]] = "end"
        /\ step[w] = "write" => Handler[step[w]] = "discard"
        /\ step[w] = "metawrite" => Handler[step[w]] = "metadiscard"
        /\ step[w] \in {"adopt", "meta", "metaopened", "metabind", "metaadopt", "return"}
              => Handler[step[w]] = "undo"
    BY DEF Handler
  <1> QED
    BY <1>1, <1>2, <1>3, <1>4 DEF Conclude

\* Where a stopped removal takes a call.
LEMMA RemovalMoves ==
    ASSUME NEW w \in Workers, RemovalFails(w)
    PROVE  /\ Held(w) /\ step[w] \notin {"create", "end"}
           /\ result' = [result EXCEPT ![w] = "unclean"]
           /\ UNCHANGED <<pc, target, meta, created, metaCreated>>
           /\ \E to \in {"end", "undo"} :
                 /\ step' = [step EXCEPT ![w] = to]
                 /\ \/ step[w] \in {"discard", "undo", "undotarget"} /\ to = "end"
                    \/ step[w] = "metadiscard" /\ to = "undo"
  <1>1. DOMAIN AfterFailedRemoval = {"discard", "metadiscard", "undo", "undotarget"}
    BY DEF AfterFailedRemoval
  <1>2. /\ step[w] = "metadiscard" => AfterFailedRemoval[step[w]] = "undo"
        /\ step[w] \in {"discard", "undo", "undotarget"} => AfterFailedRemoval[step[w]] = "end"
    BY DEF AfterFailedRemoval
  <1> QED
    BY <1>1, <1>2 DEF RemovalFails, Held, ToStep, Conclude, lockVars

\* That a call left a file behind is never forgotten.
LEMMA LeftStays ==
    ASSUME StoreTypeOK, ControlInv, [Next]_vars
    PROVE  \A v \in Workers : result[v] \in LeftBehind => result'[v] \in {result[v], "unclean"}
  <1> USE DEF StoreTypeOK, ControlInv
  <1>1. CASE UNCHANGED result
    BY <1>1
  <1>2. ASSUME NEW w \in Workers, RejectPart(w) PROVE result[w] = "none"
    BY <1>2 DEF RejectPart, Decline, BeforeBody
  <1>3. ASSUME NEW w \in Workers, Inner(w)
        PROVE  \/ UNCHANGED result
               \/ result' = [result EXCEPT ![w] = "unclean"]
               \/ /\ \E q \in Results : result' = [result EXCEPT ![w] = q]
                  /\ step[w] \notin {"undo", "undotarget", "end"}
    <2>1. CASE FileError(w) \/ Interrupt(w)
      BY <2>1, RaiseMoves DEF FileError, Interrupt, Results
    <2>2. CASE RemovalFails(w)
      BY <2>2, RemovalMoves
    <2>3. CASE Body(w)
      BY <2>3 DEF Body, CreateTarget, GuardTarget, WriteTarget, BindCreated, DiscardTarget,
         AdoptTarget,
         CreateMeta, GuardMeta, WriteMeta, BindMetaCreated, DiscardMeta, AdoptMeta, Return, Undo,
         UndoTarget, At, Conclude, Results
    <2> QED
      BY <1>3, <2>1, <2>2, <2>3 DEF Inner
  <1>4. ASSUME NEW w \in Workers, RejectPart(w)
        PROVE  \A v \in Workers : result[v] \in LeftBehind => result'[v] \in {result[v], "unclean"}
    BY <1>2, <1>4 DEF RejectPart, Conclude
  <1>5. ASSUME NEW w \in Workers, Inner(w)
        PROVE  \A v \in Workers : result[v] \in LeftBehind => result'[v] \in {result[v], "unclean"}
    BY <1>3, <1>5
  <1> QED
    BY <1>1, <1>4, <1>5, NextCases, ProtocolMoves DEF vars, storeVars

\* The steps of a call stay in step with its reservation.
LEMMA ControlStep ==
    ASSUME StoreTypeOK, ControlInv, [Next]_vars
    PROVE  ControlInv'
  <1> USE DEF ControlInv, StoreTypeOK, LockTypeOK, BeforeBody, OwnTarget, ToStep, Conclude,
              Steps, Results, At
  <1>1. CASE UNCHANGED vars
    BY <1>1 DEF vars, lockVars, storeVars
  <1>2. ASSUME NEW w \in Workers, RejectPart(w) PROVE ControlInv'
    BY <1>2 DEF RejectPart, Decline, Goto
  <1>3. ASSUME NEW w \in Workers, Protocol(w) PROVE ControlInv'
    BY <1>3, ProtocolMoves DEF storeVars, Pcs, ThreadPcs, OpenPcs, EndPcs
  <1>4. ASSUME NEW w \in Workers, CreateTarget(w) \/ GuardTarget(w) \/ WriteTarget(w) \/ DiscardTarget(w)
                    \/ UndoTarget(w)
        PROVE  ControlInv'
    BY <1>4 DEF CreateTarget, GuardTarget, WriteTarget, DiscardTarget, UndoTarget, lockVars
  <1>5. ASSUME NEW w \in Workers,
               BindCreated(w) \/ AdoptTarget(w) \/ BindMetaCreated(w) \/ AdoptMeta(w) \/ Return(w)
        PROVE  ControlInv'
    BY <1>5 DEF BindCreated, AdoptTarget, BindMetaCreated, AdoptMeta, Return, lockVars
  <1>6. ASSUME NEW w \in Workers, CreateMeta(w) \/ GuardMeta(w) \/ WriteMeta(w) \/ DiscardMeta(w)
                    \/ Undo(w)
        PROVE  ControlInv'
    BY <1>6 DEF CreateMeta, GuardMeta, WriteMeta, DiscardMeta, Undo, lockVars
  <1>7. ASSUME NEW w \in Workers, FileError(w) \/ Interrupt(w) PROVE ControlInv'
    <2>1. UNCHANGED <<pc, created>>
      BY <1>7 DEF FileError, Interrupt, lockVars
    <2> QED
      BY <1>7, <2>1, RaiseMoves DEF Held
  <1>8. ASSUME NEW p \in Procs, Crash(p), UNCHANGED storeVars PROVE ControlInv'
    BY <1>8, CrashMoves DEF storeVars
  <1>9. ASSUME NEW w \in Workers, RemovalFails(w) PROVE ControlInv'
    BY <1>9, RemovalMoves DEF Held
  <1> QED
    BY <1>1, <1>2, <1>3, <1>4, <1>5, <1>6, <1>7, <1>8, <1>9, NextCases DEF Inner, Body

LEMMA FreshStep ==
    ASSUME StoreTypeOK, ControlInv, FreshInv, [Next]_vars
    PROVE  FreshInv'
  <1> USE DEF FreshInv, StoreTypeOK, LockTypeOK, Held, Regular
  <1>1. CASE UNCHANGED vars
    BY <1>1 DEF vars, lockVars, storeVars
  <1>2. ASSUME NEW w \in Workers, RejectPart(w) PROVE FreshInv'
    BY <1>2 DEF RejectPart, Decline, Goto, Conclude, BeforeBody
  <1>3. ASSUME NEW w \in Workers, Protocol(w) PROVE FreshInv'
    <2>1. Enter(w) \/ Reserve(w) \/ Leave(w) \/ ReleaseThread(w)
      BY <1>3 DEF Protocol, Start, LeaveReservation
    <2>2. UNCHANGED storeVars
      BY <1>3, ProtocolMoves
    <2> QED
      BY <2>1, <2>2, LockMoves DEF storeVars, ControlInv, BeforeBody
  <1>4. ASSUME NEW w \in Workers, Inner(w) PROVE FreshInv'
    <2>1. UNCHANGED <<pc, lockFailure>>
      BY <1>4, InnerFrame DEF lockVars
    <2>2. CASE FileError(w) \/ Interrupt(w)
      BY <2>1, <2>2, RaiseMoves DEF FileError, Interrupt
    <2>3. CASE RemovalFails(w)
      BY <2>1, <2>3, RemovalMoves
    <2>4. CASE Body(w)
      <3>1. \A v \in Workers \ {w} : step'[v] = step[v] /\ result'[v] = result[v]
        BY <2>4 DEF Body, CreateTarget, GuardTarget, WriteTarget, BindCreated, DiscardTarget,
           AdoptTarget,
           CreateMeta, GuardMeta, WriteMeta, BindMetaCreated, DiscardMeta, AdoptMeta, Return,
           Undo,
           UndoTarget, ToStep, Conclude
      <3>2. step'[w] \in Regular => step[w] \in Regular /\ result'[w] = result[w]
        BY <2>4 DEF Body, CreateTarget, GuardTarget, WriteTarget, BindCreated, DiscardTarget,
           AdoptTarget,
           CreateMeta, GuardMeta, WriteMeta, BindMetaCreated, DiscardMeta, AdoptMeta, Return,
           Undo,
           UndoTarget, At, ToStep
      <3> QED
        BY <2>1, <3>1, <3>2
    <2> QED
      BY <1>4, <2>2, <2>3, <2>4 DEF Inner
  <1>5. ASSUME NEW p \in Procs, Crash(p), UNCHANGED storeVars PROVE FreshInv'
    BY <1>5, CrashMoves DEF storeVars, Crash, BeforeBody
  <1> QED
    BY <1>1, <1>2, <1>3, <1>4, <1>5, NextCases

\* Only the call in the body of a name's reservation touches its files.
LEMMA OnlyHolderWrites ==
    ASSUME StoreInv, NEW w \in Workers, Inner(w)
    PROVE  /\ \A n \in Names \ {NameOf[w]} : target'[n] = target[n] /\ meta'[n] = meta[n]
           /\ \A v \in Workers \ {w} :
                 /\ step'[v] = step[v]
                 /\ created'[v] = created[v]
                 /\ result'[v] = result[v]
                 /\ NameOf[v] = NameOf[w] => ~Held(v)
           /\ UNCHANGED pc
  <1>1. UNCHANGED lockVars /\ Held(w)
    BY InnerFrame
  <1>2. \A v \in Workers \ {w} : NameOf[v] = NameOf[w] => ~Held(v)
    BY <1>1, OneHolder DEF Held, StoreInv
  <1>3. /\ \A n \in Names \ {NameOf[w]} : target'[n] = target[n] /\ meta'[n] = meta[n]
        /\ \A v \in Workers \ {w} :
              step'[v] = step[v] /\ created'[v] = created[v] /\ result'[v] = result[v]
    BY DEF StoreInv, StoreTypeOK, Inner, Body, CreateTarget, GuardTarget, WriteTarget,
       BindCreated,
       DiscardTarget, AdoptTarget, CreateMeta, GuardMeta, WriteMeta, BindMetaCreated, DiscardMeta,
       AdoptMeta, Return, Undo, UndoTarget, FileError, Interrupt, Raise, RemovalFails, ToStep,
       Conclude, PutTarget, PutMeta
  <1> QED
    BY <1>1, <1>2, <1>3 DEF lockVars

\* A call in the body knows what the files of its name hold.
LEMMA FilesStep ==
    ASSUME StoreInv, [Next]_vars
    PROVE  FilesInv'
  <1> USE PlacementLemma, PayloadAssumption
  <1> USE DEF StoreInv, FilesInv, StoreTypeOK, LockTypeOK, Held, At, ToStep, Target, Meta,
              PutTarget, PutMeta, Steps
  <1>1. CASE UNCHANGED vars
    BY <1>1 DEF vars, lockVars, storeVars, NamesOwnContent
  <1>2. ASSUME NEW w \in Workers, RejectPart(w) PROVE FilesInv'
    BY <1>2 DEF RejectPart, Decline, Goto, NamesOwnContent
  <1>3. ASSUME NEW w \in Workers, Protocol(w) PROVE FilesInv'
    BY <1>3, ProtocolMoves DEF storeVars, NamesOwnContent, ControlInv, BeforeBody
  <1>4. ASSUME NEW w \in Workers, Inner(w) PROVE FilesInv'
    <2>1. ASSUME NEW v \in Workers \ {w}, Held(v)'
          PROVE  Held(v) /\ step'[v] = step[v]
                 /\ target'[NameOf[v]] = target[NameOf[v]] /\ meta'[NameOf[v]] = meta[NameOf[v]]
      BY <1>4, <2>1, OnlyHolderWrites
    <2>2. SUFFICES
            /\ step'[w] \in {"opened", "write"} => Target(w)' = Torn
            /\ step'[w] \in {"bind", "meta", "metaopened", "metawrite", "metabind",
                             "metaadopt", "return"}
                  => Target(w)' = PayloadOf[w]
            /\ step'[w] = "adopt" => Target(w)' # Absent
            /\ step'[w] \in {"metaopened", "metawrite"} => Meta(w)' = Torn
            /\ step'[w] = "metaadopt" => Meta(w)' # Absent
            /\ step'[w] \in {"metabind", "return"} =>
                  /\ NamesOwnContent(w)'
                  /\ w \in Strict => Meta(w)'.terms = TermsOf[w]
      BY <2>1 DEF NamesOwnContent
    <2>3. OwnMetadata(w) \in Metadata /\ OwnMetadata(w).sha256 = PayloadOf[w]
          /\ OwnMetadata(w).terms = TermsOf[w]
      BY DEF OwnMetadata, Metadata
    <2>4. CASE CreateTarget(w) \/ GuardTarget(w) \/ WriteTarget(w) \/ BindCreated(w)
               \/ DiscardTarget(w)
      BY <2>4 DEF CreateTarget, GuardTarget, WriteTarget, BindCreated, DiscardTarget, lockVars
    <2>5. CASE AdoptTarget(w) \/ CreateMeta(w) \/ GuardMeta(w) \/ DiscardMeta(w)
      BY <2>5 DEF AdoptTarget, CreateMeta, GuardMeta, DiscardMeta, lockVars
    <2>6. CASE WriteMeta(w)
      BY <2>3, <2>6 DEF WriteMeta, NamesOwnContent, lockVars
    <2>7. CASE BindMetaCreated(w) \/ AdoptMeta(w)
      BY <2>7 DEF BindMetaCreated, AdoptMeta, NamesOwnContent, lockVars
    <2>8. CASE Return(w) \/ Undo(w) \/ UndoTarget(w)
      BY <2>8 DEF Return, Undo, UndoTarget, lockVars
    <2>9. CASE FileError(w) \/ Interrupt(w)
      BY <2>9, RaiseMoves DEF FileError, Interrupt
    <2>10. CASE RemovalFails(w)
      BY <2>10, RemovalMoves
    <2> QED
      BY <1>4, <2>4, <2>5, <2>6, <2>7, <2>8, <2>9, <2>10 DEF Inner, Body
  <1>5. ASSUME NEW p \in Procs, Crash(p), UNCHANGED storeVars PROVE FilesInv'
    BY <1>5, CrashMoves DEF storeVars, NamesOwnContent
  <1> QED
    BY <1>1, <1>2, <1>3, <1>4, <1>5, NextCases

\* No call relies on a file that its maker may still remove.
LEMMA UnreliedStep ==
    ASSUME StoreInv, [Next]_vars
    PROVE  UnreliedInv'
  <1> USE PlacementLemma, PayloadAssumption, FileStateAssumption, MetadataAssumption
  <1> USE DEF StoreInv, UnreliedInv, StoreTypeOK, LockTypeOK, Held, At, ToStep, Conclude,
              Steps, OwnTarget, OwnMeta
  <1>1. CASE UNCHANGED vars
    BY <1>1 DEF vars, lockVars, storeVars
  <1>2. ASSUME NEW w \in Workers, RejectPart(w) PROVE UnreliedInv'
    BY <1>2 DEF RejectPart, Decline, Goto
  <1>3. ASSUME NEW w \in Workers, Protocol(w) PROVE UnreliedInv'
    BY <1>3, ProtocolMoves DEF storeVars, ControlInv, BeforeBody
  <1>4. ASSUME NEW w \in Workers, Inner(w) PROVE UnreliedInv'
    <2>1. ASSUME NEW v \in Workers \ {w}
          PROVE  /\ step'[v] = step[v] /\ created'[v] = created[v] /\ result'[v] = result[v]
                 /\ NameOf[v] = NameOf[w] => ~Held(v)
                 /\ Held(v)' <=> Held(v)
      BY <1>4, OnlyHolderWrites
    <2>2. Held(w) /\ Held(w)' /\ step[w] # "end" /\ result[w] # "installed"
      BY <1>4, InnerFrame, OnlyHolderWrites DEF ControlInv
    <2>3. SUFFICES
            /\ \/ step'[w] \in OwnTarget \cup OwnMeta
               \/ created'[w] /\ step'[w] # "end"
               => \A v \in Workers : NameOf[v] = NameOf[w] => result'[v] # "installed"
            /\ result'[w] = "installed" => step'[w] = "end"
      BY <2>1, <2>2
    <2>4. CASE CreateTarget(w)
      BY <2>1, <2>4 DEF CreateTarget, InstalledStays, Target, ControlInv
    <2>5. CASE CreateMeta(w)
      BY <2>1, <2>5 DEF CreateMeta, InstalledStays, NamesOwnContent, Meta, ControlInv
    <2>6. CASE GuardTarget(w) \/ WriteTarget(w) \/ BindCreated(w) \/ DiscardTarget(w)
               \/ AdoptTarget(w)
      BY <2>1, <2>2, <2>6
      DEF GuardTarget, WriteTarget, BindCreated, DiscardTarget, AdoptTarget, ControlInv
    <2>7. CASE GuardMeta(w) \/ WriteMeta(w) \/ BindMetaCreated(w) \/ DiscardMeta(w)
               \/ AdoptMeta(w)
      BY <2>1, <2>2, <2>7 DEF GuardMeta, WriteMeta, BindMetaCreated, DiscardMeta, AdoptMeta, ControlInv
    <2>8. CASE Return(w) \/ Undo(w) \/ UndoTarget(w)
      BY <2>1, <2>2, <2>8 DEF Return, Undo, UndoTarget, ControlInv
    <2>9. CASE FileError(w) \/ Interrupt(w)
      <3>1. created' = created
        BY <2>9 DEF FileError, Interrupt
      <3> QED
        BY <2>1, <2>2, <2>9, <3>1, RaiseMoves DEF ControlInv
    <2>10. CASE RemovalFails(w)
      BY <2>1, <2>2, <2>10, RemovalMoves DEF ControlInv
    <2> QED
      BY <1>4, <2>4, <2>5, <2>6, <2>7, <2>8, <2>9, <2>10 DEF Inner, Body
  <1>5. ASSUME NEW p \in Procs, Crash(p), UNCHANGED storeVars PROVE UnreliedInv'
    BY <1>5, CrashMoves DEF storeVars
  <1> QED
    BY <1>1, <1>2, <1>3, <1>4, <1>5, NextCases

\* A torn file keeps its writer until it is whole or gone.
LEMMA TornStep ==
    ASSUME StoreInv, [Next]_vars
    PROVE  TornInv'
  <1> USE PlacementLemma, PayloadAssumption, FileStateAssumption, MetadataAssumption
  <1> USE DEF StoreInv, TornInv, StoreTypeOK, LockTypeOK, Held, At, ToStep, Target, Meta,
              PutTarget, PutMeta, Steps, OwnMeta, TornTarget, Writer
  <1>1. CASE UNCHANGED vars
    BY <1>1 DEF vars, lockVars, storeVars
  <1>2. ASSUME UNCHANGED <<target, meta, step>>,
               \A v \in Workers : pc[v] \in {"held", "dead"} /\ step[v] # "end"
                                   => pc'[v] \in {"held", "dead"}
        PROVE  TornInv'
    <2>1. ASSUME NEW v \in Workers, NEW steps \in SUBSET (Steps \ {"end"}), Writer(v, steps)
          PROVE  Writer(v, steps)'
      BY <1>2, <2>1, LeftStays
    <2>2. TornTarget \in SUBSET (Steps \ {"end"}) /\ OwnMeta \in SUBSET (Steps \ {"end"})
      OBVIOUS
    <2>3. ASSUME NEW n \in Names, NEW steps \in SUBSET (Steps \ {"end"}),
                 \E v \in Workers : NameOf[v] = n /\ Writer(v, steps)
          PROVE  \E v \in Workers : NameOf[v] = n /\ Writer(v, steps)'
      BY <2>1, <2>3
    <2> HIDE DEF Writer, Steps, OwnMeta, TornTarget
    <2>4. ASSUME NEW n \in Names, target'[n] = Torn
          PROVE  \E v \in Workers : NameOf[v] = n /\ Writer(v, TornTarget)'
      BY <1>2, <2>2, <2>3, <2>4 DEF TornInv
    <2>5. ASSUME NEW n \in Names, meta'[n] = Torn
          PROVE  \E v \in Workers : NameOf[v] = n /\ Writer(v, OwnMeta)'
      BY <1>2, <2>2, <2>3, <2>5 DEF TornInv
    <2> QED
      BY <2>4, <2>5 DEF TornInv
  <1>3. ASSUME NEW w \in Workers, RejectPart(w) PROVE TornInv'
    BY <1>2, <1>3 DEF RejectPart, Decline, Goto
  <1>4. ASSUME NEW w \in Workers, Protocol(w) PROVE TornInv'
    BY <1>2, <1>4, ProtocolMoves DEF storeVars, BeforeBody
  <1>5. ASSUME NEW w \in Workers, Inner(w) PROVE TornInv'
    <2> DEFINE n == NameOf[w]
    <2>1. /\ \A m \in Names \ {n} : target'[m] = target[m] /\ meta'[m] = meta[m]
          /\ \A v \in Workers \ {w} : step'[v] = step[v] /\ pc'[v] = pc[v]
          /\ \A v \in Workers : result[v] \in LeftBehind => result'[v] \in LeftBehind
          /\ Held(w) /\ Held(w)'
      BY <1>5, OnlyHolderWrites, InnerFrame, LeftStays
    <2>2. SUFFICES
            /\ target'[n] = Torn =>
                  \/ step'[w] \in TornTarget \/ result'[w] \in LeftBehind
                  \/ target[n] = Torn /\ step[w] \notin TornTarget
            /\ meta'[n] = Torn =>
                  \/ step'[w] \in OwnMeta \/ result'[w] \in LeftBehind
                  \/ meta[n] = Torn /\ step[w] \notin OwnMeta
      <3>1. ASSUME NEW m \in Names, target'[m] = Torn
            PROVE  \E v \in Workers : NameOf[v] = m /\ Writer(v, TornTarget)'
        <4>1. CASE m = n /\ (step'[w] \in TornTarget \/ result'[w] \in LeftBehind)
          BY <2>1, <4>1
        <4>2. CASE target[m] = Torn /\ (m = n => step[w] \notin TornTarget)
          <5>1. PICK v \in Workers : NameOf[v] = m /\ Writer(v, TornTarget)
            BY <4>2
          <5> QED
            BY <2>1, <4>2, <5>1
        <4> QED
          BY <2>1, <2>2, <3>1, <4>1, <4>2
      <3>2. ASSUME NEW m \in Names, meta'[m] = Torn
            PROVE  \E v \in Workers : NameOf[v] = m /\ Writer(v, OwnMeta)'
        <4>1. CASE m = n /\ (step'[w] \in OwnMeta \/ result'[w] \in LeftBehind)
          BY <2>1, <4>1
        <4>2. CASE meta[m] = Torn /\ (m = n => step[w] \notin OwnMeta)
          <5>1. PICK v \in Workers : NameOf[v] = m /\ Writer(v, OwnMeta)
            BY <4>2
          <5> QED
            BY <2>1, <4>2, <5>1
        <4> QED
          BY <2>1, <2>2, <3>2, <4>1, <4>2
      <3> QED
        BY <3>1, <3>2
    <2>3. OwnMetadata(w) \in Metadata
      BY DEF OwnMetadata, Metadata
    <2>4. CASE CreateTarget(w) \/ GuardTarget(w) \/ WriteTarget(w) \/ BindCreated(w)
               \/ DiscardTarget(w)
      BY <2>4 DEF CreateTarget, GuardTarget, WriteTarget, BindCreated, DiscardTarget
    <2>5. CASE AdoptTarget(w) \/ CreateMeta(w) \/ GuardMeta(w) \/ WriteMeta(w) \/ DiscardMeta(w)
      BY <2>3, <2>5 DEF AdoptTarget, CreateMeta, GuardMeta, WriteMeta, DiscardMeta
    <2>6. CASE BindMetaCreated(w) \/ AdoptMeta(w) \/ Return(w) \/ Undo(w) \/ UndoTarget(w)
      BY <2>6 DEF BindMetaCreated, AdoptMeta, Return, Undo, UndoTarget
    <2>7. CASE FileError(w) \/ Interrupt(w)
      BY <2>7, RaiseMoves DEF FileError, Interrupt
    <2>8. CASE RemovalFails(w)
      BY <2>8, RemovalMoves
    <2> QED
      BY <1>5, <2>4, <2>5, <2>6, <2>7, <2>8 DEF Inner, Body
  <1>6. ASSUME NEW p \in Procs, Crash(p), UNCHANGED storeVars PROVE TornInv'
    BY <1>2, <1>6, CrashMoves DEF storeVars
  <1> QED
    BY <1>1, <1>3, <1>4, <1>5, <1>6, NextCases

\* A call that has got at the files never returns to its first step.
LEMMA BegunStays ==
    ASSUME StoreTypeOK, [Next]_vars
    PROVE  /\ \A v \in Workers : step[v] # "create" => step'[v] # "create"
           /\ \A w \in Workers : Inner(w) => step'[w] # "create"
  <1> USE DEF StoreTypeOK, At, ToStep
  <1>1. ASSUME UNCHANGED step PROVE \A v \in Workers : step[v] # "create" => step'[v] # "create"
    BY <1>1
  <1>2. ASSUME NEW w \in Workers, Inner(w)
        PROVE  \E s \in Steps \ {"create"} : step' = [step EXCEPT ![w] = s]
    <2>1. CASE FileError(w) \/ Interrupt(w)
      BY <2>1, RaiseMoves DEF FileError, Interrupt, Steps
    <2>2. CASE CreateTarget(w) \/ GuardTarget(w) \/ WriteTarget(w) \/ BindCreated(w)
               \/ DiscardTarget(w)
               \/ AdoptTarget(w) \/ CreateMeta(w) \/ GuardMeta(w) \/ WriteMeta(w)
      BY <2>2 DEF CreateTarget, GuardTarget, WriteTarget, BindCreated, DiscardTarget, AdoptTarget,
         CreateMeta, GuardMeta, WriteMeta, Steps
    <2>3. CASE BindMetaCreated(w) \/ DiscardMeta(w) \/ AdoptMeta(w) \/ Return(w) \/ Undo(w)
               \/ UndoTarget(w)
      BY <2>3 DEF BindMetaCreated, DiscardMeta, AdoptMeta, Return, Undo, UndoTarget, Steps
    <2>4. CASE RemovalFails(w)
      BY <2>4, RemovalMoves DEF Steps
    <2> QED
      BY <1>2, <2>1, <2>2, <2>3, <2>4 DEF Inner, Body
  <1> QED
    BY <1>1, <1>2, NextCases, ProtocolMoves DEF vars, storeVars, RejectPart

\* Files come from the calls for their name.
LEMMA OriginStep ==
    ASSUME StoreInv, [Next]_vars
    PROVE  OriginInv'
  <1> USE PlacementLemma, PayloadAssumption, FileStateAssumption, MetadataAssumption
  <1> USE DEF StoreInv, OriginInv, StoreTypeOK
  <1>1. CASE UNCHANGED <<target, meta>>
    BY <1>1, BegunStays
  <1>2. ASSUME NEW w \in Workers, Inner(w) PROVE OriginInv'
    <2>1. /\ target'[NameOf[w]] \in {target[NameOf[w]], Absent, Torn, PayloadOf[w]}
          /\ meta'[NameOf[w]] \in {meta[NameOf[w]], Absent, Torn, OwnMetadata(w)}
      BY <1>2 DEF Inner, Body, CreateTarget, GuardTarget, WriteTarget, BindCreated, DiscardTarget,
         AdoptTarget, CreateMeta, GuardMeta, WriteMeta, BindMetaCreated, DiscardMeta, AdoptMeta,
         Return,
         Undo, UndoTarget, FileError, Interrupt, RemovalFails, PutTarget, PutMeta
    <2>2. OwnMetadata(w).sha256 = PayloadOf[w]
      BY DEF OwnMetadata
    <2>3. \A n \in Names \ {NameOf[w]} : target'[n] = target[n] /\ meta'[n] = meta[n]
      BY <1>2, OnlyHolderWrites
    <2>4. ASSUME NEW n \in Names, target'[n] \in Payloads
          PROVE  \E v \in Workers : NameOf[v] = n /\ step'[v] # "create" /\ PayloadOf[v] = target'[n]
      BY <1>2, <2>1, <2>3, <2>4, BegunStays
    <2>5. ASSUME NEW n \in Names, meta'[n] \in Metadata
          PROVE  \E v \in Workers :
                     NameOf[v] = n /\ step'[v] # "create" /\ PayloadOf[v] = meta'[n].sha256
      BY <1>2, <2>1, <2>2, <2>3, <2>5, BegunStays
    <2> QED
      BY <2>4, <2>5
  <1> QED
    BY <1>1, <1>2, NextCases, ProtocolMoves DEF vars, storeVars, RejectPart

\* What a successful call installed stays.
LEMMA InstalledStep ==
    ASSUME StoreInv, [Next]_vars
    PROVE  InstalledStays'
  <1> USE PlacementLemma, PayloadAssumption, FileStateAssumption, MetadataAssumption
  <1> USE DEF StoreInv, InstalledStays, StoreTypeOK, Held, At, Target, Meta, PutTarget,
              PutMeta, NamesOwnContent, Conclude
  <1>1. CASE UNCHANGED <<target, meta, result>>
    BY <1>1
  <1>2. ASSUME NEW w \in Workers, RejectPart(w) PROVE InstalledStays'
    BY <1>2 DEF RejectPart
  <1>3. ASSUME NEW w \in Workers, Inner(w) PROVE InstalledStays'
    <2>1. /\ \A n \in Names \ {NameOf[w]} : target'[n] = target[n] /\ meta'[n] = meta[n]
          /\ \A v \in Workers \ {w} : result'[v] = result[v]
          /\ Held(w)
      BY <1>3, OnlyHolderWrites, InnerFrame
    <2>2. CASE CreateTarget(w) \/ GuardTarget(w) \/ CreateMeta(w) \/ GuardMeta(w)
      BY <2>2 DEF CreateTarget, GuardTarget, CreateMeta, GuardMeta
    <2>3. CASE WriteTarget(w) \/ DiscardTarget(w) \/ WriteMeta(w) \/ DiscardMeta(w)
      <3>1. \A v \in Workers : NameOf[v] = NameOf[w] => result[v] # "installed"
        BY <2>1, <2>3 DEF WriteTarget, DiscardTarget, WriteMeta, DiscardMeta, UnreliedInv,
           OwnTarget, OwnMeta
      <3> QED
        BY <2>1, <2>3, <3>1 DEF WriteTarget, DiscardTarget, WriteMeta, DiscardMeta
    <2>4. CASE BindCreated(w) \/ AdoptTarget(w) \/ BindMetaCreated(w) \/ AdoptMeta(w)
      BY <2>4 DEF BindCreated, AdoptTarget, BindMetaCreated, AdoptMeta
    <2>5. CASE Return(w)
      BY <2>5 DEF Return, FilesInv
    <2>6. CASE Undo(w) \/ UndoTarget(w)
      <3>1. created[w] => \A v \in Workers : NameOf[v] = NameOf[w] => result[v] # "installed"
        BY <2>1, <2>6 DEF Undo, UndoTarget, UnreliedInv
      <3>2. UndoTarget(w) => created[w]
        BY <2>1 DEF UndoTarget, ControlInv
      <3> QED
        BY <2>1, <2>6, <3>1, <3>2 DEF Undo, UndoTarget
    <2>7. CASE FileError(w)
      <3>1. step[w] \in {"write", "metawrite"} =>
               \A v \in Workers : NameOf[v] = NameOf[w] => result[v] # "installed"
        BY <2>1 DEF UnreliedInv, OwnTarget, OwnMeta
      <3>2. result' = [result EXCEPT ![w] = "failed"]
        BY <2>7, RaiseMoves DEF FileError
      <3> QED
        BY <2>1, <2>7, <3>1, <3>2 DEF FileError
    <2>8. CASE Interrupt(w)
      BY <2>8, RaiseMoves DEF Interrupt
    <2>9. CASE RemovalFails(w)
      BY <2>9, RemovalMoves
    <2> QED
      BY <1>3, <2>2, <2>3, <2>4, <2>5, <2>6, <2>7, <2>8, <2>9 DEF Inner, Body
  <1> QED
    BY <1>1, <1>2, <1>3, NextCases, ProtocolMoves DEF vars, storeVars

\* A call is refused over identity only because of another content, a death or a
\* failed removal.
LEMMA RefusedStep ==
    ASSUME StoreInv, [Next]_vars
    PROVE  RefusedWithReason'
  <1> USE PlacementLemma, PayloadAssumption, FileStateAssumption, MetadataAssumption
  <1> USE DEF StoreInv, RefusedWithReason, StoreTypeOK, Conclude
  <1> DEFINE Reason(w) == \E v \in Workers :
                 /\ NameOf[v] = NameOf[w] /\ step[v] # "create"
                 /\ PayloadOf[v] # PayloadOf[w] \/ pc[v] = "dead" \/ result[v] \in LeftBehind
  <1>1. ASSUME UNCHANGED result, \A v \in Workers : pc[v] = "dead" => pc'[v] = "dead"
        PROVE  RefusedWithReason'
    BY <1>1, BegunStays
  <1>2. ASSUME NEW w \in Workers, RejectPart(w) PROVE RefusedWithReason'
    BY <1>2, BegunStays, LeftStays DEF RejectPart, Decline, Goto, LockTypeOK
  <1>3. ASSUME NEW w \in Workers, Protocol(w) PROVE RefusedWithReason'
    <2>1. UNCHANGED result /\ \A v \in Workers : pc[v] = "dead" => pc'[v] = "dead"
      BY <1>3, ProtocolMoves DEF storeVars, BeforeBody
    <2> QED
      BY <1>1, <2>1
  <1>4. ASSUME NEW w \in Workers, Inner(w) PROVE RefusedWithReason'
    <2>1. /\ UNCHANGED pc
          /\ \A v \in Workers \ {w} : NameOf[v] = NameOf[w] => pc[v] # "held"
          /\ \A v \in Workers : result[v] \in LeftBehind => result'[v] \in LeftBehind
          /\ Held(w)
      BY <1>4, OnlyHolderWrites, InnerFrame, LeftStays DEF Held
    <2>2. CASE AdoptTarget(w)
      <3>1. At(w, "adopt") /\ Target(w) # PayloadOf[w] => Reason(w)
        <4>1. CASE Target(w) \in Payloads
          BY <4>1 DEF OriginInv, Target
        <4>2. CASE Target(w) = Torn
          BY <2>1, <2>2, <4>2 DEF TornInv, TornTarget, Writer, Target, At, AdoptTarget, ControlInv
        <4>3. Target(w) # Absent
          BY <2>1, <2>2 DEF AdoptTarget, At, FilesInv
        <4> QED
          BY <4>1, <4>2, <4>3 DEF Target
      <3> QED
        BY <2>1, <2>2, <3>1, BegunStays DEF AdoptTarget
    <2>3. CASE AdoptMeta(w)
      <3>1. At(w, "metaadopt") /\ ~NamesOwnContent(w) => Reason(w)
        <4>1. CASE Meta(w) \in Metadata
          BY <4>1 DEF OriginInv, Meta, NamesOwnContent
        <4>2. CASE Meta(w) = Torn
          BY <2>1, <2>3, <4>2 DEF TornInv, Writer, Meta, At, OwnMeta, AdoptMeta, ControlInv
        <4>3. Meta(w) # Absent
          BY <2>1, <2>3 DEF AdoptMeta, At, FilesInv
        <4> QED
          BY <4>1, <4>2, <4>3 DEF Meta
      <3> QED
        BY <2>1, <2>3, <3>1, BegunStays DEF AdoptMeta
    <2>4. CASE FileError(w) \/ Interrupt(w)
      <3>1. result'[w] \in {"failed", "cut"} /\ \A v \in Workers \ {w} : result'[v] = result[v]
        BY <2>4, RaiseMoves DEF StoreInv, StoreTypeOK
      <3> QED
        BY <2>1, <3>1, BegunStays
    <2>5. CASE Return(w)
      BY <2>1, <2>5, BegunStays DEF Return
    <2>6. CASE UNCHANGED result
      BY <1>1, <2>1, <2>6
    <2>8. CASE RemovalFails(w)
      BY <2>1, <2>8, RemovalMoves, BegunStays
    <2>7. \/ AdoptTarget(w) \/ AdoptMeta(w) \/ FileError(w) \/ Interrupt(w) \/ Return(w)
          \/ RemovalFails(w) \/ UNCHANGED result
      BY <1>4 DEF Inner, Body, CreateTarget, GuardTarget, WriteTarget, BindCreated, DiscardTarget,
         CreateMeta, GuardMeta, WriteMeta, BindMetaCreated, DiscardMeta, Undo, UndoTarget
    <2> QED
      BY <2>2, <2>3, <2>4, <2>5, <2>6, <2>7, <2>8
  <1>5. ASSUME NEW p \in Procs, Crash(p), UNCHANGED storeVars PROVE RefusedWithReason'
    BY <1>1, <1>5, CrashMoves DEF storeVars
  <1>6. CASE UNCHANGED vars
    BY <1>1, <1>6 DEF vars, lockVars, storeVars
  <1> QED
    BY <1>2, <1>3, <1>4, <1>5, <1>6, NextCases

\* Metadata is published after its snapshot and removed before it.
LEMMA OrphanStep ==
    ASSUME StoreInv, [Next]_vars
    PROVE  OrphanInv'
  <1> USE PlacementLemma, PayloadAssumption, FileStateAssumption, MetadataAssumption
  <1> USE DEF StoreInv, OrphanInv, Tidy, StoreTypeOK, LockTypeOK, Held, At, ToStep, Target, Meta,
              PutTarget, PutMeta, Steps, OwnTarget
  <1> SUFFICES ASSUME Tidy' PROVE OrphanInv'
    OBVIOUS
  <1>1. interrupts' = interrupts \/ interrupts' = interrupts + 1
    BY NextCases, ProtocolMoves
    DEF vars, storeVars, RejectPart, Inner, Body, CreateTarget, GuardTarget, WriteTarget,
    BindCreated,
        DiscardTarget, AdoptTarget, CreateMeta, GuardMeta, WriteMeta, BindMetaCreated,
        DiscardMeta,
        AdoptMeta, Return, Undo, UndoTarget, FileError, Interrupt, RemovalFails
  <1>2. \A w \in Workers : ~Interrupt(w)
    BY InterruptBoundAssumption DEF Interrupt
  <1>3. Tidy
    BY <1>1, <1>2, LeftStays
  <1>4. CASE UNCHANGED vars
    BY <1>3, <1>4 DEF vars, lockVars, storeVars
  <1>5. ASSUME NEW w \in Workers, RejectPart(w) PROVE OrphanInv'
    BY <1>3, <1>5 DEF RejectPart, Decline, Goto
  <1>6. ASSUME NEW w \in Workers, Protocol(w) PROVE OrphanInv'
    BY <1>3, <1>6, ProtocolMoves DEF storeVars, ControlInv, BeforeBody
  <1>7. ASSUME NEW w \in Workers, Inner(w) PROVE OrphanInv'
    <2>1. ASSUME NEW v \in Workers \ {w}, Held(v)'
          PROVE  /\ Held(v) /\ step'[v] = step[v] /\ created'[v] = created[v]
                 /\ NameOf[v] # NameOf[w] /\ meta'[NameOf[v]] = meta[NameOf[v]]
      BY <1>7, <2>1, OnlyHolderWrites
    <2>2. \A v \in Workers \ {w} : metaCreated'[v] = metaCreated[v]
      BY <1>7 DEF Inner, Body, CreateTarget, GuardTarget, WriteTarget, BindCreated,
         DiscardTarget, AdoptTarget,
         CreateMeta, GuardMeta, WriteMeta, BindMetaCreated, DiscardMeta, AdoptMeta, Return,
         Undo, UndoTarget,
         FileError, Interrupt, RemovalFails
    <2>3. \A n \in Names \ {NameOf[w]} : target'[n] = target[n] /\ meta'[n] = meta[n]
      BY <1>7, OnlyHolderWrites
    <2>4. SUFFICES
            /\ Meta(w)' # Absent => Target(w)' # Absent
            /\ step'[w] \in OwnTarget \cup {"undotarget"} => Meta(w)' = Absent
            /\ step'[w] = "meta" /\ created'[w] => Meta(w)' = Absent
            /\ step'[w] = "undo" /\ created'[w] /\ ~metaCreated'[w] => Meta(w)' = Absent
            /\ step'[w] = "metaadopt" => ~created'[w]
            /\ step'[w] = "return" /\ created'[w] => metaCreated'[w]
      BY <1>3, <2>1, <2>2, <2>3
    <2>5. Held(w)
      BY <1>7, InnerFrame
    <2>6. CASE CreateTarget(w) \/ GuardTarget(w) \/ WriteTarget(w) \/ BindCreated(w)
      BY <1>3, <2>5, <2>6 DEF CreateTarget, GuardTarget, WriteTarget, BindCreated
    <2>7. CASE DiscardTarget(w) \/ AdoptTarget(w)
      BY <1>3, <2>5, <2>7 DEF DiscardTarget, AdoptTarget, ControlInv
    <2>8. CASE CreateMeta(w) \/ GuardMeta(w) \/ WriteMeta(w)
      BY <1>3, <2>5, <2>8 DEF CreateMeta, GuardMeta, WriteMeta, FilesInv
    <2>9. CASE BindMetaCreated(w) \/ DiscardMeta(w) \/ AdoptMeta(w) \/ Return(w)
      BY <1>3, <2>5, <2>9 DEF BindMetaCreated, DiscardMeta, AdoptMeta, Return
    <2>10. CASE Undo(w) \/ UndoTarget(w)
      BY <1>3, <2>5, <2>10 DEF Undo, UndoTarget
    <2>11. CASE FileError(w)
      <3>1. step[w] \notin {"opened", "metaopened", "metabind"}
        BY <2>11 DEF FileError
      <3> QED
        BY <1>3, <2>5, <2>11, <3>1, RaiseMoves DEF FileError, ControlInv, FilesInv
    <2>12. CASE RemovalFails(w)
      BY <2>12, RemovalMoves
    <2> QED
      BY <1>2, <1>7, <2>6, <2>7, <2>8, <2>9, <2>10, <2>11, <2>12 DEF Inner, Body
  <1>8. ASSUME NEW p \in Procs, Crash(p), UNCHANGED storeVars PROVE OrphanInv'
    BY <1>3, <1>8, CrashMoves DEF storeVars
  <1> QED
    BY <1>4, <1>5, <1>6, <1>7, <1>8, NextCases

-----------------------------------------------------------------------------
\* The inductive invariant holds in every reachable state.
THEOREM StoreInvariant == Spec => []StoreInv
  <1>1. StoreInit => StoreInv
    BY StoreInitInv
  <1>2. StoreInv /\ [Next]_vars => StoreInv'
    <2> SUFFICES ASSUME StoreInv, [Next]_vars PROVE StoreInv'
      OBVIOUS
    <2>1. LockInv'
      BY StoreStepIsLockStep, LockTypeStep, OwnerStep, OpenFileStep DEF StoreInv, LockInv
    <2>2. StoreTypeOK' /\ ControlInv' /\ FreshInv'
      BY StoreTypeStep, ControlStep, FreshStep DEF StoreInv
    <2> QED
      BY <2>1, <2>2, FilesStep, UnreliedStep, TornStep, OriginStep, OrphanStep, InstalledStep,
         RefusedStep
      DEF StoreInv
  <1> QED
    BY <1>1, <1>2, PTL DEF Spec

\* The snapshot store is well typed.
THEOREM StoreTypes == Spec => []StoreTypeOK
  <1>1. StoreInv => StoreTypeOK
    BY DEF StoreInv
  <1> QED
    BY <1>1, StoreInvariant, PTL

\* The snapshot and the metadata of a successful install_snapshot stay whole,
\* whatever other calls, I/O errors, interrupts and dying processes do.
THEOREM StoreKeepsInstalled == Spec => []InstalledStays
  <1>1. StoreInv => InstalledStays
    BY DEF StoreInv
  <1> QED
    BY <1>1, StoreInvariant, PTL

\* A torn file in the raw directory is being written, or its writer died, was
\* interrupted before the try that guards the file, or was stopped in its
\* clean-up.
THEOREM StoreTornHasCause == Spec => []TornHasCause
  <1>1. StoreInv => TornHasCause
    BY DEF StoreInv, TornInv, TornTarget, Writer, OwnMeta, TornHasCause
  <1> QED
    BY <1>1, StoreInvariant, PTL

\* Without interrupts and failing removals, failed calls and dying processes
\* leave no metadata without a snapshot.
THEOREM StoreOrphanHasCause == Spec => []OrphanHasCause
  <1>1. StoreInv => OrphanHasCause
    BY DEF StoreInv, OrphanInv, Tidy, OrphanHasCause
  <1> QED
    BY <1>1, StoreInvariant, PTL

\* A call is told that a file belongs to another content only if another call
\* brought one, or left a file because it died, was interrupted before the try
\* that guards the file, or was stopped in its clean-up.
THEOREM StoreRefusesWithReason == Spec => []RefusedWithReason
  <1>1. StoreInv => RefusedWithReason
    BY DEF StoreInv
  <1> QED
    BY <1>1, StoreInvariant, PTL

\* Two calls never work on the files of one name at the same time.
THEOREM StoreExcludes == Spec => []MutualExclusion
  <1>1. StoreInv => MutualExclusion
    BY OwnerExclusive DEF StoreInv, LockInv
  <1> QED
    BY <1>1, StoreInvariant, PTL

\* No step writes over a whole file.
LEMMA RewriteStep ==
    ASSUME StoreInv, [Next]_vars, NEW n \in Names
    PROVE  /\ target[n] \in Payloads => target'[n] \in {target[n], Absent}
           /\ meta[n] \in Metadata => meta'[n] \in {meta[n], Absent}
  <1>1. CASE UNCHANGED <<target, meta>>
    BY <1>1
  <1>2. ASSUME NEW w \in Workers, Inner(w), n = NameOf[w]
        PROVE  /\ target[n] \in Payloads => target'[n] \in {target[n], Absent}
               /\ meta[n] \in Metadata => meta'[n] \in {meta[n], Absent}
    <2> USE FileStateAssumption, MetadataAssumption
    <2>1. Held(w)
      BY <1>2, InnerFrame
    <2>2. /\ step[w] = "write" => target[n] = Torn
          /\ step[w] = "metawrite" => meta[n] = Torn
      BY <1>2, <2>1 DEF StoreInv, FilesInv, Target, Meta
    <2> QED
      BY <1>2, <2>2 DEF StoreInv, StoreTypeOK, Inner, Body, At, Target, Meta, CreateTarget,
         GuardTarget,
         WriteTarget, BindCreated, DiscardTarget, AdoptTarget, CreateMeta, GuardMeta, WriteMeta,
         BindMetaCreated, DiscardMeta, AdoptMeta, Return, Undo, UndoTarget, FileError,
         Interrupt, RemovalFails, PutTarget, PutMeta
  <1>3. ASSUME NEW w \in Workers, Inner(w), n # NameOf[w]
        PROVE  target'[n] = target[n] /\ meta'[n] = meta[n]
    BY <1>3, OnlyHolderWrites
  <1>4. ASSUME ~UNCHANGED <<target, meta>>
        PROVE  \E w \in Workers : Inner(w)
    BY <1>4, NextCases, ProtocolMoves DEF vars, storeVars, RejectPart, StoreInv, StoreTypeOK
  <1> QED
    BY <1>1, <1>2, <1>3, <1>4

\* No step writes over a whole snapshot or whole metadata.
THEOREM StoreNeverRewrites == Spec => NeverRewritten
  <1>1. StoreInv /\ [Next]_vars =>
          [\A n \in Names :
             /\ target[n] \in Payloads => target'[n] \in {target[n], Absent}
             /\ meta[n] \in Metadata => meta'[n] \in {meta[n], Absent}]_vars
    BY RewriteStep
  <1> QED
    BY <1>1, StoreInvariant, PTL DEF Spec, NeverRewritten

-----------------------------------------------------------------------------
\* What is on the shelf changes only when a call reports success.
LEMMA KeptUnchanged ==
    ASSUME StoreInv, StoreInv', [Next]_vars,
           \A w \in Workers : result'[w] = "installed" <=> result[w] = "installed"
    PROVE  UNCHANGED Kept
  <1> USE FileStateAssumption, MetadataAssumption, PlacementLemma, PayloadAssumption
  <1>1. ASSUME NEW n \in Names,
               \E w \in Workers : NameOf[w] = n /\ result[w] = "installed"
        PROVE  target'[n] = target[n] /\ meta'[n] = meta[n]
    BY <1>1, RewriteStep
    DEF StoreInv, StoreTypeOK, InstalledStays, Target, Meta, NamesOwnContent
  <1>2. ASSUME NEW n \in Names PROVE KeptAt(n)' = KeptAt(n)
    BY <1>1, <1>2 DEF KeptAt
  <1> QED
    BY <1>2, Zenon DEF Kept

LEMMA OneSees ==
    ASSUME NEW w \in Workers,
           \A v \in Workers \ {w} : result'[v] = result[v] /\ lockFailure'[v] = lockFailure[v]
    PROVE  CallerSees' = [CallerSees EXCEPT ![w] = Sees(w)']
  <1>1. ASSUME NEW v \in Workers \ {w} PROVE Sees(v)' = Sees(v)
    BY <1>1 DEF Sees
  <1>2. CallerSees' = [v \in Workers |-> Sees(v)'] /\ CallerSees = [v \in Workers |-> Sees(v)]
    BY DEF CallerSees
  <1> QED
    BY <1>1, <1>2, Zenon

\* A step that reports nothing new, or one failure, to one caller.
LEMMA OneFails ==
    ASSUME StoreInv, StoreInv', [Next]_vars, NEW w \in Workers,
           \A v \in Workers \ {w} : result'[v] = result[v] /\ lockFailure'[v] = lockFailure[v],
           result'[w] = "installed" <=> result[w] = "installed",
           Sees(w)' = Sees(w) \/ (Sees(w) = "none" /\ Sees(w)' = "failed")
    PROVE  [Shelf!Next]_(Shelf!shelfVars)
  <1>1. CallerSees' = [CallerSees EXCEPT ![w] = Sees(w)'] /\ CallerSees[w] = Sees(w)
    BY OneSees DEF CallerSees
  <1>2. UNCHANGED Kept
    BY KeptUnchanged
  <1>3. CASE Sees(w)' = Sees(w)
    BY <1>1, <1>2, <1>3 DEF CallerSees, Shelf!shelfVars
  <1>4. CASE Sees(w) = "none" /\ Sees(w)' = "failed"
    BY <1>1, <1>2, <1>4 DEF Shelf!Fail, Shelf!Report, Shelf!Next
  <1> QED
    BY <1>3, <1>4

\* Each step of install_snapshot is a step of the abstract specification, or none.
LEMMA StoreStepRefines ==
    ASSUME StoreInv, StoreInv', [Next]_vars
    PROVE  [Shelf!Next]_(Shelf!shelfVars)
  <1> DEFINE Abstract == [Shelf!Next]_(Shelf!shelfVars)
  <1>1. ASSUME UNCHANGED <<result, lockFailure>> PROVE Abstract
    <2>1. UNCHANGED Kept
      BY <1>1, KeptUnchanged
    <2>2. UNCHANGED CallerSees
      BY <1>1 DEF CallerSees, Sees
    <2> QED
      BY <2>1, <2>2 DEF Shelf!shelfVars
  <1>2. ASSUME NEW w \in Workers, RejectPart(w) PROVE Abstract
    <2>1. pc[w] = "out" /\ result' = [result EXCEPT ![w] = "rejected"] /\ UNCHANGED lockFailure
      BY <1>2 DEF RejectPart, Decline, Conclude
    <2>2. result[w] = "none" /\ lockFailure[w] = "none" /\ result'[w] = "rejected"
      BY <2>1 DEF StoreInv, StoreTypeOK, ControlInv, FreshInv, BeforeBody
    <2> QED
      BY <2>1, <2>2, OneFails DEF Sees, StoreInv, StoreTypeOK
  <1>3. ASSUME NEW w \in Workers, Protocol(w) PROVE Abstract
    <2>1. UNCHANGED result
      BY <1>3, ProtocolMoves DEF storeVars, StoreInv, StoreTypeOK
    <2>2. Enter(w) \/ Reserve(w) \/ Leave(w) \/ ReleaseThread(w)
      BY <1>3 DEF Protocol, Start, LeaveReservation
    <2>3. /\ \A v \in Workers \ {w} : lockFailure'[v] = lockFailure[v]
          /\ \/ lockFailure'[w] = lockFailure[w]
             \/ result[w] = "none" /\ lockFailure[w] = "none"
      BY <2>2, LockMoves DEF StoreInv, StoreTypeOK, ControlInv, FreshInv
    <2>4. Sees(w)' = Sees(w) \/ (Sees(w) = "none" /\ Sees(w)' = "failed")
      BY <2>1, <2>3 DEF Sees
    <2> QED
      BY <2>1, <2>3, <2>4, OneFails
  <1>4. ASSUME NEW w \in Workers, Inner(w) PROVE Abstract
    <2>1. UNCHANGED lockFailure /\ Held(w) /\ lockFailure[w] = "none" /\ step[w] # "end"
      BY <1>4, InnerFrame DEF lockVars, StoreInv, FreshInv, Held
    <2>2. \A v \in Workers \ {w} : result'[v] = result[v]
      BY <1>4, OnlyHolderWrites
    <2>3. result[w] # "installed"
      BY <2>1 DEF StoreInv, ControlInv
    <2>4. CASE result'[w] # "installed"
      <3>1. result[w] # "none" => result'[w] # "none"
        <4>1. CASE FileError(w) \/ Interrupt(w)
          BY <4>1, RaiseMoves DEF StoreInv, StoreTypeOK
        <4>2. CASE RemovalFails(w)
          BY <4>2, RemovalMoves DEF StoreInv, StoreTypeOK
        <4>3. CASE Body(w)
          BY <4>3 DEF Body, CreateTarget, GuardTarget, WriteTarget, BindCreated, DiscardTarget,
             AdoptTarget,
             CreateMeta, GuardMeta, WriteMeta, BindMetaCreated, DiscardMeta, AdoptMeta, Return,
             Undo,
             UndoTarget, At, Conclude, StoreInv, StoreTypeOK
        <4> QED
          BY <1>4, <4>1, <4>2, <4>3 DEF Inner
      <3>2. Sees(w)' = Sees(w) \/ (Sees(w) = "none" /\ Sees(w)' = "failed")
        BY <2>1, <2>3, <2>4, <3>1 DEF Sees
      <3> QED
        BY <2>1, <2>2, <2>3, <2>4, <3>2, OneFails
    <2>5. CASE result'[w] = "installed"
      <3> DEFINE n == NameOf[w]
      <3>1. step[w] = "return" /\ UNCHANGED <<target, meta>>
        <4>1. ~FileError(w) /\ ~Interrupt(w)
          BY <2>5, RaiseMoves DEF StoreInv, StoreTypeOK
        <4>2. ~RemovalFails(w)
          BY <2>5, RemovalMoves DEF StoreInv, StoreTypeOK
        <4> QED
          BY <1>4, <2>3, <2>5, <4>1, <4>2 DEF Inner, Body, CreateTarget, GuardTarget, WriteTarget,
             BindCreated, DiscardTarget, AdoptTarget, CreateMeta, GuardMeta, WriteMeta,
             BindMetaCreated,
             DiscardMeta, AdoptMeta, Return, Undo, UndoTarget, At, Conclude, StoreInv, StoreTypeOK
      <3>2. Sees(w) = "none" /\ Sees(w)' = "installed"
        BY <2>1, <2>5, <3>1 DEF Sees, StoreInv, FreshInv, Regular
      <3>3. Shelf!Report(w, "installed")
        BY <2>1, <2>2, <3>2, OneSees DEF Shelf!Report, CallerSees
      <3>4. /\ Kept'[n] = [sha256 |-> PayloadOf[w], terms |-> Meta(w)'.terms]
            /\ Meta(w)'.terms \in Terms
            /\ w \in Strict => Meta(w)'.terms = TermsOf[w]
        BY <2>5, PlacementLemma
        DEF StoreInv, InstalledStays, Target, Meta, NamesOwnContent, Kept, KeptAt, Metadata
      <3>5. ASSUME NEW m \in Names \ {n} PROVE Kept'[m] = Kept[m]
        <4>1. \A v \in Workers : NameOf[v] = m => result'[v] = result[v]
          BY <2>2
        <4>2. KeptAt(m)' = KeptAt(m)
          BY <3>1, <4>1 DEF KeptAt
        <4> QED
          BY <4>2 DEF Kept
      <3>6. n \in Names /\ AskOf(w) \in [v \in Workers |-> {AskOf(v)}][w]
        BY PlacementLemma
      <3>7. AskOf(w).name = n /\ AskOf(w).payload = PayloadOf[w] /\ AskOf(w).terms = TermsOf[w]
        BY DEF AskOf
      <3>8. ASSUME AskOf(w).strict PROVE AskOf(w).terms = Meta(w)'.terms
        <4>1. w \in Strict
          BY <3>8 DEF AskOf
        <4> QED
          BY <3>4, <3>7, <4>1
      <3>9. CASE \E v \in Workers : NameOf[v] = n /\ result[v] = "installed"
        <4>1. Kept'[n] = Kept[n]
          <5>1. \E v \in Workers : NameOf[v] = n /\ result'[v] = "installed"
            BY <2>5
          <5>2. KeptAt(n)' = KeptAt(n)
            BY <3>1, <3>9, <5>1 DEF KeptAt
          <5> QED
            BY <3>6, <5>2 DEF Kept
        <4>3. Kept' = Kept
          BY <3>5, <4>1 DEF Kept
        <4>2. Kept[n] # Absent
          BY <3>9, <3>6, FileStateAssumption, MetadataAssumption DEF Kept, KeptAt
        <4> QED
          <5>1. Shelf!Find(w, AskOf(w))
            <6>1. Kept[AskOf(w).name] = [sha256 |-> PayloadOf[w], terms |-> Meta(w)'.terms]
              BY <3>4, <3>7, <4>1
            <6>2. Kept[AskOf(w).name].sha256 = AskOf(w).payload
              BY <3>7, <6>1
            <6>3. ASSUME AskOf(w).strict PROVE Kept[AskOf(w).name].terms = AskOf(w).terms
              BY <3>8, <6>1, <6>3
            <6> QED
              BY <3>3, <3>7, <4>2, <4>3, <6>2, <6>3 DEF Shelf!Find
          <5> QED
            BY <5>1, <3>6 DEF Shelf!Next
      <3>10. CASE ~\E v \in Workers : NameOf[v] = n /\ result[v] = "installed"
        <4>1. Kept[n] = Absent
          BY <3>6, <3>10 DEF Kept, KeptAt
        <4>2. Kept' = [Kept EXCEPT ![n] = [sha256 |-> PayloadOf[w], terms |-> Meta(w)'.terms]]
          BY <3>4, <3>5, <3>6 DEF Kept
        <4> QED
          BY <3>3, <3>4, <3>6, <3>7, <3>8, <4>1, <4>2 DEF Shelf!Put, Shelf!Next
      <3> QED
        BY <3>9, <3>10
    <2> QED
      BY <2>4, <2>5
  <1>5. ASSUME NEW p \in Procs, Crash(p), UNCHANGED storeVars PROVE Abstract
    BY <1>1, <1>5 DEF Crash, storeVars
  <1>6. CASE UNCHANGED vars
    BY <1>1, <1>6 DEF vars, lockVars, storeVars
  <1> QED
    BY <1>2, <1>3, <1>4, <1>5, <1>6, NextCases

\* install_snapshot keeps the promise of SnapshotShelf: with locks, exclusive
\* creation, adoption and rollback, among failures, interrupts and deaths, what a
\* caller was told is installed is its own and stays as it was.
THEOREM StoreImplementsShelf == Spec => ImplementsSnapshotShelf
  <1>1. StoreInit => Shelf!Init
    BY DEF StoreInit, LockInit, Shelf!Init, Kept, KeptAt, CallerSees, Sees
  <1>2. StoreInv /\ StoreInv' /\ [Next]_vars => [Shelf!Next]_(Shelf!shelfVars)
    BY StoreStepRefines
  <1> QED
    BY <1>1, <1>2, StoreInvariant, PTL DEF Spec, ImplementsSnapshotShelf, Shelf!Spec
=============================================================================
