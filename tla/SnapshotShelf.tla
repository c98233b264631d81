--------------------------- MODULE SnapshotShelf ---------------------------
(***************************************************************************)
(* What install_snapshot promises, with no locks, files or processes: a    *)
(* shelf that holds at most one snapshot under each name, for ever; a call *)
(* that reports success has its own content there, and its own terms if it *)
(* insists on them.                                                        *)
(***************************************************************************)
CONSTANTS
    Workers,  \* calls of install_snapshot
    Names,    \* snapshot targets
    Terms,    \* what metadata says besides the identity
    AsksOf,   \* what each call may ask for: name, payload, terms, strict
    Empty     \* nothing under a name

VARIABLES
    shelf,    \* the snapshot under each name, with its terms
    report    \* what each call told its caller

shelfVars == <<shelf, report>>

Init ==
    /\ shelf = [n \in Names |-> Empty]
    /\ report = [w \in Workers |-> "none"]

Report(w, r) ==
    /\ report[w] = "none"
    /\ report' = [report EXCEPT ![w] = r]

\* The snapshot is new.  Its metadata may have been left by a call that died;
\* a call that insists does not accept other terms than its own.
Put(w, ask) ==
    /\ shelf[ask.name] = Empty
    /\ \E t \in Terms :
         /\ ask.strict => t = ask.terms
         /\ shelf' = [shelf EXCEPT ![ask.name] = [sha256 |-> ask.payload, terms |-> t]]
    /\ Report(w, "installed")

\* The snapshot is there already.
Find(w, ask) ==
    /\ shelf[ask.name] # Empty
    /\ shelf[ask.name].sha256 = ask.payload
    /\ ask.strict => shelf[ask.name].terms = ask.terms
    /\ Report(w, "installed")
    /\ UNCHANGED shelf

\* An exception: another content or other terms under the name, a torn file,
\* a lock that is not free in time, an I/O error, an interrupt.
Fail(w) == Report(w, "failed") /\ UNCHANGED shelf

Next ==
    \E w \in Workers :
        \/ \E ask \in AsksOf[w] : Put(w, ask) \/ Find(w, ask)
        \/ Fail(w)

Spec == Init /\ [][Next]_shelfVars
=============================================================================
