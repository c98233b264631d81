---------------------------- MODULE RunDirectory ----------------------------
(***************************************************************************)
(* What run_pilot promises, with no locks, stages or processes: a run      *)
(* directory appears once, whole, made by one call, and stays; each call   *)
(* reports at most once, and its report agrees with the directory.         *)
(***************************************************************************)
CONSTANTS Workers, Names, NameOf, Outsider, NoRun

VARIABLES
    output,   \* who made each run directory
    content,  \* what it holds
    report    \* what each call told its caller

dirVars == <<output, content, report>>

Init ==
    /\ output = [n \in Names |-> NoRun]
    /\ content = [n \in Names |-> "none"]
    /\ report = [w \in Workers |-> "none"]

Report(w, r) ==
    /\ report[w] = "none"
    /\ report' = [report EXCEPT ![w] = r]

\* A call publishes the directory and succeeds in one step.
Publish(w) ==
    /\ output[NameOf[w]] = NoRun
    /\ output' = [output EXCEPT ![NameOf[w]] = w]
    /\ content' = [content EXCEPT ![NameOf[w]] = "sealed"]
    /\ Report(w, "published")

\* FileExistsError: there is a directory.
Refuse(w) ==
    /\ output[NameOf[w]] # NoRun
    /\ Report(w, "exists")
    /\ UNCHANGED <<output, content>>

\* Any other exception.
GiveUp(w) == Report(w, "error") /\ UNCHANGED <<output, content>>

Foreign(n) ==
    /\ output[n] = NoRun
    /\ output' = [output EXCEPT ![n] = Outsider]
    /\ content' = [content EXCEPT ![n] = "foreign"]
    /\ UNCHANGED report

Next ==
    \/ \E w \in Workers : Publish(w) \/ Refuse(w) \/ GiveUp(w)
    \/ \E n \in Names : Foreign(n)

Spec == Init /\ [][Next]_dirVars
=============================================================================
