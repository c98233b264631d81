---------------------------- MODULE BatchProofs ----------------------------
(***************************************************************************)
(* Proofs about Batch for any batches, suppliers, names and deaths.        *)
(***************************************************************************)
EXTENDS Batch, TLAPS

\* A task made the run of its name; all runs of a state are reviewable, and no
\* two of them have one approval artifact.
Pub(t)        == output[NameOf[t]] = t
Reviewable(q) == \A i \in DOMAIN q : Pub(q[i]) /\ readonly[KeyOf[q[i]]]
Distinct(q)   == \A i, j \in DOMAIN q : KeyOf[q[i]] = KeyOf[q[j]] => i = j

\* For batches C beside t's: the run that t's artifact may bind, and a state that
\* has t or a run that overtook it.
Bound(t, u, C) == u = t \/ (u \in Tasks /\ u[1] \in C /\ KeyOf[u] = KeyOf[t])
Kept(t, q, C)  == \E i \in DOMAIN q : q[i] = t \/ q[i][1] \in C

\* Where a batch has not touched the approval of its supplier ...
Early == {"idle", "supplier", "run", "verify", "approve", "draft"}
\* ... where its run is published, and where it also has a result ...
Judged    == ApprovalSteps \cup {"tidy", "install", "installcheck"}
Published == {"verify"} \cup Judged
\* ... and where it has found no artifact of the name it writes.
Clear == Judged \ {"approve"}
\* It holds a copy of the previous state.
Captured == {"run"} \cup Published

\* The batch has gone past the task; it has written an artifact for it.
Past(t)    == \E i \in DOMAIN Order : Order[i] = t[2] /\ i < pos[t[1]]
Reached(t) ==
    \/ Past(t)
    \/ /\ \E i \in DOMAIN Order : Order[i] = t[2] /\ i = pos[t[1]]
       /\ step[t[1]] \notin Early

Protected(b) ==
    \/ step[b] \in {"install", "installcheck"}
    \/ step[b] = "tidy" /\ status[Task(b)] = "PASS"

PlaceOK(b) ==
    /\ step[b] = "idle" => pos[b] = 1
    /\ step[b] \in SupplierSteps => pos[b] \in DOMAIN Order
    /\ step[b] \in AggregateSteps \cup {"done"} => pos[b] = Len(Order) + 1

\* What a batch relies on between two of its steps.
BatchOK(b) ==
    /\ PlaceOK(b)
    /\ step[b] \in Published => Pub(Task(b))
    /\ step[b] \in Judged => status[Task(b)] # "none"
    /\ step[b] \in {"replacecheck", "protect"} => approval[Key(b)] # NoFile
    /\ Protected(b) => readonly[Key(b)]
    /\ step[b] \in Clear => \A i \in DOMAIN prior[b] : KeyOf[prior[b][i]] # Key(b)
    /\ Distinct(prior[b]) /\ Reviewable(prior[b])
    /\ step[b] \in {"replacecheck", "protect"} =>
         draft[Key(b)] = NoFile \/ Bound(Task(b), draft[Key(b)], beside[b])
    /\ step[b] = "protect" \/ Protected(b) => Bound(Task(b), approval[Key(b)], beside[b])

Carried(t) ==
    /\ Kept(t, state[t[2]], beside[t[1]])
    /\ \A c \in Batches : step[c] \in Captured /\ Supplier(c) = t[2] =>
         Kept(t, prior[c], beside[t[1]]) \/ c \in beside[t[1]]

\* What stays when a batch goes on to the next supplier.
TaskOK(t) ==
    /\ status[t] # "none"
    /\ status[t] = "PASS" =>
         /\ Pub(t) /\ readonly[KeyOf[t]]
         /\ Bound(t, approval[KeyOf[t]], beside[t[1]])
         /\ t[1] \in Installing => Carried(t)

FileOK ==
    /\ \A k \in Keys : readonly[k] => approval[k] # NoFile
    /\ \A k \in Keys : \A t \in Tasks : approval[k] = t \/ draft[k] = t => Reached(t)

StateOK  == \A s \in Suppliers : Distinct(state[s]) /\ Reviewable(state[s])
BesideOK == \A b, c \in Batches : b # c /\ Active(b) /\ Active(c) => c \in beside[b]

BatchInv ==
    /\ BatchTypeOK
    /\ FileOK /\ StateOK /\ BesideOK
    /\ \A b \in Batches : BatchOK(b)
    /\ \A t \in Tasks : Past(t) => TaskOK(t)

-----------------------------------------------------------------------------
\* What no step undoes.
Lasting ==
    /\ \A t \in Tasks : Pub(t) => Pub(t)'
    /\ \A k \in Keys : readonly[k] => readonly'[k] /\ approval'[k] = approval[k]
    /\ \A k \in Keys : approval[k] # NoFile => approval'[k] # NoFile
    /\ \A b \in Batches : beside[b] \subseteq beside'[b]

\* What a step of b leaves to the others.
Others(b) ==
    /\ \A d \in Batches \ {b} : pos'[d] = pos[d] /\ step'[d] = step[d] /\ prior'[d] = prior[d]
    /\ \A t \in Tasks : status'[t] # status[t] => pos[b] \in DOMAIN Order /\ t = Task(b)
    /\ approval' = approval \/ \A k \in Keys : approval'[k] \in {approval[k], draft[k]}
    /\ draft' = draft \/ \A k \in Keys :
         \/ draft'[k] \in {draft[k], NoFile}
         \/ draft'[k] = Task(b) /\ k = Key(b) /\ Active(b) /\ pos[b] \in DOMAIN Order

\* b stays with its supplier, or goes on to the next.
Moves(b) ==
    \/ pos'[b] = pos[b] /\ (step[b] \notin Early => step'[b] \notin Early)
    \/ pos'[b] = pos[b] + 1 /\ pos[b] \in DOMAIN Order

\* It copies the state into prior when it captures it, and back when it promotes it.
Carries(b) ==
    /\ step'[b] \in Captured =>
         /\ pos'[b] = pos[b]
         /\ \/ step[b] \in Captured /\ prior'[b] = prior[b]
            \/ prior'[b] = state[Supplier(b)]
    /\ \A s \in Suppliers : state'[s] # state[s] =>
         s = Supplier(b) /\ step[b] = "install" /\ state'[s] = Append(prior[b], Task(b))

LEMMA OrderFacts ==
    /\ DOMAIN Order = 1..Len(Order) /\ Len(Order) \in Nat \ {0}
    /\ \A i \in DOMAIN Order : Order[i] \in Suppliers
    /\ \A i, j \in DOMAIN Order : Order[i] = Order[j] => i = j
    /\ \A s \in Suppliers : \E i \in DOMAIN Order : Order[i] = s
  BY OrderAssumption

LEMMA NamingFacts ==
    /\ NameOf \in [Tasks -> Names] /\ KeyOf \in [Tasks -> Keys] /\ RootOf \in [Batches -> Roots]
    /\ \A t, u \in Tasks : NameOf[t] = NameOf[u] \/ KeyOf[t] = KeyOf[u] => t[2] = u[2]
  <1>1. \A t \in Tasks : t[1] \in Batches
    BY DEF Tasks
  <1> QED
    BY <1>1, NamingAssumption DEF NameOf, Names, KeyOf, Keys

\* What binds or keeps a run goes on doing so.
LEMMA BindingLasts ==
    ASSUME NEW t, NEW u, NEW C, NEW D, C \subseteq D
    PROVE  (Bound(t, u, C) => Bound(t, u, D)) /\ (Kept(t, u, C) => Kept(t, u, D))
  BY DEF Bound, Kept

\* A batch is at a task of its own.
LEMMA AtTask ==
    ASSUME NEW b \in Batches, pos[b] \in DOMAIN Order
    PROVE  /\ Supplier(b) \in Suppliers /\ Task(b) \in Tasks /\ Key(b) \in Keys
           /\ Task(b)[1] = b /\ Task(b)[2] = Supplier(b) /\ ~Past(Task(b))
           /\ step[b] \in Early => ~Reached(Task(b))
           /\ \A t \in Tasks : t # Task(b) /\ t[1] = b => t[2] # Supplier(b)
  <1>1. Supplier(b) \in Suppliers
    BY OrderFacts DEF Supplier
  <1>2. Task(b) \in Tasks /\ Task(b)[1] = b /\ Task(b)[2] = Supplier(b)
    BY <1>1 DEF Task, Tasks
  <1>3. Key(b) \in Keys
    BY <1>2, NamingFacts DEF Key
  <1>4. \A i \in DOMAIN Order : Order[i] = Supplier(b) => i = pos[b]
    BY OrderFacts DEF Supplier
  <1>5. ~Past(Task(b))
    BY <1>2, <1>4, OrderFacts DEF Past
  <1>6. step[b] \in Early => ~Reached(Task(b))
    BY <1>2, <1>5 DEF Reached
  <1>7. ASSUME NEW t \in Tasks, t # Task(b), t[1] = b PROVE t[2] # Supplier(b)
    BY <1>7 DEF Tasks, Task
  <1> QED
    BY <1>1, <1>2, <1>3, <1>5, <1>6, <1>7

\* How far the batches have got.
LEMMA PastGrows ==
    ASSUME BatchTypeOK, NEW b \in Batches, Others(b), Moves(b), NEW t \in Tasks
    PROVE  /\ Past(t) => Past(t)'
           /\ Reached(t) => Reached(t)'
           /\ Past(t)' => \/ Past(t)
                          \/ t = Task(b) /\ pos'[b] = pos[b] + 1 /\ pos[b] \in DOMAIN Order
  <1>1. t \in Batches \X Suppliers /\ t = <<t[1], t[2]>> /\ t[1] \in Batches
    BY DEF Tasks
  <1>2. CASE t[1] # b
    BY <1>1, <1>2 DEF Others, Past, Reached
  <1>3. CASE t[1] = b /\ pos'[b] = pos[b] /\ (step[b] \notin Early => step'[b] \notin Early)
    BY <1>3 DEF Past, Reached
  <1>4. CASE t[1] = b /\ pos'[b] = pos[b] + 1 /\ pos[b] \in DOMAIN Order
    <2>1. pos[b] \in Nat
      BY <1>4, OrderFacts
    <2>2. \A i \in DOMAIN Order : i < pos'[b] <=> i < pos[b] \/ i = pos[b]
      BY <1>4, <2>1, OrderFacts
    <2>3. Order[pos[b]] = t[2] => t = Task(b)
      BY <1>1, <1>4 DEF Task, Supplier
    <2> QED
      BY <1>4, <2>2, <2>3 DEF Past, Reached
  <1> QED
    BY <1>2, <1>3, <1>4 DEF Moves

\* A batch that does not move keeps what it relies on.
LEMMA OtherBatch ==
    ASSUME BatchInv, NEW b \in Batches, Others(b), Lasting, NEW d \in Batches \ {b}
    PROVE  BatchOK(d)'
  <1>1. /\ pos'[d] = pos[d] /\ step'[d] = step[d] /\ prior'[d] = prior[d]
        /\ Task(d)' = Task(d) /\ Key(d)' = Key(d)
    BY DEF Others, Task, Supplier, Key
  <1>2. BatchOK(d) /\ prior[d] \in Seq(Tasks)
    BY DEF BatchInv, BatchTypeOK
  <1>3. ASSUME step[d] \in Published
        PROVE  Task(d) \in Tasks /\ Key(d) \in Keys /\ status'[Task(d)] = status[Task(d)]
    <2>1. pos[d] \in DOMAIN Order
      BY <1>2, <1>3 DEF BatchOK, PlaceOK, Published, Judged, SupplierSteps
    <2>2. Task(d) \in Tasks /\ Key(d) \in Keys /\ Task(d)[1] = d
      BY <2>1, AtTask
    <2>3. pos[b] \in DOMAIN Order => Task(d) # Task(b)
      BY <2>2, AtTask
    <2> QED
      BY <2>2, <2>3 DEF Others
  <1>4. \A i \in DOMAIN prior[d] : prior[d][i] \in Tasks /\ KeyOf[prior[d][i]] \in Keys
    BY <1>2, NamingFacts
  <1>5. Distinct(prior[d])' /\ Reviewable(prior[d])'
    BY <1>1, <1>2, <1>4 DEF BatchOK, Distinct, Reviewable, Lasting
  <1>6. PlaceOK(d)'
    BY <1>1, <1>2 DEF BatchOK, PlaceOK
  <1>7. Protected(d)' => Protected(d)
    BY <1>1, <1>3 DEF Protected, Published, Judged
  <1>8. Protected(d) => step[d] \in Published
    BY DEF Protected, Published, Judged
  <1>9. CASE step[d] \in Published
    <2>1. Pub(Task(d))' /\ (step[d] \in Judged => status'[Task(d)] # "none")
      BY <1>1, <1>2, <1>3, <1>9 DEF BatchOK, Lasting, Pub
    <2>2. Protected(d) => readonly'[Key(d)]
      BY <1>2, <1>3, <1>9 DEF BatchOK, Lasting
    <2>3. step[d] \in {"replacecheck", "protect"} => approval'[Key(d)] # NoFile
      BY <1>2, <1>3, <1>9 DEF BatchOK, Lasting
    <2>4. step[d] \in Clear => \A i \in DOMAIN prior[d] : KeyOf[prior[d][i]] # Key(d)
      BY <1>2 DEF BatchOK
    <2>5. beside[d] \subseteq beside'[d]
      BY DEF Lasting
    <2>6. ASSUME step[d] \in {"replacecheck", "protect"}
          PROVE  draft'[Key(d)] = NoFile \/ Bound(Task(d), draft'[Key(d)], beside'[d])
      <3>1. draft[Key(d)] = NoFile \/ Bound(Task(d), draft[Key(d)], beside[d])
        BY <1>2, <2>6 DEF BatchOK
      <3>2. CASE draft'[Key(d)] \in {draft[Key(d)], NoFile}
        BY <2>5, <3>1, <3>2, BindingLasts, Zenon
      <3>3. CASE /\ draft'[Key(d)] = Task(b) /\ Key(d) = Key(b) /\ Active(b)
                 /\ pos[b] \in DOMAIN Order
        <4>1. Task(b) \in Tasks
          BY <3>3, AtTask
        <4>2. Active(d)
          BY <2>6 DEF Active, SupplierSteps, ApprovalSteps
        <4>3. b \in beside'[d]
          BY <2>5, <3>3, <4>2 DEF BatchInv, BesideOK
        <4>4. Task(b)[1] = b /\ KeyOf[Task(b)] = KeyOf[Task(d)]
          BY <3>3 DEF Task, Key
        <4> QED
          BY <3>3, <4>1, <4>3, <4>4 DEF Bound
      <3> QED
        BY <1>3, <1>9, <3>2, <3>3 DEF Others
    <2>7. ASSUME step[d] = "protect" \/ Protected(d)
          PROVE  Bound(Task(d), approval'[Key(d)], beside'[d])
      <3>1. Bound(Task(d), approval[Key(d)], beside[d])
        BY <1>2, <2>7 DEF BatchOK
      <3>2. CASE approval'[Key(d)] = approval[Key(d)]
        BY <2>5, <3>1, <3>2, BindingLasts, Zenon
      <3>3. CASE approval'[Key(d)] # approval[Key(d)]
        <4>1. step[d] = "protect" /\ approval'[Key(d)] = draft[Key(d)]
          BY <1>2, <1>3, <1>9, <2>7, <3>3 DEF Others, Lasting, BatchOK
        <4>2. draft[Key(d)] # NoFile
          BY <1>2, <1>3, <1>9, <4>1 DEF BatchOK, Lasting
        <4>3. Bound(Task(d), draft[Key(d)], beside[d])
          BY <1>2, <4>1, <4>2 DEF BatchOK
        <4> QED
          BY <2>5, <4>1, <4>3, BindingLasts, Zenon
      <3> QED
        BY <3>2, <3>3
    <2> QED
      BY <1>1, <1>5, <1>6, <1>7, <2>1, <2>2, <2>3, <2>4, <2>6, <2>7 DEF BatchOK, Pub
  <1>10. CASE step[d] \notin Published
    BY <1>1, <1>5, <1>6, <1>7, <1>8, <1>10 DEF BatchOK, Published, Judged, Clear, ApprovalSteps
  <1> QED
    BY <1>9, <1>10

\* What stays of a supplier that a batch has gone past.
LEMMA TaskStays ==
    ASSUME BatchInv, NEW b \in Batches, Others(b), Lasting, Moves(b), Carries(b),
           NEW t \in Tasks, Past(t)
    PROVE  TaskOK(t)'
  <1>1. TaskOK(t) /\ KeyOf[t] \in Keys /\ t[1] \in Batches /\ t[2] \in Suppliers
    BY NamingFacts DEF BatchInv, Tasks
  <1>2. status'[t] = status[t]
    <2>1. pos[b] \in DOMAIN Order => t # Task(b)
      BY AtTask
    <2> QED
      BY <2>1 DEF Others
  <1>3. /\ status'[t] # "none"
        /\ status'[t] = "PASS" => Pub(t)' /\ readonly'[KeyOf[t]]
        /\ status'[t] = "PASS" => Bound(t, approval'[KeyOf[t]], beside'[t[1]])
    <2>1. beside[t[1]] \subseteq beside'[t[1]]
      BY <1>1 DEF Lasting
    <2>2. Bound(t, approval[KeyOf[t]], beside[t[1]]) =>
            Bound(t, approval[KeyOf[t]], beside'[t[1]])
      BY <2>1, BindingLasts, Zenon
    <2> QED
      BY <1>1, <1>2, <2>2 DEF TaskOK, Lasting
  <1>4. ASSUME Carried(t) PROVE Carried(t)'
    <2>1. ASSUME NEW c \in Batches, step'[c] \in Captured, Supplier(c)' = t[2]
          PROVE  Kept(t, prior'[c], beside[t[1]]) \/ c \in beside[t[1]]
      <3>1. CASE c = b
        BY <1>4, <2>1, <3>1 DEF Carries, Carried, Supplier
      <3>2. CASE c # b
        BY <1>4, <2>1, <3>2 DEF Others, Carried, Supplier
      <3> QED
        BY <3>1, <3>2
    <2>2. Kept(t, state'[t[2]], beside[t[1]])
      <3>1. CASE state'[t[2]] = state[t[2]]
        BY <1>4, <3>1 DEF Carried
      <3>2. CASE state'[t[2]] # state[t[2]]
        <4>1. /\ t[2] = Supplier(b) /\ step[b] = "install"
              /\ state'[t[2]] = Append(prior[b], Task(b))
          BY <1>1, <3>2 DEF Carries
        <4>2. Kept(t, prior[b], beside[t[1]]) \/ b \in beside[t[1]]
          BY <1>4, <4>1 DEF Carried, Captured, Published, Judged
        <4>3. prior[b] \in Seq(Tasks) /\ pos[b] \in DOMAIN Order
          BY <4>1 DEF BatchInv, BatchTypeOK, BatchOK, PlaceOK, SupplierSteps
        <4>4. Task(b) \in Tasks /\ Task(b)[1] = b
          BY <4>3, AtTask
        <4>5. CASE Kept(t, prior[b], beside[t[1]])
          <5>1. PICK i \in DOMAIN prior[b] : prior[b][i] = t \/ prior[b][i][1] \in beside[t[1]]
            BY <4>5 DEF Kept
          <5>2. /\ i \in DOMAIN Append(prior[b], Task(b))
                /\ Append(prior[b], Task(b))[i] = prior[b][i]
            BY <4>3, <4>4, <5>1
          <5> QED
            BY <4>1, <5>1, <5>2 DEF Kept
        <4>6. CASE b \in beside[t[1]]
          <5>1. /\ Len(prior[b]) + 1 \in DOMAIN Append(prior[b], Task(b))
                /\ Append(prior[b], Task(b))[Len(prior[b]) + 1] = Task(b)
            BY <4>3, <4>4
          <5> QED
            BY <4>1, <4>4, <4>6, <5>1 DEF Kept
        <4> QED
          BY <4>2, <4>5, <4>6
      <3> QED
        BY <3>1, <3>2
    <2>3. beside[t[1]] \subseteq beside'[t[1]]
      BY <1>1 DEF Lasting
    <2>4. ASSUME NEW c \in Batches, step'[c] \in Captured, Supplier(c)' = t[2]
          PROVE  Kept(t, prior'[c], beside'[t[1]]) \/ c \in beside'[t[1]]
      <3>1. Kept(t, prior'[c], beside[t[1]]) => Kept(t, prior'[c], beside'[t[1]])
        BY <2>3, BindingLasts, Zenon
      <3> QED
        BY <2>1, <2>3, <2>4, <3>1
    <2>5. Kept(t, state'[t[2]], beside'[t[1]])
      BY <2>2, <2>3, BindingLasts, Zenon
    <2> QED
      BY <2>4, <2>5 DEF Carried
  <1> QED
    BY <1>1, <1>2, <1>3, <1>4 DEF TaskOK, Lasting

\* What is left to show of a step of b.
LEMMA StepInv ==
    ASSUME BatchInv, NEW b \in Batches, Others(b), Lasting, Moves(b), Carries(b),
           BatchTypeOK', FileOK', StateOK', BesideOK', BatchOK(b)',
           \A t \in Tasks : t = Task(b) /\ pos'[b] = pos[b] + 1 => TaskOK(t)'
    PROVE  BatchInv'
  <1>1. ASSUME NEW d \in Batches PROVE BatchOK(d)'
    BY OtherBatch
  <1>2. ASSUME NEW u \in Tasks, Past(u)' PROVE TaskOK(u)'
    BY <1>2, PastGrows, TaskStays DEF BatchInv
  <1> QED
    BY <1>1, <1>2 DEF BatchInv

\* Lists of runs that are not changed stay in order.
LEMMA ListStays ==
    ASSUME BatchInv, Lasting, NEW q \in Seq(Tasks), Distinct(q), Reviewable(q)
    PROVE  Distinct(q)' /\ Reviewable(q)'
  <1>1. \A i \in DOMAIN q : q[i] \in Tasks /\ KeyOf[q[i]] \in Keys
    BY NamingFacts
  <1> QED
    BY <1>1 DEF Distinct, Reviewable, Lasting

\* A step of b at work that writes no artifact and no state; it may mark an artifact
\* read-only and remove a temporary file.
Soft(b) ==
    /\ Active(b) /\ Others(b) /\ Lasting /\ Moves(b)
    /\ UNCHANGED <<approval, state, beside>>
    /\ \A k \in Keys : draft'[k] \in {draft[k], NoFile}
    /\ \A k \in Keys : readonly'[k] => readonly[k] \/ approval[k] # NoFile

\* The parts that such a step, and others, leave as they are.
LEMMA StatesStay ==
    ASSUME BatchInv, Lasting, NEW s \in Suppliers, state'[s] = state[s]
    PROVE  Distinct(state[s])' /\ Reviewable(state[s])'
  <1>1. state[s] \in Seq(Tasks) /\ Distinct(state[s]) /\ Reviewable(state[s])
    BY DEF BatchInv, BatchTypeOK, StateOK
  <1> QED
    BY <1>1, ListStays DEF Distinct, Reviewable, Pub

LEMMA BesideStays ==
    ASSUME BatchInv, NEW b \in Batches, Active(b), Others(b), beside' = beside
    PROVE  BesideOK'
  <1>1. \A d \in Batches : Active(d)' => Active(d)
    BY DEF Others, Active
  <1> QED
    BY <1>1 DEF BatchInv, BesideOK

LEMMA SoftStep ==
    ASSUME BatchInv, NEW b \in Batches, Soft(b), Carries(b), BatchTypeOK', BatchOK(b)',
           \A t \in Tasks : t = Task(b) /\ pos'[b] = pos[b] + 1 => TaskOK(t)'
    PROVE  BatchInv'
  <1>1. FileOK'
    <2>1. \A u \in Tasks : Reached(u) => Reached(u)'
      BY PastGrows DEF BatchInv, Soft
    <2>2. NoFile \notin Tasks
      BY NothingAssumption
    <2> QED
      BY <2>1, <2>2 DEF BatchInv, FileOK, Soft
  <1>2. StateOK'
    BY StatesStay DEF StateOK, Soft
  <1>3. BesideOK'
    BY BesideStays DEF Soft
  <1> QED
    BY <1>1, <1>2, <1>3, StepInv DEF Soft

\* b goes on to its next supplier or to the aggregate.
LEMMA AdvanceStep ==
    ASSUME BatchInv, NEW b \in Batches, step[b] \in SupplierSteps, Advance(b),
           Soft(b), prior' = prior, BatchTypeOK',
           \A t \in Tasks : t = Task(b) => TaskOK(t)'
    PROVE  BatchInv'
  <1>1. pos[b] \in DOMAIN Order /\ pos[b] \in 1..Len(Order)
    BY OrderFacts DEF BatchInv, BatchOK, PlaceOK
  <1>2. /\ pos'[b] = pos[b] + 1
        /\ step'[b] = IF pos[b] < Len(Order) THEN "supplier" ELSE "aggregate"
    BY DEF Advance, BatchInv, BatchTypeOK
  <1>3. PlaceOK(b)'
    BY <1>1, <1>2, OrderFacts DEF PlaceOK, SupplierSteps, ApprovalSteps, AggregateSteps
  <1>4. Distinct(prior[b])' /\ Reviewable(prior[b])'
    <2>1. prior[b] \in Seq(Tasks) /\ Distinct(prior[b]) /\ Reviewable(prior[b])
      BY DEF BatchInv, BatchTypeOK, BatchOK
    <2> QED
      BY <2>1, ListStays DEF Soft, Distinct, Reviewable, Pub
  <1>5. BatchOK(b)'
    BY <1>2, <1>3, <1>4 DEF BatchOK, Protected, Published, Judged, Clear, ApprovalSteps
  <1>6. Carries(b)
    BY <1>2 DEF Carries, Captured, Published, Judged, ApprovalSteps, Soft
  <1> QED
    BY <1>5, <1>6, SoftStep

\* b goes on with the same supplier, or stops.
LEMMA StayStep ==
    ASSUME BatchInv, NEW b \in Batches, Soft(b), pos' = pos, Carries(b), BatchTypeOK',
           BatchOK(b)'
    PROVE  BatchInv'
  <1>1. pos'[b] # pos[b] + 1
    BY OrderFacts DEF BatchInv, BatchTypeOK
  <1> QED
    BY <1>1, SoftStep

-----------------------------------------------------------------------------
\* Nothing changes but where b is, the results, and what run_pilot reports.
Still == UNCHANGED <<output, content, approval, readonly, draft, state, aggVars, beside, crashes>>

LEMMA StillTypes ==
    ASSUME BatchInv, NEW b \in Batches, Still, prior' = prior,
           report' \in [Tasks -> {"none", "published", "exists", "error"}],
           status' \in [Tasks -> Statuses],
           \/ step[b] \in SupplierSteps /\ Advance(b)
           \/ \E s \in Steps : ToStep(b, s)
    PROVE  BatchTypeOK'
  <1>1. pos' \in [Batches -> 1..Len(Order) + 1] /\ step' \in [Batches -> Steps]
    <2>1. CASE step[b] \in SupplierSteps /\ Advance(b)
      <3>1. pos[b] \in 1..Len(Order)
        BY <2>1, OrderFacts DEF BatchInv, BatchOK, PlaceOK
      <3>2. pos[b] + 1 \in 1..Len(Order) + 1
        BY <3>1, OrderFacts
      <3> QED
        BY <2>1, <3>2 DEF Advance, BatchInv, BatchTypeOK, Steps, SupplierSteps, AggregateSteps
    <2>2. CASE \E s \in Steps : ToStep(b, s)
      BY <2>2 DEF ToStep, BatchInv, BatchTypeOK
    <2> QED
      BY <2>1, <2>2
  <1> QED
    BY <1>1 DEF BatchInv, BatchTypeOK, Still, aggVars

\* The supplier of b gets a result other than PASS.
LEMMA FailedAdvance ==
    ASSUME BatchInv, NEW b \in Batches, step[b] \in SupplierSteps, Advance(b), Still,
           NEW r \in {"FAIL", "BLOCKED"}, SetStatus(b, r), prior' = prior,
           report' \in [Tasks -> {"none", "published", "exists", "error"}]
    PROVE  BatchInv'
  <1>1. pos[b] \in DOMAIN Order /\ Task(b) \in Tasks
    BY AtTask DEF BatchInv, BatchOK, PlaceOK
  <1>2. /\ status' = [status EXCEPT ![Task(b)] = r] /\ status \in [Tasks -> Statuses]
        /\ r \in Statuses
    BY DEF SetStatus, BatchInv, BatchTypeOK, Statuses
  <1>3. status' \in [Tasks -> Statuses] /\ status'[Task(b)] = r
    BY <1>1, <1>2
  <1>4. BatchTypeOK'
    BY <1>3, StillTypes
  <1>5. Soft(b)
    BY <1>1, <1>2
       DEF Soft, Others, Lasting, Moves, Still, Advance, Active, Pub, BatchInv, BatchTypeOK
  <1>6. ASSUME NEW t \in Tasks, t = Task(b) PROVE TaskOK(t)'
    BY <1>3, <1>6 DEF TaskOK
  <1> QED
    BY <1>4, <1>5, <1>6, AdvanceStep

\* b goes on, without a new result.
LEMMA QuietMove ==
    ASSUME BatchInv, NEW b \in Batches, Active(b), Still, NEW s \in Steps, ToStep(b, s),
           UNCHANGED <<prior, status>>, step[b] \notin Early => s \notin Early
    PROVE  /\ Soft(b) /\ pos'[b] = pos[b] /\ step'[b] = s
           /\ Distinct(prior[b])' /\ Reviewable(prior[b])'
  <1>1. Lasting
    BY DEF Lasting, Still, Pub
  <1>2. pos' = pos /\ step' = [step EXCEPT ![b] = s] /\ step \in [Batches -> Steps]
    BY DEF ToStep, BatchInv, BatchTypeOK
  <1>3. Soft(b)
    BY <1>1, <1>2 DEF Soft, Others, Moves, Still
  <1>4. prior[b] \in Seq(Tasks) /\ Distinct(prior[b]) /\ Reviewable(prior[b])
    BY DEF BatchInv, BatchTypeOK, BatchOK
  <1>5. Distinct(prior[b])' /\ Reviewable(prior[b])'
    BY <1>1, <1>4, ListStays DEF Distinct, Reviewable, Pub
  <1> QED
    BY <1>2, <1>3, <1>5

LEMMA BlockedSteps ==
    ASSUME BatchInv, NEW b \in Batches,
           BlockEarly(b) \/ RejectRun(b) \/ VerifyFails(b) \/ InstallError(b) \/ TidyFails(b)
    PROVE  BatchInv'
  <1> USE DEF At, Still, runVars, fileVars, aggVars, SupplierSteps
  <1>1. report \in [Tasks -> {"none", "published", "exists", "error"}]
    BY DEF BatchInv, BatchTypeOK
  <1>2. CASE BlockEarly(b)
    BY <1>1, <1>2, FailedAdvance DEF BlockEarly
  <1>3. CASE RejectRun(b)
    <2>1. /\ report' \in [Tasks -> {"none", "published", "exists", "error"}]
          /\ UNCHANGED <<output, content>>
      BY <1>1, <1>3
         DEF RejectRun, Directory!Refuse, Directory!GiveUp, Directory!Report
    <2> QED
      BY <1>3, <2>1, FailedAdvance DEF RejectRun
  <1>4. CASE VerifyFails(b)
    BY <1>1, <1>4, FailedAdvance DEF VerifyFails
  <1>5. CASE InstallError(b)
    BY <1>1, <1>5, FailedAdvance DEF InstallError
  <1>6. CASE TidyFails(b)
    BY <1>1, <1>6, FailedAdvance DEF TidyFails
  <1> QED
    BY <1>2, <1>3, <1>4, <1>5, <1>6

\* The approval raises.
LEMMA DisapproveStep ==
    ASSUME BatchInv, NEW b \in Batches, step[b] \in ApprovalSteps, Disapprove(b), Still,
           UNCHANGED <<prior, report>>
    PROVE  BatchInv'
  <1>1. report \in [Tasks -> {"none", "published", "exists", "error"}]
    BY DEF BatchInv, BatchTypeOK
  <1>2. CASE step[b] = "approve"
    BY <1>1, <1>2, FailedAdvance DEF Disapprove, At, SupplierSteps
  <1>3. CASE step[b] # "approve"
    <2>1. /\ pos[b] \in DOMAIN Order /\ Task(b) \in Tasks /\ Active(b)
          /\ step[b] \in Published /\ step[b] \in Clear
      BY <1>3, AtTask DEF BatchInv, BatchOK, PlaceOK, SupplierSteps, Active, Published, Judged, Clear
    <2>2. /\ status' = [status EXCEPT ![Task(b)] = "FAIL"] /\ status \in [Tasks -> Statuses]
          /\ pos' = pos /\ step' = [step EXCEPT ![b] = "tidy"] /\ step \in [Batches -> Steps]
      BY <1>3 DEF Disapprove, At, SetStatus, ToStep, BatchInv, BatchTypeOK
    <2>3. status' \in [Tasks -> Statuses] /\ status'[Task(b)] = "FAIL" /\ step'[b] = "tidy"
      BY <2>1, <2>2 DEF Statuses
    <2>4. BatchTypeOK'
      <3>1. ToStep(b, "tidy") /\ "tidy" \in Steps
        BY <1>3 DEF Disapprove, At, Steps, SupplierSteps
      <3> QED
        BY <1>1, <2>3, <3>1, StillTypes
    <2>5. Soft(b)
      BY <2>1, <2>2, <2>3 DEF Soft, Others, Lasting, Moves, Still, Pub, Early
    <2>6. Distinct(prior[b])' /\ Reviewable(prior[b])' /\ BatchOK(b)
      <3>1. prior[b] \in Seq(Tasks) /\ BatchOK(b) /\ Distinct(prior[b]) /\ Reviewable(prior[b])
        BY DEF BatchInv, BatchTypeOK, BatchOK
      <3> QED
        BY <3>1, ListStays, <2>5 DEF Soft, Distinct, Reviewable, Pub
    <2>7. Task(b)' = Task(b) /\ Key(b)' = Key(b)
      BY <2>2 DEF Task, Key, Supplier
    <2>8. BatchOK(b)'
      BY <2>1, <2>2, <2>3, <2>6, <2>7
         DEF BatchOK, PlaceOK, Protected, Pub, Still, AggregateSteps, Published, Judged, Clear
    <2>9. Carries(b)
      BY <2>1, <2>2, <2>3 DEF Carries, Captured, Still
    <2> QED
      BY <2>2, <2>4, <2>5, <2>8, <2>9, StayStep
  <1> QED
    BY <1>2, <1>3

\* The batch stops, or it is past its suppliers.
LEMMA EndStep ==
    ASSUME BatchInv, NEW b \in Batches, Active(b), NEW s \in AggregateSteps \cup EndSteps,
           ToStep(b, s), step[b] \in AggregateSteps \/ s \in {"aborted", "dead"},
           UNCHANGED <<prior, status, output, content, approval, readonly, draft, state, beside>>,
           report' \in [Tasks -> {"none", "published", "exists", "error"}],
           aggregate' \in [Roots -> Batches \cup {NoFile}],
           aggDraft' \in [Roots -> Batches \cup {NoFile}],
           crashes' \in 0..MaxCrashes
    PROVE  BatchInv'
  <1>1. /\ pos' = pos /\ step' = [step EXCEPT ![b] = s] /\ step'[b] = s
        /\ s \in Steps /\ s \notin Early
    BY DEF ToStep, BatchInv, BatchTypeOK, Steps, AggregateSteps, EndSteps, Early
  <1>2. BatchTypeOK'
    BY <1>1 DEF BatchInv, BatchTypeOK
  <1>3. Soft(b)
    BY <1>1 DEF Soft, Others, Lasting, Moves, Pub
  <1>4. Distinct(prior[b])' /\ Reviewable(prior[b])' /\ BatchOK(b)
    <2>1. prior[b] \in Seq(Tasks) /\ BatchOK(b) /\ Distinct(prior[b]) /\ Reviewable(prior[b])
      BY DEF BatchInv, BatchTypeOK, BatchOK
    <2> QED
      BY <2>1, ListStays, <1>3 DEF Soft, Distinct, Reviewable, Pub
  <1>5. s \notin SupplierSteps
    BY DEF SupplierSteps, ApprovalSteps, AggregateSteps, EndSteps
  <1>6. BatchOK(b)'
    BY <1>1, <1>4, <1>5
       DEF BatchOK, PlaceOK, Protected, Published, Judged, Clear, SupplierSteps,
           AggregateSteps, EndSteps
  <1>7. Carries(b)
    BY <1>1, <1>5 DEF Carries, Captured, Published, Judged, SupplierSteps
  <1> QED
    BY <1>1, <1>2, <1>3, <1>6, <1>7, StayStep

LEMMA EndingSteps ==
    ASSUME BatchInv, NEW b \in Batches,
           Escape(b) \/ EscapeRun(b) \/ Crash(b) \/ WriteAggregate(b)
    PROVE  BatchInv'
  <1> USE DEF At, runVars, fileVars, aggVars, Active, SupplierSteps, AggregateSteps, EndSteps
  <1>1. /\ report \in [Tasks -> {"none", "published", "exists", "error"}]
        /\ aggregate \in [Roots -> Batches \cup {NoFile}]
        /\ aggDraft \in [Roots -> Batches \cup {NoFile}]
        /\ crashes \in 0..MaxCrashes /\ MaxCrashes \in Nat /\ RootOf[b] \in Roots
    BY BoundAssumption, NamingFacts DEF BatchInv, BatchTypeOK
  <1>2. CASE Escape(b)
    BY <1>1, <1>2, EndStep DEF Escape
  <1>3. CASE EscapeRun(b)
    <2>1. /\ report' \in [Tasks -> {"none", "published", "exists", "error"}]
          /\ UNCHANGED <<output, content>>
      BY <1>1, <1>3 DEF EscapeRun, Directory!GiveUp, Directory!Report
    <2> QED
      BY <1>1, <1>3, <2>1, EndStep DEF EscapeRun
  <1>4. CASE Crash(b)
    <2>1. crashes' \in 0..MaxCrashes
      BY <1>1, <1>4 DEF Crash
    <2> QED
      BY <1>1, <1>4, <2>1, EndStep DEF Crash
  <1>5. CASE WriteAggregateDraft(b)
    BY <1>1, <1>5, EndStep DEF WriteAggregateDraft
  <1>6. CASE CheckAggregateDraft(b)
    BY <1>1, <1>6, EndStep DEF CheckAggregateDraft
  <1>7. CASE ReplaceAggregate(b)
    BY <1>1, <1>7, EndStep DEF ReplaceAggregate
  <1>8. CASE CheckAggregate(b)
    BY <1>1, <1>8, EndStep DEF CheckAggregate
  <1> QED
    BY <1>2, <1>3, <1>4, <1>5, <1>6, <1>7, <1>8 DEF WriteAggregate

\* What a batch at work on a supplier knows.
LEMMA AtWork ==
    ASSUME BatchInv, NEW b \in Batches, step[b] \in SupplierSteps
    PROVE  /\ pos[b] \in DOMAIN Order /\ Task(b) \in Tasks /\ Key(b) \in Keys
           /\ Active(b) /\ BatchOK(b) /\ prior[b] \in Seq(Tasks)
           /\ Supplier(b) \in Suppliers
           /\ step[b] \in Early => approval[Key(b)] # Task(b)
           /\ \A i \in DOMAIN prior[b] : readonly[KeyOf[prior[b][i]]]
           /\ pos' = pos => Task(b)' = Task(b) /\ Key(b)' = Key(b) /\ Supplier(b)' = Supplier(b)
  <1>1. pos[b] \in DOMAIN Order
    BY DEF BatchInv, BatchOK, PlaceOK
  <1>2. step[b] \in Early => ~Reached(Task(b))
    BY <1>1, AtTask
  <1>3. Task(b) \in Tasks /\ Key(b) \in Keys /\ Supplier(b) \in Suppliers
    BY <1>1, AtTask
  <1>4. step[b] \in Early => approval[Key(b)] # Task(b)
    BY <1>2, <1>3 DEF BatchInv, FileOK
  <1>5. pos' = pos => Task(b)' = Task(b) /\ Key(b)' = Key(b) /\ Supplier(b)' = Supplier(b)
    BY DEF Task, Key, Supplier
  <1>6. Active(b)
    BY DEF Active
  <1> QED
    BY <1>1, <1>3, <1>4, <1>5, <1>6 DEF BatchInv, BatchTypeOK, BatchOK, Reviewable

LEMMA CaptureStep ==
    ASSUME BatchInv, NEW b \in Batches, Capture(b)
    PROVE  BatchInv'
  <1>1. /\ step[b] = "supplier" /\ step[b] \in SupplierSteps
        /\ UNCHANGED <<status, output, content, report, approval, readonly, draft, state,
                       aggregate, aggDraft, beside, crashes>>
    BY DEF Capture, At, SupplierSteps, runVars, fileVars, aggVars
  <1>2. /\ pos' = pos /\ step' = [step EXCEPT ![b] = "run"] /\ step \in [Batches -> Steps]
        /\ prior' = [prior EXCEPT ![b] = state[Supplier(b)]] /\ prior \in [Batches -> Seq(Tasks)]
        /\ "run" \in Steps /\ pos[b] \in DOMAIN Order /\ Supplier(b) \in Suppliers
    BY <1>1, AtWork DEF Capture, ToStep, BatchInv, BatchTypeOK, Steps, SupplierSteps
  <1>3. /\ state[Supplier(b)] \in Seq(Tasks) /\ Distinct(state[Supplier(b)])
        /\ Reviewable(state[Supplier(b)])
    BY <1>2 DEF BatchInv, BatchTypeOK, StateOK
  <1>4. BatchTypeOK' /\ prior'[b] = state[Supplier(b)] /\ step'[b] = "run"
    BY <1>1, <1>2, <1>3 DEF BatchInv, BatchTypeOK
  <1>5. Soft(b)
    BY <1>1, <1>2 DEF Soft, Others, Lasting, Moves, Active, Early, Pub
  <1>6. Distinct(prior[b])' /\ Reviewable(prior[b])'
    BY <1>1, <1>3, <1>4 DEF Distinct, Reviewable, Pub
  <1>7. BatchOK(b)'
    BY <1>2, <1>4, <1>6
       DEF BatchOK, PlaceOK, Protected, Published, Judged, Clear, AggregateSteps, ApprovalSteps
  <1>8. Carries(b)
    BY <1>1, <1>2, <1>4 DEF Carries
  <1> QED
    BY <1>2, <1>4, <1>5, <1>7, <1>8, StayStep

\* The directory is free, and the run of this task is there from now on.
LEMMA PublishStep ==
    ASSUME BatchInv, NEW b \in Batches, PublishRun(b)
    PROVE  BatchInv'
  <1> DEFINE n == NameOf[Task(b)]
  <1>1. /\ step[b] = "run" /\ step[b] \in SupplierSteps
        /\ UNCHANGED <<prior, status, approval, readonly, draft, state,
                       aggregate, aggDraft, beside, crashes>>
        /\ output[n] = NoRun /\ output' = [output EXCEPT ![n] = Task(b)]
        /\ content' = [content EXCEPT ![n] = "sealed"]
        /\ report' = [report EXCEPT ![Task(b)] = "published"]
    BY DEF PublishRun, At, SupplierSteps, fileVars, aggVars, Directory!Publish, Directory!Report
  <1>2. /\ pos' = pos /\ step' = [step EXCEPT ![b] = "verify"] /\ step \in [Batches -> Steps]
        /\ "verify" \in Steps /\ output \in [Names -> Tasks \cup {NoRun}]
        /\ content \in [Names -> {"none", "sealed"}]
        /\ report \in [Tasks -> {"none", "published", "exists", "error"}]
    BY DEF PublishRun, ToStep, BatchInv, BatchTypeOK, Steps, SupplierSteps
  <1>3. Task(b) \in Tasks /\ n \in Names /\ NoRun \notin Tasks
    BY <1>1, AtWork, NamingFacts, NothingAssumption
  <1>4. /\ output' \in [Names -> Tasks \cup {NoRun}] /\ output'[n] = Task(b)
        /\ content' \in [Names -> {"none", "sealed"}]
        /\ report' \in [Tasks -> {"none", "published", "exists", "error"}]
        /\ step' \in [Batches -> Steps] /\ step'[b] = "verify"
        /\ \A m \in Names \ {n} : output'[m] = output[m]
    BY <1>1, <1>2, <1>3
  <1>5. BatchTypeOK'
    BY <1>1, <1>2, <1>4 DEF BatchInv, BatchTypeOK
  <1>6. Lasting
    BY <1>1, <1>3, <1>4, NamingFacts DEF Lasting, Pub
  <1>7. Soft(b)
    BY <1>1, <1>2, <1>6 DEF Soft, Others, Moves, Active, Early
  <1>8. Distinct(prior[b])' /\ Reviewable(prior[b])'
    <2>1. prior[b] \in Seq(Tasks) /\ Distinct(prior[b]) /\ Reviewable(prior[b])
      BY <1>1, AtWork DEF BatchOK
    <2> QED
      BY <1>1, <1>6, <2>1, ListStays DEF Distinct, Reviewable, Pub
  <1>9. BatchOK(b)'
    BY <1>1, <1>2, <1>4, <1>8, AtWork
       DEF BatchOK, PlaceOK, Protected, Pub, Judged, Clear, AggregateSteps, ApprovalSteps
  <1>10. Carries(b)
    BY <1>1, <1>2, <1>4 DEF Carries, Captured
  <1> QED
    BY <1>2, <1>5, <1>7, <1>9, <1>10, StayStep

LEMMA VerifyStep ==
    ASSUME BatchInv, NEW b \in Batches, VerifyPasses(b)
    PROVE  BatchInv'
  <1>1. /\ step[b] = "verify" /\ step[b] \in SupplierSteps /\ ToStep(b, "approve")
        /\ Still /\ prior' = prior /\ report' = report
        /\ status' = [status EXCEPT ![Task(b)] = "PASS"]
    BY DEF VerifyPasses, At, SupplierSteps, runVars, fileVars, Still, SetStatus
  <1>2. /\ pos' = pos /\ step' = [step EXCEPT ![b] = "approve"] /\ step \in [Batches -> Steps]
        /\ "approve" \in Steps /\ status \in [Tasks -> Statuses] /\ "PASS" \in Statuses
        /\ report \in [Tasks -> {"none", "published", "exists", "error"}]
    BY <1>1 DEF ToStep, BatchInv, BatchTypeOK, Steps, SupplierSteps, ApprovalSteps, Statuses
  <1>3. Task(b) \in Tasks
    BY <1>1, AtWork
  <1>4. status' \in [Tasks -> Statuses] /\ status'[Task(b)] = "PASS" /\ step'[b] = "approve"
    BY <1>1, <1>2, <1>3
  <1>5. BatchTypeOK'
    BY <1>1, <1>2, <1>4, StillTypes
  <1>6. Soft(b)
    BY <1>1, <1>2, AtWork DEF Soft, Others, Lasting, Moves, Still, Pub, Early
  <1>7. Distinct(prior[b])' /\ Reviewable(prior[b])'
    <2>1. prior[b] \in Seq(Tasks) /\ Distinct(prior[b]) /\ Reviewable(prior[b])
      BY <1>1, AtWork DEF BatchOK
    <2> QED
      BY <1>1, <1>6, <2>1, ListStays DEF Soft, Distinct, Reviewable, Pub
  <1>8. BatchOK(b)'
    BY <1>1, <1>2, <1>4, <1>7, AtWork
       DEF BatchOK, PlaceOK, Protected, Pub, Still, Published, Clear, AggregateSteps
  <1>9. Carries(b)
    BY <1>1, <1>2, <1>4 DEF Carries, Captured, Published, Still
  <1> QED
    BY <1>2, <1>5, <1>6, <1>8, <1>9, StayStep

\* The next statement of the approval: b has published its run, and where it goes it
\* knows what it needs.
LEMMA ApprovalMove ==
    ASSUME BatchInv, NEW b \in Batches, step[b] \in ApprovalSteps, Still,
           NEW s \in ApprovalSteps \ {"approve"}, ToStep(b, s),
           UNCHANGED <<prior, status, report>>, step[b] \notin Early => s \notin Early,
           s # "replacecheck", step[b] = "approve" => approval[Key(b)] = NoFile,
           s = "protect" => step[b] = "replacecheck" /\ approval[Key(b)] = Task(b)
    PROVE  BatchInv'
  <1>1. /\ step[b] \in SupplierSteps /\ s \in Steps /\ step[b] \in Published
        /\ step[b] \in Judged /\ s \in Judged /\ s \in SupplierSteps /\ s # "tidy"
    BY DEF SupplierSteps, Steps, Published, Judged, ApprovalSteps
  <1>2. /\ Soft(b) /\ pos' = pos /\ pos'[b] = pos[b] /\ step'[b] = s
        /\ Distinct(prior[b])' /\ Reviewable(prior[b])'
    BY <1>1, QuietMove, AtWork DEF ToStep
  <1>3. BatchTypeOK'
    BY <1>1, StillTypes DEF BatchInv, BatchTypeOK
  <1>4. \A i \in DOMAIN prior[b] : KeyOf[prior[b][i]] # Key(b)
    <2>1. CASE step[b] = "approve"
      <3>1. ~readonly[Key(b)]
        BY <1>1, <2>1, AtWork DEF BatchInv, FileOK
      <3> QED
        BY <1>1, <3>1, AtWork
    <2>2. CASE step[b] # "approve"
      BY <1>1, <2>2, AtWork DEF BatchOK, Clear
    <2> QED
      BY <2>1, <2>2
  <1>5. /\ Task(b)' = Task(b) /\ Key(b)' = Key(b) /\ BatchOK(b) /\ pos[b] \in DOMAIN Order
        /\ ~Protected(b)' /\ s # "idle" /\ s \notin AggregateSteps \cup {"done"}
    BY <1>1, <1>2, AtWork DEF Protected, ApprovalSteps, AggregateSteps
  <1>6. s = "protect" =>
          /\ Bound(Task(b), approval[Key(b)], beside[b]) /\ approval[Key(b)] # NoFile
          /\ draft[Key(b)] = NoFile \/ Bound(Task(b), draft[Key(b)], beside[b])
    BY <1>1, AtWork DEF BatchOK, Bound
  <1>7. BatchOK(b)'
    BY <1>1, <1>2, <1>4, <1>5, <1>6 DEF BatchOK, PlaceOK, Pub, Still
  <1>8. Carries(b)
    BY <1>1, <1>2 DEF Carries, Captured, Still
  <1> QED
    BY <1>2, <1>3, <1>7, <1>8, StayStep

\* The comparisons.
LEMMA CheckSteps ==
    ASSUME BatchInv, NEW b \in Batches,
           FindApproval(b) \/ CheckDraft(b) \/ CheckApproval(b) \/ ApprovalError(b)
    PROVE  BatchInv'
  <1> USE DEF At, runVars, fileVars, Still, ApprovalSteps
  <1>1. CASE FindApproval(b)
    <2>1. approval[Key(b)] # Task(b)
      BY <1>1, AtWork DEF FindApproval, SupplierSteps, Early
    <2>2. CASE approval[Key(b)] = NoFile
      <3>1. /\ step[b] = "approve" /\ Still /\ UNCHANGED <<prior, status, report>>
            /\ ToStep(b, "draft") /\ "draft" \in ApprovalSteps \ {"approve"}
        BY <1>1, <2>2 DEF FindApproval
      <3>2. step[b] \in Early
        BY <3>1 DEF Early
      <3> QED
        BY <2>2, <3>1, <3>2, ApprovalMove
    <2>3. CASE approval[Key(b)] # NoFile
      BY <1>1, <2>1, <2>3, DisapproveStep DEF FindApproval
    <2> QED
      BY <2>2, <2>3
  <1>2. CASE CheckDraft(b)
    <2>1. CASE draft[Key(b)] = Task(b)
      BY <1>2, <2>1, ApprovalMove DEF CheckDraft, Early
    <2>2. CASE draft[Key(b)] # Task(b)
      BY <1>2, <2>2, DisapproveStep DEF CheckDraft
    <2> QED
      BY <2>1, <2>2
  <1>3. CASE CheckApproval(b)
    <2>1. CASE approval[Key(b)] = Task(b)
      <3>1. approval[Key(b)] # NoFile
        BY <1>3 DEF CheckApproval, BatchInv, BatchOK
      <3> QED
        BY <1>3, <2>1, <3>1, ApprovalMove DEF CheckApproval, Early
    <2>2. CASE approval[Key(b)] # Task(b)
      BY <1>3, <2>2, DisapproveStep DEF CheckApproval
    <2> QED
      BY <2>1, <2>2
  <1>4. CASE ApprovalError(b)
    BY <1>4, DisapproveStep DEF ApprovalError
  <1> QED
    BY <1>1, <1>2, <1>3, <1>4

\* The artifact is marked read-only.
LEMMA ProtectStep ==
    ASSUME BatchInv, NEW b \in Batches, Protect(b)
    PROVE  BatchInv'
  <1> DEFINE k == Key(b)
  <1>1. /\ step[b] = "protect" /\ step[b] \in SupplierSteps
        /\ UNCHANGED <<prior, status, output, content, report, approval, draft, state,
                       aggregate, aggDraft, beside, crashes>>
        /\ readonly' = [readonly EXCEPT ![k] = TRUE] /\ readonly \in [Keys -> BOOLEAN]
    BY DEF Protect, At, SupplierSteps, ApprovalSteps, runVars, aggVars, BatchInv, BatchTypeOK
  <1>2. /\ pos' = pos /\ step' = [step EXCEPT ![b] = "tidy"] /\ step \in [Batches -> Steps]
        /\ "tidy" \in Steps
    BY DEF Protect, ToStep, BatchInv, BatchTypeOK, Steps, SupplierSteps
  <1>3. k \in Keys /\ BatchOK(b) /\ approval[k] # NoFile
    BY <1>1, AtWork DEF BatchOK
  <1>4. /\ readonly' \in [Keys -> BOOLEAN] /\ readonly'[k] /\ step'[b] = "tidy"
        /\ step' \in [Batches -> Steps] /\ \A j \in Keys \ {k} : readonly'[j] = readonly[j]
    BY <1>1, <1>2, <1>3
  <1>5. BatchTypeOK'
    BY <1>1, <1>2, <1>4 DEF BatchInv, BatchTypeOK
  <1>6. Lasting
    BY <1>1, <1>4 DEF Lasting, Pub
  <1>7. Soft(b)
    BY <1>1, <1>2, <1>3, <1>4, <1>6, AtWork DEF Soft, Others, Moves, Early
  <1>8. Distinct(prior[b])' /\ Reviewable(prior[b])'
    <2>1. prior[b] \in Seq(Tasks) /\ Distinct(prior[b]) /\ Reviewable(prior[b])
      BY <1>1, AtWork DEF BatchOK
    <2> QED
      BY <1>1, <1>6, <2>1, ListStays DEF Distinct, Reviewable, Pub
  <1>9. /\ Task(b)' = Task(b) /\ Key(b)' = Key(b) /\ pos[b] \in DOMAIN Order
        /\ step[b] \in Published /\ step[b] \in Judged /\ step[b] \in Clear
    BY <1>1, <1>2, AtWork DEF Published, Judged, Clear, ApprovalSteps
  <1>10. BatchOK(b)'
    BY <1>1, <1>2, <1>3, <1>4, <1>8, <1>9 DEF BatchOK, PlaceOK, Protected, Pub, AggregateSteps
  <1>11. Carries(b)
    BY <1>1, <1>2, <1>4, <1>9 DEF Carries, Captured
  <1> QED
    BY <1>2, <1>5, <1>7, <1>10, <1>11, StayStep

\* The temporary file is removed; the result stands, or the state is promoted.
LEMMA TidyStep ==
    ASSUME BatchInv, NEW b \in Batches, Tidy(b)
    PROVE  BatchInv'
  <1>1. /\ step[b] = "tidy" /\ step[b] \in SupplierSteps
        /\ UNCHANGED <<prior, status, output, content, report, approval, readonly, state,
                       aggregate, aggDraft, beside, crashes>>
        /\ draft' = [draft EXCEPT ![Key(b)] = NoFile]
        /\ draft \in [Keys -> Tasks \cup {NoFile}]
        /\ Advance(b) \/ ToStep(b, "install")
    BY DEF Tidy, AfterApproval, At, SupplierSteps, runVars, aggVars, BatchInv, BatchTypeOK
  <1>2. /\ pos[b] \in DOMAIN Order /\ pos[b] \in 1..Len(Order) /\ Task(b) \in Tasks
        /\ Key(b) \in Keys /\ BatchOK(b) /\ Active(b)
        /\ step[b] \in Published /\ step[b] \in Judged /\ step[b] \in Clear
    BY <1>1, AtWork, OrderFacts DEF Published, Judged, Clear
  <1>3. pos' \in [Batches -> 1..Len(Order) + 1] /\ step' \in [Batches -> Steps]
    <2>1. pos[b] + 1 \in 1..Len(Order) + 1
      BY <1>2, OrderFacts
    <2>2. {"supplier", "aggregate", "install"} \subseteq Steps
      BY DEF Steps, SupplierSteps, AggregateSteps
    <2>3. pos \in [Batches -> 1..Len(Order) + 1] /\ step \in [Batches -> Steps]
      BY DEF BatchInv, BatchTypeOK
    <2>4. CASE Advance(b)
      BY <2>1, <2>2, <2>3, <2>4 DEF Advance
    <2>5. CASE ToStep(b, "install")
      BY <2>2, <2>3, <2>5 DEF ToStep
    <2> QED
      BY <1>1, <2>4, <2>5
  <1>4. BatchTypeOK'
    BY <1>1, <1>3 DEF BatchInv, BatchTypeOK
  <1>5. Lasting
    BY <1>1 DEF Lasting, Pub
  <1>6. Soft(b)
    BY <1>1, <1>2, <1>5
       DEF Soft, Others, Moves, Early, Advance, ToStep, BatchInv, BatchTypeOK
  <1>7. CASE ToStep(b, "install")
    <2>1. status[Task(b)] = "PASS" \/ Advance(b)
      BY DEF Tidy
    <2>2. pos' = pos /\ step'[b] = "install"
      BY <1>7 DEF ToStep, BatchInv, BatchTypeOK
    <2>3. status[Task(b)] = "PASS"
      BY <1>2, <2>1, <2>2, OrderFacts DEF Advance, BatchInv, BatchTypeOK
    <2>4. Distinct(prior[b])' /\ Reviewable(prior[b])'
      <3>1. prior[b] \in Seq(Tasks) /\ Distinct(prior[b]) /\ Reviewable(prior[b])
        BY <1>1, AtWork DEF BatchOK
      <3> QED
        BY <1>1, <1>5, <3>1, ListStays DEF Distinct, Reviewable, Pub
    <2>5. Task(b)' = Task(b) /\ Key(b)' = Key(b)
      BY <2>2 DEF Task, Key, Supplier
    <2>6. BatchOK(b)'
      BY <1>1, <1>2, <2>2, <2>3, <2>4, <2>5
         DEF BatchOK, PlaceOK, Protected, Pub, AggregateSteps
    <2>7. Carries(b)
      BY <1>1, <1>2, <2>2 DEF Carries, Captured
    <2> QED
      BY <1>4, <1>6, <2>2, <2>6, <2>7, StayStep
  <1>8. CASE Advance(b)
    <2>1. status[Task(b)] = "PASS" => b \notin Installing
      <3>1. status[Task(b)] = "PASS" /\ b \in Installing => ToStep(b, "install")
        BY DEF Tidy, AfterApproval
      <3>2. ~ToStep(b, "install")
        BY <1>2, <1>8, OrderFacts DEF ToStep, Advance, BatchInv, BatchTypeOK
      <3> QED
        BY <3>1, <3>2
    <2>2. ASSUME NEW t \in Tasks, t = Task(b) PROVE TaskOK(t)'
      <3>1. t[1] = b /\ KeyOf[t] = Key(b)
        BY <1>2, <2>2, AtTask DEF Key
      <3> QED
        BY <1>1, <1>2, <2>1, <2>2, <3>1 DEF TaskOK, BatchOK, Protected, Pub
    <2> QED
      BY <1>1, <1>4, <1>6, <1>8, <2>2, AdvanceStep
  <1> QED
    BY <1>1, <1>7, <1>8

\* The promoted state is the one of this run.
LEMMA CheckStateStep ==
    ASSUME BatchInv, NEW b \in Batches, CheckState(b)
    PROVE  BatchInv'
  <1>1. /\ step[b] = "installcheck" /\ step[b] \in SupplierSteps /\ Advance(b)
        /\ Still /\ UNCHANGED <<prior, status, report>>
        /\ state[Supplier(b)] = Append(prior[b], Task(b))
    BY DEF CheckState, At, SupplierSteps, runVars, fileVars, Still, NextState
  <1>2. /\ pos[b] \in DOMAIN Order /\ Task(b) \in Tasks /\ BatchOK(b) /\ Active(b)
        /\ prior[b] \in Seq(Tasks) /\ step[b] \in Published /\ step[b] \in Judged
    BY <1>1, AtWork DEF Published, Judged
  <1>3. BatchTypeOK'
    BY <1>1, StillTypes DEF BatchInv, BatchTypeOK
  <1>4. Soft(b)
    BY <1>1, <1>2
       DEF Soft, Others, Lasting, Moves, Still, Pub, Advance, BatchInv, BatchTypeOK
  <1>5. ASSUME NEW t \in Tasks, t = Task(b) PROVE TaskOK(t)'
    <2>1. t[1] = b /\ t[2] = Supplier(b) /\ KeyOf[t] = Key(b)
      BY <1>2, <1>5, AtTask DEF Key
    <2>2. Kept(t, state'[t[2]], beside'[t[1]])
      <3>1. /\ Len(prior[b]) + 1 \in DOMAIN Append(prior[b], Task(b))
            /\ Append(prior[b], Task(b))[Len(prior[b]) + 1] = t
        BY <1>2, <1>5
      <3> QED
        BY <1>1, <2>1, <3>1 DEF Still, Kept
    <2>3. ASSUME NEW c \in Batches, step'[c] \in Captured
          PROVE  c \in beside'[b]
      <3>1. step'[b] \in {"supplier", "aggregate"}
        BY <1>1 DEF Advance, BatchInv, BatchTypeOK
      <3>2. c # b
        BY <2>3, <3>1 DEF Captured, Published, Judged, ApprovalSteps
      <3>3. Active(c)
        BY <1>4, <2>3, <3>2
           DEF Soft, Others, Active, Captured, Published, Judged, SupplierSteps
      <3> QED
        BY <1>1, <1>2, <3>2, <3>3 DEF BatchInv, BesideOK, Still
    <2>4. Carried(t)'
      BY <2>1, <2>2, <2>3 DEF Carried
    <2> QED
      BY <1>1, <1>2, <1>5, <2>1, <2>4 DEF TaskOK, BatchOK, Protected, Pub, Still
  <1> QED
    BY <1>1, <1>3, <1>4, <1>5, AdvanceStep

-----------------------------------------------------------------------------
LEMMA BeginStep ==
    ASSUME BatchInv, NEW b \in Batches, Begin(b)
    PROVE  BatchInv'
  <1> DEFINE others == {c \in Batches : Active(c)}
  <1>1. /\ step[b] = "idle" /\ beside \in [Batches -> SUBSET Batches]
        /\ UNCHANGED <<prior, status, output, content, report, approval, readonly, draft, state,
                       aggregate, aggDraft, crashes>>
        /\ beside' = [c \in Batches |->
                        IF c = b THEN beside[b] \cup others
                        ELSE IF c \in others THEN beside[c] \cup {b} ELSE beside[c]]
    BY DEF Begin, MayBegin, At, runVars, fileVars, aggVars, BatchInv, BatchTypeOK
  <1>2. /\ pos' = pos /\ step' = [step EXCEPT ![b] = "supplier"] /\ step'[b] = "supplier"
        /\ step \in [Batches -> Steps] /\ "supplier" \in Steps
    BY DEF Begin, ToStep, BatchInv, BatchTypeOK, Steps, SupplierSteps
  <1>3. /\ beside' \in [Batches -> SUBSET Batches]
        /\ \A c \in Batches : beside[c] \subseteq beside'[c]
    BY <1>1
  <1>4. BatchTypeOK'
    BY <1>1, <1>2, <1>3 DEF BatchInv, BatchTypeOK
  <1>5. Lasting /\ Others(b) /\ Moves(b)
    BY <1>1, <1>2, <1>3 DEF Lasting, Others, Moves, Early, Pub
  <1>6. FileOK'
    <2>1. \A u \in Tasks : Reached(u) => Reached(u)'
      BY <1>5, PastGrows DEF BatchInv
    <2> QED
      BY <1>1, <2>1 DEF BatchInv, FileOK
  <1>7. StateOK'
    BY <1>1, <1>5, StatesStay DEF StateOK
  <1>8. BesideOK'
    <2>1. ~Active(b) /\ \A d \in Batches \ {b} : Active(d)' <=> Active(d)
      BY <1>1, <1>5
         DEF Active, Others, SupplierSteps, ApprovalSteps, AggregateSteps
    <2>2. ASSUME NEW d \in Batches, NEW c \in Batches, d # c, Active(d)', Active(c)'
          PROVE  c \in beside'[d]
      <3>1. CASE d = b
        BY <1>1, <2>1, <2>2, <3>1
      <3>2. CASE c = b
        BY <1>1, <2>1, <2>2, <3>2
      <3>3. CASE d # b /\ c # b
        BY <1>3, <2>1, <2>2, <3>3 DEF BatchInv, BesideOK
      <3> QED
        BY <3>1, <3>2, <3>3
    <2> QED
      BY <2>2 DEF BesideOK
  <1>9. BatchOK(b)'
    <2>1. pos[b] \in DOMAIN Order
      BY <1>1, OrderFacts DEF BatchInv, BatchOK, PlaceOK
    <2>2. Distinct(prior[b])' /\ Reviewable(prior[b])'
      <3>1. prior[b] \in Seq(Tasks) /\ Distinct(prior[b]) /\ Reviewable(prior[b])
        BY DEF BatchInv, BatchTypeOK, BatchOK
      <3> QED
        BY <1>1, <1>5, <3>1, ListStays DEF Distinct, Reviewable, Pub
    <2> QED
      BY <1>2, <2>1, <2>2
         DEF BatchOK, PlaceOK, Protected, Published, Judged, Clear, ApprovalSteps, AggregateSteps
  <1>10. Carries(b)
    BY <1>1, <1>2 DEF Carries, Captured, Published, Judged, ApprovalSteps
  <1>11. pos'[b] # pos[b] + 1
    BY <1>2, OrderFacts DEF BatchInv, BatchTypeOK
  <1> QED
    BY <1>4, <1>5, <1>6, <1>7, <1>8, <1>9, <1>10, <1>11, StepInv

\* b writes the temporary file, or moves it into place.
LEMMA WriteSteps ==
    ASSUME BatchInv, NEW b \in Batches, WriteDraft(b) \/ ReplaceApproval(b)
    PROVE  BatchInv'
  <1> DEFINE k == Key(b)
             s == IF step[b] = "draft" THEN "draftcheck" ELSE "replacecheck"
  <1>1. /\ step[b] \in {"draft", "replace"} /\ step[b] \in SupplierSteps
        /\ step[b] \in ApprovalSteps /\ step[b] \in Published /\ step[b] \in Judged
        /\ step[b] \in Clear
    BY DEF WriteDraft, ReplaceApproval, At, SupplierSteps, ApprovalSteps, Published, Judged, Clear
  <1>2. ASSUME ReplaceApproval(b), ~(draft[k] # NoFile /\ ~readonly[k])
        PROVE  BatchInv'
    BY <1>1, <1>2, DisapproveStep DEF ReplaceApproval, Still, runVars
  <1>3. ASSUME WriteDraft(b) \/ (draft[k] # NoFile /\ ~readonly[k])
        PROVE  BatchInv'
    <2>1. /\ UNCHANGED <<prior, status, output, content, report, readonly, state,
                         aggregate, aggDraft, beside, crashes>>
          /\ ToStep(b, s) /\ approval \in [Keys -> Tasks \cup {NoFile}]
          /\ draft \in [Keys -> Tasks \cup {NoFile}]
      BY <1>1, <1>3
         DEF WriteDraft, ReplaceApproval, At, runVars, aggVars, BatchInv, BatchTypeOK
    <2>2. \/ /\ step[b] = "draft" /\ approval' = approval
             /\ draft' = [draft EXCEPT ![k] = Task(b)]
          \/ /\ step[b] = "replace" /\ approval' = [approval EXCEPT ![k] = draft[k]]
             /\ draft[k] # NoFile /\ ~readonly[k] /\ draft' = [draft EXCEPT ![k] = NoFile]
      BY <1>3 DEF WriteDraft, ReplaceApproval, At
    <2>3. /\ pos' = pos /\ step' = [step EXCEPT ![b] = s] /\ step'[b] = s
          /\ step \in [Batches -> Steps] /\ s \in Steps /\ s \notin Early
      BY <2>1 DEF ToStep, BatchInv, BatchTypeOK, Steps, SupplierSteps, ApprovalSteps, Early
    <2>4. /\ k \in Keys /\ Task(b) \in Tasks /\ BatchOK(b) /\ pos[b] \in DOMAIN Order
          /\ Active(b) /\ NoFile \notin Tasks
          /\ Task(b)' = Task(b) /\ Key(b)' = Key(b) /\ Task(b)[1] = b
          /\ Task(b)[2] = Order[pos[b]]
      BY <1>1, <2>3, AtWork, AtTask, NothingAssumption DEF Supplier
    <2>5. BatchTypeOK'
      BY <2>1, <2>2, <2>3, <2>4 DEF BatchInv, BatchTypeOK
    <2>6. Lasting
      BY <2>1, <2>2, <2>4 DEF Lasting, Pub
    <2>7. Others(b) /\ Moves(b)
      BY <2>1, <2>2, <2>3, <2>4 DEF Others, Moves
    <2>8. FileOK'
      <3>1. \A u \in Tasks : Reached(u) => Reached(u)'
        BY <2>7, PastGrows DEF BatchInv
      <3>2. Reached(Task(b))'
        BY <2>3, <2>4 DEF Reached
      <3>3. \A j \in Keys : \A u \in Tasks : approval[j] = u \/ draft[j] = u => Reached(u)'
        BY <3>1 DEF BatchInv, FileOK
      <3>4. ASSUME NEW j \in Keys, NEW u \in Tasks, approval'[j] = u \/ draft'[j] = u
            PROVE  Reached(u)'
        <4>1. approval[j] = u \/ draft[j] = u \/ u = Task(b)
          BY <2>1, <2>2, <2>4, <3>4
        <4>2. CASE u = Task(b)
          BY <2>4, <3>2, <4>2
        <4> QED
          BY <3>3, <4>1, <4>2
      <3>5. \A j \in Keys : readonly'[j] => approval'[j] # NoFile
        BY <2>1, <2>6 DEF BatchInv, FileOK, Lasting
      <3> QED
        BY <3>4, <3>5 DEF FileOK
    <2>9. StateOK'
      BY <2>1, <2>6, StatesStay DEF StateOK
    <2>10. BesideOK'
      BY <2>1, <2>4, <2>7, BesideStays
    <2>11. Distinct(prior[b])' /\ Reviewable(prior[b])'
      <3>1. prior[b] \in Seq(Tasks) /\ Distinct(prior[b]) /\ Reviewable(prior[b])
        BY <1>1, AtWork DEF BatchOK
      <3> QED
        BY <2>1, <2>6, <3>1, ListStays DEF Distinct, Reviewable, Pub
    <2>12. s = "replacecheck" => approval'[k] # NoFile /\ draft'[k] = NoFile
      BY <2>1, <2>2, <2>4
    <2>13. BatchOK(b)'
      BY <1>1, <2>1, <2>3, <2>4, <2>11, <2>12
         DEF BatchOK, PlaceOK, Protected, Pub, AggregateSteps
    <2>14. Carries(b)
      BY <1>1, <2>1, <2>3 DEF Carries, Captured
    <2>15. pos'[b] # pos[b] + 1
      BY <2>3, OrderFacts DEF BatchInv, BatchTypeOK
    <2> QED
      BY <2>5, <2>6, <2>7, <2>8, <2>9, <2>10, <2>13, <2>14, <2>15, StepInv
  <1> QED
    BY <1>2, <1>3

\* The state of the run, which extends the one it captured, becomes the previous one.
LEMMA InstallStateStep ==
    ASSUME BatchInv, NEW b \in Batches, InstallState(b)
    PROVE  BatchInv'
  <1> DEFINE q == Append(prior[b], Task(b))
  <1>1. /\ step[b] = "install" /\ step[b] \in SupplierSteps /\ step[b] \in Published
        /\ step[b] \in Judged /\ step[b] \in Clear
        /\ UNCHANGED <<prior, status, output, content, report, approval, readonly, draft,
                       aggregate, aggDraft, beside, crashes>>
        /\ state' = [state EXCEPT ![Supplier(b)] = q] /\ state \in [Suppliers -> Seq(Tasks)]
    BY DEF InstallState, NextState, At, SupplierSteps, Published, Judged, Clear, runVars, fileVars,
           aggVars, BatchInv, BatchTypeOK
  <1>2. /\ pos' = pos /\ step' = [step EXCEPT ![b] = "installcheck"] /\ step'[b] = "installcheck"
        /\ step \in [Batches -> Steps] /\ "installcheck" \in Steps
    BY DEF InstallState, ToStep, BatchInv, BatchTypeOK, Steps, SupplierSteps
  <1>3. /\ Task(b) \in Tasks /\ BatchOK(b) /\ prior[b] \in Seq(Tasks) /\ Active(b)
        /\ Supplier(b) \in Suppliers /\ pos[b] \in DOMAIN Order
        /\ Task(b)' = Task(b) /\ Key(b)' = Key(b)
    BY <1>1, <1>2, AtWork
  <1>4. /\ q \in Seq(Tasks) /\ DOMAIN q = 1..Len(prior[b]) + 1 /\ DOMAIN prior[b] = 1..Len(prior[b])
        /\ Len(prior[b]) \in Nat /\ q[Len(prior[b]) + 1] = Task(b)
        /\ \A i \in DOMAIN prior[b] : q[i] = prior[b][i]
    BY <1>3
  <1> HIDE DEF q
  <1>5. BatchTypeOK'
    BY <1>1, <1>2, <1>3, <1>4 DEF BatchInv, BatchTypeOK
  <1>6. Lasting /\ Others(b) /\ Moves(b)
    BY <1>1, <1>2 DEF Lasting, Others, Moves, Early, Pub
  <1>7. FileOK'
    <2>1. \A u \in Tasks : Reached(u) => Reached(u)'
      BY <1>6, PastGrows DEF BatchInv
    <2> QED
      BY <1>1, <2>1 DEF BatchInv, FileOK
  <1>8. Distinct(q) /\ Reviewable(q)
    <2>1. \A i \in DOMAIN q : i \in DOMAIN prior[b] \/ i = Len(prior[b]) + 1
      BY <1>4
    <2>2. Pub(Task(b)) /\ readonly[KeyOf[Task(b)]]
      BY <1>1, <1>3 DEF BatchOK, Protected, Key
    <2>3. Reviewable(q)
      BY <1>3, <1>4, <2>1, <2>2 DEF Reviewable, BatchOK
    <2>4. \A i \in DOMAIN prior[b] : KeyOf[prior[b][i]] # KeyOf[Task(b)]
      BY <1>1, <1>3 DEF BatchOK, Key
    <2>5. Distinct(q)
      BY <1>3, <1>4, <2>1, <2>4 DEF Distinct, BatchOK
    <2> QED
      BY <2>3, <2>5
  <1>9. StateOK'
    <2>1. ASSUME NEW s \in Suppliers, s # Supplier(b)
          PROVE  Distinct(state[s])' /\ Reviewable(state[s])'
      BY <1>1, <1>3, <1>6, <2>1, StatesStay
    <2>2. state'[Supplier(b)] = q
      BY <1>1, <1>3
    <2>3. Distinct(state[Supplier(b)])' /\ Reviewable(state[Supplier(b)])'
      BY <1>1, <1>2, <1>8, <2>2 DEF Distinct, Reviewable, Pub, Supplier
    <2>4. Supplier(b)' = Supplier(b)
      BY <1>2 DEF Supplier
    <2> QED
      BY <2>1, <2>3, <2>4 DEF StateOK
  <1>10. BesideOK'
    BY <1>1, <1>3, <1>6, BesideStays
  <1>11. Distinct(prior[b])' /\ Reviewable(prior[b])'
    BY <1>1, <1>3, <1>6, ListStays DEF BatchOK, Distinct, Reviewable, Pub
  <1>12. BatchOK(b)'
    BY <1>1, <1>2, <1>3, <1>11 DEF BatchOK, PlaceOK, Protected, Pub, AggregateSteps
  <1>13. Carries(b)
    BY <1>1, <1>2, <1>3 DEF Carries, Captured, q
  <1>14. pos'[b] # pos[b] + 1
    BY <1>2, OrderFacts DEF BatchInv, BatchTypeOK
  <1> QED
    BY <1>5, <1>6, <1>7, <1>9, <1>10, <1>12, <1>13, <1>14, StepInv

LEMMA BatchInitInv == BatchInit => BatchInv
  <1> SUFFICES ASSUME BatchInit PROVE BatchInv
    OBVIOUS
  <1>1. BatchTypeOK
    BY OrderFacts, BoundAssumption
       DEF BatchInit, BatchTypeOK, Directory!Init, Steps, Statuses
  <1>2. FileOK /\ StateOK /\ BesideOK
    BY NothingAssumption
       DEF BatchInit, FileOK, StateOK, BesideOK, Distinct, Reviewable, Active,
           SupplierSteps, ApprovalSteps, AggregateSteps
  <1>3. ASSUME NEW b \in Batches PROVE BatchOK(b)
    BY DEF BatchInit, BatchOK, PlaceOK, Distinct, Reviewable, Protected, Published, Judged, Clear,
           SupplierSteps, ApprovalSteps, AggregateSteps
  <1>4. ASSUME NEW t \in Tasks PROVE ~Past(t)
    BY OrderFacts DEF BatchInit, Past, Tasks
  <1> QED
    BY <1>1, <1>2, <1>3, <1>4 DEF BatchInv

LEMMA BatchStep == BatchInv /\ [Next]_vars => BatchInv'
  <1> SUFFICES ASSUME BatchInv, [Next]_vars PROVE BatchInv'
    OBVIOUS
  <1>1. ASSUME NEW b \in Batches, RunSupplier(b) PROVE BatchInv'
    BY <1>1, BlockedSteps, EndingSteps, CaptureStep, PublishStep, VerifyStep DEF RunSupplier
  <1>2. ASSUME NEW b \in Batches, WriteApproval(b) PROVE BatchInv'
    BY <1>2, CheckSteps, WriteSteps, ProtectStep, TidyStep, BlockedSteps DEF WriteApproval
  <1>3. ASSUME NEW b \in Batches, PromoteState(b) PROVE BatchInv'
    BY <1>3, InstallStateStep, CheckStateStep, BlockedSteps DEF PromoteState
  <1>4. CASE UNCHANGED vars
    <2> USE <1>4 DEF vars, runVars, fileVars, aggVars
    <2>1. BatchTypeOK'
      BY DEF BatchInv, BatchTypeOK
    <2>2. FileOK' /\ StateOK' /\ BesideOK'
      BY DEF BatchInv, FileOK, StateOK, BesideOK, Reached, Past, Distinct, Reviewable, Pub, Active
    <2>3. ASSUME NEW b \in Batches PROVE BatchOK(b)'
      <3>1. BatchOK(b)
        BY DEF BatchInv
      <3>2. Task(b)' = Task(b) /\ Key(b)' = Key(b)
        BY DEF Task, Key, Supplier
      <3>3. PlaceOK(b)' = PlaceOK(b) /\ Protected(b)' = Protected(b)
        BY <3>2 DEF PlaceOK, Protected
      <3>4. Distinct(prior[b])' = Distinct(prior[b]) /\ Reviewable(prior[b])' = Reviewable(prior[b])
        BY DEF Distinct, Reviewable, Pub
      <3>5. Pub(Task(b))' = Pub(Task(b))
        BY <3>2 DEF Pub
      <3> QED
        BY <3>1, <3>2, <3>3, <3>4, <3>5 DEF BatchOK
    <2>4. ASSUME NEW t \in Tasks, Past(t)' PROVE TaskOK(t)'
      BY <2>4 DEF BatchInv, Past, TaskOK, Carried, Pub, Supplier
    <2> QED
      BY <2>1, <2>2, <2>3, <2>4 DEF BatchInv
  <1> QED
    BY <1>1, <1>2, <1>3, <1>4, BeginStep, EndingSteps DEF Next

-----------------------------------------------------------------------------
\* What each batch of run_all.py relies on between two steps, and what lasts.
THEOREM BatchInvariant == Spec => []BatchInv
  BY BatchInitInv, BatchStep, PTL DEF Spec

\* The variables of the batches and the files they share keep their types.
THEOREM BatchTypes == Spec => []BatchTypeOK
  <1>1. BatchInv => BatchTypeOK
    BY DEF BatchInv
  <1> QED
    BY <1>1, BatchInvariant, PTL

\* However batches overlap, die or are started again, no promoted state counts two
\* runs of one approval artifact.
THEOREM BatchCountsOnce == Spec => []CountedOncePerRoot
  <1>1. BatchInv => CountedOncePerRoot
    BY DEF BatchInv, StateOK, Distinct, CountedOncePerRoot
  <1> QED
    BY <1>1, BatchInvariant, PTL

\* A promoted state counts published runs only, whose names have an artifact.
THEOREM BatchCountsReviewable == Spec => []CountedRunsAreReviewable
  <1>1. ASSUME BatchInv, NEW s \in Suppliers, NEW i \in DOMAIN state[s]
        PROVE  output[NameOf[state[s][i]]] = state[s][i] /\ approval[KeyOf[state[s][i]]] # NoFile
    <2>1. state[s] \in Seq(Tasks) /\ Reviewable(state[s])
      BY <1>1 DEF BatchInv, BatchTypeOK, StateOK
    <2>2. KeyOf[state[s][i]] \in Keys
      BY <2>1, NamingFacts
    <2> QED
      BY <1>1, <2>1, <2>2 DEF Reviewable, Pub, BatchInv, FileOK
  <1>2. BatchInv => CountedRunsAreReviewable
    BY <1>1 DEF CountedRunsAreReviewable
  <1> QED
    BY <1>2, BatchInvariant, PTL

\* At the end a batch has settled all its suppliers.
LEMMA DoneIsPast ==
    ASSUME BatchInv, NEW b \in Batches, At(b, "done"), NEW s \in Suppliers
    PROVE  <<b, s>> \in Tasks /\ TaskOK(<<b, s>>)
  <1>1. PICK i \in DOMAIN Order : Order[i] = s
    BY OrderFacts
  <1>2. pos[b] = Len(Order) + 1
    BY DEF At, BatchInv, BatchOK, PlaceOK
  <1>3. i < pos[b]
    BY <1>2, OrderFacts
  <1>4. <<b, s>> \in Tasks /\ Past(<<b, s>>)
    BY <1>1, <1>3 DEF Tasks, Past
  <1> QED
    BY <1>4 DEF BatchInv

\* A batch that returns 0 has published and approved a run for every supplier.
THEOREM BatchZero == Spec => []ZeroIsEarned
  <1>1. ASSUME BatchInv, NEW b \in Batches, At(b, "done"), ExitCode(b) = 0, NEW s \in Suppliers
        PROVE  /\ output[NameOf[<<b, s>>]] = <<b, s>>
               /\ approval[KeyOf[<<b, s>>]] # NoFile /\ readonly[KeyOf[<<b, s>>]]
    <2> DEFINE t == <<b, s>>
    <2>1. t \in Tasks /\ TaskOK(t) /\ KeyOf[t] \in Keys /\ status[t] \in Statuses
      BY <1>1, DoneIsPast, NamingFacts DEF BatchInv, BatchTypeOK
    <2>2. status[t] # "FAIL" /\ status[t] # "BLOCKED"
      BY <1>1 DEF ExitCode
    <2>3. status[t] = "PASS"
      BY <2>1, <2>2 DEF TaskOK, Statuses
    <2> QED
      BY <1>1, <2>1, <2>3 DEF TaskOK, Pub, BatchInv, FileOK
  <1>2. BatchInv => ZeroIsEarned
    BY <1>1 DEF ZeroIsEarned
  <1> QED
    BY <1>2, BatchInvariant, PTL

LEMMA SettledIsPast ==
    ASSUME BatchInv, NEW t \in Tasks, Settled(t, "PASS")
    PROVE  TaskOK(t) /\ status[t] = "PASS"
  BY DEF Settled, Past, BatchInv

\* The artifact of a run that passed binds that run, or that of a batch beside it.
THEOREM BatchApprovals == Spec => []ApprovalBindsItsRun
  <1>1. BatchInv => ApprovalBindsItsRun
    BY SettledIsPast DEF ApprovalBindsItsRun, TaskOK, Bound
  <1> QED
    BY <1>1, BatchInvariant, PTL

\* A promoted run stays in the state, unless a run of a batch beside its own is there.
THEOREM BatchCarriesState == Spec => []PromotedStateIsCarried
  <1>1. BatchInv => PromotedStateIsCarried
    BY SettledIsPast DEF PromotedStateIsCarried, TaskOK, Carried, Kept
  <1> QED
    BY <1>1, BatchInvariant, PTL
=============================================================================
