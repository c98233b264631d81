--------------------------- MODULE MatchingProofs ---------------------------
(***************************************************************************)
(* Proofs about Matcher for any offers, catalog rows, products and length  *)
(* of the feed, and about MissingState, which counts the products that the *)
(* matcher reports missing, for any products, thresholds and number of     *)
(* installed states.                                                       *)
(***************************************************************************)
EXTENDS Matcher, MissingState, TLAPS, SequenceTheorems

\* Each offer that was passed and selects a product is why it is taken, and
\* what is taken is what the records say.
SeenInv ==
    /\ \A i \in Passed : \A p \in Products :
          matches[i].product = p => p \in seen /\ Selects(i, p)
    /\ \A i \in Passed : \A p \in Ids : Selects(i, p) => p \in seen
    /\ \A p \in seen : p \in Ids /\ \E i \in Passed : matches[i].product = p

\* How a record was justified when it was made.
RecordInv ==
    \A i \in Passed :
        /\ matches[i].product # Nobody => matches[i].by = Lookup(i)
        /\ matches[i].status = "exact" =>
              /\ matches[i].by = "sku"
              /\ \E p \in Ids : matches[i].product = p /\ ~Doubtful(i, p)
        /\ matches[i].by \in {"ean_unique", "manufacturer_model_unique"} =>
              matches[i].product # Nobody

FinishedInv ==
    outcome = "matched" => Len(matches) = Len(offers) /\ missing = Ids \ seen

MatchInv ==
    /\ MatcherTypeOK
    /\ SeenInv
    /\ RecordInv
    /\ NoProductTwice
    /\ FinishedInv

-----------------------------------------------------------------------------
\* The steps of the pass: at most one product is taken, by the current offer.
LEMMA PassCases ==
    ASSUME MatcherTypeOK, Warned \/ Ambiguous \/ Unmatched \/ Reused
    PROVE  /\ InPass
           /\ UNCHANGED <<offers, catalog, missing, outcome, seen>>
           /\ \E r \in Matches :
                 /\ matches' = Append(matches, r)
                 /\ r.product = Nobody
                 /\ r.status # "exact"
                 /\ r.by \notin {"ean_unique", "manufacturer_model_unique"}
           /\ \A p \in Ids : Selects(Current, p) => p \in seen
  <1> DEFINE R(s, m) == [product |-> Nobody, status |-> s, by |-> m]
  <1>1. CASE Warned
    <2>1. R("ambiguous", "identity_conflict") \in Matches
      BY DEF Matches, Statuses, Means
    <2> QED
      BY <1>1, <2>1 DEF Warned, Record, Selects
  <1>2. CASE Ambiguous
    <2>1. \A m \in {"sku", "identity_candidate"} : R("ambiguous", m) \in Matches
      BY DEF Matches, Statuses, Means
    <2> QED
      BY <1>2, <2>1 DEF Ambiguous, Record
  <1>3. CASE Unmatched
    <2>1. R("unmatched", "none") \in Matches
      BY DEF Matches, Statuses, Means
    <2> QED
      BY <1>3, <2>1 DEF Unmatched, Record, Selects
  <1>4. CASE Reused
    <2>1. R("ambiguous", "catalog_product_reused") \in Matches
      BY DEF Matches, Statuses, Means
    <2> QED
      BY <1>4, <2>1 DEF Reused, Record, Selects
  <1> QED
    BY <1>1, <1>2, <1>3, <1>4

LEMMA TakeCases ==
    ASSUME MatcherTypeOK, NEW p \in Ids, Exact(p) \/ HighConfidence(p) \/ Conflict(p)
    PROVE  /\ InPass
           /\ UNCHANGED <<offers, catalog, missing, outcome>>
           /\ Selects(Current, p) /\ p \notin seen /\ seen' = seen \cup {p}
           /\ \E r \in Matches :
                 /\ matches' = Append(matches, r)
                 /\ r.product = p
                 /\ r.by = Lookup(Current)
                 /\ r.status = "exact" => r.by = "sku" /\ ~Doubtful(Current, p)
  <1>1. /\ InPass /\ Selects(Current, p) /\ p \notin seen /\ seen' = seen \cup {p}
    BY DEF Exact, HighConfidence, Conflict, Take
  <1>2. p \in Products /\ Lookup(Current) \in Means
    BY DEF MatcherTypeOK, Lookup, Means, Ids
  <1>3. \A s \in Statuses : [product |-> p, status |-> s, by |-> Lookup(Current)] \in Matches
    BY <1>2 DEF Matches
  <1>4. CASE Exact(p)
    BY <1>1, <1>3, <1>4 DEF Exact, Record, Statuses
  <1>5. CASE HighConfidence(p)
    BY <1>1, <1>3, <1>5 DEF HighConfidence, Record, Statuses
  <1>6. CASE Conflict(p)
    BY <1>1, <1>3, <1>6 DEF Conflict, Record, Statuses
  <1> QED
    BY <1>1, <1>4, <1>5, <1>6

\* An offer selects at most one product.
LEMMA SelectsOne ==
    ASSUME NEW i, NEW p, NEW q, Selects(i, p), Selects(i, q)
    PROVE  p = q
  BY DEF Selects

LEMMA MatchInitInv == Init => MatchInv
  <1> SUFFICES ASSUME Init PROVE MatchInv
    OBVIOUS
  <1>1. offers \in Seq(Offers)
    BY SeqDef, MaxOffersAssumption DEF Init
  <1> QED
    BY <1>1 DEF Init, MatchInv, MatcherTypeOK, SeenInv, RecordInv, NoProductTwice, FinishedInv,
       Passed

\* What an offer selects depends on the feed and the catalog alone.
LEMMA FeedFixesSelection ==
    ASSUME UNCHANGED <<offers, catalog>>
    PROVE  /\ Ids' = Ids /\ Places' = Places
           /\ \A i : Lookup(i)' = Lookup(i)
           /\ \A i, p : (Selects(i, p)' <=> Selects(i, p)) /\ (Doubtful(i, p)' <=> Doubtful(i, p))
  BY DEF Ids, Places, Selects, Doubtful, Lookup, Candidates, Sole, SoleEan, SoleModel, BySku,
     ByEan, ByModel, EanMismatch, ModelMismatch, MakerMismatch

\* A step of the pass appends a record that its offer justifies.
LEMMA AppendStep ==
    ASSUME MatchInv, InPass, UNCHANGED <<offers, catalog, missing, outcome>>,
           NEW r \in Matches, matches' = Append(matches, r),
           \/ /\ r.product = Nobody /\ seen' = seen
              /\ r.status # "exact"
              /\ r.by \notin {"ean_unique", "manufacturer_model_unique"}
              /\ \A p \in Ids : Selects(Current, p) => p \in seen
           \/ /\ r.product \in Ids /\ r.product \notin seen
              /\ seen' = seen \cup {r.product}
              /\ Selects(Current, r.product)
              /\ r.by = Lookup(Current)
              /\ r.status = "exact" => r.by = "sku" /\ ~Doubtful(Current, r.product)
    PROVE  MatchInv'
  <1> USE DEF MatchInv
  <1>1. /\ Len(matches) \in Nat
        /\ Len(matches') = Current
        /\ matches'[Current] = r
        /\ \A i \in Passed : matches'[i] = matches[i]
        /\ Passed' = Passed \cup {Current}
        /\ Current \notin Passed
    BY DEF MatcherTypeOK, Passed, Current
  <1>2. Current <= Len(offers)
    BY <1>1 DEF InPass, Places, MatcherTypeOK, Current
  <1>3. MatcherTypeOK'
    BY <1>1, <1>2 DEF MatcherTypeOK, Ids
  <1>4. SeenInv'
    <2>1. ASSUME NEW i \in Passed', NEW p \in Products, matches'[i].product = p
          PROVE  p \in seen' /\ Selects(i, p)'
      <3>1. CASE i \in Passed
        <4>1. matches[i].product = p
          BY <1>1, <2>1, <3>1
        <4>2. p \in seen /\ Selects(i, p)
          BY <3>1, <4>1 DEF SeenInv
        <4>3. seen \subseteq seen'
          OBVIOUS
        <4> QED
          BY <4>2, <4>3, FeedFixesSelection
      <3>2. CASE i = Current
        BY <1>1, <2>1, <3>2, FeedFixesSelection, NobodyAssumption
      <3> QED
        BY <1>1, <3>1, <3>2
    <2>2. ASSUME NEW i \in Passed', NEW p \in Ids', Selects(i, p)'
          PROVE  p \in seen'
      <3>1. p \in Ids /\ Selects(i, p)
        BY <2>2, FeedFixesSelection
      <3>2. CASE i \in Passed
        BY <3>1, <3>2 DEF SeenInv
      <3>3. CASE i = Current
        BY <3>1, <3>3, SelectsOne
      <3> QED
        BY <1>1, <3>2, <3>3
    <2>3. ASSUME NEW p \in seen'
          PROVE  p \in Ids' /\ \E i \in Passed' : matches'[i].product = p
      <3>1. CASE p \in seen
        <4>1. p \in Ids /\ \E i \in Passed : matches[i].product = p
          BY <3>1 DEF SeenInv
        <4> QED
          BY <1>1, <4>1, FeedFixesSelection
      <3>2. CASE p \notin seen
        BY <1>1, <3>2, FeedFixesSelection
      <3> QED
        BY <3>1, <3>2
    <2> QED
      BY <2>1, <2>2, <2>3, FeedFixesSelection DEF SeenInv
  <1>5. RecordInv'
    <2> DEFINE Justified(i, m) ==
                 /\ m.product # Nobody => m.by = Lookup(i)
                 /\ m.status = "exact" =>
                       m.by = "sku" /\ \E p \in Ids : m.product = p /\ ~Doubtful(i, p)
                 /\ m.by \in {"ean_unique", "manufacturer_model_unique"} => m.product # Nobody
    <2>1. \A i \in Passed : Justified(i, matches[i])
      BY DEF RecordInv
    <2>2. Justified(Current, r)
      BY NobodyAssumption DEF MatcherTypeOK, Ids
    <2>3. \A i \in Passed' : Justified(i, matches'[i])
      <3> HIDE DEF Justified
      <3> QED
        BY <1>1, <2>1, <2>2
    <2> QED
      BY <2>3, FeedFixesSelection DEF RecordInv
  <1>6. NoProductTwice'
    <2>1. ASSUME NEW i \in Passed, matches[i].product # Nobody
          PROVE  matches[i].product # r.product
      <3>1. matches[i] \in Matches
        BY DEF MatcherTypeOK, Passed
      <3>2. matches[i].product \in Products
        BY <2>1, <3>1 DEF Matches
      <3>3. matches[i].product \in seen
        BY <3>2 DEF SeenInv
      <3> QED
        BY <2>1, <3>3
    <2>2. ASSUME NEW i \in Passed', NEW j \in Passed', i # j,
                 matches'[i].product = matches'[j].product
          PROVE  matches'[i].product = Nobody
      BY <1>1, <2>1, <2>2 DEF NoProductTwice
    <2> QED
      BY <2>2 DEF NoProductTwice
  <1>7. FinishedInv'
    BY DEF FinishedInv, InPass
  <1> QED
    BY <1>3, <1>4, <1>5, <1>6, <1>7

LEMMA MatchStep ==
    ASSUME MatchInv, [Next]_vars
    PROVE  MatchInv'
  <1>1. CASE Warned \/ Ambiguous \/ Unmatched \/ Reused
    BY <1>1, PassCases, AppendStep DEF MatchInv
  <1>2. ASSUME NEW p \in Ids, Exact(p) \/ HighConfidence(p) \/ Conflict(p)
        PROVE  MatchInv'
    <2>1. PICK r \in Matches :
              /\ matches' = Append(matches, r)
              /\ r.product = p
              /\ r.by = Lookup(Current)
              /\ r.status = "exact" => r.by = "sku" /\ ~Doubtful(Current, p)
      BY <1>2, TakeCases DEF MatchInv
    <2> QED
      BY <1>2, <2>1, TakeCases, AppendStep DEF MatchInv
  <1>3. CASE Reject \/ Finish \/ Done \/ UNCHANGED vars
    <2>1. UNCHANGED <<offers, catalog, matches, seen>>
      BY <1>3 DEF Reject, Finish, Done, vars
    <2>2. SeenInv' /\ RecordInv' /\ NoProductTwice'
      BY <2>1, FeedFixesSelection
      DEF MatchInv, SeenInv, RecordInv, NoProductTwice, Passed
    <2>3. MatcherTypeOK'
      BY <1>3 DEF MatchInv, MatcherTypeOK, Reject, Finish, Done, vars, Ids
    <2>4. FinishedInv'
      BY <1>3, <2>1 DEF MatchInv, FinishedInv, Reject, Finish, Done, vars, Ids
    <2> QED
      BY <2>2, <2>3, <2>4 DEF MatchInv
  <1> QED
    BY <1>1, <1>2, <1>3 DEF Next

-----------------------------------------------------------------------------
\* The inductive invariant holds in every reachable state.
THEOREM MatchInvariant == Spec => []MatchInv
  BY MatchInitInv, MatchStep, PTL DEF Spec

\* The matcher is well typed.
THEOREM MatcherTypes == Spec => []MatcherTypeOK
  <1>1. MatchInv => MatcherTypeOK
    BY DEF MatchInv
  <1> QED
    BY <1>1, MatchInvariant, PTL

\* No product is mapped to two offers of one feed.
THEOREM MatcherNeverReusesProduct == Spec => []NoProductTwice
  <1>1. MatchInv => NoProductTwice
    BY DEF MatchInv
  <1> QED
    BY <1>1, MatchInvariant, PTL

\* An exact match is beyond doubt: the only product with the SKU, with no
\* contradiction in EAN, model or manufacturer.
THEOREM ExactMatches == Spec => []ExactIsBeyondDoubt
  <1>1. MatchInv => ExactIsBeyondDoubt
    <2> SUFFICES ASSUME MatchInv, NEW i \in Passed, matches[i].status = "exact"
                 PROVE  LET p == matches[i].product
                        IN  /\ p \in Ids
                            /\ \A q \in Ids : catalog[q].sku = offers[i].sku <=> q = p
                            /\ ~offers[i].warned
                            /\ ~EanMismatch(i, p) /\ ~ModelMismatch(i, p) /\ ~MakerMismatch(i, p)
      BY DEF ExactIsBeyondDoubt
    <2> DEFINE p == matches[i].product
    <2>1. p \in Ids /\ p \in Products /\ p # Nobody /\ ~Doubtful(i, p)
      BY NobodyAssumption DEF MatchInv, RecordInv, MatcherTypeOK, Ids
    <2>2. Lookup(i) = "sku" /\ Selects(i, p)
      BY <2>1 DEF MatchInv, RecordInv, SeenInv
    <2>3. BySku(offers[i]) = {p} /\ ~offers[i].warned
      BY <2>2 DEF Selects, Candidates
    <2>4. \A q \in Ids : catalog[q].sku = offers[i].sku <=> q = p
      BY <2>3 DEF BySku
    <2>5. ~EanMismatch(i, p) /\ ~ModelMismatch(i, p) /\ ~MakerMismatch(i, p)
      BY <2>1, <2>2 DEF Doubtful
    <2> QED
      BY <2>1, <2>3, <2>4, <2>5
  <1> QED
    BY <1>1, MatchInvariant, PTL

\* An EAN or a manufacturer and model that two offers or products share selects
\* no product.
THEOREM SharedIdentities == Spec => []SharedIdentitySelectsNothing
  <1>1. MatchInv => SharedIdentitySelectsNothing
    <2> SUFFICES ASSUME MatchInv, NEW i \in Passed,
                        matches[i].by \in {"ean_unique", "manufacturer_model_unique"}
                 PROVE  /\ matches[i].by = "ean_unique" =>
                              /\ \A j \in Places : offers[j].ean = offers[i].ean => j = i
                              /\ \A q \in Ids : catalog[q].ean = offers[i].ean =>
                                   q = matches[i].product
                        /\ matches[i].by = "manufacturer_model_unique" =>
                              /\ \A j \in Places :
                                    /\ offers[j].maker = offers[i].maker
                                    /\ PartNumber(offers[j]) = PartNumber(offers[i])
                                    => j = i
                              /\ \A q \in Ids :
                                    /\ catalog[q].maker = offers[i].maker
                                    /\ catalog[q].model = PartNumber(offers[i])
                                    => q = matches[i].product
      BY DEF SharedIdentitySelectsNothing
    <2> DEFINE p == matches[i].product
    <2>1. p # Nobody /\ matches[i].by = Lookup(i)
      BY DEF MatchInv, RecordInv
    <2>2. matches[i] \in Matches
      BY DEF MatchInv, MatcherTypeOK, Passed
    <2>3. p \in Products
      BY <2>1, <2>2 DEF Matches
    <2>4. Selects(i, p)
      BY <2>3 DEF MatchInv, SeenInv
    <2>5. CASE Lookup(i) = "ean_unique"
      <3>1. ByEan(offers[i]) = {p} /\ SoleEan(i)
        BY <2>4, <2>5 DEF Selects, Candidates, Sole
      <3>2. offers[i].ean # Unknown
        BY <3>1 DEF ByEan
      <3>3. \A q \in Ids : catalog[q].ean = offers[i].ean => q \in {p}
        BY <3>1, <3>2 DEF ByEan
      <3> QED
        BY <2>1, <2>5, <3>1, <3>3 DEF SoleEan
    <2>6. CASE Lookup(i) = "manufacturer_model_unique"
      <3>1. ByModel(offers[i]) = {p} /\ SoleModel(i)
        BY <2>4, <2>6 DEF Selects, Candidates, Sole
      <3>2. {offers[i].maker, PartNumber(offers[i])} \cap {Unknown, Blank} = {}
        BY <3>1 DEF ByModel
      <3>3. ASSUME NEW q \in Ids, catalog[q].maker = offers[i].maker,
                   catalog[q].model = PartNumber(offers[i])
            PROVE  q \in {p}
        BY <3>1, <3>2, <3>3 DEF ByModel
      <3> QED
        BY <2>1, <2>6, <3>1, <3>3 DEF SoleModel
    <2> QED
      BY <2>1, <2>5, <2>6
  <1> QED
    BY <1>1, MatchInvariant, PTL

\* The missing products, and with them the completeness of the feed, do not
\* depend on the order of the offers.
THEOREM MissingProducts == Spec => []MissingWhateverTheOrder
  <1>1. MatchInv => MissingWhateverTheOrder
    <2> SUFFICES ASSUME MatchInv, outcome = "matched"
                 PROVE  missing = {p \in Ids : \A i \in Places : ~Selects(i, p)}
      BY DEF MissingWhateverTheOrder
    <2>1. missing = Ids \ seen /\ Passed = Places
      BY DEF MatchInv, FinishedInv, MatcherTypeOK, Passed, Places
    <2>2. \A p \in Ids : p \in seen <=> \E i \in Passed : Selects(i, p)
      BY NobodyAssumption DEF MatchInv, SeenInv, MatcherTypeOK
    <2> QED
      BY <2>1, <2>2
  <1> QED
    BY <1>1, MatchInvariant, PTL

-----------------------------------------------------------------------------
StateInv == StateTypeOK /\ CountsAbsenceStreak

\* The counts a run computes are those of an installed state.
LEMMA NextCountsType ==
    ASSUME StateTypeOK, NEW view \in Views
    PROVE  /\ \E ids \in SUBSET Scope : NextCounts(view) \in [ids -> Nat]
           /\ view.complete => \A p \in view.missing :
                 p \in DOMAIN NextCounts(view) /\ NextCounts(view)[p] = Count(p) + 1
  <1>1. PICK ids \in SUBSET Scope : counts \in [ids -> Nat]
    BY DEF StateTypeOK
  <1>2. view.missing \in SUBSET Scope
    BY DEF Views
  <1>3. \A p \in Scope : Count(p) \in Nat
    BY <1>1 DEF Count
  <1>4. CASE view.complete
    <2>1. NextCounts(view) \in [ids \cup view.missing -> Nat]
      BY <1>1, <1>2, <1>3, <1>4 DEF NextCounts
    <2> QED
      BY <1>1, <1>2, <1>4, <2>1 DEF NextCounts
  <1>5. CASE ~view.complete
    BY <1>1, <1>5 DEF NextCounts
  <1> QED
    BY <1>4, <1>5

\* A state that is not there has no counters.
LEMMA AbsentState == \E ids \in SUBSET Scope : [p \in {} |-> 0] \in [ids -> Nat]
  <1>1. [p \in {} |-> 0] \in [{} -> Nat] /\ {} \in SUBSET Scope
    OBVIOUS
  <1> QED
    BY <1>1

\* Nothing has been seen before the first run.
LEMMA NoViewType == NoView \in Views
  BY DEF NoView, Views

\* Each step keeps the types.
LEMMA StateTypeStep ==
    ASSUME StateTypeOK, [StateNext]_stateVars
    PROVE  StateTypeOK'
  <1>1. CASE UNCHANGED stateVars
    BY <1>1 DEF stateVars, StateTypeOK
  <1>2. ASSUME NEW view \in Views, RunAndInstall(view) PROVE StateTypeOK'
    <2>1. view.missing \in SUBSET Scope
      BY DEF Views
    <2>2. fit' \in {"absent", "fit", "unfit"} /\ latest' \in Views /\ proposed' \subseteq Scope
      BY <1>2, <2>1 DEF RunAndInstall, Run, ProposedActions
    <2>3. \E ids \in SUBSET Scope : counts' \in [ids -> Nat]
      BY <1>2, NextCountsType DEF RunAndInstall
    <2>4. /\ feeds' \in Seq(SUBSET Scope) /\ completeFeeds' \in Seq(SUBSET Scope)
          /\ Len(completeFeeds') <= Len(feeds')
      BY <1>2, <2>1 DEF StateTypeOK, RunAndInstall
    <2> QED
      BY <2>2, <2>3, <2>4 DEF StateTypeOK
  <1>3. ASSUME NEW view \in Views, RunOnly(view) \/ RefuseRun(view) PROVE StateTypeOK'
    BY <1>3 DEF StateTypeOK, RunOnly, RefuseRun, Run, Views, ProposedActions
  <1>4. Forget => (StateTypeOK' <=>
          /\ fit' \in {"absent", "fit", "unfit"}
          /\ \E ids \in SUBSET Scope : counts' \in [ids -> Nat])
    BY NoViewType DEF StateTypeOK, Forget
  <1>5. CASE Remove
    BY <1>4, <1>5, AbsentState DEF Remove
  <1>6. CASE Misplace
    <2>1. \E ids \in SUBSET Scope : counts' \in [ids -> Nat]
      BY <1>6, BoundsAssumption DEF Misplace
    <2> QED
      BY <1>4, <1>6, <2>1 DEF Misplace
  <1> QED
    BY <1>1, <1>2, <1>3, <1>5, <1>6 DEF StateNext

\* A complete feed extends the streak of the products it misses.
LEMMA StreakGrows ==
    ASSUME StateTypeOK, NEW p \in Scope, NEW m \in SUBSET Scope,
           completeFeeds' = Append(completeFeeds, m),
           NEW k \in Nat \ {0}
    PROVE  AbsentFromLast(p, k)' <=> p \in m /\ AbsentFromLast(p, k - 1)
  <1> DEFINE n == Len(completeFeeds)
  <1>1. /\ n \in Nat
        /\ Len(completeFeeds') = n + 1
        /\ completeFeeds'[n + 1] = m
        /\ \A i \in 1..n : completeFeeds'[i] = completeFeeds[i]
    BY DEF StateTypeOK
  <1>2. AbsentFromLast(p, k)' <=>
          /\ k <= n + 1
          /\ \A i \in 1..(n + 1) : i > (n + 1) - k => p \in completeFeeds'[i]
    BY <1>1 DEF AbsentFromLast
  <1>3. AbsentFromLast(p, k - 1) <=>
          /\ k - 1 <= n
          /\ \A i \in 1..n : i > n - (k - 1) => p \in completeFeeds[i]
    BY DEF AbsentFromLast
  <1> HIDE DEF n
  <1> QED
    BY <1>1, <1>2, <1>3

\* Each step keeps the counters equal to the streaks.
LEMMA StreakStep ==
    ASSUME StateInv, [StateNext]_stateVars
    PROVE  CountsAbsenceStreak'
  <1> USE DEF StateInv
  <1>1. CASE UNCHANGED <<counts, completeFeeds>> /\ (fit' # "unfit" => fit # "unfit")
    BY <1>1 DEF CountsAbsenceStreak, Count, AbsentFromLast
  <1>2. ASSUME NEW view \in Views, RunAndInstall(view), view.complete
        PROVE  CountsAbsenceStreak'
    <2> DEFINE n == Len(completeFeeds)
    <2>1. /\ fit # "unfit"
          /\ counts' = NextCounts(view)
          /\ completeFeeds' = Append(completeFeeds, view.missing)
          /\ view.missing \in SUBSET Scope
      BY <1>2 DEF RunAndInstall, Run, ValidPrevious, Views
    <2>2. n \in Nat /\ Len(completeFeeds') = n + 1
      BY <2>1 DEF StateTypeOK
    <2>3. ASSUME NEW p \in Scope, NEW k \in 1..(n + 2)
          PROVE  Count(p)' >= k <=> AbsentFromLast(p, k)'
      <3>1. AbsentFromLast(p, k)' <=> p \in view.missing /\ AbsentFromLast(p, k - 1)
        BY <2>1, <2>2, StreakGrows
      <3>2. Count(p) \in Nat
        BY DEF StateTypeOK, Count
      <3>3. CASE p \in view.missing
        <4>1. Count(p)' = Count(p) + 1
          BY <1>2, <2>1, <3>3 DEF NextCounts, Count
        <4>2. CASE k = 1
          BY <2>2, <3>1, <3>2, <3>3, <4>1, <4>2 DEF AbsentFromLast
        <4>3. CASE k > 1
          <5>1. Count(p) >= k - 1 <=> AbsentFromLast(p, k - 1)
            BY <2>1, <2>2, <4>3 DEF CountsAbsenceStreak
          <5> QED
            BY <2>2, <3>1, <3>2, <3>3, <4>1, <5>1
        <4> QED
          BY <2>2, <4>2, <4>3
      <3>4. CASE p \notin view.missing
        <4>1. Count(p)' = 0
          BY <1>2, <2>1, <3>4 DEF NextCounts, Count
        <4> QED
          BY <2>2, <3>1, <3>4, <4>1
      <3> QED
        BY <3>3, <3>4
    <2> QED
      BY <2>2, <2>3 DEF CountsAbsenceStreak
  <1>3. ASSUME NEW view \in Views, RunAndInstall(view), ~view.complete
        PROVE  UNCHANGED <<counts, completeFeeds>> /\ fit # "unfit"
    BY <1>3 DEF RunAndInstall, Run, ValidPrevious, NextCounts
  <1>4. ASSUME NEW view \in Views, RunOnly(view) \/ RefuseRun(view)
        PROVE  UNCHANGED <<fit, counts, completeFeeds>>
    BY <1>4 DEF RunOnly, RefuseRun
  <1>5. CASE Remove
    BY <1>5 DEF Remove, Forget, CountsAbsenceStreak, Count, AbsentFromLast
  <1>6. CASE Misplace
    BY <1>6 DEF Misplace, CountsAbsenceStreak
  <1>7. CASE UNCHANGED stateVars
    BY <1>1, <1>7 DEF stateVars
  <1> QED
    BY <1>1, <1>2, <1>3, <1>4, <1>5, <1>6, <1>7 DEF StateNext

-----------------------------------------------------------------------------
\* The inductive invariant holds in every reachable state.
THEOREM StateInvariant == StateSpec => []StateInv
  <1>1. StateInit => StateInv
    <2>1. StateInit => StateTypeOK
      <3>1. ASSUME StateInit PROVE \E ids \in SUBSET Scope : counts \in [ids -> Nat]
        BY <3>1, AbsentState DEF StateInit
      <3> QED
        BY <3>1, NoViewType DEF StateInit, StateTypeOK
    <2>2. StateInit => CountsAbsenceStreak
      BY DEF StateInit, CountsAbsenceStreak, Count, AbsentFromLast
    <2> QED
      BY <2>1, <2>2 DEF StateInv
  <1>2. StateInv /\ [StateNext]_stateVars => StateInv'
    BY StateTypeStep, StreakStep DEF StateInv
  <1> QED
    BY <1>1, <1>2, PTL DEF StateSpec

\* The counters, the feeds and the proposals keep their types (state.py).
THEOREM StateTypes == StateSpec => []StateTypeOK
  <1>1. StateInv => StateTypeOK
    BY DEF StateInv
  <1> QED
    BY <1>1, StateInvariant, PTL

\* The counter of update_missing_state is the latest streak of absences from
\* complete feeds, for any sequence of calls.
THEOREM CounterIsStreak == StateSpec => []CountsAbsenceStreak
  <1>1. StateInv => CountsAbsenceStreak
    BY DEF StateInv
  <1> QED
    BY <1>1, StateInvariant, PTL

\* A run proposes its action exactly for the products absent from as many
\* consecutive complete feeds as its profile says, and from a fit state only.
THEOREM ProposalsAreDue == StateSpec => ProposesWhenDue
  <1> DEFINE Due == \A p \in Scope :
               p \in proposed' <=>
                   /\ fit # "unfit"
                   /\ latest'.due # Never
                   /\ latest'.complete
                   /\ p \in latest'.missing
                   /\ AbsentFromLast(p, latest'.due - 1)
  <1>1. ASSUME StateInv, NEW view \in Views, Run(view) PROVE Due
    <2>1. latest' = view /\ proposed' = ProposedActions(view) /\ fit # "unfit"
      BY <1>1 DEF Run, ValidPrevious
    <2>2. ASSUME NEW p \in view.missing, view.complete, view.due # Never
          PROVE  NextCounts(view)[p] >= view.due <=> AbsentFromLast(p, view.due - 1)
      <3>1. p \in Scope /\ NextCounts(view)[p] = Count(p) + 1
        BY <1>1, <2>2, NextCountsType DEF StateInv, Views
      <3>2. /\ Count(p) \in Nat /\ Len(completeFeeds) \in Nat
            /\ view.due \in Nat \ {0}
        <4>1. Count(p) \in Nat /\ Len(completeFeeds) \in Nat
          BY <1>1, <3>1 DEF StateInv, StateTypeOK, Count
        <4>2. view.due \in Thresholds
          BY <2>2 DEF Views
        <4> QED
          BY <4>1, <4>2, ThresholdsAssumption
      <3>3. CASE view.due = 1
        BY <3>1, <3>2, <3>3 DEF AbsentFromLast
      <3>4. CASE view.due > 1 /\ view.due - 1 <= Len(completeFeeds)
        <4>1. Count(p) >= view.due - 1 <=> AbsentFromLast(p, view.due - 1)
          BY <1>1, <2>1, <3>1, <3>2, <3>4 DEF StateInv, CountsAbsenceStreak
        <4> QED
          BY <3>1, <3>2, <4>1
      <3>5. CASE view.due - 1 > Len(completeFeeds)
        <4>1. ~AbsentFromLast(p, view.due - 1)
          BY <3>2, <3>5 DEF AbsentFromLast
        <4>2. ~(Count(p) >= Len(completeFeeds) + 1)
          BY <1>1, <2>1, <3>1, <3>2 DEF StateInv, CountsAbsenceStreak, AbsentFromLast
        <4> QED
          BY <3>1, <3>2, <3>5, <4>1, <4>2
      <3> QED
        BY <3>2, <3>3, <3>4, <3>5
    <2> QED
      BY <2>1, <2>2 DEF ProposedActions, Views
  <1>2. ASSUME NEW view \in Views, RefuseRun(view) PROVE Due
    BY <1>2 DEF RefuseRun, ValidPrevious
  <1>3. ASSUME Remove \/ Misplace PROVE Due
    BY <1>3 DEF Remove, Misplace, Forget, NoView
  <1>4. StateInv /\ [StateNext]_stateVars => [Due]_stateVars
    BY <1>1, <1>2, <1>3 DEF StateNext, RunAndInstall, RunOnly
  <1> HIDE DEF Due
  <1>5. StateSpec => [][Due]_stateVars
    BY <1>4, StateInvariant, PTL DEF StateSpec
  <1> QED
    BY <1>5 DEF ProposesWhenDue, Due

\* Called by the runner, which takes a feed for complete only if no product is
\* missing, update_missing_state never proposes anything.
THEOREM RunnerNeverProposes == GatedByMatch => (StateSpec => [](proposed = {}))
  <1> SUFFICES ASSUME GatedByMatch PROVE StateSpec => [](proposed = {})
    OBVIOUS
  <1>1. StateInit => proposed = {}
    BY DEF StateInit
  <1>2. proposed = {} /\ [StateNext]_stateVars => (proposed = {})'
    <2>1. ASSUME NEW view \in Views, Run(view) PROVE proposed' = {}
      <3>1. view.complete = (view.missing = {})
        BY <2>1 DEF Run, Judgements
      <3>2. proposed' \subseteq {p \in view.missing : view.complete}
        BY <2>1 DEF Run, ProposedActions
      <3> QED
        BY <3>1, <3>2
    <2> QED
      BY <2>1 DEF StateNext, RunAndInstall, RunOnly, RefuseRun, Remove, Misplace, Forget, stateVars
  <1> QED
    BY <1>1, <1>2, PTL DEF StateSpec
=============================================================================
