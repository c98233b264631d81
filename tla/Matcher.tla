------------------------------ MODULE Matcher ------------------------------
(***************************************************************************)
(* match_supplier_items (matcher.py): one pass over the offers of a feed   *)
(* that assigns at most one catalog product to each offer, by SKU, by EAN  *)
(* or by manufacturer and model, and reports the catalog products that no  *)
(* offer took.  EANs are compared after strip, names after _identity: two  *)
(* texts are one value here when the code cannot tell them apart.  A text  *)
(* with no letter or digit has the empty identity, yet it is not missing.  *)
(***************************************************************************)
EXTENDS Naturals, Sequences

CONSTANTS
    Offers,     \* supplier items: sku, ean, maker, mpn, model, warned
    Listings,   \* catalog rows: sku, ean, maker, model
    Products,   \* product ids
    MaxOffers,  \* bound on the length of a feed
    Unknown,    \* no EAN, manufacturer or model
    Blank,      \* a manufacturer or model whose _identity is empty
    Nobody      \* no product

ASSUME NobodyAssumption == Nobody \notin Products
ASSUME MaxOffersAssumption == MaxOffers \in Nat

VARIABLES
    offers,   \* the feed, in document order
    catalog,  \* the catalog rows by product id
    matches,  \* the records made so far, one for each offer passed
    seen,     \* seen_product_ids
    missing,  \* catalog_missing_supplier
    outcome   \* "running", "rejected" or "matched"

vars == <<offers, catalog, matches, seen, missing, outcome>>

Statuses == {"exact", "high_confidence", "conflict", "ambiguous", "unmatched"}
Means    == {"sku", "ean_unique", "manufacturer_model_unique", "identity_conflict",
             "identity_candidate", "catalog_product_reused", "none"}
Matches  == [product : Products \cup {Nobody}, status : Statuses, by : Means]

MatcherTypeOK ==
    /\ offers \in Seq(Offers)
    /\ \E ids \in SUBSET Products : catalog \in [ids -> Listings]
    /\ matches \in Seq(Matches)
    /\ Len(matches) <= Len(offers)
    /\ seen \subseteq Products
    /\ missing \subseteq Products
    /\ outcome \in {"running", "rejected", "matched"}

Init ==
    /\ \E n \in 0..MaxOffers : offers \in [1..n -> Offers]
    /\ \E ids \in SUBSET Products : catalog \in [ids -> Listings]
    /\ matches = <<>>
    /\ seen = {}
    /\ missing = {}
    /\ outcome = "running"

-----------------------------------------------------------------------------
Places == DOMAIN offers
Ids    == DOMAIN catalog

PartNumber(o) == IF o.mpn # Unknown THEN o.mpn ELSE o.model

BySku(o) == {p \in Ids : catalog[p].sku = o.sku}
ByEan(o) == {p \in Ids : o.ean # Unknown /\ catalog[p].ean = o.ean}
ByModel(o) ==
    {p \in Ids : /\ {o.maker, PartNumber(o)} \cap {Unknown, Blank} = {}
                 /\ catalog[p].maker = o.maker /\ catalog[p].model = PartNumber(o)}

\* Mutant of SoleEan: the EANs are counted during the pass.
SoleEanSoFar(i) == \A j \in Places : j < i => offers[j].ean # offers[i].ean

\* supplier_ean_counts and supplier_brand_model_counts are 1 for this offer.
SoleEan(i) == \A j \in Places \ {i} : offers[j].ean # offers[i].ean
SoleModel(i) ==
    \A j \in Places \ {i} : ~ /\ offers[j].maker = offers[i].maker
                              /\ PartNumber(offers[j]) = PartNumber(offers[i])

\* What the offer is looked up by: the first index that knows anything of it.
Lookup(i) ==
    IF BySku(offers[i]) # {} THEN "sku"
    ELSE IF ByEan(offers[i]) # {} THEN "ean_unique"
    ELSE IF ByModel(offers[i]) # {} THEN "manufacturer_model_unique"
    ELSE "none"

\* The products the offer may mean, and whether the feed lets it mean one.
Candidates(i) ==
    CASE Lookup(i) = "sku"        -> BySku(offers[i])
      [] Lookup(i) = "ean_unique" -> ByEan(offers[i])
      [] OTHER                    -> ByModel(offers[i])
Sole(i) ==
    CASE Lookup(i) = "ean_unique"                -> SoleEan(i)
      [] Lookup(i) = "manufacturer_model_unique" -> SoleModel(i)
      [] OTHER                                   -> TRUE

Selects(i, p) == ~offers[i].warned /\ Candidates(i) = {p} /\ Sole(i)

Contradict(a, b)      == a # Unknown /\ b # Unknown /\ a # b
EanMismatch(i, p)     == Contradict(offers[i].ean, catalog[p].ean)
ModelMismatch(i, p)   == Contradict(offers[i].mpn, catalog[p].model)
MakerMismatch(i, p)   == Contradict(offers[i].maker, catalog[p].maker)

\* Mutant of Doubtful: the manufacturer is not compared.
DoubtfulByNumbers(i, p) ==
    CASE Lookup(i) = "sku" -> EanMismatch(i, p) \/ ModelMismatch(i, p)
      [] Lookup(i) = "manufacturer_model_unique" -> EanMismatch(i, p)
      [] OTHER -> FALSE

Doubtful(i, p) ==
    CASE Lookup(i) = "sku" -> EanMismatch(i, p) \/ ModelMismatch(i, p) \/ MakerMismatch(i, p)
      [] Lookup(i) = "manufacturer_model_unique" -> EanMismatch(i, p)
      [] OTHER -> FALSE

-----------------------------------------------------------------------------
Current == Len(matches) + 1
Distinct == \A i, j \in Places : offers[i].sku = offers[j].sku => i = j
InPass == outcome = "running" /\ Distinct /\ Current \in Places
Record(p, s, m) ==
    /\ matches' = Append(matches, [product |-> p, status |-> s, by |-> m])
    /\ UNCHANGED <<offers, catalog, missing, outcome>>

\* Two offers with one supplier item id, hence one generated catalog SKU.
Reject ==
    /\ outcome = "running" /\ matches = <<>>
    /\ ~Distinct
    /\ outcome' = "rejected"
    /\ UNCHANGED <<offers, catalog, matches, seen, missing>>

\* The adapter already doubts the identity of the offer.
Warned ==
    /\ InPass
    /\ Record(Nobody, "ambiguous", "identity_conflict")
    /\ offers[Current].warned
    /\ UNCHANGED seen

\* The index that decides names several products, or several offers.
Ambiguous ==
    /\ InPass
    /\ Record(Nobody, "ambiguous",
              IF Lookup(Current) = "sku" THEN "sku" ELSE "identity_candidate")
    /\ ~offers[Current].warned
    /\ Candidates(Current) # {}
    /\ ~\E p \in Ids : Selects(Current, p)
    /\ UNCHANGED seen

Unmatched ==
    /\ InPass
    /\ Record(Nobody, "unmatched", "none")
    /\ ~offers[Current].warned
    /\ Candidates(Current) = {}
    /\ UNCHANGED seen

\* An earlier offer has taken the product.
Reused ==
    /\ InPass
    /\ Record(Nobody, "ambiguous", "catalog_product_reused")
    /\ \E p \in seen : Selects(Current, p)
    /\ UNCHANGED seen

\* Mutant of Take: seen_product_ids is not consulted.
TakeAgain(p) ==
    /\ InPass
    /\ Selects(Current, p)
    /\ seen' = seen \cup {p}

Take(p) ==
    /\ InPass
    /\ Selects(Current, p)
    /\ p \notin seen
    /\ seen' = seen \cup {p}

\* The offer takes the product: exactly, for review, or in contradiction.
Exact(p) ==
    /\ Take(p)
    /\ Lookup(Current) = "sku" /\ ~Doubtful(Current, p)
    /\ Record(p, "exact", "sku")

HighConfidence(p) ==
    /\ Take(p)
    /\ Lookup(Current) # "sku" /\ ~Doubtful(Current, p)
    /\ Record(p, "high_confidence", Lookup(Current))

Conflict(p) ==
    /\ Take(p)
    /\ Doubtful(Current, p)
    /\ Record(p, "conflict", Lookup(Current))

\* Mutant of Finish: only exact matches count as present.
FinishExactOnly ==
    /\ outcome = "running" /\ Distinct /\ Len(matches) = Len(offers)
    /\ missing' = {p \in Ids : \A i \in 1..Len(matches) :
                     matches[i].product = p => matches[i].status # "exact"}
    /\ outcome' = "matched"
    /\ UNCHANGED <<offers, catalog, matches, seen>>

\* After the last offer: the catalog products nobody took.
Finish ==
    /\ outcome = "running" /\ Distinct /\ Len(matches) = Len(offers)
    /\ missing' = Ids \ seen
    /\ outcome' = "matched"
    /\ UNCHANGED <<offers, catalog, matches, seen>>

Done == outcome # "running" /\ UNCHANGED vars

Next ==
    \/ Reject
    \/ Warned \/ Ambiguous \/ Unmatched \/ Reused
    \/ \E p \in Ids : Exact(p) \/ HighConfidence(p) \/ Conflict(p)
    \/ Finish
    \/ Done

Spec == Init /\ [][Next]_vars

-----------------------------------------------------------------------------
Passed == 1..Len(matches)

\* No product is mapped to two offers of one feed.
NoProductTwice ==
    \A i, j \in Passed :
        i # j /\ matches[i].product = matches[j].product => matches[i].product = Nobody

\* Only exact matches enter pricing: the product is the only one with the SKU,
\* and nothing both sides state about identity disagrees.
ExactIsBeyondDoubt ==
    \A i \in Passed : matches[i].status = "exact" =>
        LET p == matches[i].product
        IN  /\ p \in Ids
            /\ \A q \in Ids : catalog[q].sku = offers[i].sku <=> q = p
            /\ ~offers[i].warned
            /\ ~EanMismatch(i, p) /\ ~ModelMismatch(i, p) /\ ~MakerMismatch(i, p)

\* An EAN, or a manufacturer and model, that two offers or two products share
\* selects no product.
SharedIdentitySelectsNothing ==
    \A i \in Passed :
        /\ matches[i].by = "ean_unique" =>
              /\ \A j \in Places : offers[j].ean = offers[i].ean => j = i
              /\ \A q \in Ids : catalog[q].ean = offers[i].ean => q = matches[i].product
        /\ matches[i].by = "manufacturer_model_unique" =>
              /\ \A j \in Places :
                    /\ offers[j].maker = offers[i].maker
                    /\ PartNumber(offers[j]) = PartNumber(offers[i])
                    => j = i
              /\ \A q \in Ids :
                    /\ catalog[q].maker = offers[i].maker
                    /\ catalog[q].model = PartNumber(offers[i])
                    => q = matches[i].product

\* Which products are missing, and with it whether the feed is complete, does
\* not depend on the order of the offers: it is those that no offer selects.
MissingWhateverTheOrder ==
    outcome = "matched" =>
        missing = {p \in Ids : \A i \in Places : ~Selects(i, p)}

\* An offer that names the SKU of one product gets that product, whatever
\* weaker evidence other offers bring (README.md: exact SKU is primary).
ExactSkuIsPrimary ==
    \A i \in Passed : \A p \in Ids :
        /\ ~offers[i].warned
        /\ BySku(offers[i]) = {p}
        => matches[i].product = p
=============================================================================
