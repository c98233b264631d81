----------------------------- MODULE Proposals -----------------------------
(***************************************************************************)
(* What a run proposes: a price for every item of a feed (pricing.py),     *)
(* under the pricing policy of a supplier profile (config.py), and catalog *)
(* categories for the items no catalog product matches                     *)
(* (category_mapping.py).                                                  *)
(*                                                                         *)
(* Prices are integers, multipliers and limits are percentages: a proposed *)
(* price is in hundredths of the unit of a price, so nothing is rounded,   *)
(* as the code computes in decimals.  A quotient is compared by cross      *)
(* multiplication.                                                         *)
(***************************************************************************)
EXTENDS Integers, Sequences, FiniteSets

CONSTANTS
    Nobody,   \* no catalog product
    NoRule,   \* no markup rule
    NoPrice,  \* no proposed price
    NoTarget  \* no catalog category

\* Rows of a table, made from the chosen rows of another, in their order: the
\* k-th is the row with k chosen ones up to it.
SelectRows(rows, chosen) ==
    LET places  == chosen \cap DOMAIN rows
        upTo(n) == {m \in places : m <= n}
    IN  [k \in 1..Cardinality(places) |->
           rows[CHOOSE n \in places : Cardinality(upTo(n)) = k]]

-----------------------------------------------------------------------------
\* Mutant of ValidPricing: any multiplier can be approved.
ValidPricingAnyMarkup(pricing) ==
    /\ pricing.vatApproved => pricing.vat # "unknown"
    /\ pricing.approved =>
         /\ pricing.vatApproved /\ pricing.vat = "included"
         /\ pricing.base = "RUB"
         /\ DOMAIN pricing.rates # {} /\ DOMAIN pricing.rates \subseteq {"RUB", "RUR"}
         /\ \A c \in DOMAIN pricing.rates : pricing.rates[c] = 1
         /\ Len(pricing.rules) = 1
         /\ pricing.rounding \in {"none", "exact"}

\* validate_policy_approval.
ValidPricing(pricing) ==
    /\ pricing.vatApproved => pricing.vat # "unknown"
    /\ pricing.approved =>
         /\ pricing.vatApproved /\ pricing.vat = "included"
         /\ pricing.base = "RUB"
         /\ DOMAIN pricing.rates # {} /\ DOMAIN pricing.rates \subseteq {"RUB", "RUR"}
         /\ \A c \in DOMAIN pricing.rates : pricing.rates[c] = 1
         /\ Len(pricing.rules) = 1 /\ pricing.rules[1].multiplier = 110
         /\ pricing.rounding \in {"none", "exact"}

\* pricing_context_from_config: rules count only when they are approved.
Context(pricing) ==
    [ rates |-> pricing.rates,
      rule  |-> IF pricing.approved THEN pricing.rules[1] ELSE NoRule,
      limit |-> pricing.limit,
      vat   |-> pricing.vat ]

-----------------------------------------------------------------------------
\* Why an item gets no price at all: the first of the guards of build_proposal.
Blocker(item, match, context) ==
    IF match.status # "exact" \/ match.product = Nobody THEN "blocked_match"
    ELSE IF item.price <= 0 THEN "blocked_source_price"
    ELSE IF item.currency \notin {"RUB", "RUR"} \cap DOMAIN context.rates
            \/ context.rates[item.currency] # 1
         THEN "blocked_currency"
    ELSE IF context.vat = "unknown" THEN "blocked_vat_basis"
    ELSE IF context.rule = NoRule THEN "blocked_missing_markup"
    ELSE IF context.rule.multiplier <= 0 THEN "blocked_markup"
    ELSE "none"

\* Mutant of DeltaStatus: a fall in price is never too large.
DeltaStatusUpward(proposed, current, limit) ==
    IF current <= 0 THEN "blocked_current_price"
    ELSE IF (proposed - 100 * current) > limit * current THEN "blocked_delta"
    ELSE "ready_for_review"

\* A price that differs too much from the current one is not for review.
DeltaStatus(proposed, current, limit) ==
    LET delta == proposed - 100 * current
    IN  IF current <= 0 THEN "blocked_current_price"
        ELSE IF (IF delta < 0 THEN -delta ELSE delta) > limit * current THEN "blocked_delta"
        ELSE "ready_for_review"

\* build_proposal.
Proposal(item, match, current, context) ==
    LET blocker  == Blocker(item, match, context)
        proposed == item.price * context.rule.multiplier
    IN  IF blocker # "none"
          THEN [product |-> match.product, status |-> blocker, proposed |-> NoPrice]
          ELSE [product |-> match.product,
                status |-> DeltaStatus(proposed, current, context.limit),
                proposed |-> proposed]

-----------------------------------------------------------------------------
Times(targets, t) == Cardinality({i \in DOMAIN targets : targets[i] = t})

\* Counter.most_common: the target named most often, the earliest of several.
TopTarget(targets) ==
    LET i == CHOOSE n \in DOMAIN targets :
               \A m \in DOMAIN targets :
                 \/ Times(targets, targets[n]) > Times(targets, targets[m])
                 \/ Times(targets, targets[n]) = Times(targets, targets[m]) /\ n <= m
    IN  IF targets = <<>> THEN NoTarget ELSE targets[i]

\* Mutant of MappingStatus: the share of the first target is not looked at.
MappingStatusBySupport(support, top) ==
    IF support >= 3 THEN "strong_candidate"
    ELSE IF support >= 2 THEN "review_candidate"
    ELSE IF support > 0 THEN "ambiguous"
    ELSE "unmapped"

\* mapping_status of a source category, from its exact matches.
MappingStatus(support, top) ==
    IF support >= 3 /\ top = support THEN "strong_candidate"
    ELSE IF support >= 2 /\ 5 * top >= 4 * support THEN "review_candidate"
    ELSE IF support > 0 THEN "ambiguous"
    ELSE "unmapped"

\* The row of a source category.
Mapping(path, items, matches, targetOf) ==
    LET inPath == {i \in DOMAIN items : items[i].path = path}
        exact  == {i \in inPath : matches[i].status = "exact" /\ matches[i].product # Nobody}
        named  == [i \in DOMAIN items |->
                     IF i \in exact THEN targetOf[matches[i].product] ELSE NoTarget]
        learned == SelectRows(named, exact)
        top     == TopTarget(learned)
    IN  [ total      |-> Cardinality(inPath),
          sourceOnly |-> Cardinality({i \in inPath : matches[i].status = "unmatched"}),
          support    |-> Len(learned),
          dominant   |-> Times(learned, top),
          target     |-> top,
          status     |-> MappingStatus(Len(learned), Times(learned, top)) ]

\* mapping_rows, by source category.
CategoryMapping(items, matches, targetOf) ==
    [path \in {items[i].path : i \in DOMAIN items} |->
       Mapping(path, items, matches, targetOf)]

\* proposal_status of a source-only item, from the row of its category.
CategoryProposal(row) ==
    CASE row.status \in {"strong_candidate", "review_candidate"} -> "review_only"
      [] row.status = "ambiguous" -> "blocked_ambiguous_category"
      [] OTHER -> "blocked_unmapped"
=============================================================================
