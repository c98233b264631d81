---------------------------- MODULE MCRunBundle ----------------------------
(***************************************************************************)
(* Two feeds whose items differ in match, price and category, two that   *)
(* the verifier does not read as they were written, and one with an id     *)
(* twice; two catalogs, and prices that are exactly at the limit, above    *)
(* and below; a valid, an unapproved, an invalid and a secret profile.     *)
(***************************************************************************)
EXTENDS RunBundle, TLC

CONSTANTS wide, mixed, formula, torn, twice, k1, k2, approved, open, wrong, leaky, st,
          dash, line, long

MCSorted == << "catalog", "config", "state", "source", "missing", "matches", "review_queue",
               "source_only", "normalized", "jsonl", "database", "category_mapping",
               "product_categories", "proposals", "report", "summary", "manifest",
               "next_state" >>

\* Items: id, category path, price, currency.
Item(id, path, price) == [id |-> id, path |-> path, price |-> price, currency |-> "RUR"]
MCItemsOf ==
    wide :> << Item(1, "c", 100), Item(2, "c", 100), Item(3, "c", 100), Item(4, "c", 150),
               Item(5, "c", 500), Item(6, "c", 100) >>
 @@ mixed :> << Item(1, "c", 100), Item(2, "c", 10), Item(3, "c", 0), Item(4, "d", 100),
                Item(5, "d", 100), [Item(6, "e", 100) EXCEPT !.currency = "USD"] >>
 @@ formula :> << Item(dash, "d", 100) >> @@ torn :> << Item(line, "d", 100), Item(long, "d", 100) >>
 @@ twice :> << Item(1, "c", 100), Item(1, "d", 100) >>

\* Products: price and category; the smaller catalog asks for other prices.
MCListedIn ==
    k1 :> [p \in 1..6 |-> [price |-> CASE p = 6 -> 0 [] p = 4 -> 110 [] OTHER -> 100,
                           target |-> IF p = 2 THEN "t2" ELSE "t1"]]
 @@ k2 :> [p \in 1..5 |-> [price |-> 220, target |-> "t1"]]

Match(status, p) == [status |-> status, product |-> p]
MCMatched ==
    [ x \in {wide, mixed, formula, torn, twice} \X {k1, k2} |->
        CASE x[1] = wide ->
               [i \in 1..6 |-> IF i <= 5 THEN Match("exact", i) ELSE Match("unmatched", Nobody)]
          [] x[1] = mixed ->
               << Match("exact", 1), Match("exact", 2), Match("unmatched", Nobody),
                  Match("high_confidence", 4), Match("ambiguous", Nobody),
                  IF x[2] = k1 THEN Match("exact", 6) ELSE Match("conflict", 5) >>
          [] x[1] = formula -> << Match("unmatched", Nobody) >>
          [] x[1] = torn -> [i \in 1..2 |-> Match("unmatched", Nobody)]
          [] OTHER -> << Match("exact", 1), Match("exact", 2) >> ]

Pricing(ok, multiplier) ==
    [ vat |-> "included", vatApproved |-> ok, base |-> "RUB", approved |-> ok,
      rates |-> [c \in {"RUR"} |-> 1], rules |-> <<[id |-> "r", multiplier |-> multiplier]>>,
      rounding |-> "exact", limit |-> 50 ]
Profile(ok, multiplier, secret) ==
    [pricing |-> Pricing(ok, multiplier), secret |-> secret, acts |-> ok, least |-> 1, most |-> 6]
MCProfileOf ==
    approved :> Profile(TRUE, 110, FALSE) @@ open :> Profile(FALSE, 120, FALSE)
 @@ wrong :> Profile(TRUE, 120, FALSE) @@ leaky :> Profile(TRUE, 110, TRUE)

MCTooLong == {<<"normalized", [id |-> long, sku |-> long]>>, <<"source_only", long>>}

MCMoving == {<<"source", wide>>, <<"config", approved>>}
MCAskedFor == {{}, {"source", "catalog", "config"}}
=============================================================================
