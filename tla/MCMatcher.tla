----------------------------- MODULE MCMatcher -----------------------------
(***************************************************************************)
(* Feeds of up to three offers against catalogs of up to two products.     *)
(***************************************************************************)
EXTENDS Matcher

CONSTANTS s1, s2, s3, e1, e2, m1, x1, x2

Offer(sku, ean, maker, mpn, model) ==
    [sku |-> sku, ean |-> ean, maker |-> maker, mpn |-> mpn, model |-> model, warned |-> FALSE]

\* Offers that compete: same EAN, same manufacturer and model, same SKU; an MPN
\* or only a model; a blank MPN; and one the adapter doubts.
MCOffers ==
    { Offer(s1, e1, m1, x1, x1), Offer(s1, Unknown, Unknown, Unknown, Unknown),
      Offer(s2, e1, m1, x2, x2), Offer(s2, e2, m1, Unknown, x1),
      Offer(s3, e1, Unknown, x2, Unknown), Offer(s3, Unknown, m1, x1, Unknown),
      Offer(s3, e2, m1, Blank, x1),
      [Offer(s2, e1, m1, x1, x1) EXCEPT !.warned = TRUE] }

Listing(sku, ean, maker, model) == [sku |-> sku, ean |-> ean, maker |-> maker, model |-> model]

MCListings ==
    { Listing(s1, e1, m1, x1), Listing(s1, Unknown, Unknown, Unknown),
      Listing(s1, e1, Blank, x1),
      Listing(s2, e1, m1, x2), Listing(s2, Unknown, m1, x1), Listing(s3, e2, m1, Blank) }
=============================================================================
