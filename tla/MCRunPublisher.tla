--------------------------- MODULE MCRunPublisher ---------------------------
(***************************************************************************)
(* Small instances of RunPublisher: w1 and w2 are threads of p1, w3 runs   *)
(* in p2.  In the first placement all compete for run name n1; in the      *)
(* second w3 builds n2, a name that begins with "<n1>.stage-".             *)
(***************************************************************************)
EXTENDS RunPublisher, TLC

CONSTANTS w1, w2, w3, p1, p2, n1, n2

MCProcOf   == (w1 :> p1) @@ (w2 :> p1) @@ (w3 :> p2)
OneName    == (w1 :> n1) @@ (w2 :> n1) @@ (w3 :> n1)
TwoNames   == (w1 :> n1) @@ (w2 :> n2) @@ (w3 :> n2)
NoShadow   == {}
N1ShadowsN2 == {<<n1, n2>>}
=============================================================================
