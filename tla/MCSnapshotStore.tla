-------------------------- MODULE MCSnapshotStore --------------------------
(***************************************************************************)
(* SnapshotStore with three calls that meet at one target: w1 and w2 are   *)
(* threads of p1, w3 runs in p2 and insists on its own metadata.  w1 and   *)
(* w3 install the same content; w2's content only shares the digits of the *)
(* hash that the name keeps.                                               *)
(***************************************************************************)
EXTENDS SnapshotStore, TLC

CONSTANTS w1, w2, w3, p1, p2, n1, d1, d2, fetched, dropped

MCProcOf  == (w1 :> p1) @@ (w2 :> p1) @@ (w3 :> p2)
MCNameOf  == (w1 :> n1) @@ (w2 :> n1) @@ (w3 :> n1)
Collision == (w1 :> d1) @@ (w2 :> d2) @@ (w3 :> d1)
MCTermsOf == (w1 :> fetched) @@ (w2 :> fetched) @@ (w3 :> dropped)
=============================================================================
