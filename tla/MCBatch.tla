------------------------------ MODULE MCBatch ------------------------------
(***************************************************************************)
(* Two of three batches start, of two suppliers.  All run one feed of      *)
(* electrozone, labelled b0, at times of their own, so under run names of  *)
(* their own: b1 and b2 under one output root, b3 under another.  Of       *)
(* netlab each has its own feed.  With NewCatalog each runs against its    *)
(* own catalog, which electrozone's artifact names do not show.            *)
(***************************************************************************)
EXTENDS Batch, TLC

CONSTANTS b0, b1, b2, b3, r1, r2, electrozone, netlab

One == <<electrozone>>
Two == <<electrozone, netlab>>

Feed(t) == IF t[2] = netlab THEN t ELSE <<b0, electrozone>>
MCRootOf     == [b \in Batches |-> IF b = b3 THEN r2 ELSE r1]
MCRunNameOf  == [t \in Tasks |-> t]
MCArtifacts  == {Feed(t) : t \in Tasks}
MCArtifactOf == [t \in Tasks |-> Feed(t)]
SameCatalog  == [t \in Tasks |-> <<Feed(t), b0>>]
NewCatalog   == [t \in Tasks |-> <<Feed(t), t[1]>>]
MCRunIds     == MCArtifacts \X (Batches \cup {b0})

\* Nothing tells b1 and b2 apart while all run against one catalog.
Alike == Permutations({b1, b2})
=============================================================================
