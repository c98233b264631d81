--------------------------- MODULE MCAcquisition ---------------------------
(* One download and one manual drop at the same time. *)
EXTENDS Acquisition

CONSTANTS fetch, drop, monday, tuesday, file, other

\* The first edition has an epilogue; the second has no usable date.
MCLengthOf == monday :> 3 @@ tuesday :> 2
SourceFiles == Permutations({file, other})
=============================================================================
