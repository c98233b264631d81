--------------------------- MODULE MCMissingState ---------------------------
(***************************************************************************)
(* Two products and up to four installed states.  The supplier profiles    *)
(* have a threshold of three; the other one is that of a changed profile.  *)
(***************************************************************************)
EXTENDS MissingState
=============================================================================
