--------------------------- MODULE MCMerkleTrees ---------------------------
(* MerkleTrees on a small instance. *)
EXTENDS MerkleTrees
=============================================================================
