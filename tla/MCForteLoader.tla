--------------------------- MODULE MCForteLoader ---------------------------
(* One runtime executable and one fboot file in two versions each, so that *)
(* what is installed, running, loaded and committed can all differ; for    *)
(* a single question also a second fboot file.                             *)
EXTENDS ForteLoader, TLC

ContentSymmetry == Permutations(Contents)
=============================================================================
