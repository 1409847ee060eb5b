--------------------------- MODULE MCDownloadQueue ---------------------------
(* DownloadQueue on small instances: the third version of the remote file  *)
(* is shorter than what may have been fetched of the others.               *)
EXTENDS DownloadQueue, TLC

MCSize == <<2, 2, 1>>
MCTwoSizes == <<2, 2>>

(* Sessions are alike, and no property is about liveness. *)
Symmetry == Permutations(Sessions)
=============================================================================
