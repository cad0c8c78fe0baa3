--------------------------- MODULE MCSessionTable ---------------------------
(* SessionTable with interchangeable goroutines. *)
EXTENDS SessionTable, TLC

WorkerSymmetry == Permutations(Workers)
=============================================================================
