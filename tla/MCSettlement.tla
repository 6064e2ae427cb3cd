---------------------------- MODULE MCSettlement ----------------------------
(* Small instances of Settlement for TLC; the .cfg files name the bounds. *)
EXTENDS Settlement, TLC

\* Handlers of the same kind are interchangeable in the safety runs.
Symmetry == Permutations(PayoutWorkers) \union Permutations(ChainWorkers)

=============================================================================
