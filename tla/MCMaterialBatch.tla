-------------------------- MODULE MCMaterialBatch --------------------------
(* Instances of MaterialBatch for TLC.                                     *)
EXTENDS MaterialBatch, TLC

CONSTANTS b1, b2

Crashes == {"crash", "abort"}
StoreFaults == {"store"}
Aborts == {"abort"}

BatchSymmetry == Permutations(Batches)

=============================================================================
