---------------------------- MODULE MCBatchChain ----------------------------
(* Batches are interchangeable: nothing in the code looks into them.       *)
EXTENDS BatchChain, TLC

BatchSymmetry == Permutations(Batches)
=============================================================================
