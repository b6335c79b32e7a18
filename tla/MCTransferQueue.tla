-------------------------- MODULE MCTransferQueue --------------------------
(***************************************************************************)
(* Instances of TransferQueue for TLC.  The worker slots are                *)
(* interchangeable, so safety runs may use their symmetry.                  *)
(***************************************************************************)
EXTENDS TransferQueue, TLC

WorkerSymmetry == Permutations(Workers)
=============================================================================
