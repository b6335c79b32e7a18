------------------------ MODULE MCMoveAfterTransfer ------------------------
(* Instances of MoveAfterTransfer for TLC. *)
EXTENDS MoveAfterTransfer
=============================================================================
