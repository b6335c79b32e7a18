-------------------------- MODULE MCFileTransfer --------------------------
(* Instances of FileTransfer for TLC. *)
EXTENDS FileTransfer
===========================================================================
