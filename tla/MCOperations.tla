---------------------------- MODULE MCOperations ----------------------------
(* Instances of Operations for TLC. *)
EXTENDS Operations, TLC

=============================================================================
