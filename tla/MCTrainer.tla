------------------------------ MODULE MCTrainer ------------------------------
(* Trainer for TLC. *)
EXTENDS Trainer
=============================================================================
