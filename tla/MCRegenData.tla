----------------------------- MODULE MCRegenData -----------------------------
(* RegenData for TLC. *)
EXTENDS RegenData
=============================================================================
