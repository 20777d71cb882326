---------------------------- MODULE MCTargetCache ----------------------------
(* TargetCache for TLC. *)
EXTENDS TargetCache

\* Bytes per token: small, and no two offsets coincide by accident.
MCWidth == <<2, 1, 1, 3, 1>>
=============================================================================
