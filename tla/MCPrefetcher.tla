----------------------------- MODULE MCPrefetcher -----------------------------
(* Prefetcher for TLC. *)
EXTENDS Prefetcher
=============================================================================
