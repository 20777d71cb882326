------------------------------ MODULE MCServe ------------------------------
(***************************************************************************)
(* One request under speculative decode, for TLC: the KV that the host     *)
(* reserves for it, and the draft KV that the LatentSpec drafter keeps in  *)
(* its slots.  The two share no variable: the initial state chooses the    *)
(* one that moves.                                                         *)
(***************************************************************************)
EXTENDS SpecReserve, LatentServe

VARIABLE part    \* the part that moves

ServeInit ==
  /\ part \in {"reserve", "latent"}
  /\ ReserveInit /\ (part = "latent" => comm = 1)
  /\ Init

ServeNext ==
  \/ part = "reserve" /\ ReserveNext /\ UNCHANGED <<part, vars>>
  \/ part = "latent" /\ Next /\ UNCHANGED <<part, reserveVars>>

ServeSpec == ServeInit /\ [][ServeNext]_<<part, reserveVars, vars>>

=============================================================================
