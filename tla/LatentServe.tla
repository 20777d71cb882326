----------------------------- MODULE LatentServe -----------------------------
(***************************************************************************)
(* The LatentSpec drafter inside the serving engine: the draft KV of one   *)
(* request's row, layer by layer.  The drafter has two stacks of layers.   *)
(* The latent layers read the committed context.  Their output becomes the *)
(* latent keys of every proposal layer, which are stored in the first      *)
(* slots of the block that the target is about to verify, and there the    *)
(* proposal layers read them as if they were context.  Verification        *)
(* rebuilds only the rows it commits, so that what a rejected row holds is *)
(* left for later rounds, and for later owners of the slots.               *)
(*                                                                         *)
(* An entry is named by its kind, by the forward pass of the target it was *)
(* computed from (or is computed for), and by its RoPE position.           *)
(***************************************************************************)
EXTENDS Integers

CONSTANTS
  num_latent_tokens,
  proposal_size,         \* block_size of the checkpoint
  num_latent_layers,
  num_proposal_layers,
  RowLength,             \* the slots of the row
  MaxRound               \* bound: forward passes of the target

\* The latent slots are taken from the block (cache_locs[:, :num_latent_tokens]).
ASSUME LayoutAssumption ==
  /\ proposal_size \in Nat \ {0}
  /\ num_latent_tokens \in 1..proposal_size
  /\ num_latent_layers \in Nat
  /\ num_proposal_layers \in Nat \ {0}
  /\ RowLength \in Nat /\ MaxRound \in Nat

VARIABLES
  stage,    \* where the worker is
  layer,    \* the layer it runs, when it drafts
  seqLen,   \* the published sequence length
  commit,   \* commit_lens of the verification that is being appended
  round,    \* the forward passes of the target so far
  origin,   \* history: the forward pass that committed each position
  kv        \* the draft pool: per layer, what each slot of the row holds

vars == <<stage, layer, seqLen, commit, round, origin, kv>>

-----------------------------------------------------------------------------
Slots == 0..RowLength - 1
Layers == 1..num_latent_layers + num_proposal_layers

\* prediction_hidden_start is zero: the anchor and one token per proposal row.
verify_size == proposal_size + 1

\* Left by the previous owner of the slot.
Leftover == [kind |-> "leftover", round |-> 0, pos |-> 0]

\* The key of the target's hidden state at p, as forward pass r computed it.
Context(r, p) == [kind |-> "context", round |-> r, pos |-> p]

\* The latent key at position p of the draft for forward pass r.
Latent(r, p) == [kind |-> "latent", round |-> r, pos |-> p]

\* _append_target_hidden_to_draft_kv_by_loc: n rows from slot from on, in every
\* layer.  A fused attempt that fails is repeated here for all layers.
Materialize(from, n, r) ==
  [k \in Layers |-> [p \in Slots |->
     IF from <= p /\ p < from + n THEN Context(r, p) ELSE kv[k][p]]]

-----------------------------------------------------------------------------
\* A new row.
Init ==
  /\ stage = "extend" /\ layer = 0 /\ seqLen = 0 /\ commit = 0 /\ round = 0
  /\ origin = [p \in Slots |-> 0]
  /\ kv = [k \in Layers |-> [p \in Slots |-> Leftover]]

\* forward_batch_generation, extend: a prefill or a chunk of one, of n tokens.
Extend(n) ==
  /\ stage = "extend" /\ round < MaxRound /\ seqLen + n <= RowLength
  /\ seqLen' = seqLen + n
  /\ round' = round + 1
  /\ origin' = [p \in Slots |-> IF seqLen <= p /\ p < seqLen + n THEN round + 1 ELSE origin[p]]
  /\ kv' = Materialize(seqLen, n, round + 1)
  /\ UNCHANGED <<stage, layer, commit>>

\* The request is retracted, or ends and another one with the same beginning is
\* given its slots: n tokens are matched in the radix cache, and nothing clears
\* the slots after them.
Rematch(n) ==
  /\ stage \in {"extend", "decode"} /\ n < seqLen
  /\ seqLen' = n
  /\ stage' = "extend"
  /\ UNCHANGED <<layer, commit, round, origin, kv>>

\* forward_batch_generation, decode: the block lies inside the row.
StartDraft ==
  /\ stage \in {"extend", "decode"} /\ seqLen > 0 /\ round < MaxRound
  /\ seqLen + verify_size <= RowLength
  /\ stage' = IF num_latent_layers = 0 THEN "write" ELSE "latent"
  /\ layer' = 1
  /\ UNCHANGED <<seqLen, commit, round, origin, kv>>

\* A latent layer: its own rows are not stored (save_kv_cache=False).
RunLatentLayer ==
  /\ stage = "latent"
  /\ layer' = layer + 1
  /\ stage' = IF layer < num_latent_layers THEN "latent" ELSE "write"
  /\ UNCHANGED <<seqLen, commit, round, origin, kv>>

\* _write_latent_kv: into the first slots of the block, of this layer only.
WriteLatentKV ==
  /\ stage = "write"
  /\ kv' = [k \in Layers |-> [p \in Slots |->
              IF k = layer /\ seqLen <= p /\ p < seqLen + num_latent_tokens
              THEN Latent(round + 1, p) ELSE kv[k][p]]]
  /\ stage' = "proposal"
  /\ UNCHANGED <<layer, seqLen, commit, round, origin>>

\* A proposal layer.
RunProposalLayer ==
  /\ stage = "proposal"
  /\ IF layer < num_latent_layers + num_proposal_layers
     THEN stage' = "write" /\ layer' = layer + 1
     ELSE stage' = "verify" /\ layer' = 0
  /\ UNCHANGED <<seqLen, commit, round, origin, kv>>

\* The target verifies the block and publishes the new length.
Verify(n) ==
  /\ stage = "verify"
  /\ round' = round + 1
  /\ seqLen' = seqLen + n
  /\ commit' = n
  /\ origin' = [p \in Slots |-> IF seqLen <= p /\ p < seqLen + n THEN round + 1 ELSE origin[p]]
  /\ stage' = "append"
  /\ UNCHANGED <<layer, kv>>

\* Mutant: the anchor's row is taken to be in the cache already.
AppendAccepted ==
  /\ stage = "append"
  /\ kv' = Materialize(seqLen - commit + 1, commit - 1, round)
  /\ stage' = "decode" /\ commit' = 0
  /\ UNCHANGED <<layer, seqLen, round, origin>>

\* The committed rows of the block become context in every layer.
AppendTargetHidden ==
  /\ stage = "append"
  /\ kv' = Materialize(seqLen - commit, commit, round)
  /\ stage' = "decode" /\ commit' = 0
  /\ UNCHANGED <<layer, seqLen, round, origin>>

Next ==
  \/ \E n \in 1..RowLength : Extend(n)
  \/ \E n \in 0..RowLength : Rematch(n)
  \/ StartDraft \/ RunLatentLayer \/ WriteLatentKV \/ RunProposalLayer
  \/ \E n \in 1..verify_size : Verify(n)
  \/ AppendTargetHidden

Spec == Init /\ [][Next]_vars

-----------------------------------------------------------------------------
\* _build_latentspec_stage_metadata: the cached keys that the stage reads.
PrefixLen == IF stage = "proposal" THEN seqLen + num_latent_tokens ELSE seqLen
Attended == [p \in 0..PrefixLen - 1 |-> kv[layer][p]]

\* What the checkpoint was trained to read, and what the reference evaluator
\* (forward_myspec_draft_block) gives it: the context of all committed tokens at
\* their positions; in a proposal layer then the latent keys of this draft, at
\* the positions of the first tokens of the block.
Trained ==
  IF stage = "proposal"
  THEN [p \in 0..seqLen + num_latent_tokens - 1 |->
          IF p < seqLen THEN Context(origin[p], p) ELSE Latent(round + 1, p)]
  ELSE [p \in 0..seqLen - 1 |-> Context(origin[p], p)]

\* Whenever a layer of either stage runs, the cached keys it reads are those it
\* was trained to read: no latent key of an earlier round, no rejected row and no
\* leftover of another request is among them, although _write_latent_kv stores
\* latent keys in slots that verification only partly rebuilds.
AttendsAsTrained == stage \in {"latent", "proposal"} => Attended = Trained

\* The inductive strengthening.  Every committed slot holds its context in every
\* layer, except that the rows of a verification that is being appended still
\* hold what the draft left there; and a layer that reads latent keys reads the
\* ones that were just written for it.
IInv ==
  /\ stage \in {"extend", "decode", "latent", "write", "proposal", "verify", "append"}
  /\ seqLen \in 0..RowLength /\ commit \in 0..seqLen /\ round \in Nat
  /\ stage # "append" => commit = 0
  /\ stage = "latent" => layer \in 1..num_latent_layers
  /\ stage \in {"write", "proposal"} =>
       layer \in num_latent_layers + 1..num_latent_layers + num_proposal_layers
  /\ stage \in {"latent", "write", "proposal", "verify"} => seqLen + verify_size <= RowLength
  /\ stage = "append" => \A p \in seqLen - commit..seqLen - 1 : origin[p] = round
  /\ \A k \in Layers : \A p \in 0..seqLen - commit - 1 : kv[k][p] = Context(origin[p], p)
  /\ stage = "proposal" =>
       \A p \in seqLen..seqLen + num_latent_tokens - 1 : kv[layer][p] = Latent(round + 1, p)

=============================================================================
