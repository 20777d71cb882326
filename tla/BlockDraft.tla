----------------------------- MODULE BlockDraft -----------------------------
(***************************************************************************)
(* The block drafters (deepspec/eval/myspec and deepspec/eval/dspark) run  *)
(* as the callbacks of the decoding loop.  They keep a draft KV cache of   *)
(* target hidden states, which the loop never sees: init_context creates   *)
(* it after the prefill, propose extends it by the hidden states of the    *)
(* last round and by the noise tokens of the block and crops the noise,    *)
(* update keeps the hidden states of the accepted tokens for the next      *)
(* round.  MySpec has latent layers before its mask layers, DSpark has     *)
(* mask layers only.                                                       *)
(*                                                                         *)
(* A target hidden state is the sequence of tokens it was computed from.   *)
(* A cache entry is a hidden state with the RoPE position it was given.    *)
(***************************************************************************)
EXTENDS SpecDecode

CONSTANTS
    NumLatentTokens,    \* model.num_latent_tokens of MySpec
    HasConfidenceHead   \* model.confidence_head is not None

\* The configurations draw few enough latent tokens for position_ids.
ASSUME LatentAssumption ==
    /\ NumLatentTokens \in 0..MaxProposalTokens + 2
    /\ HasConfidenceHead \in BOOLEAN

VARIABLES
    drafter,        \* the evaluator in use, which never changes
    latentCache,    \* the layers of past_key_values_draft with latent queries
    maskCache,      \* its layers with mask queries
    contextHidden   \* context.target_hidden_states

draftVars == <<drafter, latentCache, maskCache, contextHidden>>
blockVars == <<phase, prompt, outputIds, start, targetCache, proposal, verification,
               rounds, result, drafter, latentCache, maskCache, contextHidden>>

\* position_ids[:, from : to], a slice that ends where position_ids ends.
Positions(from, to) ==
    LET end == IF to < BufferLength THEN to ELSE BufferLength
    IN  [i \in 1..(IF end > from THEN end - from ELSE 0) |-> from + i - 1]

\* A noise token has no target hidden state.
Noise == <<>>
Entries(hidden, positions) ==
    [i \in 1..Len(positions) |->
        [hidden |-> IF i <= Len(hidden) THEN hidden[i] ELSE Noise, pos |-> positions[i]]]
NoiseEntries(positions) == Entries(<<>>, positions)

\* Mutant: the noise of the block stays in the cache.
UncroppedDraftCache(cache, context, noise) == cache \o context \o noise

\* What a layer keeps of a block: its old entries, the new context and the
\* noise, cropped to start.
DraftCacheAfter(cache, context, noise) == Crop(cache \o context \o noise, start)

-----------------------------------------------------------------------------
(* The callbacks. *)

BlockInit ==
    /\ Init
    /\ drafter \in {"myspec", "dspark"}
    /\ latentCache = <<>>
    /\ maskCache = <<>>
    /\ contextHidden = <<>>

\* _init_context: an empty draft cache and the hidden states of the prompt.
InitContext ==
    /\ latentCache' = <<>>
    /\ maskCache' = <<>>
    /\ contextHidden' = HiddenAfter(prompt, 0)
    /\ UNCHANGED drafter

\* forward_myspec_draft_block: get_seq_length() reads the first latent layer.
ForwardMySpecDraftBlock ==
    LET context == Entries(contextHidden, Positions(Len(latentCache), start))
        latent == NoiseEntries(Positions(start, start + NumLatentTokens))
        mask == NoiseEntries(Positions(start, start + MaxProposalTokens))
    IN  /\ drafter = "myspec"
        /\ latentCache' = DraftCacheAfter(latentCache, context, latent)
        /\ maskCache' = DraftCacheAfter(maskCache, context, latent \o mask)
        /\ UNCHANGED <<drafter, contextHidden>>

\* forward_dspark_draft_block: one slice of positions for context and block.
ForwardDSparkDraftBlock ==
    LET block == Entries(contextHidden, Positions(Len(maskCache), start + MaxProposalTokens))
    IN  /\ drafter = "dspark"
        /\ maskCache' = DraftCacheAfter(maskCache, block, <<>>)
        /\ UNCHANGED <<drafter, latentCache, contextHidden>>

\* _confident_prefix_length: the tokens before the first one below the threshold.
ConfidentPrefixLength(below) ==
    LET low == {i \in 1..MaxProposalTokens : below[i]}
    IN  IF low = {} THEN MaxProposalTokens ELSE Min(low) - 1

ProposalLengths ==
    IF HasConfidenceHead
    THEN {ConfidentPrefixLength(below) : below \in [1..MaxProposalTokens -> BOOLEAN]}
    ELSE {MaxProposalTokens}

\* build_myspec_proposal: the current token, then as many sampled tokens as the
\* confidence head trusts, each with the row it was sampled from.
BuildProposal(p) ==
    /\ p.ids[1] = outputIds[start + 1]
    /\ Len(p.probs) \in ProposalLengths
    /\ \A i \in 1..Len(p.probs) : p.probs[i][p.ids[i + 1]] > 0

\* Mutant: the hidden state of the last accepted token is dropped.
UpdateTooShort ==
    contextHidden' =
        SubSeq(HiddenAfter(targetCache, start), 1, verification.accepted)

\* _update: the hidden states of the current token and of the accepted tokens.
Update ==
    contextHidden' =
        SubSeq(HiddenAfter(targetCache, start), 1, verification.accepted + 1)

-----------------------------------------------------------------------------
(* The loop with these callbacks. *)

PrefillBlock ==
    /\ Prefill
    /\ IF phase' = "loop" THEN InitContext ELSE UNCHANGED draftVars

ProposeBlock ==
    \E p \in Proposals :
        /\ BuildProposal(p)
        /\ Propose(p)
        /\ ForwardMySpecDraftBlock \/ ForwardDSparkDraftBlock

VerifyBlock == Verify /\ UNCHANGED draftVars

CommitBlock ==
    /\ Commit
    /\ IF verification.terminated THEN UNCHANGED contextHidden ELSE Update
    /\ UNCHANGED <<drafter, latentCache, maskCache>>

FinishBlock == Finish /\ UNCHANGED draftVars

EndedBlock == phase = "done" /\ UNCHANGED blockVars

\* RejectProposal has no counterpart: DraftShapesMatch shows that a block
\* drafter never makes verify_draft_tokens raise.
BlockNext ==
    PrefillBlock \/ ProposeBlock \/ VerifyBlock \/ CommitBlock \/ FinishBlock \/ EndedBlock

BlockSpec == BlockInit /\ [][BlockNext]_blockVars

-----------------------------------------------------------------------------
(* Properties. *)

\* The hidden states of the first n committed tokens, each at its own position.
CommittedContext(n) ==
    [i \in 1..n |-> [hidden |-> SubSeq(outputIds, 1, i), pos |-> i - 1]]

\* What the drafter attends to: in every layer, the cached entries and the
\* hidden states of the last round are exactly the target's hidden states of
\* the committed tokens before the current one, in order and each at its own
\* position; no noise token and no rejected token of an earlier round is among
\* them (crop(start) in forward_myspec_draft_block, the slice in _update).
DraftSeesCommitted ==
    phase = "loop" =>
        /\ maskCache = CommittedContext(Len(maskCache))
        /\ drafter = "myspec" => latentCache = maskCache
        /\ contextHidden = [i \in 1..start - Len(maskCache) |->
                               SubSeq(outputIds, 1, Len(maskCache) + i)]

\* The assertion at the head of forward_myspec_draft_block holds, and the
\* position slices have the lengths of the tensors they are applied to, the
\* last round included: RoPE would otherwise fail on unequal lengths.  The
\* proposals, empty ones included, never make verify_draft_tokens raise: they
\* are short enough and start with the current token.
DraftShapesMatch ==
    /\ phase = "loop" /\ start < MaxLength =>
        /\ Len(latentCache) <= start /\ Len(maskCache) <= start
        /\ drafter = "myspec" =>
              /\ Len(Positions(Len(latentCache), start)) = Len(contextHidden)
              /\ Len(Positions(start, start + NumLatentTokens)) = NumLatentTokens
              /\ Len(Positions(start, start + MaxProposalTokens)) = MaxProposalTokens
        /\ drafter = "dspark" =>
              Len(Positions(Len(maskCache), start + MaxProposalTokens)) =
                  Len(contextHidden) + MaxProposalTokens
    /\ phase = "verify" => ~InvalidProposal

=============================================================================
