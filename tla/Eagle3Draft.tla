----------------------------- MODULE Eagle3Draft ----------------------------
(***************************************************************************)
(* The autoregressive drafter of deepspec/eval/eagle3/evaluator.py as the  *)
(* callbacks of the decoding loop.  Its KV cache has one entry for each    *)
(* committed token: the target's hidden state at a position, paired with   *)
(* the token after it.  A proposal extends the cache with entries computed *)
(* from the drafter's own hidden states; update crops them and extends the *)
(* cache with the target's.                                                *)
(*                                                                         *)
(* A hidden state of the target is the sequence of tokens it was computed  *)
(* from; a hidden state of the drafter is the cache it was computed on.    *)
(***************************************************************************)
EXTENDS SpecDecode

VARIABLES
    draftCache,     \* context.draft_cache
    draftHidden,    \* context.draft_hidden, as the cache it was computed on
    currentPos,     \* context.current_pos
    cacheLenBefore  \* context.cache_len_before

eagleOnly == <<draftCache, draftHidden, currentPos, cacheLenBefore>>
eagleVars == <<phase, prompt, outputIds, start, targetCache, proposal, verification,
               rounds, result, draftCache, draftHidden, currentPos, cacheLenBefore>>

\* The drafter's own hidden states are not the target's.
Own == <<>>

\* extend_draft_cache: an entry is a hidden state, the token fused with it and
\* the RoPE position; the i-th hidden state goes with the i-th token, at
\* positions from pos on.
ExtendDraftCache(cache, hidden, tokens, pos) ==
    cache \o [i \in 1..Len(tokens) |->
                 [hidden |-> hidden[i], token |-> tokens[i], pos |-> pos + i - 1]]

EagleInit ==
    /\ Init
    /\ draftCache = <<>>
    /\ draftHidden = <<>>
    /\ currentPos = 0
    /\ cacheLenBefore = 0

\* _init_context: hidden state i of the prompt is paired with token i + 1, the
\* last one with the first sampled token.
EagleInitContext ==
    /\ draftCache' = ExtendDraftCache(<<>>, HiddenAfter(prompt, 0),
                                      SubSeq(outputIds', 2, NumInputTokens + 1), 0)
    /\ draftHidden' = draftCache'
    /\ currentPos' = NumInputTokens
    /\ cacheLenBefore' = 0

\* The draft tokens that were run through the drafter: all of them, unless the
\* last one is a stop token, which ends the loop before the forward pass.
Extended(tokens) ==
    IF tokens # <<>> /\ tokens[Len(tokens)] \in StopTokens
    THEN SubSeq(tokens, 1, Len(tokens) - 1)
    ELSE tokens

\* The loop of _propose: tokens are sampled one after the other until
\* max_proposal_tokens of them are drawn or a stop token is.
DraftsFrom(p, tokens) ==
    /\ p.ids[1] = outputIds[start + 1]
    /\ \A i \in 1..Len(tokens) : p.probs[i][tokens[i]] > 0
    /\ \A i \in 1..Len(tokens) - 1 : tokens[i] \notin StopTokens
    /\ \/ Len(tokens) = MaxProposalTokens
       \/ Len(tokens) \in 1..MaxProposalTokens - 1 /\ tokens[Len(tokens)] \in StopTokens

\* Mutant: the length is read after the proposal extended the cache.
LengthAfterProposal(tokens) == Len(draftCache) + Len(Extended(tokens))

\* cache_len_before = draft_cache.get_seq_length(), before the first token.
LengthBeforeProposal(tokens) == Len(draftCache)

\* _propose: the tokens extend the cache as they are drawn.
EaglePropose(p) ==
    LET tokens == SubSeq(p.ids, 2, Len(p.ids))
        own == [i \in 1..Len(tokens) |-> Own]
    IN  /\ DraftsFrom(p, tokens)
        /\ cacheLenBefore' = LengthBeforeProposal(tokens)
        /\ draftCache' = ExtendDraftCache(draftCache, own, Extended(tokens), start)
        /\ UNCHANGED <<draftHidden, currentPos>>

\* Mutant: the entries of accepted draft tokens are kept as they are.
KeepAcceptedLength == cacheLenBefore + verification.accepted

\* draft_cache.crop(cache_len_before)
CroppedLength == cacheLenBefore

\* _update: every draft entry goes, and the committed tokens come in with the
\* target's hidden states before them.
EagleUpdate ==
    LET v == verification
        committed == Append(SubSeq(proposal.ids, 2, v.accepted + 1), v.next)
        hidden == HiddenAfter(targetCache, start)
    IN  /\ draftCache' = ExtendDraftCache(Crop(draftCache, CroppedLength), hidden,
                                          committed, currentPos)
        /\ draftHidden' = draftCache'
        /\ currentPos' = currentPos + Len(committed)
        /\ UNCHANGED cacheLenBefore

-----------------------------------------------------------------------------
(* The loop with these callbacks. *)

PrefillEagle ==
    /\ Prefill
    /\ IF phase' = "loop" THEN EagleInitContext ELSE UNCHANGED eagleOnly

ProposeEagle == \E p \in Proposals : Propose(p) /\ EaglePropose(p)

VerifyEagle == Verify /\ UNCHANGED eagleOnly

CommitEagle ==
    /\ Commit
    /\ IF verification.terminated THEN UNCHANGED eagleOnly ELSE EagleUpdate

FinishEagle == Finish /\ UNCHANGED eagleOnly

EndedEagle == phase = "done" /\ UNCHANGED eagleVars

\* RejectProposal has no counterpart: ProposalIsUndoable shows that this
\* drafter never makes verify_draft_tokens raise.
EagleNext ==
    PrefillEagle \/ ProposeEagle \/ VerifyEagle \/ CommitEagle \/ FinishEagle \/ EndedEagle

EagleSpec == EagleInit /\ [][EagleNext]_eagleVars

-----------------------------------------------------------------------------
(* Properties. *)

\* The pairing the drafter was trained with: entry i is the target's hidden
\* state of the first i committed tokens, fused with committed token i + 1, at
\* position i - 1.
TrainedPairing(n) ==
    [i \in 1..n |-> [hidden |-> SubSeq(outputIds, 1, i), token |-> outputIds[i + 1],
                     pos |-> i - 1]]

\* Between rounds the draft cache is the one the training comment in
\* _init_context describes, for exactly the committed tokens: no entry of a
\* rejected or self-drafted token is left, and the hidden state the next
\* proposal starts from was computed on that very cache.
DraftCacheAsTrained ==
    phase = "loop" =>
        /\ draftCache = TrainedPairing(start)
        /\ draftHidden = draftCache
        /\ currentPos = start

\* While a proposal is in flight, the cache still begins with the committed
\* entries and cache_len_before marks where the draft entries begin, so that
\* update can undo the proposal; draft entries are given the positions that
\* follow the committed ones, and verify_draft_tokens never raises.
ProposalIsUndoable ==
    /\ phase \in {"verify", "commit"} =>
        /\ cacheLenBefore = start
        /\ SubSeq(draftCache, 1, start) = TrainedPairing(start)
        /\ \A i \in start + 1..Len(draftCache) : draftCache[i].pos = i - 1
    /\ phase = "verify" => ~InvalidProposal

=============================================================================
