----------------------------- MODULE SpecDecode -----------------------------
(***************************************************************************)
(* The speculative-decoding loop of deepspec/eval/base_evaluator.py: the   *)
(* drafter proposes a block of tokens, the target model scores the block   *)
(* in one forward pass over its KV cache, rejection sampling keeps a       *)
(* prefix, and the loop commits that prefix plus one token of the target.  *)
(*                                                                         *)
(* Probabilities are rows of integer weights: only which weights are zero  *)
(* and how two weights compare decides what the sampler may return.        *)
(* A KV cache is the sequence of tokens its entries were computed from, so *)
(* a forward pass over a cache that was not cropped scores the wrong       *)
(* context.  Index i of the code is index i + 1 here.                      *)
(***************************************************************************)
EXTENDS Integers, Sequences, FiniteSetsExt

CONSTANTS
    Token,              \* the vocabulary
    StopTokens,         \* resolve_stop_token_ids; {} stands for None
    Prompts,            \* the prompts, non-empty sequences of tokens
    MaxPromptLen,       \* length of the longest of them
    MaxNewTokens,       \* args.max_new_tokens
    MaxProposalTokens,  \* evaluator.max_proposal_tokens
    Rows,               \* the probability rows, functions from Token to weights
    TargetProbs(_),     \* the row the target model returns after a context
    Proposals,          \* the blocks an arbitrary drafter may propose
    Unwritten           \* what torch.empty leaves in a slot nobody wrote

\* The longest context the target model is ever asked about.
MaxContext == MaxPromptLen + MaxNewTokens + MaxProposalTokens + 1

ASSUME SizeAssumption ==
    /\ MaxPromptLen \in Nat
    /\ MaxNewTokens \in Nat \ {0}
    /\ MaxProposalTokens \in Nat \ {0}

ASSUME TokenAssumption ==
    /\ StopTokens \subseteq Token
    /\ Unwritten \notin Token
    /\ \A p \in Prompts : p \in Seq(Token) /\ Len(p) \in 1..MaxPromptLen

ASSUME RowAssumption ==
    /\ \A row \in Rows : row \in [Token -> Nat]
    /\ \A n \in 1..MaxContext : \A ctx \in [1..n -> Token] : TargetProbs(ctx) \in Rows

\* A proposal: the current token and the draft tokens, and the row each draft
\* token was drawn from.
IsProposal(p) ==
    /\ p = [ids |-> p.ids, probs |-> p.probs]
    /\ p.ids \in Seq(Token)
    /\ p.probs \in Seq(Rows)
    /\ Len(p.ids) = Len(p.probs) + 1

ASSUME ProposalAssumption == \A p \in Proposals : IsProposal(p)

VARIABLES
    phase,         \* where generate_decoding_sample is
    prompt,        \* input_ids
    outputIds,     \* output_ids, the preallocated buffer
    start,         \* start: tokens whose KV entries are final
    targetCache,   \* past_key_values_target
    proposal,      \* the DraftProposal of this round
    verification,  \* the VerificationResult of this round
    rounds,        \* the three metric lists, one record per verification
    result         \* output_ids of the returned namespace

vars == <<phase, prompt, outputIds, start, targetCache, proposal, verification,
          rounds, result>>

NumInputTokens == Len(prompt)
MaxLength == NumInputTokens + MaxNewTokens
\* Mutant: one slot too few.
ShortBufferLength == MaxLength + MaxProposalTokens
BufferLength == MaxLength + MaxProposalTokens + 1

-----------------------------------------------------------------------------
(* Sampling: what deepspec/utils/sampling.py may return. *)

\* sample_from_probs: a multinomial draw returns a token of non-zero weight.
Support(row) == {t \in Token : row[t] > 0}

\* Mutant: the residual of the draft over the target.
SwappedResidualSupport(target, draft) ==
    LET residual == {t \in Token : draft[t] - target[t] > 0}
    IN  IF residual = {} THEN Support(target) ELSE residual

\* sample_residual: the tokens the target weighs more than the draft does, or,
\* when there is no such mass, the tokens of the target row.
ResidualSupport(target, draft) ==
    LET residual == {t \in Token : target[t] - draft[t] > 0}
    IN  IF residual = {} THEN Support(target) ELSE residual

\* torch.rand < min(1, p / q): a draw in [0, 1) may accept when p > 0, and
\* may reject when p < q, q being clamped to a small positive number.
MayAccept(target, t) == target[t] > 0
MayReject(target, draft, t) == target[t] < draft[t] \/ target[t] = 0

\* trim_output_ids: cut after the first stop token past the prompt.
FirstStop(ids, from) ==
    LET hits == {i \in from..Len(ids) : ids[i] \in StopTokens}
    IN  IF hits = {} THEN Len(ids) ELSE Min(hits)

TrimOutputIds(ids) == SubSeq(ids, 1, FirstStop(ids, NumInputTokens + 1))

\* DynamicCache.crop(n): keep the first n entries.
Crop(cache, n) == IF n < Len(cache) THEN SubSeq(cache, 1, n) ELSE cache

-----------------------------------------------------------------------------
(* Verification of one proposal. *)

DraftTokenCount == Len(proposal.ids) - 1

\* target_probs[:, i - 1, :]: the row after the cache and i verified tokens.
TargetRow(i) == TargetProbs(targetCache \o SubSeq(proposal.ids, 1, i))

\* accept_prefix_mask.sum(): the number of leading accepted draft tokens may
\* be a.
MayAcceptPrefix(a) ==
    /\ \A i \in 1..a : MayAccept(TargetRow(i), proposal.ids[i + 1])
    /\ a < DraftTokenCount =>
          MayReject(TargetRow(a + 1), proposal.probs[a + 1], proposal.ids[a + 2])

\* An accepted stop token ends the accepted prefix.
StopHits(a) == {i \in 1..a : proposal.ids[i + 1] \in StopTokens}
CutAtStop(a) == IF StopHits(a) = {} THEN a ELSE Min(StopHits(a))

\* Mutant: the row before the first rejected position.
EarlyNextTokenSupport(a) ==
    IF a < DraftTokenCount
    THEN ResidualSupport(TargetRow(a), proposal.probs[a + 1])
    ELSE Support(TargetRow(DraftTokenCount + 1))

\* What next_token is drawn from once a draft tokens are accepted.
NextTokenSupport(a) ==
    IF a < DraftTokenCount
    THEN ResidualSupport(TargetRow(a + 1), proposal.probs[a + 1])
    ELSE Support(TargetRow(DraftTokenCount + 1))

\* target_hidden_states of a forward pass that leaves the target cache as ids: one
\* for each position from k + 1 on, named by the tokens it was computed from.
HiddenAfter(ids, k) == [i \in 1..Len(ids) - k |-> SubSeq(ids, 1, k + i)]

-----------------------------------------------------------------------------
(* The decoding loop. *)

NoProposal == [ids |-> <<>>, probs |-> <<>>]
NoVerification == [accepted |-> 0, next |-> Unwritten, effective |-> 0,
                   terminated |-> FALSE]

Init ==
    /\ phase = "prefill"
    /\ prompt \in Prompts
    /\ outputIds = [i \in 1..BufferLength |-> Unwritten]
    /\ start = 0
    /\ targetCache = <<>>
    /\ proposal = NoProposal
    /\ verification = NoVerification
    /\ rounds = <<>>
    /\ result = <<>>

\* The prompt forward pass, the first sampled token, and the early return when
\* that token is a stop token.
Prefill ==
    /\ phase = "prefill"
    /\ targetCache' = prompt
    /\ start' = NumInputTokens
    /\ \E t \in Support(TargetProbs(prompt)) :
          /\ outputIds' = [i \in 1..BufferLength |->
                              IF i <= NumInputTokens THEN prompt[i]
                              ELSE IF i = NumInputTokens + 1 THEN t ELSE Unwritten]
          /\ IF t \in StopTokens
             THEN /\ phase' = "done"
                  /\ result' = TrimOutputIds(Append(prompt, t))
             ELSE /\ phase' = "loop"
                  /\ UNCHANGED result
    /\ UNCHANGED <<prompt, proposal, verification, rounds>>

\* The loop head and the propose callback, which returned p.
Propose(p) ==
    /\ phase = "loop"
    /\ start < MaxLength
    /\ proposal' = p
    /\ phase' = "verify"
    /\ UNCHANGED <<prompt, outputIds, start, targetCache, verification, rounds, result>>

\* The two ValueErrors of verify_draft_tokens.
InvalidProposal ==
    \/ DraftTokenCount > MaxProposalTokens
    \/ proposal.ids[1] # outputIds[start + 1]

\* Mutant: the drafter is asked again instead of the exception being raised.
RetryProposal ==
    /\ phase = "verify"
    /\ InvalidProposal
    /\ phase' = "loop"
    /\ UNCHANGED <<prompt, outputIds, start, targetCache, proposal, verification,
                   rounds, result>>

RejectProposal ==
    /\ phase = "verify"
    /\ InvalidProposal
    /\ phase' = "raised"
    /\ UNCHANGED <<prompt, outputIds, start, targetCache, proposal, verification,
                   rounds, result>>

\* verify_draft_tokens: the target forward pass extends the cache by the whole
\* block, rejection sampling keeps a tokens, an accepted stop token shortens
\* them, and next_token is drawn at the first position that is left.
Verify ==
    /\ phase = "verify"
    /\ ~InvalidProposal
    /\ targetCache' = targetCache \o proposal.ids
    /\ \E a \in 0..DraftTokenCount :
          /\ MayAcceptPrefix(a)
          /\ \E t \in NextTokenSupport(CutAtStop(a)) :
                verification' = [accepted |-> CutAtStop(a),
                                 next |-> t,
                                 effective |-> IF StopHits(a) = {} THEN DraftTokenCount
                                               ELSE CutAtStop(a),
                                 terminated |-> StopHits(a) # {}]
    /\ phase' = "commit"
    /\ UNCHANGED <<prompt, outputIds, start, proposal, rounds, result>>

\* output_ids[start : start + accepted + 1] = verify_input_ids[: accepted + 1],
\* followed by next_token unless an accepted stop token ends the sample.
WriteAccepted(ids, v) ==
    [i \in 1..Len(ids) |->
        IF i \in start + 1..start + v.accepted + 1 THEN proposal.ids[i - start]
        ELSE IF i = start + v.accepted + 2 /\ ~v.terminated THEN v.next
        ELSE ids[i]]

\* acceptance_lengths.append(...) and start += ...
Advance(v) == IF v.terminated THEN v.accepted ELSE v.accepted + 1

\* Mutant: one rejected entry stays in the cache.
LooselyKeptCache(v) == Crop(targetCache, start + v.accepted + 2)

\* past_key_values_target.crop(start) after start moved.
KeptCache(v) == Crop(targetCache, start + Advance(v))

\* Mutant: next_token is counted even when a stop token ended the block.
OvercountedRound(v) ==
    [acceptance |-> v.accepted + 1, proposed |-> v.effective, accepted |-> v.accepted]

\* What a round appends to the three metric lists.
RoundMetrics(v) ==
    [acceptance |-> Advance(v), proposed |-> v.effective, accepted |-> v.accepted]

\* The rest of the loop body: metric lists, buffer writes, the new start, the
\* cache crop, and the two ways out of the loop.
Commit ==
    /\ phase = "commit"
    /\ LET v == verification
           newStart == start + Advance(v)
           written == WriteAccepted(outputIds, v)
       IN  /\ rounds' = Append(rounds, RoundMetrics(v))
           /\ outputIds' = written
           /\ start' = newStart
           /\ targetCache' = KeptCache(v)
           /\ phase' = IF \/ v.terminated
                          \/ \E i \in start + 2..start + v.accepted + 2 :
                                written[i] \in StopTokens
                       THEN "stopped" ELSE "loop"
    /\ UNCHANGED <<prompt, proposal, verification, result>>

\* Leaving the loop: truncate to max_length, then trim at the stop token.
Finish ==
    /\ \/ phase = "stopped"
       \/ phase = "loop" /\ start >= MaxLength
    /\ result' = LET last == IF start + 1 < MaxLength THEN start + 1 ELSE MaxLength
                 IN  TrimOutputIds(SubSeq(outputIds, 1, last))
    /\ phase' = "done"
    /\ UNCHANGED <<prompt, outputIds, start, targetCache, proposal, verification, rounds>>

\* Everything the loop does apart from the propose callback.
LoopStep == Prefill \/ RejectProposal \/ Verify \/ Commit \/ Finish

\* The propose callback of an arbitrary drafter.
ProposeAny == \E p \in Proposals : Propose(p)

\* The sample is returned, or an exception left the loop.
Ended == phase \in {"done", "raised"} /\ UNCHANGED vars

Next == LoopStep \/ ProposeAny \/ Ended

Spec == Init /\ [][Next]_vars

\* The loop is one thread that never blocks.
FairSpec == Spec /\ WF_vars(LoopStep \/ ProposeAny)

-----------------------------------------------------------------------------
(* Properties. *)

\* Types; a start beyond the buffer, or an Unwritten slot in what is returned,
\* would be an index error or garbage in the code.
TypeOK ==
    /\ phase \in {"prefill", "loop", "verify", "commit", "stopped", "done", "raised"}
    /\ prompt \in Prompts
    /\ outputIds \in [1..BufferLength -> Token \cup {Unwritten}]
    /\ start \in 0..MaxLength + MaxProposalTokens
    /\ targetCache \in Seq(Token)
    /\ phase \in {"verify", "commit"} => IsProposal(proposal)
    /\ verification \in [accepted : 0..MaxProposalTokens,
                         next : Token \cup {Unwritten},
                         effective : 0..MaxProposalTokens,
                         terminated : BOOLEAN]
    /\ rounds \in Seq([acceptance : 0..MaxProposalTokens + 1,
                       proposed : 0..MaxProposalTokens,
                       accepted : 0..MaxProposalTokens])
    /\ result \in Seq(Token)

\* The tokens of the sample so far, prompt included.
Committed == SubSeq(outputIds, 1, start + 1)

\* A sequence only holds tokens that the target model itself could have
\* sampled, one after the other, behind its first n tokens.
TargetCouldSample(ids, n) ==
    \A i \in n + 1..Len(ids) : TargetProbs(SubSeq(ids, 1, i - 1))[ids[i]] > 0

\* Losslessness: whatever the drafter proposes, every token of the buffer up
\* to and including the current one is one that plain sampling from the target
\* model could produce after exactly the tokens that stand before it
\* (verify_draft_tokens with sample_residual, and the loop that commits).
Lossless ==
    phase # "prefill" => TargetCouldSample(Committed, NumInputTokens)

\* Between rounds the target KV cache holds exactly the committed tokens
\* before the current one: no rejected draft token survives the crop, and none
\* of the accepted ones is missing (past_key_values_target.crop(start)).
CacheHoldsCommitted ==
    phase \in {"loop", "verify", "stopped", "done"} =>
        targetCache = SubSeq(outputIds, 1, start)

\* The buffer of max_length + max_proposal_tokens + 1 slots has room for the
\* accepted tokens and next_token of every round, the last one included.
CommitFitsBuffer ==
    phase = "commit" => start + verification.accepted + 2 <= BufferLength

\* What Verify establishes for Commit: the cache ends with the whole block, and
\* the kept prefix and next_token are tokens the target could sample in turn.
VerifiedBlock ==
    phase = "commit" =>
        LET context(i) == SubSeq(outputIds, 1, start) \o SubSeq(proposal.ids, 1, i)
            v == verification
        IN  /\ targetCache = SubSeq(outputIds, 1, start) \o proposal.ids
            /\ ~InvalidProposal
            /\ v.accepted <= v.effective /\ v.effective <= DraftTokenCount
            /\ v.next \in Token
            /\ \A i \in 1..v.accepted : TargetProbs(context(i))[proposal.ids[i + 1]] > 0
            /\ ~v.terminated => TargetProbs(context(v.accepted + 1))[v.next] > 0

\* Where start may be, and which slots of the buffer hold tokens.
StartWithinSample ==
    /\ phase = "prefill" => start = 0
    /\ phase # "prefill" => /\ start >= NumInputTokens
                            /\ \A i \in 1..start + 1 : outputIds[i] \in Token
    /\ phase \in {"verify", "commit"} => start < MaxLength

\* The inductive invariant behind Lossless: losslessness of the committed
\* tokens is kept by Commit only because the block in flight was scored over
\* a cache that holds exactly those tokens.
IInv ==
    /\ TypeOK
    /\ StartWithinSample
    /\ CacheHoldsCommitted
    /\ VerifiedBlock
    /\ Lossless

\* The sums of the first 0, 1, ... Len(list) acceptance lengths.
AcceptanceSums(list) ==
    LET sum[k \in 0..Len(list)] == IF k = 0 THEN 0 ELSE sum[k - 1] + list[k].acceptance
    IN  sum

\* Sum of the acceptance lengths, as allreduce_response_metrics adds them up.
AcceptanceSum == AcceptanceSums(rounds)[Len(rounds)]

\* The metric lists account for every token the loop advanced by, so the
\* reported acceptance length is tokens per target forward pass, and no round
\* accepts more than it proposed, so that verify_rate and the accept rate of
\* every position stay at most 1.
MetricsAccountForProgress ==
    /\ phase \in {"loop", "stopped"} => AcceptanceSum = start - NumInputTokens
    /\ \A i \in 1..Len(rounds) :
          /\ rounds[i].accepted <= rounds[i].proposed
          /\ rounds[i].acceptance <= rounds[i].proposed + 1

\* What a caller of generate_decoding_sample would get if the loop returned now.
SampleSoFar ==
    IF phase = "prefill" THEN prompt
    ELSE IF phase = "done" THEN result
    ELSE TrimOutputIds(SubSeq(outputIds, 1,
             IF start + 1 < MaxLength THEN start + 1 ELSE MaxLength))

\* Speculative decoding implements plain autoregressive sampling of the target
\* model: the sample so far only ever grows by tokens the target could sample,
\* and what generate_decoding_sample does return starts with the prompt, ends
\* at the first stop token or at max_new_tokens, and is complete.
AR == INSTANCE ARDecode WITH out <- SampleSoFar, finished <- phase = "done"

ImplementsAutoregressive == AR!Spec

\* Every sample is returned or refused: each round advances start.
SampleEnds == <>(phase \in {"done", "raised"})

=============================================================================
