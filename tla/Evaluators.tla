----------------------------- MODULE Evaluators -----------------------------
(***************************************************************************)
(* eval.py picks the evaluator by the architecture of the draft model: the *)
(* decoding loop runs with the callbacks of a block drafter or with those  *)
(* of the autoregressive one.  A third choice is a drafter of which        *)
(* nothing is known.                                                       *)
(***************************************************************************)
EXTENDS BlockDraft, Eagle3Draft

VARIABLE loop    \* the evaluator, which never changes

allVars == <<eagleVars, draftVars, loop>>

LoopInit ==
    /\ BlockInit
    /\ EagleInit
    /\ loop \in {"any", "block", "eagle3"}
    /\ loop # "block" => drafter = "myspec"

\* The variables of the other evaluators keep their initial values.
AnyStep == loop = "any" /\ Next /\ UNCHANGED <<draftVars, eagleOnly, loop>>
BlockStep == loop = "block" /\ BlockNext /\ UNCHANGED <<eagleOnly, loop>>
EagleStep == loop = "eagle3" /\ EagleNext /\ UNCHANGED <<draftVars, loop>>

\* Whatever the drafter, the loop is one thread that never blocks.
LoopSpec ==
    /\ LoopInit
    /\ [][AnyStep \/ BlockStep \/ EagleStep]_allVars
    /\ WF_allVars(AnyStep \/ BlockStep \/ EagleStep)

-----------------------------------------------------------------------------
\* A block drafter sees the committed tokens: DraftSeesCommitted of BlockDraft,
\* about the crop in forward_myspec_draft_block and the slice in _update.
BlockSeesCommitted == loop = "block" => DraftSeesCommitted

\* The tensors of a block draft fit each other and its proposals are accepted:
\* DraftShapesMatch of BlockDraft, about forward_myspec_draft_block.
BlockShapesMatch == loop = "block" => DraftShapesMatch

\* The autoregressive drafter's cache between rounds is the one it was trained
\* with: DraftCacheAsTrained of Eagle3Draft, about _init_context and _update.
EagleCacheAsTrained == loop = "eagle3" => DraftCacheAsTrained

\* What a proposal added to that cache can be taken back: ProposalIsUndoable of
\* Eagle3Draft, about cache_len_before in _propose and _update.
EagleProposalUndoable == loop = "eagle3" => ProposalIsUndoable

=============================================================================
