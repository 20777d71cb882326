---------------------------- MODULE MCSpecDecode ----------------------------
(***************************************************************************)
(* The decoding loop for TLC, with any drafter at all, with the two block  *)
(* drafters and with the autoregressive one.  Three tokens, one of them a  *)
(* stop token, and a target model whose row depends on the whole context.  *)
(***************************************************************************)
EXTENDS Evaluators, SequencesExt

MCToken == 0..2
MCStopTokens == {2}
MCPrompts == {<<0>>, <<1, 0>>}

Row(a, b, c) == [t \in MCToken |-> IF t = 0 THEN a ELSE IF t = 1 THEN b ELSE c]
TargetRows == <<Row(2, 0, 0), Row(1, 1, 0), Row(0, 1, 1), Row(0, 2, 0), Row(1, 0, 1)>>
DraftRows == {Row(2, 0, 0), Row(1, 1, 0), Row(0, 0, 2)}
MCRows == {TargetRows[i] : i \in 1..5} \cup DraftRows

\* A context is hashed to a row, so that a missing, extra or reordered token
\* changes what the target would sample.
MCTargetProbs(ctx) == TargetRows[1 + FoldLeft(LAMBDA h, t : (3 * h + t + 1) % 5, 0, ctx)]

\* Every proposal of at most MaxProposalTokens tokens drawn from a draft row,
\* whatever its first token, and one that is too long.
Drawn(n) == {p \in [ids : [1..n + 1 -> MCToken], probs : [1..n -> DraftRows]] :
                \A i \in 1..n : p.probs[i][p.ids[i + 1]] > 0}
TooLong == [ids |-> [i \in 1..MaxProposalTokens + 2 |-> 0],
            probs |-> [i \in 1..MaxProposalTokens + 1 |-> Row(2, 0, 0)]]
MCProposals == {TooLong} \cup UNION {Drawn(n) : n \in 0..MaxProposalTokens}

=============================================================================
