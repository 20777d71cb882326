------------------------------ MODULE ARDecode ------------------------------
(***************************************************************************)
(* What a sample of generate_decoding_sample promises: the prompt followed *)
(* by tokens sampled from the target model, one after the other, up to the *)
(* first stop token or max_new_tokens of them.  Several tokens may appear  *)
(* in one step: how they were grouped into blocks is not visible.          *)
(***************************************************************************)
EXTENDS Integers, Sequences

CONSTANTS Token, StopTokens, Prompts, MaxNewTokens, TargetProbs(_)

VARIABLES prompt, out, finished

\* No token may follow a stop token or the last allowed one.
Complete(ids) ==
    \/ Len(ids) = Len(prompt) + MaxNewTokens
    \/ Len(ids) > Len(prompt) /\ ids[Len(ids)] \in StopTokens

Init ==
    /\ prompt \in Prompts
    /\ out = prompt
    /\ finished = FALSE

\* Append sampled tokens, each from the row of the tokens before it.
Sample ==
    /\ ~Complete(out)
    /\ Len(out') \in Len(out) + 1..Len(prompt) + MaxNewTokens
    /\ SubSeq(out', 1, Len(out)) = out
    /\ \A i \in Len(out) + 1..Len(out') :
          /\ TargetProbs(SubSeq(out', 1, i - 1))[out'[i]] > 0
          /\ i < Len(out') => out'[i] \notin StopTokens

\* Return the sample once nothing may follow.
Return == finished' /\ Complete(out')

Next ==
    /\ ~finished
    /\ prompt' = prompt
    /\ Sample \/ out' = out
    /\ Return \/ finished' = finished

Spec == Init /\ [][Next]_<<prompt, out, finished>>

=============================================================================
