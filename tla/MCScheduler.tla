----------------------------- MODULE MCScheduler -----------------------------
(***************************************************************************)
(* Small instances of Scheduler for TLC.                                   *)
(***************************************************************************)
EXTENDS Scheduler

CONSTANTS reqA, reqB, reqC, reqD, reqE

\* A model whose next token depends on the number of tokens and on the last one;
\* garbage in, garbage out.
MCModel(s) ==
  IF s = <<>> THEN None ELSE IF Last(s) = None THEN None ELSE (Len(s) + Last(s)) % 2

MCReq == {reqA, reqB, reqC, reqD, reqE}

\* reqB is the second turn of reqA (its prompt and what the model answers to it), and
\* reqE of reqD; it is prefilled in chunks unless it finds those tokens in the cache.
\* reqC shares no page.
MCPrompt == (reqA :> <<0, 0>>) @@ (reqB :> <<0, 0, 0, 1>>) @@ (reqC :> <<1>>)
            @@ (reqD :> <<0, 0>>) @@ (reqE :> <<0, 0, 0, 1>>)

MCAskedNew == (reqA :> 5) @@ (reqB :> 5) @@ (reqC :> 1) @@ (reqD :> 7) @@ (reqE :> 3)

MCMayAbort == {reqB, reqE}

\* With and without speculation; in each a pool that two requests overrun.
MCSetups ==
  {[spec |-> FALSE, pages |-> 7, load |-> {reqA, reqB, reqC}],
   [spec |-> TRUE, pages |-> 6, load |-> {reqA, reqB, reqC}],
   [spec |-> TRUE, pages |-> 6, load |-> {reqD, reqE}]}

\* The longest prompt the intake accepts when two pages of 8 tokens are all there is.
MCLongPrompt == [r \in MCReq |-> IF r = reqD THEN [i \in 1..9 |-> 0] ELSE <<1>>]

MCTightSetups == {[spec |-> FALSE, pages |-> 2, load |-> {reqD, reqE}]}

=============================================================================
