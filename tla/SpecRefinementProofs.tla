------------------------ MODULE SpecRefinementProofs ------------------------
(* Speculative decoding implements autoregressive sampling, and its metric *)
(* lists describe what it did: proofs on top of the inductive invariant of *)
(* SpecDecodeProofs.                                                       *)
EXTENDS SpecDecodeProofs

-----------------------------------------------------------------------------
(* The metric lists. *)

\* The equations that the running sums of the first m acceptance lengths obey.
RunningSums(g, list, m) ==
    g = [k \in 0..m |-> IF k = 0 THEN 0 ELSE g[k - 1] + list[k].acceptance]

\* There are such sums, by the least m for which there would be none.
LEMMA SumsExist ==
    ASSUME NEW list, NEW m \in Nat
    PROVE  \E g : RunningSums(g, list, m)
  <1> DEFINE Bad == {j \in Nat : ~ \E g : RunningSums(g, list, j)}
  <1>1. SUFFICES ASSUME Bad # {} PROVE FALSE
    BY Zenon
  <1>2. PICK j \in Bad : \A i \in Bad : j <= i
    <2>1. Bad \subseteq Nat
      BY Zenon
    <2> HIDE DEF Bad
    <2> QED BY <1>1, <2>1, MinInSet, Zenon
  <1>3. j \in Nat /\ ~ \E g : RunningSums(g, list, j)
    BY <1>2, Zenon
  <1>4. CASE j = 0
    <2> DEFINE g == [k \in 0..0 |-> 0]
    <2>1. RunningSums(g, list, 0)
      BY DEF RunningSums
    <2> HIDE DEF g
    <2> QED BY <2>1, <1>3, <1>4, Zenon
  <1>5. CASE j # 0
    <2>1. j - 1 \in Nat /\ ~ (j <= j - 1)
      BY <1>3, <1>5
    <2>2. j - 1 \notin Bad
      BY <2>1, <1>2, Zenon
    <2>3. PICK g : RunningSums(g, list, j - 1)
      BY <2>1, <2>2, Zenon
    <2> DEFINE h == [k \in 0..j |-> IF k = j THEN g[j - 1] + list[j].acceptance ELSE g[k]]
    <2>4. ASSUME NEW k \in 0..j
          PROVE  h[k] = IF k = 0 THEN 0 ELSE h[k - 1] + list[k].acceptance
      <3>1. CASE k = j
        BY <3>1, <1>3, <1>5
      <3>2. CASE k # j
        <4>1. k \in 0..j - 1 /\ (k # 0 => k - 1 \in 0..j /\ k - 1 # j)
          BY <3>2, <1>3
        <4>2. g[k] = IF k = 0 THEN 0 ELSE g[k - 1] + list[k].acceptance
          BY <4>1, <2>3 DEF RunningSums
        <4> QED BY <4>1, <4>2, <3>2
      <3> QED BY <3>1, <3>2
    <2>5. h = [k \in 0..j |-> h[k]]
      OBVIOUS
    <2> HIDE DEF h
    <2>6. RunningSums(h, list, j)
      BY <2>4, <2>5, Zenon DEF RunningSums
    <2> QED BY <2>6, <1>3, Zenon
  <1> QED BY <1>4, <1>5

\* AcceptanceSums is one of them.
LEMMA SumsAreRunning ==
    ASSUME NEW list, Len(list) \in Nat
    PROVE  RunningSums(AcceptanceSums(list), list, Len(list))
  <1>1. PICK g : RunningSums(g, list, Len(list))
    BY SumsExist, Zenon
  <1> DEFINE P(f) == f = [k \in 0..Len(list) |->
                            IF k = 0 THEN 0 ELSE f[k - 1] + list[k].acceptance]
  <1>2. P(g)
    BY <1>1 DEF RunningSums
  <1>3. AcceptanceSums(list) = CHOOSE f : P(f)
    BY DEF AcceptanceSums
  <1> HIDE DEF P
  <1>4. P(AcceptanceSums(list))
    BY <1>2, <1>3, Zenon
  <1> QED BY <1>4 DEF P, RunningSums

\* Running sums over lists that agree are equal, by the least place where they
\* would differ.
LEMMA SumsAgree ==
    ASSUME NEW g, NEW h, NEW list, NEW longer, NEW m \in Nat, NEW l \in Nat, m <= l,
           RunningSums(g, list, m), RunningSums(h, longer, l),
           \A k \in 1..m : longer[k] = list[k]
    PROVE  \A k \in 0..m : h[k] = g[k]
  <1> DEFINE Bad == {k \in 0..m : h[k] # g[k]}
  <1>1. SUFFICES ASSUME Bad # {} PROVE FALSE
    BY Zenon
  <1>2. PICK j \in Bad : \A i \in Bad : j <= i
    <2>1. Bad \subseteq Nat
      OBVIOUS
    <2> HIDE DEF Bad
    <2> QED BY <1>1, <2>1, MinInSet, Zenon
  <1>3. j \in 0..m /\ h[j] # g[j]
    BY <1>2, Zenon
  <1>4. /\ g[j] = IF j = 0 THEN 0 ELSE g[j - 1] + list[j].acceptance
        /\ h[j] = IF j = 0 THEN 0 ELSE h[j - 1] + longer[j].acceptance
    BY <1>3 DEF RunningSums
  <1>5. j # 0
    BY <1>3, <1>4
  <1>6. j - 1 \in 0..m /\ ~ (j <= j - 1) /\ j \in 1..m
    BY <1>3, <1>5
  <1>7. h[j - 1] = g[j - 1]
    BY <1>2, <1>6
  <1> QED BY <1>3, <1>4, <1>5, <1>6, <1>7

\* Appending a round adds its acceptance length to the sum.
LEMMA SumOfAppend ==
    ASSUME NEW R, NEW list \in Seq(R), NEW r \in R
    PROVE  AcceptanceSums(Append(list, r))[Len(list) + 1] =
               AcceptanceSums(list)[Len(list)] + r.acceptance
  <1> DEFINE longer == Append(list, r)
             n == Len(list)
             g == AcceptanceSums(list)
             h == AcceptanceSums(longer)
  <1>1. /\ n \in Nat /\ Len(longer) = n + 1 /\ longer[n + 1] = r
        /\ \A k \in 1..n : longer[k] = list[k]
    BY LenProperties, AppendProperties
  <1> HIDE DEF longer, n
  <1>2. RunningSums(g, list, n)
    BY <1>1, SumsAreRunning DEF n
  <1>3. RunningSums(h, longer, n + 1)
    <2>1. Len(longer) \in Nat
      BY <1>1
    <2> QED BY <2>1, <1>1, SumsAreRunning
  <1> HIDE DEF g, h
  <1>4. h[n] = g[n]
    <2>1. \A k \in 0..n : h[k] = g[k]
      <3>1. n + 1 \in Nat /\ n <= n + 1
        BY <1>1
      <3> QED BY <3>1, <1>1, <1>2, <1>3, SumsAgree
    <2> QED BY <2>1, <1>1
  <1>5. h[n + 1] = h[n] + longer[n + 1].acceptance
    <2>1. n + 1 \in 0..n + 1 /\ n + 1 # 0 /\ (n + 1) - 1 = n
      BY <1>1
    <2> QED BY <2>1, <1>3 DEF RunningSums
  <1> QED BY <1>1, <1>4, <1>5 DEF g, h, longer, n

\* The sum of no rounds.
LEMMA SumOfNone == AcceptanceSums(<<>>)[0] = 0
  <1>1. Len(<<>>) = 0 /\ Len(<<>>) \in Nat
    OBVIOUS
  <1>2. RunningSums(AcceptanceSums(<<>>), <<>>, 0)
    BY <1>1, SumsAreRunning
  <1> QED BY <1>2 DEF RunningSums

\* The strengthening behind MetricsAccountForProgress: the sum follows start
\* while a proposal is in flight, too.
MetricsInv ==
    /\ phase = "prefill" => rounds = <<>>
    /\ phase \in {"loop", "verify", "commit", "stopped"} =>
          AcceptanceSum = start - NumInputTokens
    /\ \A i \in 1..Len(rounds) :
          /\ rounds[i].accepted <= rounds[i].proposed
          /\ rounds[i].acceptance <= rounds[i].proposed + 1

\* Every step keeps the metric lists in line with start.
LEMMA NextMetrics == IInv /\ MetricsInv /\ [Next]_vars => MetricsInv'
  <1> SUFFICES ASSUME IInv, MetricsInv, [Next]_vars PROVE MetricsInv'
    OBVIOUS
  <1>1. CASE Prefill
    <2>1. /\ phase = "prefill" /\ phase' \in {"loop", "done"} /\ rounds' = rounds
          /\ start' = Len(prompt) /\ prompt' = prompt
      BY <1>1 DEF Prefill, NumInputTokens
    <2>2. rounds = <<>> /\ Len(rounds) = 0
      BY <2>1 DEF MetricsInv
    <2>3. AcceptanceSum' = 0
      BY <2>1, <2>2, SumOfNone DEF AcceptanceSum
    <2>4. Len(prompt) \in Nat
      BY Sizes DEF IInv, NumInputTokens
    <2> QED BY <2>1, <2>2, <2>3, <2>4 DEF MetricsInv, NumInputTokens
  <1>2. CASE Commit
    <2> DEFINE v == verification
               R == [acceptance : 0..MaxProposalTokens + 1,
                     proposed : 0..MaxProposalTokens,
                     accepted : 0..MaxProposalTokens]
    <2>1. /\ phase = "commit" /\ phase' \in {"stopped", "loop"} /\ prompt' = prompt
          /\ rounds' = Append(rounds, RoundMetrics(v))
          /\ start' = start + Advance(v)
      BY <1>2 DEF Commit
    <2>2. /\ v.accepted \in 0..MaxProposalTokens
          /\ v.effective \in 0..MaxProposalTokens
          /\ v.terminated \in BOOLEAN
          /\ rounds \in Seq(R)
          /\ v.accepted <= v.effective
      BY <2>1, Zenon DEF IInv, TypeOK, VerifiedBlock
    <2>3. Advance(v) \in 0..v.accepted + 1 /\ MaxProposalTokens \in Nat
      BY <2>2, SizeAssumption DEF Advance
    <2>4. /\ RoundMetrics(v) \in R
          /\ RoundMetrics(v).acceptance = Advance(v)
          /\ RoundMetrics(v).accepted = v.accepted
          /\ RoundMetrics(v).proposed = v.effective
      BY <2>2, <2>3 DEF RoundMetrics
    <2> HIDE DEF R
    <2>5. /\ Len(rounds) \in Nat /\ Len(rounds') = Len(rounds) + 1
          /\ rounds'[Len(rounds) + 1] = RoundMetrics(v)
          /\ \A k \in 1..Len(rounds) : rounds'[k] = rounds[k]
      BY <2>1, <2>2, <2>4, LenProperties, AppendProperties
    <2>6. AcceptanceSum' = AcceptanceSum + Advance(v)
      <3>1. AcceptanceSums(Append(rounds, RoundMetrics(v)))[Len(rounds) + 1] =
                AcceptanceSums(rounds)[Len(rounds)] + RoundMetrics(v).acceptance
        BY <2>2, <2>4, SumOfAppend, Zenon
      <3> QED BY <3>1, <2>1, <2>4, <2>5 DEF AcceptanceSum
    <2>7. AcceptanceSum' = start' - NumInputTokens'
      <3>1. AcceptanceSum = start - NumInputTokens /\ NumInputTokens' = NumInputTokens
        BY <2>1 DEF MetricsInv, NumInputTokens
      <3>2. start \in Nat /\ NumInputTokens \in Nat /\ v.accepted \in Nat
        BY <2>2, <2>3, Sizes DEF IInv
      <3> QED BY <3>1, <3>2, <2>1, <2>3, <2>6
    <2>8. ASSUME NEW i \in 1..Len(rounds')
          PROVE  /\ rounds'[i].accepted <= rounds'[i].proposed
                 /\ rounds'[i].acceptance <= rounds'[i].proposed + 1
      <3>1. CASE i = Len(rounds) + 1
        BY <3>1, <2>2, <2>3, <2>4, <2>5
      <3>2. CASE i # Len(rounds) + 1
        <4>1. i \in 1..Len(rounds)
          BY <3>2, <2>5
        <4> QED BY <4>1, <2>5 DEF MetricsInv
      <3> QED BY <3>1, <3>2
    <2> QED BY <2>1, <2>7, <2>8 DEF MetricsInv
  <1>3. ASSUME rounds' = rounds, start' = start, prompt' = prompt,
               phase' # "prefill" \/ phase' = phase,
               phase' \in {"loop", "verify", "commit", "stopped"} =>
                   phase \in {"loop", "verify", "commit", "stopped"}
        PROVE  MetricsInv'
    BY <1>3 DEF MetricsInv, AcceptanceSum, NumInputTokens
  <1>4. CASE RejectProposal
    BY <1>3, <1>4 DEF RejectProposal
  <1>5. CASE Verify
    BY <1>3, <1>5 DEF Verify
  <1>6. CASE Finish
    BY <1>3, <1>6 DEF Finish
  <1>7. CASE ProposeAny
    BY <1>3, <1>7 DEF ProposeAny, Propose
  <1>8. CASE UNCHANGED vars
    BY <1>3, <1>8 DEF vars
  <1> QED BY <1>1, <1>2, <1>4, <1>5, <1>6, <1>7, <1>8 DEF Next, LoopStep, Ended

\* The acceptance lengths of a sample add up to the tokens its loop advanced
\* by, and no round accepts more than it proposed: the three metric lists of
\* generate_decoding_sample describe what the loop did.
THEOREM MetricsDescribeTheLoop == Spec => []MetricsAccountForProgress
  <1>1. Init => MetricsInv
    BY DEF Init, MetricsInv
  <1>2. MetricsInv => MetricsAccountForProgress
    BY DEF MetricsInv, MetricsAccountForProgress
  <1> QED BY <1>1, <1>2, NextMetrics, Inductive, PTL DEF Spec

-----------------------------------------------------------------------------
(* Refinement of autoregressive sampling. *)

\* trim_output_ids returns a prefix without a stop token before its end; when
\* it cuts something off, it does so behind a stop token of the response.
LEMMA TrimFacts ==
    ASSUME NEW ids \in Seq(Token), NumInputTokens \in Nat
    PROVE  LET r == TrimOutputIds(ids)
           IN  /\ r \in Seq(Token)
               /\ Len(r) \in Nat /\ Len(r) <= Len(ids)
               /\ \A i \in 1..Len(r) : r[i] = ids[i]
               /\ \A i \in NumInputTokens + 1..Len(r) - 1 : ids[i] \notin StopTokens
               /\ \A i \in NumInputTokens + 1..Len(ids) : ids[i] \in StopTokens => Len(r) <= i
               /\ Len(r) # Len(ids) =>
                     Len(r) > NumInputTokens /\ ids[Len(r)] \in StopTokens
  <1> DEFINE hits == {i \in NumInputTokens + 1..Len(ids) : ids[i] \in StopTokens}
             n == FirstStop(ids, NumInputTokens + 1)
             r == TrimOutputIds(ids)
  <1>1. Len(ids) \in Nat
    BY LenProperties
  <1>2. n = IF hits = {} THEN Len(ids) ELSE Min(hits)
    BY DEF FirstStop
  <1>3. hits # {} => Min(hits) \in hits /\ \A i \in hits : Min(hits) <= i
    <2>1. hits \subseteq Nat
      BY <1>1
    <2> QED BY <2>1, MinInSet, Zenon
  <1> HIDE DEF n
  <1>4. /\ n \in Nat /\ n <= Len(ids)
        /\ \A i \in hits : n <= i
        /\ n # Len(ids) => n \in hits
    <2>1. CASE hits = {}
      BY <2>1, <1>1, <1>2
    <2>2. CASE hits # {}
      BY <2>2, <1>1, <1>2, <1>3
    <2> QED BY <2>1, <2>2
  <1>5. \A i \in 1..n : ids[i] \in Token
    BY <1>1, <1>4, ElementOfSeq
  <1>6. r = SubSeq(ids, 1, n)
    BY DEF TrimOutputIds, n
  <1>7. r \in Seq(Token) /\ Len(r) = n /\ \A i \in 1..n : r[i] = ids[i]
    BY <1>4, <1>5, <1>6, WrittenPrefix
  <1>8. \A i \in NumInputTokens + 1..n - 1 : ids[i] \notin StopTokens
    BY <1>1, <1>4
  <1>9. \A i \in NumInputTokens + 1..Len(ids) : ids[i] \in StopTokens => n <= i
    BY <1>4
  <1>10. n # Len(ids) => n > NumInputTokens /\ ids[n] \in StopTokens
    BY <1>4
  <1> HIDE DEF r, hits
  <1>11. /\ r \in Seq(Token)
         /\ Len(r) \in Nat /\ Len(r) <= Len(ids)
         /\ \A i \in 1..Len(r) : r[i] = ids[i]
         /\ \A i \in NumInputTokens + 1..Len(r) - 1 : ids[i] \notin StopTokens
         /\ \A i \in NumInputTokens + 1..Len(ids) : ids[i] \in StopTokens => Len(r) <= i
         /\ Len(r) # Len(ids) => Len(r) > NumInputTokens /\ ids[Len(r)] \in StopTokens
    BY <1>4, <1>7, <1>8, <1>9, <1>10
  <1> QED BY <1>11 DEF r

\* Where stop tokens are: none is committed while the loop goes on, the cut of
\* verify_draft_tokens ends at one, and the loop stops behind one.
StopInv ==
    /\ phase \in {"loop", "verify", "commit"} =>
          \A i \in NumInputTokens + 1..start + 1 : outputIds[i] \notin StopTokens
    /\ phase = "commit" /\ verification.terminated =>
          /\ verification.accepted >= 1
          /\ proposal.ids[verification.accepted + 1] \in StopTokens
    /\ phase = "stopped" =>
          \E i \in NumInputTokens + 1..start + 1 : outputIds[i] \in StopTokens

\* How much of the buffer the loop would return.
Last == IF start + 1 < MaxLength THEN start + 1 ELSE MaxLength

\* What the loop writes in a round, and how far it advances.
LEMMA CommitWrites ==
    ASSUME IInv, StopInv, Commit
    PROVE  LET v == verification
           IN  /\ Advance(v) \in Nat /\ Advance(v) >= 1
               /\ start' = start + Advance(v) /\ prompt' = prompt
               /\ \A i \in 1..start + 1 : outputIds'[i] = outputIds[i]
               /\ \A i \in 1..start' + 1 : outputIds'[i] \in Token
               /\ phase' \in {"loop", "stopped"}
               /\ phase' = "loop" =>
                     \A i \in start + 2..start' + 1 : outputIds'[i] \notin StopTokens
               /\ phase' = "stopped" =>
                     \E i \in start + 2..start' + 1 : outputIds'[i] \in StopTokens
  <1> DEFINE v == verification
             ids == proposal.ids
             new == WriteAccepted(outputIds, v)
  <1>1. /\ phase = "commit" /\ start' = start + Advance(v) /\ prompt' = prompt
        /\ outputIds' = new
        /\ phase' = IF \/ v.terminated
                       \/ \E i \in start + 2..start + v.accepted + 2 : new[i] \in StopTokens
                    THEN "stopped" ELSE "loop"
    BY DEF Commit
  <1>2. /\ v.accepted \in 0..MaxProposalTokens /\ v.terminated \in BOOLEAN
        /\ start \in Nat /\ MaxProposalTokens \in Nat
        /\ BufferLength = MaxLength + MaxProposalTokens + 1 /\ MaxLength \in Nat
        /\ start < MaxLength
    BY <1>1, Sizes, SizeAssumption DEF IInv, TypeOK, StartWithinSample
  <1>3. /\ v.terminated => v.accepted >= 1 /\ ids[v.accepted + 1] \in StopTokens
        /\ ids[1] = outputIds[start + 1]
    BY <1>1 DEF StopInv, IInv, VerifiedBlock, InvalidProposal
  <1>4. /\ Advance(v) \in Nat /\ Advance(v) >= 1 /\ Advance(v) <= v.accepted + 1
        /\ v.terminated => Advance(v) = v.accepted
        /\ ~v.terminated => Advance(v) = v.accepted + 1
    BY <1>2, <1>3 DEF Advance
  <1>5. \A i \in 1..BufferLength :
            new[i] = IF i \in start + 1..start + v.accepted + 1 THEN ids[i - start]
                     ELSE IF i = start + v.accepted + 2 /\ ~v.terminated THEN v.next
                     ELSE outputIds[i]
    <2>1. Len(outputIds) = BufferLength
      BY <1>2 DEF IInv, TypeOK
    <2> QED BY <2>1 DEF WriteAccepted
  <1> HIDE DEF new
  <1>6. \A i \in 1..start + 1 : new[i] = outputIds[i]
    <2> SUFFICES ASSUME NEW i \in 1..start + 1 PROVE new[i] = outputIds[i]
      OBVIOUS
    <2>1. i \in 1..BufferLength
      BY <1>2
    <2>2. CASE i = start + 1
      <3>1. i \in start + 1..start + v.accepted + 1 /\ i - start = 1
        BY <2>2, <1>2
      <3> QED BY <2>1, <2>2, <3>1, <1>3, <1>5
    <2>3. CASE i # start + 1
      <3>1. i \notin start + 1..start + v.accepted + 1 /\ i # start + v.accepted + 2
        BY <2>3, <1>2
      <3> QED BY <2>1, <3>1, <1>5
    <2> QED BY <2>2, <2>3
  <1>7. \A i \in 1..start' + 1 : outputIds'[i] \in Token
    BY <1>1, CommitIInv DEF IInv, StartWithinSample
  <1>8. v.terminated => new[start + v.accepted + 1] \in StopTokens
    <2> SUFFICES ASSUME v.terminated PROVE new[start + v.accepted + 1] \in StopTokens
      OBVIOUS
    <2> DEFINE i == start + v.accepted + 1
    <2>1. i \in 1..BufferLength /\ i \in start + 1..start + v.accepted + 1
                                /\ i - start = v.accepted + 1
      BY <1>2
    <2>2. new[i] = ids[v.accepted + 1]
      BY <2>1, <1>5
    <2> QED BY <2>2, <1>3
  <1>9. CASE phase' = "loop"
    <2>1. /\ ~v.terminated
          /\ \A i \in start + 2..start + v.accepted + 2 : new[i] \notin StopTokens
      BY <1>1, <1>9
    <2>2. start' + 1 = start + v.accepted + 2
      BY <2>1, <1>1, <1>2, <1>4
    <2> QED BY <2>1, <2>2, <1>1, <1>4, <1>6, <1>7, <1>9
  <1>10. CASE phase' = "stopped"
    <2>1. CASE v.terminated
      <3>1. start + v.accepted + 1 \in start + 2..start' + 1
        BY <2>1, <1>1, <1>2, <1>4
      <3> QED BY <3>1, <2>1, <1>1, <1>4, <1>6, <1>7, <1>8, <1>10
    <2>2. CASE ~v.terminated
      <3>1. \E i \in start + 2..start + v.accepted + 2 : new[i] \in StopTokens
        BY <2>2, <1>1, <1>10
      <3>2. start' + 1 = start + v.accepted + 2
        BY <2>2, <1>1, <1>2, <1>4
      <3> QED BY <3>1, <3>2, <1>1, <1>4, <1>6, <1>7, <1>10
    <2> QED BY <2>1, <2>2
  <1>11. phase' \in {"loop", "stopped"}
    BY <1>1
  <1> QED BY <1>9, <1>10, <1>11

\* Every step keeps track of the stop tokens.
LEMMA NextStops == IInv /\ StopInv /\ [Next]_vars => StopInv'
  <1> SUFFICES ASSUME IInv, StopInv, [Next]_vars PROVE StopInv'
    OBVIOUS
  <1>0. NumInputTokens \in Nat /\ start \in Nat
    BY Sizes DEF IInv
  <1>1. CASE Prefill
    <2>1. PICK t \in Support(TargetProbs(prompt)) :
            /\ outputIds' = [i \in 1..BufferLength |->
                                IF i <= NumInputTokens THEN prompt[i]
                                ELSE IF i = NumInputTokens + 1 THEN t ELSE Unwritten]
            /\ phase' = IF t \in StopTokens THEN "done" ELSE "loop"
      BY <1>1 DEF Prefill
    <2>2. start' = NumInputTokens /\ NumInputTokens' = NumInputTokens
      BY <1>1 DEF Prefill, NumInputTokens
    <2>3. NumInputTokens + 1 \in 1..BufferLength
      BY Sizes, SizeAssumption DEF IInv
    <2>4. outputIds'[NumInputTokens + 1] = t
      BY <2>1, <2>3, <1>0
    <2>5. \A i \in NumInputTokens + 1..start' + 1 : i = NumInputTokens + 1
      BY <2>2, <1>0
    <2> QED BY <2>1, <2>2, <2>4, <2>5 DEF StopInv
  <1>2. CASE Verify
    <2>1. PICK a \in 0..DraftTokenCount :
            /\ verification'.accepted = CutAtStop(a)
            /\ verification'.terminated = (StopHits(a) # {})
      BY <1>2 DEF Verify
    <2>2. verification'.terminated =>
             /\ verification'.accepted >= 1
             /\ proposal.ids[verification'.accepted + 1] \in StopTokens
      <3> SUFFICES ASSUME StopHits(a) # {}
                   PROVE  /\ CutAtStop(a) >= 1
                          /\ proposal.ids[CutAtStop(a) + 1] \in StopTokens
        BY <2>1, Zenon
      <3>1. StopHits(a) \subseteq Nat
        BY DEF StopHits
      <3>2. CutAtStop(a) \in StopHits(a)
        BY <3>1, MinInSet, Zenon DEF CutAtStop
      <3> QED BY <3>2 DEF StopHits
    <2>3. /\ phase = "verify" /\ phase' = "commit" /\ NumInputTokens' = NumInputTokens
          /\ outputIds' = outputIds /\ start' = start /\ proposal' = proposal
      BY <1>2 DEF Verify, NumInputTokens
    <2> QED BY <2>2, <2>3 DEF StopInv
  <1>3. CASE Commit
    <2>1. /\ Advance(verification) \in Nat /\ Advance(verification) >= 1
          /\ start' = start + Advance(verification) /\ prompt' = prompt
          /\ \A i \in 1..start + 1 : outputIds'[i] = outputIds[i]
          /\ phase' \in {"loop", "stopped"}
          /\ phase' = "loop" =>
                \A i \in start + 2..start' + 1 : outputIds'[i] \notin StopTokens
          /\ phase' = "stopped" =>
                \E i \in start + 2..start' + 1 : outputIds'[i] \in StopTokens
      BY <1>3, CommitWrites
    <2>2. NumInputTokens' = NumInputTokens
      BY <2>1 DEF NumInputTokens
    <2>3. \A i \in NumInputTokens + 1..start + 1 : outputIds[i] \notin StopTokens
      BY <1>3 DEF Commit, StopInv
    <2>4. start >= NumInputTokens
      BY <1>3 DEF IInv, StartWithinSample, Commit
    <2>5. phase' = "loop" =>
             \A i \in NumInputTokens + 1..start' + 1 : outputIds'[i] \notin StopTokens
      <3> SUFFICES ASSUME phase' = "loop", NEW i \in NumInputTokens + 1..start' + 1
                   PROVE  outputIds'[i] \notin StopTokens
        OBVIOUS
      <3>1. CASE i <= start + 1
        <4>1. i \in 1..start + 1 /\ i \in NumInputTokens + 1..start + 1
          BY <3>1, <1>0
        <4> QED BY <4>1, <2>1, <2>3
      <3>2. CASE i > start + 1
        <4>1. i \in start + 2..start' + 1
          BY <3>2, <2>1, <1>0
        <4> QED BY <4>1, <2>1
      <3> QED BY <3>1, <3>2, <1>0
    <2>6. \A i \in start + 2..start' + 1 : i \in NumInputTokens + 1..start' + 1
      BY <2>1, <2>4, <1>0
    <2> QED BY <2>1, <2>2, <2>5, <2>6 DEF StopInv
  <1>4. ASSUME outputIds' = outputIds, start' = start, prompt' = prompt,
               phase' \in {"loop", "verify", "commit"} => phase \in {"loop", "verify", "commit"},
               phase' = "commit" => phase = "commit" /\ verification' = verification
                                    /\ proposal' = proposal,
               phase' = "stopped" => phase = "stopped"
        PROVE  StopInv'
    BY <1>4 DEF StopInv, NumInputTokens
  <1>5. CASE RejectProposal
    BY <1>4, <1>5 DEF RejectProposal
  <1>6. CASE Finish
    BY <1>4, <1>6 DEF Finish
  <1>7. CASE ProposeAny
    BY <1>4, <1>7 DEF ProposeAny, Propose
  <1>8. CASE UNCHANGED vars
    BY <1>4, <1>8 DEF vars
  <1> QED BY <1>1, <1>2, <1>3, <1>5, <1>6, <1>7, <1>8 DEF Next, LoopStep, Ended

\* What the loop would return now, in terms of the committed tokens.
SampleOK ==
    LET s == SampleSoFar
    IN  /\ s \in Seq(Token)
        /\ Len(s) \in Nat /\ Len(s) <= Last
        /\ Last \in Nat /\ Last <= start + 1 /\ Last <= MaxLength
        /\ Last > NumInputTokens
        /\ \A i \in 1..Len(s) : s[i] = outputIds[i]
        /\ \A i \in NumInputTokens + 1..Len(s) - 1 : outputIds[i] \notin StopTokens
        /\ \A i \in NumInputTokens + 1..Last : outputIds[i] \in StopTokens => Len(s) <= i
        /\ Len(s) # Last => Len(s) > NumInputTokens /\ outputIds[Len(s)] \in StopTokens
        /\ TargetCouldSample(s, NumInputTokens)

\* While the loop runs, that is a sample the target could have produced.
LEMMA RunningSample == IInv /\ phase \notin {"prefill", "done"} => SampleOK
  <1> SUFFICES ASSUME IInv, phase \notin {"prefill", "done"} PROVE SampleOK
    OBVIOUS
  <1> DEFINE ids == SubSeq(outputIds, 1, Last)
             s == TrimOutputIds(ids)
  <1>1. /\ NumInputTokens \in Nat /\ MaxLength \in Nat /\ start \in Nat
        /\ MaxLength > NumInputTokens
        /\ start >= NumInputTokens /\ \A i \in 1..start + 1 : outputIds[i] \in Token
    BY Sizes DEF IInv, StartWithinSample
  <1>2. /\ Last \in Nat /\ Last <= start + 1 /\ Last <= MaxLength
        /\ Last > NumInputTokens
    BY <1>1 DEF Last
  <1>3. \A i \in 1..Last : outputIds[i] \in Token
    BY <1>1, <1>2
  <1>4. ids \in Seq(Token) /\ Len(ids) = Last /\ \A i \in 1..Last : ids[i] = outputIds[i]
    BY <1>2, <1>3, WrittenPrefix
  <1> HIDE DEF ids
  <1>5. /\ s \in Seq(Token)
        /\ Len(s) \in Nat /\ Len(s) <= Len(ids)
        /\ \A i \in 1..Len(s) : s[i] = ids[i]
        /\ \A i \in NumInputTokens + 1..Len(s) - 1 : ids[i] \notin StopTokens
        /\ \A i \in NumInputTokens + 1..Len(ids) : ids[i] \in StopTokens => Len(s) <= i
        /\ Len(s) # Len(ids) => Len(s) > NumInputTokens /\ ids[Len(s)] \in StopTokens
    BY <1>1, <1>4, TrimFacts, Zenon
  <1>6. SampleSoFar = s
    BY DEF SampleSoFar, Last, ids
  <1> HIDE DEF s
  <1>7. \A i \in 1..Len(s) : s[i] = outputIds[i]
    BY <1>2, <1>4, <1>5
  <1>8. \A i \in NumInputTokens + 1..Len(s) - 1 : outputIds[i] \notin StopTokens
    BY <1>1, <1>2, <1>4, <1>5
  <1>9. \A i \in NumInputTokens + 1..Last : outputIds[i] \in StopTokens => Len(s) <= i
    BY <1>1, <1>4, <1>5
  <1>10. Len(s) # Last => Len(s) > NumInputTokens /\ outputIds[Len(s)] \in StopTokens
    BY <1>1, <1>2, <1>4, <1>5
  <1>11. ASSUME NEW i \in NumInputTokens + 1..Len(s)
         PROVE  TargetProbs(SubSeq(s, 1, i - 1))[s[i]] > 0
    <2>1. /\ i \in 1..Len(s) /\ i \in 1..start + 1 /\ i - 1 \in Nat
          /\ \A k \in 1..i - 1 : k \in 1..Len(s) /\ k \in 1..start + 1
      BY <1>1, <1>2, <1>4, <1>5
    <2>2. /\ Committed \in Seq(Token) /\ Len(Committed) = start + 1
          /\ \A k \in 1..start + 1 : Committed[k] = outputIds[k]
      BY <1>1, WrittenPrefix DEF Committed
    <2>3. TargetProbs(SubSeq(Committed, 1, i - 1))[Committed[i]] > 0
      <3>1. TargetCouldSample(Committed, NumInputTokens)
        BY DEF IInv, Lossless
      <3>2. i \in NumInputTokens + 1..Len(Committed)
        BY <1>1, <2>1, <2>2
      <3> QED BY <3>1, <3>2 DEF TargetCouldSample
    <2>4. SubSeq(s, 1, i - 1) = SubSeq(Committed, 1, i - 1)
      <3>1. \A k \in 1..i - 1 : Committed[k] \in Token /\ s[k] = Committed[k]
        BY <2>1, <2>2, <1>1, <1>7
      <3> QED BY <3>1, <2>1, SamePrefix
    <2>5. s[i] = Committed[i]
      BY <2>1, <2>2, <1>7
    <2> QED BY <2>3, <2>4, <2>5, Zenon
  <1>12. TargetCouldSample(s, NumInputTokens)
    BY <1>11 DEF TargetCouldSample
  <1> QED BY <1>2, <1>4, <1>5, <1>6, <1>7, <1>8, <1>9, <1>10, <1>12 DEF SampleOK

\* A sequence that goes on behind another one, with tokens the target could
\* sample and no stop token before its end, is a step of autoregressive
\* sampling.
LEMMA GrowingIsSampling ==
    ASSUME NEW r \in Seq(Token), SampleSoFar \in Seq(Token), SampleSoFar' = r,
           NumInputTokens \in Nat, Len(SampleSoFar) >= NumInputTokens,
           ~AR!Complete(SampleSoFar),
           Len(r) > Len(SampleSoFar), Len(r) <= MaxLength,
           \A i \in 1..Len(SampleSoFar) : r[i] = SampleSoFar[i],
           TargetCouldSample(r, NumInputTokens),
           \A i \in Len(SampleSoFar) + 1..Len(r) - 1 : r[i] \notin StopTokens
    PROVE  AR!Sample
  <1> DEFINE s == SampleSoFar
  <1>1. Len(s) \in Nat /\ Len(r) \in Nat /\ \A i \in 1..Len(s) : s[i] \in Token
    BY LenProperties, ElementOfSeq
  <1>2. MaxLength = Len(prompt) + MaxNewTokens /\ NumInputTokens = Len(prompt)
    BY DEF MaxLength, NumInputTokens
  <1>3. SubSeq(r, 1, Len(s)) = s
    <2>1. SubSeq(r, 1, Len(s)) = SubSeq(s, 1, Len(s))
      BY <1>1, SamePrefix
    <2> QED BY <2>1, SubSeqFull
  <1>4. Len(r) \in Len(s) + 1..Len(prompt) + MaxNewTokens
    BY <1>1, <1>2, SizeAssumption
  <1>5. ASSUME NEW i \in Len(s) + 1..Len(r)
        PROVE  /\ TargetProbs(SubSeq(r, 1, i - 1))[r[i]] > 0
               /\ i < Len(r) => r[i] \notin StopTokens
    <2>1. i \in NumInputTokens + 1..Len(r) /\ (i < Len(r) => i \in Len(s) + 1..Len(r) - 1)
      BY <1>1
    <2> QED BY <2>1 DEF TargetCouldSample
  <1> HIDE DEF s
  <1> QED BY <1>3, <1>4, <1>5 DEF AR!Sample, s

\* Prefilling samples the first token; when it is a stop token, the sample is
\* returned in the same step.
LEMMA PrefillRefines ==
    ASSUME IInv, StopInv, Prefill
    PROVE  AR!Next
  <1> DEFINE n == NumInputTokens
             s == SampleSoFar
  <1>1. /\ phase = "prefill" /\ prompt' = prompt /\ start' = n
        /\ NumInputTokens' = n /\ MaxLength' = MaxLength
    BY DEF Prefill, NumInputTokens, MaxLength
  <1>2. /\ prompt \in Seq(Token) /\ n \in Nat /\ MaxLength \in Nat /\ MaxLength > n
        /\ Len(prompt) = n /\ MaxLength = n + MaxNewTokens /\ MaxNewTokens \in Nat \ {0}
    BY Sizes, SizeAssumption DEF IInv, NumInputTokens, MaxLength
  <1>3. s = prompt
    BY <1>1 DEF SampleSoFar
  <1>4. ~AR!Complete(s)
    BY <1>2, <1>3 DEF AR!Complete
  <1>5. PICK t \in Support(TargetProbs(prompt)) :
          /\ outputIds' = [i \in 1..BufferLength |->
                              IF i <= n THEN prompt[i]
                              ELSE IF i = n + 1 THEN t ELSE Unwritten]
          /\ IF t \in StopTokens
             THEN /\ phase' = "done"
                  /\ result' = TrimOutputIds(Append(prompt, t))
             ELSE phase' = "loop"
    BY DEF Prefill
  <1>6. t \in Token /\ TargetProbs(prompt)[t] > 0
    BY DEF Support
  <1> DEFINE r == Append(prompt, t)
  <1>7. /\ r \in Seq(Token) /\ Len(r) = n + 1 /\ r[n + 1] = t
        /\ \A i \in 1..n : r[i] = prompt[i]
    BY <1>2, <1>6, AppendProperties
  <1> HIDE DEF r
  <1>8. SampleSoFar' = r
    <2>1. CASE phase' = "done"
      <3> DEFINE q == TrimOutputIds(r)
      <3>1. /\ q \in Seq(Token) /\ Len(q) \in Nat /\ Len(q) <= Len(r)
            /\ \A i \in 1..Len(q) : q[i] = r[i]
            /\ Len(q) # Len(r) => Len(q) > n
        BY <1>2, <1>7, TrimFacts, Zenon
      <3> HIDE DEF q
      <3>2. Len(q) = Len(r)
        BY <3>1, <1>2, <1>7
      <3>3. q = r
        BY <3>1, <3>2, <1>7, SeqEqual
      <3>4. SampleSoFar' = result' /\ result' = q
        BY <2>1, <1>5 DEF SampleSoFar, q, r
      <3> QED BY <3>3, <3>4
    <2>2. CASE phase' = "loop"
      <3> DEFINE q == SampleSoFar'
      <3>1. SampleOK'
        <4>1. IInv'
          BY PrefillIInv
        <4>2. (phase \notin {"prefill", "done"})'
          BY <2>2
        <4> QED BY <4>1, <4>2, RunningSample, PTL
      <3>2. Last' = n + 1
        BY <1>1, <1>2 DEF Last
      <3>3. /\ q \in Seq(Token) /\ Len(q) \in Nat /\ Len(q) <= n + 1
            /\ \A i \in 1..Len(q) : q[i] = outputIds'[i]
            /\ Len(q) # n + 1 => Len(q) > n
        BY <3>1, <3>2, <1>1 DEF SampleOK
      <3>4. Len(q) = n + 1
        BY <3>3, <1>2
      <3>5. BufferLength \in Nat /\ n + 1 <= BufferLength
        BY Sizes, SizeAssumption DEF IInv
      <3>6. \A i \in 1..n + 1 : outputIds'[i] = r[i]
        BY <3>5, <1>2, <1>5, <1>7
      <3> HIDE DEF q
      <3>7. q = r
        BY <3>3, <3>4, <3>6, <1>7, SeqEqual
      <3> QED BY <3>7 DEF q
    <2> QED BY <2>1, <2>2, <1>5
  <1>9. TargetCouldSample(r, n)
    <2> SUFFICES ASSUME NEW i \in n + 1..Len(r)
                 PROVE  TargetProbs(SubSeq(r, 1, i - 1))[r[i]] > 0
      BY DEF TargetCouldSample
    <2>1. i = n + 1 /\ i - 1 = n
      BY <1>2, <1>7
    <2>2. \A k \in 1..n : prompt[k] \in Token
      BY <1>2, ElementOfSeq
    <2>3. SubSeq(r, 1, n) = SubSeq(prompt, 1, n)
      BY <2>2, <1>2, <1>7, SamePrefix
    <2>4. SubSeq(prompt, 1, n) = prompt
      BY <1>2, SubSeqFull
    <2> QED BY <2>1, <2>3, <2>4, <1>6, <1>7, Zenon
  <1>10. AR!Sample
    <2>1. /\ Len(s) >= n /\ Len(r) > Len(s) /\ Len(r) <= MaxLength
          /\ \A i \in Len(s) + 1..Len(r) - 1 : r[i] \notin StopTokens
          /\ \A i \in 1..Len(s) : r[i] = s[i]
      BY <1>2, <1>3, <1>7
    <2>2. s \in Seq(Token) /\ n \in Nat
      BY <1>2, <1>3
    <2> QED BY <2>1, <2>2, <1>4, <1>7, <1>8, <1>9, GrowingIsSampling
  <1>11. CASE phase' = "done"
    <2>1. r[Len(r)] \in StopTokens /\ Len(r) > Len(prompt)
      BY <1>2, <1>5, <1>7, <1>11
    <2>2. AR!Return
      BY <2>1, <1>8, <1>11 DEF AR!Return, AR!Complete
    <2> QED BY <2>2, <1>1, <1>10 DEF AR!Next
  <1>12. CASE phase' # "done"
    BY <1>1, <1>10, <1>12 DEF AR!Next
  <1> QED BY <1>11, <1>12

\* Committing a round samples as many tokens as still fit the sample.
LEMMA CommitRefines ==
    ASSUME IInv, StopInv, Commit
    PROVE  [AR!Next]_<<prompt, SampleSoFar, phase = "done">>
  <1> DEFINE n == NumInputTokens
             s == SampleSoFar
             r == SampleSoFar'
  <1>1. /\ phase = "commit" /\ phase' \in {"loop", "stopped"} /\ prompt' = prompt
        /\ NumInputTokens' = n /\ MaxLength' = MaxLength
    BY CommitWrites DEF Commit, NumInputTokens, MaxLength
  <1>2. /\ n \in Nat /\ MaxLength \in Nat /\ start \in Nat /\ start < MaxLength
        /\ MaxLength = Len(prompt) + MaxNewTokens /\ n = Len(prompt) /\ start >= n
    BY <1>1, Sizes DEF IInv, StartWithinSample, MaxLength, NumInputTokens
  <1>3. /\ start' \in Nat /\ start' > start
        /\ \A i \in 1..start + 1 : outputIds'[i] = outputIds[i]
    <2>1. /\ Advance(verification) \in Nat /\ Advance(verification) >= 1
          /\ start' = start + Advance(verification)
          /\ \A i \in 1..start + 1 : outputIds'[i] = outputIds[i]
      BY CommitWrites
    <2> QED BY <2>1, <1>2
  <1>4. SampleOK
    BY <1>1, RunningSample
  <1>5. SampleOK'
    <2>1. IInv' /\ (phase \notin {"prefill", "done"})'
      BY <1>1, CommitIInv
    <2> QED BY <2>1, RunningSample, PTL
  <1>6. \A i \in n + 1..start + 1 : outputIds[i] \notin StopTokens
    BY <1>1 DEF StopInv
  <1>7. Last = start + 1
    BY <1>2 DEF Last
  <1>8. s \in Seq(Token) /\ Len(s) = start + 1 /\ \A i \in 1..start + 1 : s[i] = outputIds[i]
    <2>1. /\ s \in Seq(Token) /\ Len(s) \in Nat /\ Len(s) <= start + 1
          /\ \A i \in 1..Len(s) : s[i] = outputIds[i]
          /\ Len(s) # start + 1 => Len(s) > n /\ outputIds[Len(s)] \in StopTokens
      BY <1>4, <1>7 DEF SampleOK
    <2>2. Len(s) = start + 1
      BY <2>1, <1>2, <1>6
    <2> QED BY <2>1, <2>2
  <1>9. /\ r \in Seq(Token) /\ Len(r) \in Nat /\ Len(r) <= Last'
        /\ Last' \in Nat /\ Last' <= MaxLength
        /\ \A i \in 1..Len(r) : r[i] = outputIds'[i]
        /\ \A i \in n + 1..Len(r) - 1 : outputIds'[i] \notin StopTokens
        /\ Len(r) # Last' => Len(r) > n /\ outputIds'[Len(r)] \in StopTokens
        /\ TargetCouldSample(r, n)
    BY <1>1, <1>5 DEF SampleOK
  <1> HIDE DEF s, r
  <1>10. Len(r) # Last' => Len(r) > start + 1
    <2> SUFFICES ASSUME Len(r) # Last', Len(r) <= start + 1 PROVE FALSE
      BY <1>2, <1>9
    <2>1. Len(r) \in n + 1..start + 1 /\ Len(r) \in 1..start + 1
      BY <1>2, <1>9
    <2> QED BY <2>1, <1>3, <1>6, <1>9
  <1>11. CASE start + 1 = MaxLength
    <2>1. Last' = MaxLength
      BY <1>1, <1>2, <1>3, <1>11 DEF Last
    <2>2. Len(r) = start + 1
      BY <2>1, <1>2, <1>9, <1>10, <1>11, SMTT(30)
    <2>3. \A i \in 1..start + 1 : r[i] = s[i]
      BY <2>2, <1>3, <1>8, <1>9
    <2>4. r = s
      BY <2>2, <2>3, <1>8, <1>9, SeqEqual
    <2> QED BY <2>4, <1>1 DEF s, r
  <1>12. CASE start + 1 # MaxLength
    <2>1. Last' > start + 1
      BY <1>1, <1>2, <1>3, <1>12 DEF Last
    <2>2. Len(r) > start + 1
      BY <2>1, <1>10
    <2>3. ~AR!Complete(s)
      <3>1. start + 1 \in n + 1..start + 1 /\ start + 1 \in 1..start + 1
        BY <1>2
      <3>2. s[Len(s)] \notin StopTokens
        BY <3>1, <1>6, <1>8
      <3> QED BY <3>2, <1>2, <1>8, <1>12 DEF AR!Complete
    <2>4. \A i \in 1..Len(s) : r[i] = s[i]
      BY <2>2, <1>2, <1>3, <1>8, <1>9, SMTT(30)
    <2>5. \A i \in Len(s) + 1..Len(r) - 1 : r[i] \notin StopTokens
      <3> SUFFICES ASSUME NEW i \in Len(s) + 1..Len(r) - 1 PROVE r[i] \notin StopTokens
        OBVIOUS
      <3>1. i \in n + 1..Len(r) - 1 /\ i \in 1..Len(r)
        BY <1>2, <1>8, <1>9
      <3> QED BY <3>1, <1>9
    <2>6. Len(s) >= n /\ Len(r) > Len(s) /\ Len(r) <= MaxLength
      BY <2>2, <1>2, <1>8, <1>9
    <2>7. AR!Sample
      BY <2>3, <2>4, <2>5, <2>6, <1>2, <1>8, <1>9, GrowingIsSampling DEF s, r
    <2> QED BY <2>7, <1>1 DEF AR!Next
  <1> QED BY <1>11, <1>12

\* Leaving the loop returns the sample, which is complete.
LEMMA FinishRefines ==
    ASSUME IInv, StopInv, Finish
    PROVE  AR!Next
  <1> DEFINE n == NumInputTokens
             s == SampleSoFar
  <1>1. /\ phase \in {"stopped", "loop"} /\ (phase = "loop" => start >= MaxLength)
        /\ phase' = "done" /\ prompt' = prompt
    BY DEF Finish
  <1>2. /\ n \in Nat /\ MaxLength \in Nat /\ start \in Nat
        /\ MaxLength = Len(prompt) + MaxNewTokens /\ n = Len(prompt)
    BY Sizes DEF IInv, MaxLength, NumInputTokens
  <1>3. SampleSoFar' = s
    BY <1>1 DEF Finish, SampleSoFar
  <1>4. /\ Len(s) \in Nat /\ Len(s) <= Last /\ Last > n
        /\ \A i \in 1..Len(s) : s[i] = outputIds[i]
        /\ \A i \in n + 1..Last : outputIds[i] \in StopTokens => Len(s) <= i
        /\ Len(s) # Last => Len(s) > n /\ outputIds[Len(s)] \in StopTokens
    BY <1>1, RunningSample DEF SampleOK
  <1>5. /\ Last = IF start + 1 < MaxLength THEN start + 1 ELSE MaxLength
        /\ phase = "stopped" => \E i \in n + 1..start + 1 : outputIds[i] \in StopTokens
    BY DEF Last, StopInv
  <1> HIDE DEF s
  <1>6. AR!Complete(s)
    <2>1. CASE Len(s) # Last
      <3>1. Len(s) \in 1..Len(s)
        BY <2>1, <1>2, <1>4
      <3> QED BY <2>1, <3>1, <1>2, <1>4 DEF AR!Complete
    <2>2. CASE Len(s) = Last /\ Last = MaxLength
      BY <2>2, <1>2 DEF AR!Complete
    <2>3. CASE Len(s) = Last /\ Last # MaxLength
      <3>1. Last = start + 1 /\ start + 1 < MaxLength /\ phase = "stopped"
        BY <2>3, <1>1, <1>2, <1>5
      <3>2. PICK i \in n + 1..start + 1 : outputIds[i] \in StopTokens
        BY <3>1, <1>5
      <3>3. i = Len(s) /\ i \in 1..Len(s)
        BY <2>3, <3>1, <3>2, <1>2, <1>4
      <3> QED BY <3>2, <3>3, <1>2, <1>4 DEF AR!Complete
    <2> QED BY <2>1, <2>2, <2>3
  <1>7. AR!Return
    BY <1>1, <1>3, <1>6 DEF AR!Return
  <1> QED BY <1>1, <1>3, <1>7 DEF AR!Next, s

\* Every step of the loop is a step of autoregressive sampling or changes
\* nothing a caller can see.
LEMMA NextRefines ==
    IInv /\ StopInv /\ [Next]_vars => [AR!Next]_<<prompt, SampleSoFar, phase = "done">>
  <1> SUFFICES ASSUME IInv, StopInv, [Next]_vars
               PROVE  [AR!Next]_<<prompt, SampleSoFar, phase = "done">>
    OBVIOUS
  <1>1. CASE Prefill
    BY <1>1, PrefillRefines
  <1>2. CASE Commit
    BY <1>2, CommitRefines
  <1>3. CASE Finish
    BY <1>3, FinishRefines
  <1>4. CASE \/ RejectProposal \/ Verify \/ ProposeAny
    <2>1. /\ phase \notin {"prefill", "done"} /\ phase' \notin {"prefill", "done"}
          /\ prompt' = prompt /\ outputIds' = outputIds /\ start' = start
      BY <1>4 DEF RejectProposal, Verify, ProposeAny, Propose
    <2>2. MaxLength' = MaxLength /\ NumInputTokens' = NumInputTokens
      BY <2>1 DEF MaxLength, NumInputTokens
    <2>3. SampleSoFar' = SampleSoFar
      BY <2>1, <2>2 DEF SampleSoFar, TrimOutputIds
    <2> QED BY <2>1, <2>3
  <1>5. CASE UNCHANGED vars
    <2>1. /\ phase' = phase /\ prompt' = prompt /\ outputIds' = outputIds
          /\ start' = start /\ result' = result
      BY <1>5 DEF vars
    <2>2. MaxLength' = MaxLength /\ NumInputTokens' = NumInputTokens
      BY <2>1 DEF MaxLength, NumInputTokens
    <2>3. SampleSoFar' = SampleSoFar
      BY <2>1, <2>2 DEF SampleSoFar, TrimOutputIds
    <2> QED BY <2>1, <2>3
  <1> QED BY <1>1, <1>2, <1>3, <1>4, <1>5 DEF Next, LoopStep, Ended

\* generate_decoding_sample implements plain autoregressive sampling of the
\* target model, whatever the drafter proposes: the sample only grows by tokens
\* the target could sample, never behind a stop token or beyond max_new_tokens,
\* and is returned only when it is complete.
THEOREM RefinesAutoregressive == Spec => ImplementsAutoregressive
  <1>1. Init => StopInv
    BY DEF Init, StopInv
  <1>2. Init => AR!Init
    BY DEF Init, AR!Init, SampleSoFar
  <1> QED
    BY <1>1, <1>2, NextStops, NextRefines, Inductive, PTL
       DEF Spec, ImplementsAutoregressive, AR!Spec

=============================================================================
