-------------------------- MODULE SpecDecodeProofs --------------------------
(* Proofs about the speculative-decoding loop for every vocabulary, every  *)
(* target model, every drafter and every bound.                            *)
EXTENDS SpecDecode, SequenceTheorems, WellFoundedInduction, TLAPS

\* A non-empty set of natural numbers has a least element, so Min is one.
LEMMA MinInSet ==
    ASSUME NEW T, T \subseteq Nat, T # {}
    PROVE  /\ Min(T) \in T
           /\ \A y \in T : Min(T) <= y
  <1> DEFINE R == {ss \in Nat \X Nat : ss[1] < ss[2]}
  <1>1. IsWellFoundedOn(R, Nat)
    BY NatLessThanWellFounded, Zenon DEF OpToRel
  <1>2. \E x \in T : \A y \in T : ~ (<<y, x>> \in R)
    BY <1>1, WFMin, Zenon
  <1>3. PICK x \in T : \A y \in T : ~ (<<y, x>> \in R)
    BY <1>2
  <1>4. ASSUME NEW y \in T PROVE x =< y
    <2>1. x \in Nat /\ y \in Nat
      OBVIOUS
    <2>2. y < x => <<y, x>> \in R
      BY <2>1
    <2> QED BY <1>3, <2>1, <2>2
  <1> QED BY <1>4, Zenon DEF Min

\* What sample_residual returns has non-zero weight in the target row.
LEMMA ResidualInSupport ==
    ASSUME NEW p \in [Token -> Nat], NEW q \in [Token -> Nat],
           NEW t \in ResidualSupport(p, q)
    PROVE  t \in Token /\ p[t] > 0
  BY DEF ResidualSupport, Support

\* A prefix of a buffer that holds tokens is a sequence of those tokens.
LEMMA WrittenPrefix ==
    ASSUME NEW out, NEW k \in Nat, \A i \in 1..k : out[i] \in Token
    PROVE  /\ SubSeq(out, 1, k) \in Seq(Token)
           /\ Len(SubSeq(out, 1, k)) = k
           /\ \A i \in 1..k : SubSeq(out, 1, k)[i] = out[i]
  BY SubSeqProperties

\* Two buffers that agree on k slots have the same prefix of length k.
LEMMA SamePrefix ==
    ASSUME NEW out, NEW new, NEW k \in Nat,
           \A i \in 1..k : out[i] \in Token,
           \A i \in 1..k : new[i] = out[i]
    PROVE  SubSeq(new, 1, k) = SubSeq(out, 1, k)
  <1>1. \A i \in 1..k : new[i] \in Token
    OBVIOUS
  <1>2. /\ SubSeq(new, 1, k) \in Seq(Token)
        /\ Len(SubSeq(new, 1, k)) = k
        /\ \A i \in 1..k : SubSeq(new, 1, k)[i] = new[i]
    BY <1>1, WrittenPrefix
  <1>3. /\ SubSeq(out, 1, k) \in Seq(Token)
        /\ Len(SubSeq(out, 1, k)) = k
        /\ \A i \in 1..k : SubSeq(out, 1, k)[i] = out[i]
    BY WrittenPrefix
  <1> QED BY <1>2, <1>3, SeqEqual

\* The context a block token is scored in is the prefix the buffer will have
\* once the block is written behind the first k tokens.
LEMMA BlockContext ==
    ASSUME NEW out, NEW new, NEW ids \in Seq(Token), NEW k \in Nat,
           NEW j \in 0..Len(ids),
           \A i \in 1..k : out[i] \in Token,
           \A i \in 1..k : new[i] = out[i],
           \A i \in 1..j : new[k + i] = ids[i]
    PROVE  SubSeq(new, 1, k + j) = SubSeq(out, 1, k) \o SubSeq(ids, 1, j)
  <1> DEFINE s == SubSeq(out, 1, k)
             t == SubSeq(ids, 1, j)
             u == SubSeq(new, 1, k + j)
  <1>1. s \in Seq(Token) /\ Len(s) = k /\ \A i \in 1..k : s[i] = out[i]
    BY WrittenPrefix
  <1>2. \A i \in 1..j : ids[i] \in Token
    BY ElementOfSeq
  <1>3. j \in Nat
    BY LenProperties
  <1>4. t \in Seq(Token) /\ Len(t) = j /\ \A i \in 1..j : t[i] = ids[i]
    BY <1>2, <1>3, WrittenPrefix
  <1>5. \A i \in 1..k + j : new[i] = IF i <= k THEN out[i] ELSE ids[i - k]
    BY <1>3
  <1>6. \A i \in 1..k + j : new[i] \in Token
    <2> SUFFICES ASSUME NEW i \in 1..k + j PROVE new[i] \in Token
      OBVIOUS
    <2>1. CASE i <= k
      BY <2>1, <1>5
    <2>2. CASE i > k
      <3>1. i - k \in 1..j
        BY <2>2, <1>3
      <3> QED BY <3>1, <2>2, <1>5, <1>2
    <2> QED BY <2>1, <2>2
  <1>7. u \in Seq(Token) /\ Len(u) = k + j /\ \A i \in 1..k + j : u[i] = new[i]
    BY <1>3, <1>6, WrittenPrefix
  <1>8. /\ s \o t \in Seq(Token)
        /\ Len(s \o t) = k + j
        /\ \A i \in 1..k + j : (s \o t)[i] = IF i <= k THEN s[i] ELSE t[i - k]
    BY <1>1, <1>4, ConcatProperties
  <1>9. \A i \in 1..k + j : u[i] = (s \o t)[i]
    <2> SUFFICES ASSUME NEW i \in 1..k + j PROVE u[i] = (s \o t)[i]
      OBVIOUS
    <2>1. CASE i <= k
      BY <2>1, <1>1, <1>5, <1>7, <1>8
    <2>2. CASE i > k
      <3>1. i - k \in 1..j
        BY <2>2, <1>3
      <3>2. t[i - k] = ids[i - k]
        BY <3>1, <1>4
      <3> QED BY <3>2, <2>2, <1>5, <1>7, <1>8
    <2> QED BY <2>1, <2>2
  <1> HIDE DEF s, t, u
  <1>10. u = s \o t
    BY <1>3, <1>7, <1>8, <1>9, SeqEqual
  <1> QED BY <1>10 DEF s, t, u

\* Lengths are natural numbers.
LEMMA Sizes ==
    ASSUME TypeOK
    PROVE  /\ prompt \in Seq(Token)
           /\ NumInputTokens \in Nat /\ NumInputTokens >= 1
           /\ NumInputTokens <= MaxPromptLen
           /\ MaxLength \in Nat /\ MaxLength > NumInputTokens
           /\ BufferLength \in Nat /\ BufferLength <= MaxContext
           /\ BufferLength = MaxLength + MaxProposalTokens + 1
           /\ MaxContext \in Nat
           /\ start \in Nat
  <1>1. prompt \in Seq(Token) /\ Len(prompt) \in 1..MaxPromptLen
    BY TokenAssumption DEF TypeOK
  <1>2. MaxPromptLen \in Nat /\ MaxNewTokens \in Nat \ {0} /\ MaxProposalTokens \in Nat \ {0}
    BY SizeAssumption
  <1>3. start \in 0..MaxLength + MaxProposalTokens
    BY DEF TypeOK
  <1> QED BY <1>1, <1>2, <1>3 DEF NumInputTokens, MaxLength, BufferLength, MaxContext

\* The initial state satisfies the invariant.
LEMMA InitIInv == Init => IInv
  <1> SUFFICES ASSUME Init PROVE IInv
    OBVIOUS
  <1>1. Len(prompt) \in Nat /\ MaxNewTokens \in Nat /\ MaxProposalTokens \in Nat
    BY TokenAssumption, SizeAssumption DEF Init
  <1>2. TypeOK
    <2>1. outputIds \in [1..BufferLength -> Token \cup {Unwritten}]
      BY DEF Init
    <2>2. start \in 0..MaxLength + MaxProposalTokens
      BY <1>1 DEF Init, MaxLength, NumInputTokens
    <2>3. /\ targetCache \in Seq(Token)
          /\ rounds \in Seq([acceptance : 0..MaxProposalTokens + 1,
                             proposed : 0..MaxProposalTokens,
                             accepted : 0..MaxProposalTokens])
          /\ result \in Seq(Token)
      BY DEF Init
    <2>4. verification \in [accepted : 0..MaxProposalTokens,
                            next : Token \cup {Unwritten},
                            effective : 0..MaxProposalTokens,
                            terminated : BOOLEAN]
      BY <1>1 DEF Init, NoVerification
    <2> QED BY <2>1, <2>2, <2>3, <2>4 DEF Init, TypeOK
  <1> QED BY <1>2 DEF Init, IInv, StartWithinSample, CacheHoldsCommitted, VerifiedBlock, Lossless

\* trim_output_ids returns a prefix that is no longer than its argument.
LEMMA TrimIsPrefix ==
    ASSUME NEW ids \in Seq(Token), NumInputTokens \in Nat
    PROVE  TrimOutputIds(ids) \in Seq(Token)
  <1> DEFINE hits == {i \in NumInputTokens + 1..Len(ids) : ids[i] \in StopTokens}
             n == FirstStop(ids, NumInputTokens + 1)
  <1>1. Len(ids) \in Nat
    BY LenProperties
  <1>2. hits # {} => Min(hits) \in hits
    <2>1. hits \subseteq Nat
      BY <1>1
    <2> QED BY <2>1, MinInSet, Zenon
  <1>3. n = IF hits = {} THEN Len(ids) ELSE Min(hits)
    BY DEF FirstStop
  <1>4. n \in 0..Len(ids)
    <2>1. CASE hits = {}
      BY <2>1, <1>1, <1>3
    <2>2. CASE hits # {}
      <3>1. Min(hits) \in NumInputTokens + 1..Len(ids)
        BY <2>2, <1>2
      <3> QED BY <2>2, <3>1, <1>1, <1>3
    <2> QED BY <2>1, <2>2
  <1>5. \A i \in 1..n : ids[i] \in Token
    <2> HIDE DEF n
    <2> QED BY <1>1, <1>4, ElementOfSeq
  <1> HIDE DEF n
  <1>6. SubSeq(ids, 1, n) \in Seq(Token)
    BY <1>1, <1>4, <1>5, WrittenPrefix
  <1> QED BY <1>6 DEF TrimOutputIds, n

\* The prompt forward pass establishes the invariant for the loop.
LEMMA PrefillIInv == IInv /\ Prefill => IInv'
  <1> SUFFICES ASSUME IInv, Prefill PROVE IInv'
    OBVIOUS
  <1> USE DEF IInv
  <1>1. /\ prompt \in Seq(Token) /\ prompt' = prompt
        /\ NumInputTokens \in Nat /\ NumInputTokens >= 1
        /\ MaxLength \in Nat /\ MaxLength > NumInputTokens
        /\ BufferLength = MaxLength + MaxProposalTokens + 1
        /\ BufferLength \in Nat
    BY Sizes DEF Prefill
  <1>2. /\ NumInputTokens' = NumInputTokens
        /\ MaxLength' = MaxLength
        /\ BufferLength' = BufferLength
    BY <1>1 DEF NumInputTokens, MaxLength, BufferLength
  <1>3. MaxProposalTokens \in Nat \ {0}
    BY SizeAssumption
  <1>4. start' = NumInputTokens /\ targetCache' = prompt
    BY DEF Prefill
  <1>5. PICK t \in Support(TargetProbs(prompt)) :
          /\ outputIds' = [i \in 1..BufferLength |->
                              IF i <= NumInputTokens THEN prompt[i]
                              ELSE IF i = NumInputTokens + 1 THEN t ELSE Unwritten]
          /\ IF t \in StopTokens
             THEN /\ phase' = "done"
                  /\ result' = TrimOutputIds(Append(prompt, t))
             ELSE /\ phase' = "loop"
                  /\ UNCHANGED result
    BY DEF Prefill
  <1>6. t \in Token /\ TargetProbs(prompt)[t] > 0
    BY DEF Support
  <1>7. \A i \in 1..NumInputTokens : prompt[i] \in Token
    BY <1>1, ElementOfSeq DEF NumInputTokens
  <1>8. /\ \A i \in 1..NumInputTokens : outputIds'[i] = prompt[i]
        /\ outputIds'[NumInputTokens + 1] = t
    BY <1>1, <1>3, <1>5
  <1>9. \A i \in 1..NumInputTokens + 1 : outputIds'[i] \in Token
    BY <1>1, <1>6, <1>7, <1>8
  <1>10. SubSeq(outputIds', 1, NumInputTokens) = prompt
    <2>1. SubSeq(outputIds', 1, NumInputTokens) = SubSeq(prompt, 1, NumInputTokens)
      BY <1>1, <1>7, <1>8, SamePrefix
    <2>2. SubSeq(prompt, 1, NumInputTokens) = prompt
      BY <1>1, SubSeqFull DEF NumInputTokens
    <2> QED BY <2>1, <2>2, Zenon
  <1>11. TypeOK'
    <2>1. outputIds' \in [1..BufferLength' -> Token \cup {Unwritten}]
      BY <1>1, <1>2, <1>5, <1>6, <1>7
    <2>2. start' \in 0..MaxLength' + MaxProposalTokens
      BY <1>1, <1>2, <1>3, <1>4
    <2>3. result' \in Seq(Token)
      <3>1. Append(prompt, t) \in Seq(Token)
        BY <1>1, <1>6
      <3>2. TrimOutputIds(Append(prompt, t)) \in Seq(Token)
        BY <1>1, <3>1, TrimIsPrefix, Zenon
      <3> QED BY <3>2, <1>5 DEF TypeOK
    <2> QED BY <2>1, <2>2, <2>3, <1>1, <1>4, <1>5 DEF TypeOK, Prefill
  <1>12. StartWithinSample'
    BY <1>1, <1>2, <1>4, <1>5, <1>9 DEF StartWithinSample
  <1>13. CacheHoldsCommitted'
    BY <1>4, <1>10 DEF CacheHoldsCommitted
  <1>14. VerifiedBlock'
    BY <1>5 DEF VerifiedBlock
  <1>15. Lossless'
    <2>1. /\ Committed' \in Seq(Token)
          /\ Len(Committed') = NumInputTokens + 1
          /\ \A i \in 1..NumInputTokens + 1 : Committed'[i] = outputIds'[i]
      BY <1>1, <1>4, <1>9, WrittenPrefix DEF Committed
    <2>2. SubSeq(Committed', 1, NumInputTokens) = prompt
      <3>1. SubSeq(Committed', 1, NumInputTokens) = SubSeq(outputIds', 1, NumInputTokens)
        BY <1>1, <1>9, <2>1, SamePrefix
      <3> QED BY <3>1, <1>10, Zenon
    <2>3. TargetCouldSample(Committed', NumInputTokens)
      <3> SUFFICES ASSUME NEW i \in NumInputTokens + 1..Len(Committed')
                   PROVE  TargetProbs(SubSeq(Committed', 1, i - 1))[Committed'[i]] > 0
        BY DEF TargetCouldSample
      <3>1. i = NumInputTokens + 1 /\ i - 1 = NumInputTokens
        BY <1>1, <2>1
      <3>2. Committed'[i] = t
        BY <1>1, <1>8, <2>1, <3>1
      <3> QED BY <3>1, <3>2, <2>2, <1>6, Zenon
    <2> QED BY <2>3, <1>2 DEF Lossless
  <1> QED BY <1>11, <1>12, <1>13, <1>14, <1>15

\* The callback only hands over a proposal.
LEMMA ProposeIInv ==
    ASSUME NEW p, IsProposal(p), IInv, Propose(p)
    PROVE  IInv'
  <1> USE DEF IInv
  <1>1. /\ NumInputTokens' = NumInputTokens
        /\ MaxLength' = MaxLength
        /\ BufferLength' = BufferLength
        /\ Committed' = Committed
    BY DEF Propose, NumInputTokens, MaxLength, BufferLength, Committed
  <1>2. TypeOK'
    BY <1>1 DEF TypeOK, Propose
  <1>3. StartWithinSample'
    BY <1>1 DEF StartWithinSample, Propose
  <1>4. CacheHoldsCommitted' /\ VerifiedBlock'
    BY DEF CacheHoldsCommitted, VerifiedBlock, Propose
  <1>5. Lossless'
    BY <1>1 DEF Lossless, Propose
  <1> QED BY <1>2, <1>3, <1>4, <1>5

\* A ValueError leaves everything as it was.
LEMMA RejectIInv == IInv /\ RejectProposal => IInv'
  <1> SUFFICES ASSUME IInv, RejectProposal PROVE IInv'
    OBVIOUS
  <1> USE DEF IInv
  <1>1. /\ NumInputTokens' = NumInputTokens
        /\ MaxLength' = MaxLength
        /\ BufferLength' = BufferLength
        /\ Committed' = Committed
    BY DEF RejectProposal, NumInputTokens, MaxLength, BufferLength, Committed
  <1>2. TypeOK'
    BY <1>1 DEF TypeOK, RejectProposal
  <1>3. StartWithinSample'
    BY <1>1 DEF StartWithinSample, RejectProposal
  <1>4. CacheHoldsCommitted' /\ VerifiedBlock'
    BY DEF CacheHoldsCommitted, VerifiedBlock, RejectProposal
  <1>5. Lossless'
    BY <1>1 DEF Lossless, RejectProposal
  <1> QED BY <1>2, <1>3, <1>4, <1>5

\* Returning the sample reads only slots that hold tokens.
LEMMA FinishIInv == IInv /\ Finish => IInv'
  <1> SUFFICES ASSUME IInv, Finish PROVE IInv'
    OBVIOUS
  <1> USE DEF IInv
  <1>1. /\ NumInputTokens' = NumInputTokens
        /\ MaxLength' = MaxLength
        /\ BufferLength' = BufferLength
        /\ Committed' = Committed
    BY DEF Finish, NumInputTokens, MaxLength, BufferLength, Committed
  <1>2. result' \in Seq(Token)
    <2> DEFINE last == IF start + 1 < MaxLength THEN start + 1 ELSE MaxLength
    <2>1. NumInputTokens \in Nat /\ MaxLength \in Nat /\ start \in Nat
      BY Sizes
    <2>2. last \in Nat /\ last <= start + 1
      BY <2>1
    <2>3. \A i \in 1..last : outputIds[i] \in Token
      BY <2>1, <2>2 DEF StartWithinSample, Finish
    <2> HIDE DEF last
    <2>4. SubSeq(outputIds, 1, last) \in Seq(Token)
      BY <2>2, <2>3, WrittenPrefix
    <2>5. TrimOutputIds(SubSeq(outputIds, 1, last)) \in Seq(Token)
      BY <2>1, <2>4, TrimIsPrefix, Zenon
    <2> QED BY <2>5 DEF Finish, last
  <1>3. TypeOK'
    BY <1>1, <1>2 DEF TypeOK, Finish
  <1>4. StartWithinSample'
    BY <1>1 DEF StartWithinSample, Finish
  <1>5. CacheHoldsCommitted' /\ VerifiedBlock'
    BY DEF CacheHoldsCommitted, VerifiedBlock, Finish
  <1>6. Lossless'
    BY <1>1 DEF Lossless, Finish
  <1> QED BY <1>3, <1>4, <1>5, <1>6

\* The cut at an accepted stop token never lengthens the accepted prefix.
LEMMA CutShortens ==
    ASSUME NEW a \in Nat
    PROVE  CutAtStop(a) \in 0..a /\ (StopHits(a) = {} => CutAtStop(a) = a)
  <1>1. CASE StopHits(a) = {}
    BY <1>1 DEF CutAtStop
  <1>2. CASE StopHits(a) # {}
    <2>1. StopHits(a) \subseteq 1..a
      BY DEF StopHits
    <2>2. Min(StopHits(a)) \in StopHits(a)
      BY <1>2, <2>1, MinInSet
    <2> QED BY <1>2, <2>1, <2>2 DEF CutAtStop
  <1> QED BY <1>1, <1>2

\* Rejection sampling leaves a verified block behind.
LEMMA VerifyIInv == IInv /\ Verify => IInv'
  <1> SUFFICES ASSUME IInv, Verify PROVE IInv'
    OBVIOUS
  <1> USE DEF IInv
  <1> DEFINE N == DraftTokenCount
             ids == proposal.ids
             base == SubSeq(outputIds, 1, start)
  <1>1. /\ NumInputTokens \in Nat /\ MaxLength \in Nat /\ start \in Nat
        /\ BufferLength = MaxLength + MaxProposalTokens + 1
        /\ BufferLength <= MaxContext /\ MaxContext \in Nat
        /\ MaxProposalTokens \in Nat \ {0}
    BY Sizes, SizeAssumption
  <1>2. /\ NumInputTokens' = NumInputTokens
        /\ MaxLength' = MaxLength
        /\ BufferLength' = BufferLength
        /\ Committed' = Committed
        /\ InvalidProposal' = InvalidProposal
        /\ DraftTokenCount' = DraftTokenCount
    BY DEF Verify, NumInputTokens, MaxLength, BufferLength, Committed, InvalidProposal,
           DraftTokenCount
  <1>3. /\ ids \in Seq(Token)
        /\ proposal.probs \in Seq(Rows)
        /\ Len(ids) = Len(proposal.probs) + 1
    BY DEF TypeOK, Verify, IsProposal
  <1>4. /\ N \in Nat /\ N <= MaxProposalTokens
        /\ Len(ids) = N + 1 /\ Len(proposal.probs) = N
    BY <1>1, <1>3, LenProperties DEF Verify, InvalidProposal, DraftTokenCount
  <1>5. targetCache = base /\ start < MaxLength
    BY DEF CacheHoldsCommitted, StartWithinSample, Verify
  <1>6. base \in Seq(Token) /\ Len(base) = start
    <2>1. \A i \in 1..start : outputIds[i] \in Token
      BY <1>1 DEF StartWithinSample, Verify
    <2> QED BY <1>1, <2>1, WrittenPrefix
  <1>7. targetCache' = base \o ids
    BY <1>5 DEF Verify
  <1>8. PICK a \in 0..N :
          /\ MayAcceptPrefix(a)
          /\ \E t \in NextTokenSupport(CutAtStop(a)) :
                verification' = [accepted |-> CutAtStop(a),
                                 next |-> t,
                                 effective |-> IF StopHits(a) = {} THEN DraftTokenCount
                                               ELSE CutAtStop(a),
                                 terminated |-> StopHits(a) # {}]
    BY DEF Verify
  <1> DEFINE c == CutAtStop(a)
  <1>9. PICK t \in NextTokenSupport(c) :
            verification' = [accepted |-> c,
                             next |-> t,
                             effective |-> IF StopHits(a) = {} THEN N ELSE c,
                             terminated |-> StopHits(a) # {}]
    BY <1>8
  <1>10. c \in 0..a /\ (StopHits(a) = {} => c = a)
    BY <1>4, <1>8, CutShortens
  <1> HIDE DEF c
  <1>11. /\ verification'.accepted = c
         /\ verification'.next = t
         /\ verification'.effective = IF StopHits(a) = {} THEN N ELSE c
         /\ verification'.terminated = (StopHits(a) # {})
    BY <1>9
  <1>12. \A i \in 1..N + 1 : TargetRow(i) = TargetProbs(base \o SubSeq(ids, 1, i))
    BY <1>5 DEF TargetRow
  <1>13. \A i \in 1..a : TargetProbs(base \o SubSeq(ids, 1, i))[ids[i + 1]] > 0
    BY <1>4, <1>8, <1>12 DEF MayAcceptPrefix, MayAccept
  <1>14. t \in Token /\ TargetProbs(base \o SubSeq(ids, 1, c + 1))[t] > 0
    <2>1. CASE c < N
      <3>1. t \in ResidualSupport(TargetRow(c + 1), proposal.probs[c + 1])
        BY <2>1, <1>9 DEF NextTokenSupport
      <3>2. proposal.probs[c + 1] \in [Token -> Nat]
        <4>1. c + 1 \in 1..Len(proposal.probs)
          BY <2>1, <1>4, <1>8, <1>10
        <4>2. proposal.probs[c + 1] \in Rows
          BY <4>1, <1>3, ElementOfSeq
        <4> QED BY <4>2, RowAssumption
      <3>3. TargetRow(c + 1) \in [Token -> Nat]
        <4> DEFINE s == SubSeq(ids, 1, c + 1)
        <4>1. \A i \in 1..c + 1 : ids[i] \in Token
          BY <2>1, <1>3, <1>4, <1>8, <1>10, ElementOfSeq
        <4>2. s \in Seq(Token) /\ Len(s) = c + 1
          BY <4>1, <1>8, <1>10, WrittenPrefix
        <4> HIDE DEF s, base
        <4>3. base \o s \in Seq(Token) /\ Len(base \o s) = start + c + 1
          <5>1. base \o s \in Seq(Token) /\ Len(base \o s) = Len(base) + Len(s)
            BY <4>2, <1>6, ConcatProperties, Zenon
          <5> QED BY <5>1, <4>2, <1>1, <1>6, <1>8, <1>10
        <4>4. base \o s \in [1..start + c + 1 -> Token]
          BY <4>3, LenProperties, Zenon
        <4>5. start + c + 1 \in 1..MaxContext
          BY <2>1, <1>1, <1>4, <1>5, <1>8, <1>10
        <4>6. TargetProbs(base \o s) \in Rows
          BY <4>4, <4>5, RowAssumption, Zenon
        <4>7. TargetRow(c + 1) = TargetProbs(base \o s)
          BY <1>4, <1>8, <1>10, <1>12 DEF s
        <4> QED BY <4>6, <4>7, RowAssumption
      <3>4. t \in Token /\ TargetRow(c + 1)[t] > 0
        BY <3>1, <3>2, <3>3, ResidualInSupport
      <3>5. c + 1 \in 1..N + 1
        BY <1>4, <1>8, <1>10
      <3> QED BY <3>4, <3>5, <1>12
    <2>2. CASE ~(c < N)
      <3>1. c = N
        BY <2>2, <1>4, <1>8, <1>10
      <3>2. t \in Support(TargetRow(N + 1))
        BY <2>2, <1>9 DEF NextTokenSupport
      <3>3. N + 1 \in 1..N + 1
        BY <1>4
      <3> QED BY <3>1, <3>2, <3>3, <1>12 DEF Support
    <2> QED BY <2>1, <2>2
  <1>15. TypeOK'
    <2>1. targetCache' \in Seq(Token)
      BY <1>3, <1>6, <1>7, ConcatProperties, SMTT(30)
    <2>2. verification' \in [accepted : 0..MaxProposalTokens,
                             next : Token \cup {Unwritten},
                             effective : 0..MaxProposalTokens,
                             terminated : BOOLEAN]
      BY <1>1, <1>4, <1>8, <1>9, <1>10, <1>14
    <2> QED BY <2>1, <2>2, <1>2 DEF TypeOK, Verify
  <1>16. StartWithinSample'
    BY <1>2 DEF StartWithinSample, Verify
  <1>17. CacheHoldsCommitted'
    BY DEF CacheHoldsCommitted, Verify
  <1>18. VerifiedBlock'
    <2>1. /\ outputIds' = outputIds /\ start' = start /\ proposal' = proposal
          /\ ~InvalidProposal'
      BY <1>2 DEF Verify
    <2>2. c <= verification'.effective /\ verification'.effective <= N
      BY <1>4, <1>8, <1>10, <1>11
    <2>3. \A i \in 1..c : TargetProbs(base \o SubSeq(ids, 1, i))[ids[i + 1]] > 0
      BY <1>4, <1>8, <1>10, <1>13
    <2> QED BY <2>1, <2>2, <2>3, <1>2, <1>7, <1>11, <1>14 DEF VerifiedBlock
  <1>19. Lossless'
    BY <1>2 DEF Lossless, Verify
  <1> QED BY <1>15, <1>16, <1>17, <1>18, <1>19

\* Cropping a cache that ends with a block leaves the start of the block.
LEMMA CropBlock ==
    ASSUME NEW out, NEW k \in Nat, \A i \in 1..k + 1 : out[i] \in Token,
           NEW ids \in Seq(Token), NEW j \in 0..Len(ids)
    PROVE  Crop(SubSeq(out, 1, k) \o ids, k + j) = SubSeq(out, 1, k) \o SubSeq(ids, 1, j)
  <1> DEFINE b == SubSeq(out, 1, k)
             t == SubSeq(ids, 1, j)
             c == b \o ids
  <1>1. b \in Seq(Token) /\ Len(b) = k
    BY WrittenPrefix
  <1>2. Len(ids) \in Nat /\ \A i \in 1..Len(ids) : ids[i] \in Token
    BY LenProperties, ElementOfSeq
  <1>3. t \in Seq(Token) /\ Len(t) = j /\ \A i \in 1..j : t[i] = ids[i]
    BY <1>2, WrittenPrefix
  <1> HIDE DEF b, t
  <1>4. /\ c \in Seq(Token) /\ Len(c) = k + Len(ids)
        /\ \A i \in 1..k + Len(ids) : c[i] = IF i <= k THEN b[i] ELSE ids[i - k]
    BY <1>1, ConcatProperties
  <1>5. /\ b \o t \in Seq(Token) /\ Len(b \o t) = k + j
        /\ \A i \in 1..k + j : (b \o t)[i] = IF i <= k THEN b[i] ELSE t[i - k]
    BY <1>1, <1>3, ConcatProperties
  <1>6. \A i \in 1..k + j : (b \o t)[i] = c[i] /\ c[i] \in Token
    <2> SUFFICES ASSUME NEW i \in 1..k + j PROVE (b \o t)[i] = c[i] /\ c[i] \in Token
      BY Zenon
    <2>1. i \in 1..k + Len(ids)
      BY <1>2
    <2>2. c[i] \in Token
      BY <2>1, <1>4, ElementOfSeq
    <2>3. CASE i <= k
      BY <2>1, <2>2, <2>3, <1>4, <1>5
    <2>4. CASE i > k
      <3>1. i - k \in 1..j
        BY <2>4, <1>2
      <3> QED BY <3>1, <2>1, <2>2, <2>4, <1>3, <1>4, <1>5
    <2>5. i <= k \/ i > k
      BY <2>1, <1>2
    <2> HIDE DEF c
    <2> QED BY <2>3, <2>4, <2>5, Zenon
  <1> HIDE DEF c
  <1>7. CASE k + j < Len(c)
    <2>1. /\ SubSeq(c, 1, k + j) \in Seq(Token) /\ Len(SubSeq(c, 1, k + j)) = k + j
          /\ \A i \in 1..k + j : SubSeq(c, 1, k + j)[i] = c[i]
      BY <1>2, <1>6, WrittenPrefix
    <2>2. SubSeq(c, 1, k + j) = b \o t
      BY <2>1, <1>5, <1>6, SeqEqual, SMTT(30)
    <2> QED BY <2>2, <1>7 DEF Crop, b, t, c
  <1>8. CASE ~(k + j < Len(c))
    <2>1. k + j = Len(c)
      <3>1. Len(c) = k + Len(ids)
        BY <1>4
      <3>2. j \in Nat /\ j <= Len(ids)
        BY <1>2
      <3> QED BY <3>1, <3>2, <1>2, <1>8
    <2>2. c = b \o t
      BY <2>1, <1>4, <1>5, <1>6, SeqEqual, SMTT(30)
    <2> QED BY <2>2, <1>8 DEF Crop, b, t, c
  <1> QED BY <1>7, <1>8

\* Committing a verified block keeps the buffer lossless and the cache exact.
LEMMA CommitIInv == IInv /\ Commit => IInv'
  <1> SUFFICES ASSUME IInv, Commit PROVE IInv'
    OBVIOUS
  <1> USE DEF IInv
  <1> DEFINE v == verification
             ids == proposal.ids
             base == SubSeq(outputIds, 1, start)
             adv == Advance(v)
             new == WriteAccepted(outputIds, v)
             n == NumInputTokens
  <1>1. /\ n \in Nat /\ MaxLength \in Nat /\ start \in Nat
        /\ BufferLength = MaxLength + MaxProposalTokens + 1
        /\ MaxProposalTokens \in Nat \ {0}
    BY Sizes, SizeAssumption
  <1>2. /\ NumInputTokens' = NumInputTokens
        /\ MaxLength' = MaxLength
        /\ BufferLength' = BufferLength
    BY DEF Commit, NumInputTokens, MaxLength, BufferLength
  <1>3. /\ start' = start + adv
        /\ outputIds' = new
        /\ targetCache' = Crop(targetCache, start + adv)
        /\ phase' \in {"stopped", "loop"}
        /\ rounds' = Append(rounds, RoundMetrics(v))
    BY DEF Commit, KeptCache
  <1>4. /\ v.accepted \in 0..MaxProposalTokens
        /\ v.effective \in 0..MaxProposalTokens
        /\ v.terminated \in BOOLEAN
    BY DEF TypeOK
  <1>5. /\ targetCache = base \o ids
        /\ ~InvalidProposal
        /\ v.accepted <= v.effective /\ v.effective <= DraftTokenCount
        /\ v.next \in Token
        /\ \A i \in 1..v.accepted : TargetProbs(base \o SubSeq(ids, 1, i))[ids[i + 1]] > 0
        /\ ~v.terminated => TargetProbs(base \o SubSeq(ids, 1, v.accepted + 1))[v.next] > 0
    BY Zenon DEF VerifiedBlock, Commit
  <1>6. start < MaxLength /\ start >= n /\ \A i \in 1..start + 1 : outputIds[i] \in Token
    BY DEF StartWithinSample, Commit
  <1>7. /\ ids \in Seq(Token)
        /\ Len(ids) = DraftTokenCount + 1
        /\ DraftTokenCount \in Nat /\ DraftTokenCount <= MaxProposalTokens
        /\ ids[1] = outputIds[start + 1]
    <2>1. IsProposal(proposal)
      BY DEF TypeOK, Commit
    <2>2. Len(proposal.probs) \in Nat
      BY <2>1, LenProperties, SMTT(30) DEF IsProposal
    <2> QED BY <2>1, <2>2, <1>1, <1>5 DEF IsProposal, InvalidProposal, DraftTokenCount
  <1>8. \A i \in 1..v.accepted + 1 : ids[i] \in Token
    BY <1>4, <1>5, <1>7, ElementOfSeq
  <1>9. /\ adv \in 0..v.accepted + 1
        /\ v.terminated => adv = v.accepted
        /\ ~v.terminated => adv = v.accepted + 1
    BY <1>4 DEF Advance
  <1>10. /\ outputIds \in [1..BufferLength -> Token \cup {Unwritten}]
         /\ Len(outputIds) = BufferLength
    BY <1>1 DEF TypeOK
  <1>11. start + v.accepted + 2 <= BufferLength
    BY <1>1, <1>4, <1>6
  <1>12. \A i \in 1..BufferLength :
            new[i] = IF i \in start + 1..start + v.accepted + 1 THEN ids[i - start]
                     ELSE IF i = start + v.accepted + 2 /\ ~v.terminated THEN v.next
                     ELSE outputIds[i]
    BY <1>10 DEF WriteAccepted
  <1>13. \A i \in 1..v.accepted + 1 : new[start + i] = ids[i]
    BY <1>1, <1>4, <1>11, <1>12
  <1>14. ~v.terminated => new[start + v.accepted + 2] = v.next
    BY <1>1, <1>4, <1>11, <1>12
  <1>15. \A i \in 1..start + 1 : new[i] = outputIds[i]
    <2> SUFFICES ASSUME NEW i \in 1..start + 1 PROVE new[i] = outputIds[i]
      OBVIOUS
    <2>1. CASE i = start + 1
      BY <2>1, <1>1, <1>4, <1>7, <1>11, <1>12, SMTT(30)
    <2>2. CASE i # start + 1
      BY <2>2, <1>1, <1>4, <1>11, <1>12
    <2> QED BY <2>1, <2>2
  <1>16. new \in [1..BufferLength -> Token \cup {Unwritten}]
    <2>1. new = [i \in 1..BufferLength |-> new[i]]
      BY <1>10 DEF WriteAccepted
    <2>2. ASSUME NEW i \in 1..BufferLength PROVE new[i] \in Token \cup {Unwritten}
      <3>1. CASE i \in start + 1..start + v.accepted + 1
        <4>1. i - start \in 1..v.accepted + 1
          BY <3>1, <1>1, <1>4
        <4> QED BY <4>1, <3>1, <1>8, <1>12
      <3>2. CASE i \notin start + 1..start + v.accepted + 1
        BY <3>2, <1>5, <1>10, <1>12, Zenon
      <3> QED BY <3>1, <3>2
    <2> HIDE DEF new
    <2> QED BY <2>1, <2>2
  <1> HIDE DEF new, adv
  \* Every slot up to the new current token holds a token.
  <1>17. \A i \in 1..start + adv + 1 : new[i] \in Token
    <2> SUFFICES ASSUME NEW i \in 1..start + adv + 1 PROVE new[i] \in Token
      OBVIOUS
    <2>1. CASE i <= start + 1
      BY <2>1, <1>1, <1>6, <1>15
    <2>2. CASE i > start + 1 /\ i <= start + v.accepted + 1
      <3>1. i - start \in 1..v.accepted + 1 /\ start + (i - start) = i
        BY <2>2, <1>1, <1>4
      <3>2. new[i] = ids[i - start]
        BY <3>1, <1>13
      <3> QED BY <3>1, <3>2, <1>8
    <2>3. CASE i > start + v.accepted + 1
      <3>1. ~v.terminated /\ i = start + v.accepted + 2
        BY <2>3, <1>1, <1>4, <1>9
      <3> QED BY <3>1, <1>5, <1>14
    <2> QED BY <2>1, <2>2, <2>3, <1>1, <1>4
  \* The context of every newly committed token is the one it was scored in.
  <1>18. \A j \in 0..v.accepted + 1 :
            SubSeq(new, 1, start + j) = base \o SubSeq(ids, 1, j)
    <2> SUFFICES ASSUME NEW j \in 0..v.accepted + 1
                 PROVE  SubSeq(new, 1, start + j) = base \o SubSeq(ids, 1, j)
      BY Zenon
    <2>1. j \in 0..Len(ids)
      BY <1>4, <1>5, <1>7
    <2>2. \A i \in 1..start : outputIds[i] \in Token
      BY <1>1, <1>6
    <2>3. \A i \in 1..start : new[i] = outputIds[i]
      BY <1>1, <1>15
    <2>4. \A i \in 1..j : new[start + i] = ids[i]
      BY <1>4, <1>13
    <2>5. start \in Nat
      BY <1>1
    <2>6. ids \in Seq(Token)
      BY <1>7
    <2> HIDE DEF ids, v
    <2> QED BY <2>1, <2>2, <2>3, <2>4, <2>5, <2>6, BlockContext, ZenonT(30)
  <1>19. TypeOK'
    <2>1. start' \in 0..MaxLength' + MaxProposalTokens
      BY <1>1, <1>2, <1>3, <1>4, <1>6, <1>9
    <2>2. targetCache' \in Seq(Token)
      <3>1. \A i \in 1..start : outputIds[i] \in Token
        BY <1>1, <1>6
      <3>2. base \in Seq(Token)
        BY <3>1, <1>1, WrittenPrefix
      <3>3. targetCache \in Seq(Token) /\ Len(targetCache) \in Nat
        BY LenProperties DEF TypeOK
      <3>4. start + adv \in Nat
        BY <1>1, <1>4, <1>9
      <3>5. CASE start + adv < Len(targetCache)
        <4>1. \A i \in 1..start + adv : targetCache[i] \in Token
          BY <3>3, <3>4, <3>5, ElementOfSeq
        <4>2. SubSeq(targetCache, 1, start + adv) \in Seq(Token)
          BY <3>4, <4>1, WrittenPrefix
        <4> QED BY <4>2, <3>5, <1>3 DEF Crop
      <3>6. CASE ~(start + adv < Len(targetCache))
        BY <3>3, <3>6, <1>3 DEF Crop
      <3> QED BY <3>5, <3>6
    <2>3. rounds' \in Seq([acceptance : 0..MaxProposalTokens + 1,
                           proposed : 0..MaxProposalTokens,
                           accepted : 0..MaxProposalTokens])
      <3>1. RoundMetrics(v) \in [acceptance : 0..MaxProposalTokens + 1,
                                 proposed : 0..MaxProposalTokens,
                                 accepted : 0..MaxProposalTokens]
        <4>1. adv \in 0..MaxProposalTokens + 1
          BY <1>1, <1>4, <1>9
        <4> QED BY <4>1, <1>4 DEF RoundMetrics, adv
      <3> QED BY <3>1, <1>3 DEF TypeOK
    <2>4. /\ phase' \in {"loop", "stopped"} /\ prompt' = prompt
          /\ proposal' = proposal /\ verification' = verification /\ result' = result
      BY <1>3 DEF Commit
    <2> QED BY <2>1, <2>2, <2>3, <2>4, <1>2, <1>3, <1>16 DEF TypeOK
  <1>20. StartWithinSample'
    BY <1>1, <1>2, <1>3, <1>4, <1>6, <1>9, <1>17 DEF StartWithinSample
  <1>21. CacheHoldsCommitted'
    <2>1. adv \in 0..Len(ids)
      BY <1>4, <1>5, <1>7, <1>9
    <2>2. SubSeq(new, 1, start + adv) = base \o SubSeq(ids, 1, adv)
      BY <1>4, <1>9, <1>18, Zenon
    <2>3. start \in Nat /\ \A i \in 1..start + 1 : outputIds[i] \in Token
      BY <1>1, <1>6
    <2>4. Crop(base \o ids, start + adv) = base \o SubSeq(ids, 1, adv)
      BY <2>1, <2>3, <1>7, CropBlock, Zenon
    <2> QED BY <2>2, <2>4, <1>3, <1>5, Zenon DEF CacheHoldsCommitted
  <1>22. VerifiedBlock'
    BY <1>3 DEF VerifiedBlock
  <1>23. Lossless'
    <2> DEFINE w == SubSeq(new, 1, start + adv + 1)
    <2>0. start + adv + 1 \in Nat
      BY <1>1, <1>4, <1>9
    <2>1. /\ w \in Seq(Token) /\ Len(w) = start + adv + 1
          /\ \A i \in 1..start + adv + 1 : w[i] = new[i]
      BY <2>0, <1>17, WrittenPrefix
    <2>2. Committed' = w
      BY <1>3 DEF Committed
    <2> HIDE DEF w
    <2>3. \A k \in 0..start + adv + 1 : SubSeq(w, 1, k) = SubSeq(new, 1, k)
      <3> SUFFICES ASSUME NEW k \in 0..start + adv + 1
                   PROVE  SubSeq(w, 1, k) = SubSeq(new, 1, k)
        OBVIOUS
      <3>1. \A i \in 1..k : new[i] \in Token /\ w[i] = new[i]
        BY <2>0, <2>1, <1>17
      <3> QED BY <3>1, <2>0, SamePrefix
    <2>4. TargetCouldSample(w, n)
      <3> SUFFICES ASSUME NEW i \in n + 1..start + adv + 1
                   PROVE  TargetProbs(SubSeq(w, 1, i - 1))[w[i]] > 0
        BY <2>1 DEF TargetCouldSample
      <3>1. /\ i \in 1..start + adv + 1 /\ i - 1 \in 0..start + adv + 1
            /\ i \in Nat
        BY <2>0, <1>1
      <3>2. w[i] = new[i] /\ SubSeq(w, 1, i - 1) = SubSeq(new, 1, i - 1)
        BY <3>1, <2>1, <2>3
      <3>3. CASE i <= start + 1
        <4>1. TargetCouldSample(Committed, n)
          BY DEF Lossless, Commit
        <4>2. \A k \in 1..start + 1 : outputIds[k] \in Token
          BY <1>6
        <4>3. /\ Committed \in Seq(Token) /\ Len(Committed) = start + 1
              /\ \A k \in 1..start + 1 : Committed[k] = outputIds[k]
          BY <4>2, <1>1, WrittenPrefix DEF Committed
        <4>4. TargetProbs(SubSeq(Committed, 1, i - 1))[Committed[i]] > 0
          BY <4>1, <4>3, <3>3, <1>1 DEF TargetCouldSample
        <4>5. Committed[i] = new[i]
          BY <4>3, <3>1, <3>3, <1>1, <1>15
        <4>6. SubSeq(Committed, 1, i - 1) = SubSeq(new, 1, i - 1)
          <5>1. \A k \in 1..i - 1 : new[k] \in Token /\ Committed[k] = new[k]
            BY <4>2, <4>3, <3>1, <3>3, <1>1, <1>15
          <5> QED BY <5>1, <3>1, SamePrefix
        <4> QED BY <4>4, <4>5, <4>6, <3>2, Zenon
      <3>4. CASE i > start + 1 /\ i <= start + v.accepted + 1
        <4> DEFINE j == i - 1 - start
        <4>1. j \in 1..v.accepted /\ i - 1 = start + j /\ i = start + (j + 1)
          BY <3>1, <3>4, <1>1, <1>4
        <4> HIDE DEF j
        <4>2. SubSeq(new, 1, i - 1) = base \o SubSeq(ids, 1, j)
          <5>1. j \in 0..v.accepted + 1
            BY <4>1, <1>4
          <5>2. SubSeq(new, 1, start + j) = base \o SubSeq(ids, 1, j)
            BY <5>1, <1>18, Zenon
          <5> QED BY <5>2, <4>1, Zenon
        <4>3. new[i] = ids[j + 1]
          BY <4>1, <1>4, <1>13
        <4> QED BY <4>1, <4>2, <4>3, <3>2, <1>5, Zenon
      <3>5. CASE i > start + v.accepted + 1
        <4>1. ~v.terminated /\ i = start + v.accepted + 2 /\ i - 1 = start + (v.accepted + 1)
          BY <3>5, <1>1, <1>4, <1>9
        <4>2. SubSeq(new, 1, i - 1) = base \o SubSeq(ids, 1, v.accepted + 1)
          <5>1. v.accepted + 1 \in 0..v.accepted + 1
            BY <1>4
          <5>2. SubSeq(new, 1, start + (v.accepted + 1)) = base \o SubSeq(ids, 1, v.accepted + 1)
            BY <5>1, <1>18, Zenon
          <5> QED BY <5>2, <4>1, Zenon
        <4> QED BY <4>1, <4>2, <3>2, <1>5, <1>14, Zenon
      <3> QED BY <3>1, <3>3, <3>4, <3>5, <1>1, <1>4
    <2> QED BY <2>2, <2>4, <1>2 DEF Lossless
  <1> QED BY <1>19, <1>20, <1>21, <1>22, <1>23

\* Every step of the loop and every proposal keeps the invariant.
LEMMA NextIInv == IInv /\ [Next]_vars => IInv'
  <1> SUFFICES ASSUME IInv, [Next]_vars PROVE IInv'
    OBVIOUS
  <1>1. CASE Prefill
    BY <1>1, PrefillIInv
  <1>2. CASE RejectProposal
    BY <1>2, RejectIInv
  <1>3. CASE Verify
    BY <1>3, VerifyIInv
  <1>4. CASE Commit
    BY <1>4, CommitIInv
  <1>5. CASE Finish
    BY <1>5, FinishIInv
  <1>6. CASE ProposeAny
    <2>1. PICK p \in Proposals : Propose(p)
      BY <1>6 DEF ProposeAny
    <2>2. IsProposal(p)
      BY ProposalAssumption
    <2> QED BY <2>1, <2>2, ProposeIInv
  <1>7. CASE UNCHANGED vars
    <2>1. /\ phase' = phase /\ prompt' = prompt /\ outputIds' = outputIds /\ start' = start
          /\ targetCache' = targetCache /\ proposal' = proposal
          /\ verification' = verification /\ rounds' = rounds /\ result' = result
      BY <1>7 DEF vars
    <2>2. /\ NumInputTokens' = NumInputTokens /\ MaxLength' = MaxLength
          /\ BufferLength' = BufferLength /\ DraftTokenCount' = DraftTokenCount
          /\ InvalidProposal' = InvalidProposal /\ Committed' = Committed
      BY <2>1 DEF NumInputTokens, MaxLength, BufferLength, DraftTokenCount, InvalidProposal,
                  Committed
    <2>3. TypeOK'
      BY <2>1, <2>2 DEF IInv, TypeOK
    <2>4. StartWithinSample'
      BY <2>1, <2>2 DEF IInv, StartWithinSample
    <2>5. CacheHoldsCommitted'
      BY <2>1 DEF IInv, CacheHoldsCommitted
    <2>6. VerifiedBlock'
      BY <2>1, <2>2, Zenon DEF IInv, VerifiedBlock
    <2>7. Lossless'
      BY <2>1, <2>2 DEF IInv, Lossless
    <2> QED BY <2>3, <2>4, <2>5, <2>6, <2>7 DEF IInv
  <1> QED BY <1>1, <1>2, <1>3, <1>4, <1>5, <1>6, <1>7 DEF Next, LoopStep, Ended

\* The inductive invariant holds in every reachable state of the decoding loop.
THEOREM Inductive == Spec => []IInv
  BY InitIInv, NextIInv, PTL DEF Spec

\* Types are respected: in particular start never leaves the buffer and the
\* target cache never holds a slot of output_ids that nobody wrote.
THEOREM TypeCorrect == Spec => []TypeOK
  <1>1. IInv => TypeOK
    BY DEF IInv
  <1> QED BY <1>1, Inductive, PTL

\* generate_decoding_sample is lossless for every target model, drafter,
\* vocabulary, prompt and length limit: whatever the proposals are, every
\* committed token is one the target model could sample after the tokens
\* before it.
THEOREM LosslessDecoding == Spec => []Lossless
  <1>1. IInv => Lossless
    BY DEF IInv
  <1> QED BY <1>1, Inductive, PTL

\* Between rounds past_key_values_target holds the committed tokens before the
\* current one, and nothing else.
THEOREM CacheExact == Spec => []CacheHoldsCommitted
  <1>1. IInv => CacheHoldsCommitted
    BY DEF IInv
  <1> QED BY <1>1, Inductive, PTL

\* The writes of a round stay inside the preallocated output_ids buffer.
THEOREM BufferSuffices == Spec => []CommitFitsBuffer
  <1>1. IInv => CommitFitsBuffer
    <2> SUFFICES ASSUME IInv, phase = "commit"
                 PROVE  start + verification.accepted + 2 <= BufferLength
      BY DEF CommitFitsBuffer
    <2>1. /\ start \in Nat /\ MaxLength \in Nat
          /\ BufferLength = MaxLength + MaxProposalTokens + 1
          /\ MaxProposalTokens \in Nat
      BY Sizes, SizeAssumption DEF IInv
    <2>2. verification.accepted \in 0..MaxProposalTokens
      BY DEF IInv, TypeOK
    <2>3. start < MaxLength
      BY DEF IInv, StartWithinSample
    <2> QED BY <2>1, <2>2, <2>3
  <1> QED BY <1>1, Inductive, PTL

=============================================================================
