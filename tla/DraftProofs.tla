---------------------------- MODULE DraftProofs ----------------------------
(***************************************************************************)
(* The drafters attend to what they were trained on, for every target      *)
(* model, vocabulary, prompt, block size, number of latent tokens and      *)
(* length limit.  Their own state is invisible to the decoding loop, whose *)
(* inductive invariant says which hidden states the callbacks are given.   *)
(***************************************************************************)
EXTENDS Evaluators, SpecDecodeProofs

-----------------------------------------------------------------------------
(* The inductive invariant. *)

\* The entries of a draft cache, as functions of the committed tokens.
Context(out, n) == [i \in 1..n |-> [hidden |-> SubSeq(out, 1, i), pos |-> i - 1]]
Pairing(out, n) ==
    [i \in 1..n |-> [hidden |-> SubSeq(out, 1, i), token |-> out[i + 1], pos |-> i - 1]]

\* The hidden states behind the first n of k committed tokens.
Hiddens(out, n, k) == [i \in 1..k - n |-> SubSeq(out, 1, n + i)]

BlockEntry == [hidden : Seq(Token), pos : Nat]
EagleEntry == [hidden : Seq(Token), token : Token, pos : Nat]

\* Between rounds the cache and the hidden states of the last round make up the
\* context; in a round all of it is cached, and the noise is gone.
BlockInv ==
    /\ drafter \in {"myspec", "dspark"}
    /\ drafter = "dspark" => latentCache = <<>>
    /\ phase \in {"loop", "verify", "commit"} /\ drafter = "myspec" => latentCache = maskCache
    /\ phase = "loop" => \E n \in 0..start :
          /\ maskCache = Context(outputIds, n)
          /\ contextHidden = Hiddens(outputIds, n, start)
    /\ phase \in {"verify", "commit"} => maskCache = Context(outputIds, start)
    /\ phase = "verify" => ~InvalidProposal

\* Between rounds the cache has the trained pairing; in a round it begins with
\* it, and the drafter's own entries follow.
EagleInv ==
    /\ phase = "loop" =>
          /\ draftCache = Pairing(outputIds, start)
          /\ draftHidden = draftCache
          /\ currentPos = start
    /\ phase \in {"verify", "commit"} =>
          /\ cacheLenBefore = start /\ currentPos = start
          /\ draftCache \in Seq(EagleEntry) /\ start <= Len(draftCache)
          /\ \A i \in 1..start : draftCache[i] = Pairing(outputIds, start)[i]
          /\ \A i \in start + 1..Len(draftCache) : draftCache[i].pos = i - 1
    /\ phase = "verify" => ~InvalidProposal

LoopIInv ==
    /\ IInv
    /\ loop = "block" => BlockInv
    /\ loop = "eagle3" => EagleInv

-----------------------------------------------------------------------------
(* Caches as sequences. *)

\* A function on 1..n is a sequence of length n.
LEMMA FunctionIsSeq ==
    ASSUME NEW S, NEW n \in Nat, NEW f \in [1..n -> S]
    PROVE  f \in Seq(S) /\ Len(f) = n
  OBVIOUS

\* Cropping to the length of a prefix yields the prefix.
LEMMA CropIs ==
    ASSUME NEW S, NEW u \in Seq(S), NEW f \in Seq(S), Len(f) <= Len(u),
           \A i \in 1..Len(f) : u[i] = f[i]
    PROVE  Crop(u, Len(f)) = f
  <1>1. Len(f) \in Nat /\ Len(u) \in Nat
    BY LenProperties
  <1>2. CASE Len(f) < Len(u)
    <2>1. \A i \in 1..Len(f) : u[i] \in S
      BY <1>1, ElementOfSeq
    <2>2. /\ SubSeq(u, 1, Len(f)) \in Seq(S) /\ Len(SubSeq(u, 1, Len(f))) = Len(f)
          /\ \A i \in 1..Len(f) : SubSeq(u, 1, Len(f))[i] = u[i]
      BY <1>1, <2>1, SubSeqProperties
    <2>3. SubSeq(u, 1, Len(f)) = f
      BY <2>2, SeqEqual
    <2> QED BY <1>2, <2>3 DEF Crop
  <1>3. CASE ~(Len(f) < Len(u))
    <2>1. Len(u) = Len(f)
      BY <1>1, <1>3
    <2>2. u = f
      BY <2>1, SeqEqual
    <2> QED BY <1>3, <2>2 DEF Crop
  <1> QED BY <1>2, <1>3

\* The entries of the committed tokens are a sequence of that length.
LEMMA ContextFacts ==
    ASSUME NEW out, NEW n \in Nat, \A i \in 1..n : out[i] \in Token
    PROVE  /\ Context(out, n) \in Seq(BlockEntry) /\ Len(Context(out, n)) = n
           /\ \A i \in 1..n : Context(out, n)[i] = [hidden |-> SubSeq(out, 1, i), pos |-> i - 1]
  <1>1. ASSUME NEW i \in 1..n PROVE [hidden |-> SubSeq(out, 1, i), pos |-> i - 1] \in BlockEntry
    <2>1. SubSeq(out, 1, i) \in Seq(Token)
      BY WrittenPrefix
    <2>2. i - 1 \in Nat
      OBVIOUS
    <2> QED BY <2>1, <2>2 DEF BlockEntry
  <1>2. Context(out, n) \in [1..n -> BlockEntry]
    BY <1>1 DEF Context
  <1>3. \A i \in 1..n : Context(out, n)[i] = [hidden |-> SubSeq(out, 1, i), pos |-> i - 1]
    BY DEF Context
  <1> QED BY <1>2, <1>3, FunctionIsSeq

\* The same for the pairing of hidden states with the tokens after them.
LEMMA PairingFacts ==
    ASSUME NEW out, NEW n \in Nat, \A i \in 1..n + 1 : out[i] \in Token
    PROVE  /\ Pairing(out, n) \in Seq(EagleEntry) /\ Len(Pairing(out, n)) = n
           /\ \A i \in 1..n : Pairing(out, n)[i] =
                 [hidden |-> SubSeq(out, 1, i), token |-> out[i + 1], pos |-> i - 1]
  <1>1. ASSUME NEW i \in 1..n
        PROVE  [hidden |-> SubSeq(out, 1, i), token |-> out[i + 1], pos |-> i - 1] \in EagleEntry
    <2>1. SubSeq(out, 1, i) \in Seq(Token)
      BY WrittenPrefix
    <2>2. i - 1 \in Nat /\ out[i + 1] \in Token
      OBVIOUS
    <2> QED BY <2>1, <2>2 DEF EagleEntry
  <1>2. Pairing(out, n) \in [1..n -> EagleEntry]
    BY <1>1 DEF Pairing
  <1>3. \A i \in 1..n : Pairing(out, n)[i] =
                 [hidden |-> SubSeq(out, 1, i), token |-> out[i + 1], pos |-> i - 1]
    BY DEF Pairing
  <1> QED BY <1>2, <1>3, FunctionIsSeq

\* Writing behind the first n tokens leaves their context as it is.
LEMMA SameContext ==
    ASSUME NEW out, NEW new, NEW n \in Nat,
           \A i \in 1..n : out[i] \in Token, \A i \in 1..n : new[i] = out[i]
    PROVE  Context(new, n) = Context(out, n)
  <1>1. \A i \in 1..n : SubSeq(new, 1, i) = SubSeq(out, 1, i)
    <2> SUFFICES ASSUME NEW i \in 1..n PROVE SubSeq(new, 1, i) = SubSeq(out, 1, i)
      OBVIOUS
    <2>1. i \in Nat /\ (\A j \in 1..i : out[j] \in Token) /\ (\A j \in 1..i : new[j] = out[j])
      OBVIOUS
    <2> QED BY <2>1, SamePrefix
  <1> QED BY <1>1 DEF Context

\* e begins with the entries of the committed tokens behind the first n of k.
AreEntries(e, out, n, k) ==
    /\ e \in Seq(BlockEntry) /\ k - n <= Len(e)
    /\ \A i \in 1..k - n : e[i] = [hidden |-> SubSeq(out, 1, n + i), pos |-> n + i - 1]

\* A round of a block drafter: the cached context, the new context c behind it
\* and whatever z is noise, cropped to the k committed tokens.
LEMMA DraftRound ==
    ASSUME NEW out, NEW k \in Nat, NEW n \in 0..k, \A i \in 1..k : out[i] \in Token,
           NEW c, AreEntries(c, out, n, k), NEW z \in Seq(BlockEntry)
    PROVE  Crop(Context(out, n) \o c \o z, k) = Context(out, k)
  <1> DEFINE s == Context(out, n)
             f == Context(out, k)
             u == s \o c
             w == u \o z
  <1>1. /\ s \in Seq(BlockEntry) /\ Len(s) = n
        /\ \A i \in 1..n : s[i] = [hidden |-> SubSeq(out, 1, i), pos |-> i - 1]
    <2>1. n \in Nat /\ \A i \in 1..n : out[i] \in Token
      OBVIOUS
    <2> QED BY <2>1, ContextFacts
  <1>2. /\ f \in Seq(BlockEntry) /\ Len(f) = k
        /\ \A i \in 1..k : f[i] = [hidden |-> SubSeq(out, 1, i), pos |-> i - 1]
    BY ContextFacts
  <1>3. Len(c) \in Nat /\ Len(z) \in Nat /\ k - n <= Len(c) /\ c \in Seq(BlockEntry)
        /\ \A i \in 1..k - n : c[i] = [hidden |-> SubSeq(out, 1, n + i), pos |-> n + i - 1]
    BY LenProperties DEF AreEntries
  <1> HIDE DEF s, f
  <1>4. /\ u \in Seq(BlockEntry) /\ Len(u) = n + Len(c)
        /\ \A i \in 1..n + Len(c) : u[i] = IF i <= n THEN s[i] ELSE c[i - n]
    BY <1>1, <1>3, ConcatProperties, ZenonT(30)
  <1> HIDE DEF u
  <1>5. /\ w \in Seq(BlockEntry) /\ Len(w) = n + Len(c) + Len(z)
        /\ \A i \in 1..n + Len(c) : w[i] = u[i]
    <2>1. /\ w \in Seq(BlockEntry) /\ Len(w) = Len(u) + Len(z)
          /\ \A i \in 1..Len(u) + Len(z) : w[i] = IF i <= Len(u) THEN u[i] ELSE z[i - Len(u)]
      BY <1>4, ConcatProperties, Zenon
    <2> HIDE DEF w
    <2>2. Len(w) = n + Len(c) + Len(z)
      BY <1>4, <2>1
    <2>3. \A i \in 1..Len(u) : w[i] = u[i]
      BY <1>3, <1>4, <2>1
    <2> QED BY <1>4, <2>1, <2>2, <2>3
  <1> HIDE DEF w
  <1>6. \A i \in 1..k : w[i] = f[i]
    <2> SUFFICES ASSUME NEW i \in 1..k PROVE w[i] = f[i]
      OBVIOUS
    <2>1. i \in 1..n + Len(c) /\ w[i] = u[i]
      BY <1>3, <1>5
    <2>2. CASE i <= n
      BY <1>1, <1>2, <1>4, <2>1, <2>2
    <2>3. CASE ~(i <= n)
      <3>1. i - n \in 1..k - n /\ n + (i - n) = i
        BY <2>3
      <3>2. c[i - n] = [hidden |-> SubSeq(out, 1, i), pos |-> i - 1]
        BY <1>3, <3>1
      <3> QED BY <1>2, <1>4, <2>1, <2>3, <3>2
    <2> QED BY <2>2, <2>3
  <1>7. Crop(w, k) = f
    <2>1. Len(f) <= Len(w)
      BY <1>2, <1>3, <1>5
    <2> QED BY <1>2, <1>5, <1>6, <2>1, CropIs
  <1> QED BY <1>7 DEF s, f, u, w

\* A slice of position_ids that stays inside it.
LEMMA PositionsFacts ==
    ASSUME BufferLength \in Nat, NEW from \in Nat, NEW to \in Nat,
           from <= to, to <= BufferLength
    PROVE  /\ Positions(from, to) \in Seq(Nat) /\ Len(Positions(from, to)) = to - from
           /\ \A i \in 1..to - from : Positions(from, to)[i] = from + i - 1
  <1> DEFINE end == IF to < BufferLength THEN to ELSE BufferLength
             m == IF end > from THEN end - from ELSE 0
  <1>1. end = to
    OBVIOUS
  <1>2. m = to - from
    BY <1>1
  <1> HIDE DEF end, m
  <1>3. Positions(from, to) = [i \in 1..m |-> from + i - 1]
    BY Zenon DEF Positions, m, end
  <1>4. to - from \in Nat /\ \A i \in 1..to - from : from + i - 1 \in Nat
    OBVIOUS
  <1>5. [i \in 1..to - from |-> from + i - 1] \in [1..to - from -> Nat]
    BY <1>4
  <1>6. /\ [i \in 1..to - from |-> from + i - 1] \in Seq(Nat)
        /\ Len([i \in 1..to - from |-> from + i - 1]) = to - from
    BY <1>4, <1>5, FunctionIsSeq
  <1> QED BY <1>2, <1>3, <1>6

\* The entries of hidden states at given positions; where the hidden states
\* end, noise follows.
LEMMA EntriesFacts ==
    ASSUME NEW hidden \in Seq(Seq(Token)), NEW positions \in Seq(Nat)
    PROVE  /\ Entries(hidden, positions) \in Seq(BlockEntry)
           /\ Len(Entries(hidden, positions)) = Len(positions)
           /\ \A i \in 1..Len(positions) : i <= Len(hidden) =>
                 Entries(hidden, positions)[i] = [hidden |-> hidden[i], pos |-> positions[i]]
  <1> DEFINE e(i) == [hidden |-> IF i <= Len(hidden) THEN hidden[i] ELSE Noise,
                      pos |-> positions[i]]
  <1>1. Len(positions) \in Nat /\ Len(hidden) \in Nat
    BY LenProperties
  <1>2. ASSUME NEW i \in 1..Len(positions) PROVE e(i) \in BlockEntry
    <2>1. positions[i] \in Nat
      BY ElementOfSeq
    <2>2. Noise \in Seq(Token)
      BY DEF Noise
    <2>3. i <= Len(hidden) => hidden[i] \in Seq(Token)
      BY <1>1, ElementOfSeq
    <2>4. (IF i <= Len(hidden) THEN hidden[i] ELSE Noise) \in Seq(Token)
      BY <2>2, <2>3
    <2> QED BY <2>1, <2>4 DEF BlockEntry
  <1>3. Entries(hidden, positions) = [i \in 1..Len(positions) |-> e(i)]
    BY Zenon DEF Entries
  <1>4. \A i \in 1..Len(positions) : i <= Len(hidden) =>
                 e(i) = [hidden |-> hidden[i], pos |-> positions[i]]
    OBVIOUS
  <1> HIDE DEF e
  <1>5. [i \in 1..Len(positions) |-> e(i)] \in [1..Len(positions) -> BlockEntry]
    BY <1>2
  <1>6. /\ Entries(hidden, positions) \in Seq(BlockEntry)
        /\ Len(Entries(hidden, positions)) = Len(positions)
    <2>1. Entries(hidden, positions) \in [1..Len(positions) -> BlockEntry]
      BY <1>3, <1>5
    <2> QED BY ONLY <1>1, <2>1, FunctionIsSeq, Zenon
  <1> QED BY <1>3, <1>4, <1>6

\* What a round that does not end the sample leaves to the update callback: the
\* buffer, and the hidden states of the block as those of committed tokens.
LEMMA RoundFacts ==
    ASSUME IInv, Commit, ~verification.terminated
    PROVE  /\ start \in Nat /\ verification.accepted \in Nat
           /\ start' = start + verification.accepted + 1
           /\ proposal.ids \in Seq(Token) /\ verification.accepted + 1 <= Len(proposal.ids)
           /\ verification.next \in Token
           /\ \A i \in 1..start + 1 : outputIds[i] \in Token
           /\ \A i \in 1..start + 1 : outputIds'[i] = outputIds[i]
           /\ \A i \in 1..start' + 1 : outputIds'[i] \in Token
           /\ \A i \in 1..verification.accepted + 1 : outputIds'[start + i] = proposal.ids[i]
           /\ outputIds'[start + verification.accepted + 2] = verification.next
           /\ HiddenAfter(targetCache, start) \in Seq(Seq(Token))
           /\ Len(HiddenAfter(targetCache, start)) = Len(proposal.ids)
           /\ \A i \in 1..verification.accepted + 1 :
                 HiddenAfter(targetCache, start)[i] = SubSeq(outputIds', 1, start + i)
  <1> DEFINE v == verification
             ids == proposal.ids
             base == SubSeq(outputIds, 1, start)
             new == WriteAccepted(outputIds, v)
             hidden == HiddenAfter(targetCache, start)
  <1>1. /\ phase = "commit" /\ start' = start + Advance(v) /\ outputIds' = new
    BY DEF Commit
  <1>2. /\ v.accepted \in Nat /\ v.accepted <= MaxProposalTokens
        /\ start \in Nat /\ MaxProposalTokens \in Nat
        /\ BufferLength = MaxLength + MaxProposalTokens + 1 /\ MaxLength \in Nat
        /\ start < MaxLength
    BY <1>1, Sizes, SizeAssumption DEF IInv, TypeOK, StartWithinSample
  <1>3. /\ targetCache = base \o ids
        /\ v.accepted <= v.effective /\ v.effective <= DraftTokenCount
        /\ v.next \in Token
        /\ ids[1] = outputIds[start + 1]
    BY <1>1, Zenon DEF IInv, VerifiedBlock, InvalidProposal
  <1>4. ids \in Seq(Token) /\ Len(ids) \in Nat /\ DraftTokenCount = Len(ids) - 1
    <2>1. IsProposal(proposal)
      BY <1>1 DEF IInv, TypeOK
    <2>2. ids \in Seq(Token)
      BY <2>1 DEF IsProposal
    <2> QED BY <2>2, LenProperties DEF DraftTokenCount
  <1>5. v.accepted + 1 <= Len(ids)
    <2>1. v.effective \in Nat
      BY SizeAssumption DEF IInv, TypeOK
    <2> QED BY <2>1, <1>2, <1>3, <1>4
  <1>6. start' = start + v.accepted + 1
    BY <1>1, <1>2 DEF Advance
  <1>7. \A i \in 1..BufferLength :
            new[i] = IF i \in start + 1..start + v.accepted + 1 THEN ids[i - start]
                     ELSE IF i = start + v.accepted + 2 /\ ~v.terminated THEN v.next
                     ELSE outputIds[i]
    <2>1. Len(outputIds) = BufferLength
      BY <1>2 DEF IInv, TypeOK
    <2> QED BY <2>1 DEF WriteAccepted
  <1> HIDE DEF new
  <1>8. \A i \in 1..v.accepted + 1 : new[start + i] = ids[i]
    BY <1>2, <1>7
  <1>9. new[start + v.accepted + 2] = v.next
    BY <1>2, <1>7
  <1>10. \A i \in 1..start + 1 : new[i] = outputIds[i]
    <2> SUFFICES ASSUME NEW i \in 1..start + 1 PROVE new[i] = outputIds[i]
      OBVIOUS
    <2>1. CASE i = start + 1
      <3>1. 1 \in 1..v.accepted + 1
        BY <1>2
      <3> QED BY <2>1, <3>1, <1>3, <1>8
    <2>2. CASE i # start + 1
      <3>1. i \in 1..BufferLength /\ i \notin start + 1..start + v.accepted + 1
                                  /\ i # start + v.accepted + 2
        BY <2>2, <1>2
      <3> QED BY <3>1, <1>7
    <2> QED BY <2>1, <2>2
  <1>11. \A i \in 1..start' + 1 : outputIds'[i] \in Token
    BY <1>1, CommitIInv DEF IInv, StartWithinSample, Commit
  <1>12. \A i \in 1..start + 1 : outputIds[i] \in Token
    BY <1>1 DEF IInv, StartWithinSample
  <1>13. base \in Seq(Token) /\ Len(base) = start /\ \A i \in 1..start : base[i] = outputIds[i]
    BY <1>2, <1>12, WrittenPrefix
  <1> HIDE DEF base, ids
  <1>14. /\ targetCache \in Seq(Token) /\ Len(targetCache) = start + Len(ids)
         /\ \A i \in 1..start + Len(ids) :
               targetCache[i] = IF i <= start THEN base[i] ELSE ids[i - start]
    <2>1. /\ base \o ids \in Seq(Token) /\ Len(base \o ids) = Len(base) + Len(ids)
          /\ \A i \in 1..Len(base) + Len(ids) :
               (base \o ids)[i] = IF i <= Len(base) THEN base[i] ELSE ids[i - Len(base)]
      BY <1>4, <1>13, ConcatProperties, Zenon
    <2> QED BY <2>1, <1>3, <1>13
  <1>15. \A i \in 1..start + v.accepted + 1 : new[i] = targetCache[i]
    <2> SUFFICES ASSUME NEW i \in 1..start + v.accepted + 1 PROVE new[i] = targetCache[i]
      OBVIOUS
    <2>1. i \in 1..start + Len(ids)
      BY <1>2, <1>4, <1>5
    <2>2. CASE i <= start
      BY <2>1, <2>2, <1>2, <1>10, <1>13, <1>14
    <2>3. CASE ~(i <= start)
      <3>1. i - start \in 1..v.accepted + 1 /\ start + (i - start) = i
        BY <2>3, <1>2
      <3>2. new[i] = ids[i - start]
        BY <3>1, <1>8
      <3> QED BY <3>2, <2>1, <2>3, <1>14
    <2> QED BY <2>2, <2>3
  <1>16. \A i \in 1..Len(ids) : SubSeq(targetCache, 1, start + i) \in Seq(Token)
    <2> SUFFICES ASSUME NEW i \in 1..Len(ids) PROVE SubSeq(targetCache, 1, start + i) \in Seq(Token)
      OBVIOUS
    <2>1. start + i \in Nat /\ start + i <= Len(targetCache)
      BY <1>2, <1>4, <1>14
    <2>2. \A j \in 1..start + i : targetCache[j] \in Token
      BY <2>1, <1>14, ElementOfSeq
    <2> QED BY <2>1, <2>2, WrittenPrefix
  <1>17. /\ hidden \in Seq(Seq(Token)) /\ Len(hidden) = Len(ids)
         /\ \A i \in 1..Len(ids) : hidden[i] = SubSeq(targetCache, 1, start + i)
    <2>1. Len(targetCache) - start = Len(ids)
      BY <1>2, <1>4, <1>14
    <2>2. hidden = [i \in 1..Len(ids) |-> SubSeq(targetCache, 1, start + i)]
      BY <2>1 DEF HiddenAfter
    <2> HIDE DEF hidden
    <2>3. hidden \in [1..Len(ids) -> Seq(Token)]
      BY <2>2, <1>16
    <2> QED BY <2>2, <2>3, <1>4, FunctionIsSeq, Zenon
  <1>18. \A i \in 1..v.accepted + 1 : hidden[i] = SubSeq(new, 1, start + i)
    <2> SUFFICES ASSUME NEW i \in 1..v.accepted + 1 PROVE hidden[i] = SubSeq(new, 1, start + i)
      OBVIOUS
    <2>1. i \in 1..Len(ids) /\ start + i \in Nat /\ start + i <= start + v.accepted + 1
      BY <1>2, <1>4, <1>5
    <2>2. start + i <= Len(targetCache)
      BY <2>1, <1>2, <1>4, <1>14
    <2>3. \A j \in 1..start + i : targetCache[j] \in Token
      BY <2>1, <2>2, <1>14, ElementOfSeq
    <2>4. \A j \in 1..start + i : new[j] = targetCache[j]
      BY <2>1, <1>2, <1>15
    <2>5. SubSeq(new, 1, start + i) = SubSeq(targetCache, 1, start + i)
      BY <2>1, <2>3, <2>4, SamePrefix
    <2> QED BY <2>1, <2>5, <1>17
  <1> QED
    BY <1>1, <1>2, <1>3, <1>4, <1>5, <1>6, <1>8, <1>9, <1>10, <1>11, <1>12, <1>17, <1>18, SMTT(30)
    DEF ids

-----------------------------------------------------------------------------
(* The block drafters. *)

\* Facts about sizes in a round.
LEMMA RoundSizes ==
    ASSUME IInv, phase \in {"loop", "verify", "commit"}
    PROVE  /\ start \in Nat /\ MaxLength \in Nat /\ BufferLength \in Nat
           /\ MaxProposalTokens \in Nat \ {0}
           /\ BufferLength = MaxLength + MaxProposalTokens + 1
           /\ \A i \in 1..start + 1 : outputIds[i] \in Token
  BY Sizes, SizeAssumption DEF IInv, StartWithinSample

\* The confidence head only shortens a block.
LEMMA ShortProposal ==
    ASSUME NEW n \in ProposalLengths
    PROVE  n \in Int /\ n <= MaxProposalTokens
  <1>1. MaxProposalTokens \in Nat
    BY SizeAssumption
  <1>2. CASE ~HasConfidenceHead
    BY <1>1, <1>2 DEF ProposalLengths
  <1>3. CASE HasConfidenceHead
    <2>1. PICK below \in [1..MaxProposalTokens -> BOOLEAN] : n = ConfidentPrefixLength(below)
      BY <1>3 DEF ProposalLengths
    <2> DEFINE low == {i \in 1..MaxProposalTokens : below[i]}
    <2>2. n = IF low = {} THEN MaxProposalTokens ELSE Min(low) - 1
      BY <2>1, Zenon DEF ConfidentPrefixLength
    <2>3. low \subseteq 1..MaxProposalTokens /\ low \subseteq Nat
      BY <1>1
    <2> HIDE DEF low
    <2>4. low # {} => Min(low) \in low
      BY <2>3, MinInSet, Zenon
    <2>5. low # {} => Min(low) \in 1..MaxProposalTokens
      BY <2>3, <2>4, Zenon
    <2> QED BY <1>1, <2>2, <2>5
  <1> QED BY <1>2, <1>3

\* verify_draft_tokens accepts what build_myspec_proposal returns.
LEMMA BlockProposalValid ==
    ASSUME NEW p, IsProposal(p), BuildProposal(p), Propose(p)
    PROVE  ~InvalidProposal'
  <1>1. proposal' = p /\ outputIds' = outputIds /\ start' = start
    BY DEF Propose
  <1>2. p.ids[1] = outputIds[start + 1] /\ Len(p.probs) \in ProposalLengths
    BY DEF BuildProposal
  <1>3. Len(p.probs) <= MaxProposalTokens /\ Len(p.probs) \in Int
    BY <1>2, ShortProposal
  <1>4. Len(p.ids) - 1 = Len(p.probs)
    BY <1>3 DEF IsProposal
  <1>5. MaxProposalTokens \in Nat
    BY SizeAssumption
  <1> QED BY <1>1, <1>2, <1>3, <1>4, <1>5 DEF InvalidProposal, DraftTokenCount

\* The hidden states a round leaves behind the n cached ones.
LEMMA HiddensFacts ==
    ASSUME NEW out, NEW k \in Nat, NEW n \in 0..k, \A i \in 1..k : out[i] \in Token
    PROVE  /\ Hiddens(out, n, k) \in Seq(Seq(Token)) /\ Len(Hiddens(out, n, k)) = k - n
           /\ \A i \in 1..k - n : Hiddens(out, n, k)[i] = SubSeq(out, 1, n + i)
  <1> DEFINE hidden == Hiddens(out, n, k)
  <1>1. n \in Nat /\ k - n \in Nat
    OBVIOUS
  <1>2. \A i \in 1..k - n : SubSeq(out, 1, n + i) \in Seq(Token)
    <2> SUFFICES ASSUME NEW i \in 1..k - n PROVE SubSeq(out, 1, n + i) \in Seq(Token)
      OBVIOUS
    <2>1. n + i \in Nat /\ \A j \in 1..n + i : out[j] \in Token
      OBVIOUS
    <2> QED BY <2>1, WrittenPrefix
  <1>3. hidden \in [1..k - n -> Seq(Token)]
    BY <1>2 DEF Hiddens
  <1>4. hidden \in Seq(Seq(Token)) /\ Len(hidden) = k - n
    BY <1>1, <1>3, FunctionIsSeq, Zenon
  <1>5. \A i \in 1..k - n : hidden[i] = SubSeq(out, 1, n + i)
    BY DEF Hiddens
  <1> QED BY <1>4, <1>5, Zenon

\* The entries of the last round's hidden states, at the positions behind the
\* cached ones.
LEMMA NewEntries ==
    ASSUME BufferLength \in Nat,
           NEW out, NEW k \in Nat, NEW n \in 0..k, \A i \in 1..k : out[i] \in Token,
           NEW to \in Nat, k <= to, to <= BufferLength
    PROVE  AreEntries(Entries(Hiddens(out, n, k), Positions(n, to)), out, n, k)
  <1>1. n \in Nat /\ k - n \in Nat /\ n <= to /\ k - n <= to - n
    OBVIOUS
  <1>2. /\ Positions(n, to) \in Seq(Nat) /\ Len(Positions(n, to)) = to - n
        /\ \A i \in 1..to - n : Positions(n, to)[i] = n + i - 1
    BY <1>1, PositionsFacts
  <1> DEFINE hidden == Hiddens(out, n, k)
             e == Entries(hidden, Positions(n, to))
             q == Positions(n, to)
  <1>6. /\ hidden \in Seq(Seq(Token)) /\ Len(hidden) = k - n
        /\ \A i \in 1..k - n : hidden[i] = SubSeq(out, 1, n + i)
    BY HiddensFacts
  <1> HIDE DEF q, hidden
  <1>3. /\ Entries(hidden, q) \in Seq(BlockEntry) /\ Len(Entries(hidden, q)) = Len(q)
        /\ \A i \in 1..Len(q) : i <= Len(hidden) =>
              Entries(hidden, q)[i] = [hidden |-> hidden[i], pos |-> q[i]]
    <2>1. q \in Seq(Nat)
      BY <1>2 DEF q
    <2> QED BY <1>6, <2>1, EntriesFacts
  <1>4. e \in Seq(BlockEntry) /\ k - n <= Len(e)
    BY <1>1, <1>2, <1>3 DEF q
  <1>5. ASSUME NEW i \in 1..k - n
        PROVE  e[i] = [hidden |-> SubSeq(out, 1, n + i), pos |-> n + i - 1]
    <2>1. i \in 1..to - n /\ i <= Len(hidden)
      BY <1>1, <1>6
    <2>2. e[i] = [hidden |-> hidden[i], pos |-> q[i]]
      BY <2>1, <1>2, <1>3 DEF q
    <2>3. q[i] = n + i - 1 /\ hidden[i] = SubSeq(out, 1, n + i)
      BY <2>1, <1>2, <1>6, SMTT(30) DEF q
    <2> HIDE DEF e
    <2> QED BY <2>2, <2>3
  <1> QED BY <1>4, <1>5, Zenon DEF hidden, AreEntries

\* The noise of a block.
LEMMA NoiseFacts ==
    ASSUME BufferLength \in Nat, NEW k \in Nat, NEW to \in Nat, k <= to, to <= BufferLength
    PROVE  NoiseEntries(Positions(k, to)) \in Seq(BlockEntry)
  <1>1. Positions(k, to) \in Seq(Nat)
    BY PositionsFacts
  <1>2. <<>> \in Seq(Seq(Token))
    OBVIOUS
  <1> QED BY ONLY <1>1, <1>2, EntriesFacts, Zenon DEF NoiseEntries

\* A draft pass leaves exactly the committed context in the layers it runs.
LEMMA ProposeBlockInv == IInv /\ BlockInv /\ ProposeBlock => BlockInv'
  <1> SUFFICES ASSUME IInv, BlockInv, ProposeBlock PROVE BlockInv'
    OBVIOUS
  <1>1. PICK p \in Proposals : /\ BuildProposal(p) /\ Propose(p)
                               /\ ForwardMySpecDraftBlock \/ ForwardDSparkDraftBlock
    BY DEF ProposeBlock
  <1>2. ~InvalidProposal'
    BY <1>1, ProposalAssumption, BlockProposalValid
  <1>3. /\ phase = "loop" /\ phase' = "verify" /\ start < MaxLength
        /\ outputIds' = outputIds /\ start' = start
    BY <1>1 DEF Propose
  <1>4. /\ start \in Nat /\ MaxLength \in Nat /\ BufferLength \in Nat
        /\ MaxProposalTokens \in Nat /\ BufferLength = MaxLength + MaxProposalTokens + 1
        /\ \A i \in 1..start : outputIds[i] \in Token
    BY <1>3, RoundSizes
  <1>5. PICK n \in 0..start :
          /\ maskCache = Context(outputIds, n)
          /\ contextHidden = Hiddens(outputIds, n, start)
    BY <1>3 DEF BlockInv
  <1>6. Len(Context(outputIds, n)) = n
    <2>1. n \in Nat /\ \A i \in 1..n : outputIds[i] \in Token
      BY <1>4
    <2> QED BY <2>1, ContextFacts
  <1>7. CASE ForwardMySpecDraftBlock
    <2> DEFINE context == Entries(Hiddens(outputIds, n, start), Positions(n, start))
               latent == NoiseEntries(Positions(start, start + NumLatentTokens))
               mask == NoiseEntries(Positions(start, start + MaxProposalTokens))
    <2>1. latentCache = Context(outputIds, n) /\ Len(latentCache) = n
      BY <1>3, <1>5, <1>6, <1>7 DEF BlockInv, ForwardMySpecDraftBlock
    <2>2. /\ drafter = "myspec" /\ drafter' = drafter
          /\ latentCache' = Crop(Context(outputIds, n) \o context \o latent, start)
          /\ maskCache' = Crop(Context(outputIds, n) \o context \o (latent \o mask), start)
      BY <1>5, <1>7, <2>1 DEF ForwardMySpecDraftBlock, DraftCacheAfter
    <2>3. AreEntries(context, outputIds, n, start)
      <3>1. start <= start /\ start <= BufferLength
        BY <1>3, <1>4
      <3>2. n \in 0..start
        OBVIOUS
      <3>3. \A i \in 1..start : outputIds[i] \in Token
        BY <1>4
      <3>4. BufferLength \in Nat /\ start \in Nat
        BY <1>4
      <3> QED BY ONLY <3>1, <3>2, <3>3, <3>4, NewEntries, Zenon
    <2>4. latent \in Seq(BlockEntry) /\ mask \in Seq(BlockEntry)
      <3>1. /\ start + NumLatentTokens \in Nat /\ start <= start + NumLatentTokens
            /\ start + NumLatentTokens <= BufferLength
        BY <1>3, <1>4, LatentAssumption
      <3>2. /\ start + MaxProposalTokens \in Nat /\ start <= start + MaxProposalTokens
            /\ start + MaxProposalTokens <= BufferLength
        BY <1>3, <1>4
      <3>3. latent \in Seq(BlockEntry)
        BY <3>1, <1>4, NoiseFacts
      <3>4. mask \in Seq(BlockEntry)
        BY <3>2, <1>4, NoiseFacts
      <3> QED BY <3>3, <3>4
    <2> HIDE DEF context, latent, mask
    <2>5. latent \o mask \in Seq(BlockEntry)
      BY <2>4, ConcatProperties
    <2>6. latentCache' = Context(outputIds, start)
      BY <2>2, <2>3, <2>4, <1>4, DraftRound
    <2>7. maskCache' = Context(outputIds, start)
      BY <2>2, <2>3, <2>5, <1>4, DraftRound, Zenon
    <2> QED BY <2>2, <2>6, <2>7, <1>2, <1>3 DEF BlockInv
  <1>8. CASE ForwardDSparkDraftBlock
    <2> DEFINE to == start + MaxProposalTokens
               block == Entries(Hiddens(outputIds, n, start), Positions(n, to))
    <2>1. /\ drafter = "dspark" /\ drafter' = drafter /\ latentCache' = latentCache
          /\ maskCache' = Crop(Context(outputIds, n) \o block \o <<>>, start)
      BY <1>5, <1>6, <1>8 DEF ForwardDSparkDraftBlock, DraftCacheAfter
    <2>2. to \in Nat /\ start <= to /\ to <= BufferLength
      BY <1>3, <1>4
    <2> HIDE DEF to
    <2>3. AreEntries(block, outputIds, n, start)
      <3>1. n \in 0..start
        OBVIOUS
      <3>2. \A i \in 1..start : outputIds[i] \in Token
        BY <1>4
      <3>3. BufferLength \in Nat /\ start \in Nat
        BY <1>4
      <3> QED BY ONLY <2>2, <3>1, <3>2, <3>3, NewEntries, Zenon
    <2> HIDE DEF block
    <2>4. <<>> \in Seq(BlockEntry)
      OBVIOUS
    <2>5. maskCache' = Context(outputIds, start)
      BY <2>1, <2>3, <2>4, <1>4, DraftRound, Zenon
    <2> QED BY <2>1, <2>5, <1>2, <1>3 DEF BlockInv
  <1> QED BY <1>1, <1>7, <1>8

\* The prompt's hidden states are the context of the first round.
LEMMA PrefillBlockInv == IInv /\ BlockInv /\ PrefillBlock => BlockInv'
  <1> SUFFICES ASSUME IInv, BlockInv, PrefillBlock PROVE BlockInv'
    OBVIOUS
  <1>1. Prefill /\ phase = "prefill" /\ phase' \in {"loop", "done"} /\ start' = NumInputTokens
    BY DEF PrefillBlock, Prefill
  <1>2. CASE phase' = "done"
    <2>1. UNCHANGED draftVars
      BY <1>2 DEF PrefillBlock
    <2> QED BY <2>1, <1>2 DEF BlockInv, draftVars
  <1>3. CASE phase' = "loop"
    <2>1. /\ latentCache' = <<>> /\ maskCache' = <<>>
          /\ contextHidden' = HiddenAfter(prompt, 0) /\ drafter' = drafter
      BY <1>3 DEF PrefillBlock, InitContext
    <2>2. /\ prompt \in Seq(Token) /\ NumInputTokens \in Nat /\ Len(prompt) = NumInputTokens
          /\ BufferLength \in Nat /\ NumInputTokens <= BufferLength
      BY Sizes, SizeAssumption DEF IInv, NumInputTokens
    <2>3. \A i \in 1..NumInputTokens : outputIds'[i] = prompt[i] /\ prompt[i] \in Token
      <3>1. \A i \in 1..NumInputTokens : outputIds'[i] = prompt[i]
        BY <1>1, <2>2 DEF Prefill
      <3>2. \A i \in 1..NumInputTokens : prompt[i] \in Token
        BY <2>2, ElementOfSeq
      <3> QED BY <3>1, <3>2
    <2>4. \A i \in 1..NumInputTokens : SubSeq(outputIds', 1, i) = SubSeq(prompt, 1, i)
      <3> SUFFICES ASSUME NEW i \in 1..NumInputTokens
                   PROVE  SubSeq(outputIds', 1, i) = SubSeq(prompt, 1, i)
        OBVIOUS
      <3>1. /\ i \in Nat /\ \A j \in 1..i : prompt[j] \in Token
            /\ \A j \in 1..i : outputIds'[j] = prompt[j]
        BY <2>2, <2>3
      <3> QED BY <3>1, SamePrefix
    <2>5. HiddenAfter(prompt, 0) = Hiddens(outputIds', 0, NumInputTokens)
      <3>1. Len(prompt) - 0 = NumInputTokens /\ NumInputTokens - 0 = NumInputTokens
        BY <2>2
      <3>2. \A i \in 1..NumInputTokens : 0 + i = i
        BY <2>2
      <3>3. \A i \in 1..NumInputTokens : SubSeq(prompt, 1, 0 + i) = SubSeq(outputIds', 1, 0 + i)
        BY <2>4, <3>2
      <3> QED BY <3>1, <3>3 DEF HiddenAfter, Hiddens
    <2>6. Context(outputIds', 0) = <<>>
      <3>1. 1..0 = {}
        OBVIOUS
      <3> QED BY <3>1 DEF Context
    <2>7. 0 \in 0..start'
      BY <1>1, <2>2
    <2>8. \E n \in 0..start' :
            /\ maskCache' = Context(outputIds', n)
            /\ contextHidden' = Hiddens(outputIds', n, start')
      BY <1>1, <2>1, <2>5, <2>6, <2>7
    <2> QED BY <2>1, <2>8, <1>3 DEF BlockInv
  <1> QED BY <1>1, <1>2, <1>3

\* The accepted tokens' hidden states are the context of the next round.
LEMMA CommitBlockInv == IInv /\ BlockInv /\ CommitBlock => BlockInv'
  <1> SUFFICES ASSUME IInv, BlockInv, CommitBlock PROVE BlockInv'
    OBVIOUS
  <1>1. /\ Commit /\ phase = "commit" /\ phase' \in {"loop", "stopped"}
        /\ drafter' = drafter /\ latentCache' = latentCache /\ maskCache' = maskCache
    BY DEF CommitBlock, Commit
  <1>2. CASE phase' = "stopped"
    BY <1>1, <1>2 DEF BlockInv
  <1>3. CASE phase' = "loop"
    <2> DEFINE a == verification.accepted
               hidden == HiddenAfter(targetCache, start)
    <2>1. ~verification.terminated
      BY <1>1, <1>3 DEF Commit
    <2>2. contextHidden' = SubSeq(hidden, 1, a + 1)
      BY <2>1 DEF CommitBlock, Update
    <2>3. /\ start \in Nat /\ a \in Nat /\ start' = start + a + 1
          /\ a + 1 <= Len(proposal.ids) /\ Len(hidden) = Len(proposal.ids)
          /\ \A i \in 1..start + 1 : outputIds[i] \in Token
          /\ \A i \in 1..start + 1 : outputIds'[i] = outputIds[i]
          /\ hidden \in Seq(Seq(Token))
          /\ \A i \in 1..a + 1 : hidden[i] = SubSeq(outputIds', 1, start + i)
      BY <1>1, <2>1, RoundFacts
    <2> HIDE DEF hidden, a
    <2>4. /\ SubSeq(hidden, 1, a + 1) = [i \in 1..a + 1 |-> hidden[i]]
      BY <2>3
    <2>5. start' - start = a + 1
      BY <2>3
    <2>6. contextHidden' = Hiddens(outputIds', start, start')
      BY <2>2, <2>3, <2>4, <2>5, Zenon DEF Hiddens
    <2>7. maskCache' = Context(outputIds', start)
      <3>1. maskCache = Context(outputIds, start)
        BY <1>1 DEF BlockInv
      <3>2. /\ \A i \in 1..start : outputIds[i] \in Token
            /\ \A i \in 1..start : outputIds'[i] = outputIds[i]
        BY <2>3
      <3>3. Context(outputIds', start) = Context(outputIds, start)
        BY <2>3, <3>2, SameContext, Zenon
      <3> QED BY <3>1, <3>3, <1>1
    <2>8. start \in 0..start'
      BY <2>3
    <2>9. \E n \in 0..start' :
            /\ maskCache' = Context(outputIds', n)
            /\ contextHidden' = Hiddens(outputIds', n, start')
      BY <2>6, <2>7, <2>8
    <2> QED BY <2>9, <1>1, <1>3, Zenon DEF BlockInv
  <1> QED BY <1>1, <1>2, <1>3

\* The other steps leave the drafter alone.
LEMMA BlockNextInv == IInv /\ BlockInv /\ [BlockNext]_blockVars => BlockInv'
  <1> SUFFICES ASSUME IInv, BlockInv, [BlockNext]_blockVars PROVE BlockInv'
    OBVIOUS
  <1>1. CASE PrefillBlock
    BY <1>1, PrefillBlockInv
  <1>2. CASE ProposeBlock
    BY <1>2, ProposeBlockInv
  <1>3. CASE VerifyBlock
    BY <1>3 DEF VerifyBlock, Verify, BlockInv, draftVars
  <1>4. CASE CommitBlock
    BY <1>4, CommitBlockInv
  <1>5. CASE FinishBlock
    BY <1>5 DEF FinishBlock, Finish, BlockInv, draftVars
  <1>6. CASE UNCHANGED blockVars
    BY <1>6 DEF BlockInv, blockVars, InvalidProposal, DraftTokenCount
  <1> QED BY <1>1, <1>2, <1>3, <1>4, <1>5, <1>6 DEF BlockNext, EndedBlock

-----------------------------------------------------------------------------
(* The autoregressive drafter. *)

\* x has the entries of the cache and, behind them, one for each token.
IsExtension(x, cache, hidden, tokens, pos) ==
    /\ x \in Seq(EagleEntry) /\ Len(x) = Len(cache) + Len(tokens)
    /\ \A i \in 1..Len(cache) : x[i] = cache[i]
    /\ \A i \in 1..Len(tokens) : x[Len(cache) + i] =
          [hidden |-> hidden[i], token |-> tokens[i], pos |-> pos + i - 1]

HiddenForAll(hidden, tokens) == \A i \in 1..Len(tokens) : hidden[i] \in Seq(Token)

\* What extend_draft_cache puts behind the cache.
LEMMA ExtendFacts ==
    ASSUME NEW cache \in Seq(EagleEntry), NEW tokens \in Seq(Token), NEW pos \in Nat,
           NEW hidden, HiddenForAll(hidden, tokens)
    PROVE  IsExtension(ExtendDraftCache(cache, hidden, tokens, pos), cache, hidden, tokens, pos)
  <1> DEFINE e(i) == [hidden |-> hidden[i], token |-> tokens[i], pos |-> pos + i - 1]
             t == [i \in 1..Len(tokens) |-> e(i)]
             u == cache \o t
  <1>1. Len(tokens) \in Nat /\ Len(cache) \in Nat
    BY LenProperties
  <1>2. ASSUME NEW i \in 1..Len(tokens) PROVE e(i) \in EagleEntry
    <2>1. tokens[i] \in Token /\ hidden[i] \in Seq(Token)
      BY ElementOfSeq DEF HiddenForAll
    <2>2. pos + i - 1 \in Nat
      BY <1>1
    <2> QED BY <2>1, <2>2 DEF EagleEntry
  <1>3. ExtendDraftCache(cache, hidden, tokens, pos) = u
    BY Zenon DEF ExtendDraftCache
  <1> HIDE DEF e
  <1>4. t \in [1..Len(tokens) -> EagleEntry] /\ \A i \in 1..Len(tokens) : t[i] = e(i)
    BY <1>2
  <1>5. t \in Seq(EagleEntry) /\ Len(t) = Len(tokens)
    BY ONLY <1>1, <1>4, FunctionIsSeq, ZenonT(30)
  <1> HIDE DEF t
  <1>6. /\ u \in Seq(EagleEntry) /\ Len(u) = Len(cache) + Len(t)
        /\ \A i \in 1..Len(cache) + Len(t) :
              u[i] = IF i <= Len(cache) THEN cache[i] ELSE t[i - Len(cache)]
    BY <1>5, ConcatProperties, Zenon
  <1> HIDE DEF u
  <1>7. \A i \in 1..Len(cache) : u[i] = cache[i]
    BY <1>1, <1>5, <1>6
  <1>8. ASSUME NEW i \in 1..Len(tokens) PROVE u[Len(cache) + i] = e(i)
    <2>1. /\ Len(cache) + i \in 1..Len(cache) + Len(t) /\ ~(Len(cache) + i <= Len(cache))
          /\ Len(cache) + i - Len(cache) = i
      BY <1>1, <1>5
    <2>2. u[Len(cache) + i] = t[i]
      BY <2>1, <1>6
    <2> QED BY <2>2, <1>4
  <1>9. u \in Seq(EagleEntry) /\ Len(u) = Len(cache) + Len(tokens)
    BY <1>5, <1>6
  <1> QED BY <1>3, <1>7, <1>8, <1>9, Zenon DEF e, IsExtension

\* The hidden states and the tokens that go with them, behind the first n of k
\* committed tokens.
AreBehind(hidden, tokens, out, n, k) ==
    /\ tokens \in Seq(Token) /\ Len(tokens) = k - n
    /\ \A i \in 1..k - n : tokens[i] = out[n + i + 1]
    /\ \A i \in 1..k - n : hidden[i] = SubSeq(out, 1, n + i)

\* Extending the pairing of n committed tokens by the hidden states behind them
\* and the tokens those go with is the pairing of k committed tokens.
LEMMA ExtendPairing ==
    ASSUME NEW out, NEW k \in Nat, NEW n \in 0..k, \A i \in 1..k + 1 : out[i] \in Token,
           NEW hidden, NEW tokens, AreBehind(hidden, tokens, out, n, k)
    PROVE  ExtendDraftCache(Pairing(out, n), hidden, tokens, n) = Pairing(out, k)
  <1> USE DEF AreBehind
  <1> DEFINE s == Pairing(out, n)
             f == Pairing(out, k)
             x == ExtendDraftCache(s, hidden, tokens, n)
  <1>1. /\ s \in Seq(EagleEntry) /\ Len(s) = n
        /\ \A i \in 1..n : s[i] = [hidden |-> SubSeq(out, 1, i), token |-> out[i + 1],
                                   pos |-> i - 1]
    <2>1. n \in Nat /\ \A i \in 1..n + 1 : out[i] \in Token
      OBVIOUS
    <2> QED BY <2>1, PairingFacts
  <1>2. /\ f \in Seq(EagleEntry) /\ Len(f) = k
        /\ \A i \in 1..k : f[i] = [hidden |-> SubSeq(out, 1, i), token |-> out[i + 1],
                                   pos |-> i - 1]
    BY PairingFacts
  <1>3. HiddenForAll(hidden, tokens)
    <2> SUFFICES ASSUME NEW i \in 1..k - n PROVE SubSeq(out, 1, n + i) \in Seq(Token)
      BY Zenon DEF HiddenForAll
    <2>1. n + i \in Nat /\ \A j \in 1..n + i : out[j] \in Token
      OBVIOUS
    <2> QED BY <2>1, WrittenPrefix
  <1> HIDE DEF s, f
  <1>4. n \in Nat
    OBVIOUS
  <1>5. /\ x \in Seq(EagleEntry) /\ Len(x) = Len(s) + Len(tokens)
        /\ \A i \in 1..Len(s) : x[i] = s[i]
        /\ \A i \in 1..Len(tokens) : x[Len(s) + i] =
              [hidden |-> hidden[i], token |-> tokens[i], pos |-> n + i - 1]
    <2>1. s \in Seq(EagleEntry)
      BY <1>1
    <2>2. tokens \in Seq(Token)
      OBVIOUS
    <2>3. IsExtension(x, s, hidden, tokens, n)
      BY ONLY <2>1, <2>2, <1>3, <1>4, ExtendFacts, Zenon
    <2> HIDE DEF x
    <2> QED BY ONLY <2>3, Zenon DEF IsExtension
  <1> HIDE DEF x
  <1>6. Len(x) = k
    BY <1>1, <1>5
  <1>9. \A i \in 1..n : x[i] = s[i]
    BY <1>1, <1>5
  <1>10. \A i \in 1..k - n : x[n + i] =
              [hidden |-> hidden[i], token |-> tokens[i], pos |-> n + i - 1]
    BY <1>1, <1>5
  <1>7. \A i \in 1..k : x[i] = f[i]
    <2> SUFFICES ASSUME NEW i \in 1..k PROVE x[i] = f[i]
      OBVIOUS
    <2>1. CASE i <= n
      <3>1. i \in 1..n
        BY <2>1
      <3> QED BY <3>1, <1>1, <1>2, <1>9, Zenon
    <2>2. CASE ~(i <= n)
      <3>1. i - n \in 1..k - n /\ n + (i - n) = i /\ n + (i - n) + 1 = i + 1
        BY <2>2
      <3>2. x[i] = [hidden |-> hidden[i - n], token |-> tokens[i - n], pos |-> i - 1]
        BY <3>1, <1>10
      <3>3. hidden[i - n] = SubSeq(out, 1, i) /\ tokens[i - n] = out[i + 1]
        BY <3>1
      <3> QED BY <3>2, <3>3, <1>2
    <2> QED BY <2>1, <2>2
  <1>8. x = f
    BY <1>2, <1>5, <1>6, <1>7, SeqEqual
  <1> QED BY <1>8 DEF s, f, x

\* Writing behind the first n + 1 tokens leaves the pairing of n as it is.
LEMMA SamePairing ==
    ASSUME NEW out, NEW new, NEW n \in Nat,
           \A i \in 1..n + 1 : out[i] \in Token, \A i \in 1..n + 1 : new[i] = out[i]
    PROVE  Pairing(new, n) = Pairing(out, n)
  <1>1. \A i \in 1..n : SubSeq(new, 1, i) = SubSeq(out, 1, i)
    <2> SUFFICES ASSUME NEW i \in 1..n PROVE SubSeq(new, 1, i) = SubSeq(out, 1, i)
      OBVIOUS
    <2>1. i \in Nat /\ (\A j \in 1..i : out[j] \in Token) /\ (\A j \in 1..i : new[j] = out[j])
      OBVIOUS
    <2> QED BY <2>1, SamePrefix
  <1>2. \A i \in 1..n : new[i + 1] = out[i + 1]
    OBVIOUS
  <1> QED BY <1>1, <1>2 DEF Pairing

\* The prompt's hidden states are paired with the tokens after them.
LEMMA PrefillEagleInv == IInv /\ EagleInv /\ PrefillEagle => EagleInv'
  <1> SUFFICES ASSUME IInv, EagleInv, PrefillEagle PROVE EagleInv'
    OBVIOUS
  <1> DEFINE m == NumInputTokens
             hidden == HiddenAfter(prompt, 0)
             tokens == SubSeq(outputIds', 2, m + 1)
  <1>1. Prefill /\ phase = "prefill" /\ phase' \in {"loop", "done"} /\ start' = m
    BY DEF PrefillEagle, Prefill
  <1>2. CASE phase' = "done"
    BY <1>2 DEF EagleInv
  <1>3. CASE phase' = "loop"
    <2>1. /\ draftCache' = ExtendDraftCache(<<>>, hidden, tokens, 0)
          /\ draftHidden' = draftCache' /\ currentPos' = m
      BY <1>3 DEF PrefillEagle, EagleInitContext
    <2>2. /\ prompt \in Seq(Token) /\ m \in Nat /\ Len(prompt) = m
          /\ BufferLength \in Nat /\ m <= BufferLength
      BY Sizes, SizeAssumption DEF IInv, NumInputTokens
    <2>3. \A i \in 1..m + 1 : outputIds'[i] \in Token
      BY <1>1, PrefillIInv DEF IInv, StartWithinSample, Prefill
    <2>4. \A i \in 1..m : outputIds'[i] = prompt[i]
      BY <1>1, <2>2 DEF Prefill
    <2>5. \A i \in 1..m : prompt[i] \in Token
      BY <2>2, ElementOfSeq
    <2>6. \A i \in 1..m - 0 : hidden[i] = SubSeq(outputIds', 1, 0 + i)
      <3> SUFFICES ASSUME NEW i \in 1..m PROVE hidden[i] = SubSeq(outputIds', 1, 0 + i)
        BY <2>2
      <3>1. /\ i \in Nat /\ 0 + i = i /\ Len(prompt) - 0 = m
            /\ \A j \in 1..i : prompt[j] \in Token
            /\ \A j \in 1..i : outputIds'[j] = prompt[j]
        BY <2>2, <2>4, <2>5
      <3>2. SubSeq(outputIds', 1, i) = SubSeq(prompt, 1, i)
        BY <3>1, SamePrefix
      <3>3. hidden[i] = SubSeq(prompt, 1, i)
        BY <3>1 DEF HiddenAfter
      <3> QED BY <3>1, <3>2, <3>3
    <2> HIDE DEF m, hidden
    <2>7. /\ tokens \in Seq(Token) /\ Len(tokens) = m
          /\ \A i \in 1..m : tokens[i] = outputIds'[i + 1]
      <3>1. \A i \in 2..m + 1 : outputIds'[i] \in Token
        BY <2>2, <2>3
      <3> QED BY <2>2, <3>1, SubSeqProperties
    <2> HIDE DEF tokens
    <2>8. AreBehind(hidden, tokens, outputIds', 0, m)
      <3>1. m - 0 = m /\ \A i \in 1..m : 0 + i + 1 = i + 1
        BY <2>2
      <3> QED BY <2>6, <2>7, <3>1 DEF AreBehind
    <2>9. Pairing(outputIds', 0) = <<>>
      <3>1. 1..0 = {}
        OBVIOUS
      <3> QED BY <3>1 DEF Pairing
    <2>10. 0 \in 0..m
      BY <2>2
    <2>11. ExtendDraftCache(Pairing(outputIds', 0), hidden, tokens, 0) = Pairing(outputIds', m)
      BY ONLY <2>2, <2>3, <2>8, <2>10, ExtendPairing, Zenon
    <2> QED BY <1>1, <1>3, <2>1, <2>9, <2>11 DEF EagleInv, m
  <1> QED BY <1>1, <1>2, <1>3

\* A proposal only adds to the cache, at the positions behind it.
LEMMA ProposeEagleInv == IInv /\ EagleInv /\ ProposeEagle => EagleInv'
  <1> SUFFICES ASSUME IInv, EagleInv, ProposeEagle PROVE EagleInv'
    OBVIOUS
  <1>1. PICK p \in Proposals : Propose(p) /\ EaglePropose(p)
    BY DEF ProposeEagle
  <1> DEFINE tokens == SubSeq(p.ids, 2, Len(p.ids))
             ext == Extended(tokens)
             own == [i \in 1..Len(tokens) |-> Own]
  <1>2. /\ DraftsFrom(p, tokens) /\ cacheLenBefore' = Len(draftCache)
        /\ draftCache' = ExtendDraftCache(draftCache, own, ext, start)
        /\ currentPos' = currentPos
    BY <1>1 DEF EaglePropose, LengthBeforeProposal
  <1>3. /\ phase = "loop" /\ phase' = "verify" /\ proposal' = p
        /\ outputIds' = outputIds /\ start' = start
    BY <1>1 DEF Propose
  <1>4. /\ start \in Nat /\ MaxProposalTokens \in Nat
        /\ \A i \in 1..start + 1 : outputIds[i] \in Token
    BY <1>3, RoundSizes
  <1>5. p.ids \in Seq(Token) /\ Len(p.ids) \in Nat /\ Len(p.ids) >= 1
    <2>1. IsProposal(p)
      BY ProposalAssumption
    <2>2. p.ids \in Seq(Token) /\ p.probs \in Seq(Rows) /\ Len(p.ids) = Len(p.probs) + 1
      BY <2>1 DEF IsProposal
    <2>3. Len(p.probs) \in Nat
      BY <2>2, LenProperties
    <2> QED BY <2>2, <2>3
  <1>6. tokens \in Seq(Token) /\ Len(tokens) = Len(p.ids) - 1 /\ Len(tokens) \in Nat
    <2>1. \A i \in 2..Len(p.ids) : p.ids[i] \in Token
      BY <1>5, ElementOfSeq
    <2> QED BY <1>5, <2>1, SubSeqProperties
  <1>7. Len(tokens) <= MaxProposalTokens /\ p.ids[1] = outputIds[start + 1]
    BY <1>2, <1>4, <1>6 DEF DraftsFrom
  <1>8. ~InvalidProposal'
    BY <1>3, <1>4, <1>6, <1>7 DEF InvalidProposal, DraftTokenCount
  <1> HIDE DEF tokens
  <1>9. ext \in Seq(Token) /\ Len(ext) \in Nat /\ Len(ext) <= Len(tokens)
    <2>1. CASE tokens # <<>> /\ tokens[Len(tokens)] \in StopTokens
      <3>1. Len(tokens) >= 1
        BY <1>6, <2>1, EmptySeq
      <3>2. \A i \in 1..Len(tokens) - 1 : tokens[i] \in Token
        BY <1>6, ElementOfSeq
      <3>3. /\ SubSeq(tokens, 1, Len(tokens) - 1) \in Seq(Token)
            /\ Len(SubSeq(tokens, 1, Len(tokens) - 1)) = Len(tokens) - 1
        BY <1>6, <3>1, <3>2, WrittenPrefix
      <3> QED BY <1>6, <2>1, <3>1, <3>3 DEF Extended
    <2>2. CASE ~(tokens # <<>> /\ tokens[Len(tokens)] \in StopTokens)
      BY <1>6, <2>2 DEF Extended
    <2> QED BY <2>1, <2>2
  <1> HIDE DEF ext
  <1>10. HiddenForAll(own, ext)
    <2>1. \A i \in 1..Len(ext) : own[i] = <<>>
      BY <1>6, <1>9 DEF Own
    <2>2. <<>> \in Seq(Token)
      OBVIOUS
    <2> HIDE DEF own
    <2> QED BY <2>1, <2>2, Zenon DEF HiddenForAll
  <1> HIDE DEF own
  <1>11. /\ draftCache = Pairing(outputIds, start) /\ currentPos = start
         /\ draftCache \in Seq(EagleEntry) /\ Len(draftCache) = start
    <2>1. draftCache = Pairing(outputIds, start) /\ currentPos = start
      BY <1>3 DEF EagleInv
    <2> QED BY <1>4, <2>1, PairingFacts
  <1>12. IsExtension(draftCache', draftCache, own, ext, start)
    BY <1>2, <1>4, <1>9, <1>10, <1>11, ExtendFacts, Zenon
  <1>13. /\ draftCache' \in Seq(EagleEntry) /\ Len(draftCache') = start + Len(ext)
         /\ \A i \in 1..start : draftCache'[i] = draftCache[i]
         /\ \A i \in 1..Len(ext) : draftCache'[start + i] =
               [hidden |-> own[i], token |-> ext[i], pos |-> start + i - 1]
    BY <1>11, <1>12 DEF IsExtension
  <1>14. \A i \in start + 1..Len(draftCache') : draftCache'[i].pos = i - 1
    <2> SUFFICES ASSUME NEW i \in start + 1..Len(draftCache') PROVE draftCache'[i].pos = i - 1
      OBVIOUS
    <2>1. PICK j \in 1..Len(ext) : start + j = i
      <3>1. i - start \in 1..Len(ext) /\ start + (i - start) = i
        BY <1>4, <1>9, <1>13
      <3> QED BY <3>1
    <2>2. draftCache'[start + j].pos = start + j - 1
      <3>1. draftCache'[start + j] = [hidden |-> own[j], token |-> ext[j], pos |-> start + j - 1]
        BY <1>13
      <3> QED BY <3>1
    <2> QED BY <1>4, <1>9, <2>1, <2>2
  <1>15. \A i \in 1..start : draftCache'[i] = Pairing(outputIds, start)[i]
    BY <1>11, <1>13
  <1>16. start <= Len(draftCache')
    BY <1>4, <1>9, <1>13
  <1> QED BY <1>2, <1>3, <1>8, <1>11, <1>13, <1>14, <1>15, <1>16 DEF EagleInv

\* The drafter's entries go, the target's come in for the committed tokens.
LEMMA CommitEagleInv == IInv /\ EagleInv /\ CommitEagle => EagleInv'
  <1> SUFFICES ASSUME IInv, EagleInv, CommitEagle PROVE EagleInv'
    OBVIOUS
  <1>1. Commit /\ phase = "commit" /\ phase' \in {"loop", "stopped"}
    BY DEF CommitEagle, Commit
  <1>2. CASE phase' = "stopped"
    BY <1>2 DEF EagleInv
  <1>3. CASE phase' = "loop"
    <2> DEFINE a == verification.accepted
               ids == proposal.ids
               drafts == SubSeq(ids, 2, a + 1)
               tokens == Append(drafts, verification.next)
               hidden == HiddenAfter(targetCache, start)
    <2>1. ~verification.terminated
      BY <1>1, <1>3 DEF Commit
    <2>2. /\ draftCache' = ExtendDraftCache(Crop(draftCache, cacheLenBefore), hidden, tokens,
                                            currentPos)
          /\ draftHidden' = draftCache' /\ currentPos' = currentPos + Len(tokens)
      BY <2>1, Zenon DEF CommitEagle, EagleUpdate, CroppedLength
    <2>3. /\ cacheLenBefore = start /\ currentPos = start
          /\ draftCache \in Seq(EagleEntry) /\ start <= Len(draftCache)
          /\ \A i \in 1..start : draftCache[i] = Pairing(outputIds, start)[i]
      BY <1>1 DEF EagleInv
    <2>4. /\ start \in Nat /\ a \in Nat /\ start' = start + a + 1
          /\ ids \in Seq(Token) /\ a + 1 <= Len(ids) /\ verification.next \in Token
          /\ \A i \in 1..start + 1 : outputIds[i] \in Token
          /\ \A i \in 1..start + 1 : outputIds'[i] = outputIds[i]
          /\ \A i \in 1..start' + 1 : outputIds'[i] \in Token
          /\ \A i \in 1..a + 1 : outputIds'[start + i] = ids[i]
          /\ outputIds'[start + a + 2] = verification.next
          /\ \A i \in 1..a + 1 : hidden[i] = SubSeq(outputIds', 1, start + i)
      BY <1>1, <2>1, RoundFacts, Zenon
    <2> HIDE DEF a, ids, hidden
    <2>5. /\ drafts \in Seq(Token) /\ Len(drafts) = a
          /\ \A i \in 1..a : drafts[i] = ids[i + 1]
      <3>1. \A i \in 2..a + 1 : ids[i] \in Token
        BY <2>4, ElementOfSeq
      <3> QED BY <2>4, <3>1, SubSeqProperties
    <2> HIDE DEF drafts
    <2>6. /\ tokens \in Seq(Token) /\ Len(tokens) = a + 1
          /\ \A i \in 1..a : tokens[i] = drafts[i]
          /\ tokens[a + 1] = verification.next
      BY <2>4, <2>5, AppendProperties
    <2> HIDE DEF tokens
    <2>7. \A i \in 1..a + 1 : tokens[i] = outputIds'[start + i + 1]
      <3> SUFFICES ASSUME NEW i \in 1..a + 1 PROVE tokens[i] = outputIds'[start + i + 1]
        OBVIOUS
      <3>1. CASE i = a + 1
        <4>1. start + i + 1 = start + a + 2
          BY <3>1, <2>4
        <4> QED BY <3>1, <4>1, <2>4, <2>6
      <3>2. CASE i # a + 1
        <4>1. i \in 1..a /\ i + 1 \in 1..a + 1 /\ start + (i + 1) = start + i + 1
          BY <3>2, <2>4
        <4>2. outputIds'[start + i + 1] = ids[i + 1]
          BY <4>1, <2>4
        <4> QED BY <4>1, <4>2, <2>5, <2>6
      <3> QED BY <3>1, <3>2
    <2>8. start' \in Nat /\ start' - start = a + 1 /\ start \in 0..start'
      BY <2>4
    <2>9. AreBehind(hidden, tokens, outputIds', start, start')
      BY <2>4, <2>6, <2>7, <2>8 DEF AreBehind
    <2>10. Crop(draftCache, start) = Pairing(outputIds, start)
      <3>1. /\ Pairing(outputIds, start) \in Seq(EagleEntry)
            /\ Len(Pairing(outputIds, start)) = start
        BY <2>4, PairingFacts
      <3>2. Crop(draftCache, Len(Pairing(outputIds, start))) = Pairing(outputIds, start)
        BY <2>3, <3>1, CropIs, SMTT(30)
      <3> QED BY <3>1, <3>2
    <2>11. Pairing(outputIds', start) = Pairing(outputIds, start)
      BY <2>4, SamePairing
    <2>12. \A i \in 1..start' + 1 : outputIds'[i] \in Token
      BY <2>4
    <2>13. ExtendDraftCache(Pairing(outputIds', start), hidden, tokens, start) =
              Pairing(outputIds', start')
      BY ONLY <2>8, <2>9, <2>12, ExtendPairing, Zenon
    <2>14. draftCache' = Pairing(outputIds', start')
      BY <2>2, <2>3, <2>10, <2>11, <2>13, SMTT(30)
    <2>15. currentPos' = start'
      BY <2>2, <2>3, <2>4, <2>6, SMTT(30)
    <2> QED BY <1>3, <2>2, <2>14, <2>15 DEF EagleInv
  <1> QED BY <1>1, <1>2, <1>3

\* The other steps leave the drafter alone.
LEMMA EagleNextInv == IInv /\ EagleInv /\ [EagleNext]_eagleVars => EagleInv'
  <1> SUFFICES ASSUME IInv, EagleInv, [EagleNext]_eagleVars PROVE EagleInv'
    OBVIOUS
  <1>1. CASE PrefillEagle
    BY <1>1, PrefillEagleInv
  <1>2. CASE ProposeEagle
    BY <1>2, ProposeEagleInv
  <1>3. CASE VerifyEagle
    BY <1>3, ZenonT(30) DEF VerifyEagle, Verify, EagleInv, eagleOnly
  <1>4. CASE CommitEagle
    BY <1>4, CommitEagleInv
  <1>5. CASE FinishEagle
    BY <1>5, ZenonT(30) DEF FinishEagle, Finish, EagleInv, eagleOnly
  <1>6. CASE UNCHANGED eagleVars
    BY <1>6 DEF EagleInv, eagleVars, InvalidProposal, DraftTokenCount
  <1> QED BY <1>1, <1>2, <1>3, <1>4, <1>5, <1>6 DEF EagleNext, EndedEagle

-----------------------------------------------------------------------------
(* The evaluators. *)

\* Every evaluator runs the decoding loop.
LEMMA StepIsLoopStep ==
    [AnyStep \/ BlockStep \/ EagleStep]_allVars => [Next]_vars
  <1> SUFFICES ASSUME [AnyStep \/ BlockStep \/ EagleStep]_allVars PROVE [Next]_vars
    OBVIOUS
  <1>1. CASE AnyStep
    BY <1>1 DEF AnyStep
  <1>2. CASE BlockStep
    <2>1. BlockNext
      BY <1>2 DEF BlockStep
    <2>2. CASE PrefillBlock
      BY <2>2 DEF PrefillBlock, Next, LoopStep
    <2>3. CASE ProposeBlock
      BY <2>3 DEF ProposeBlock, Next, ProposeAny
    <2>4. CASE VerifyBlock
      BY <2>4 DEF VerifyBlock, Next, LoopStep
    <2>5. CASE CommitBlock
      BY <2>5 DEF CommitBlock, Next, LoopStep
    <2>6. CASE FinishBlock
      BY <2>6 DEF FinishBlock, Next, LoopStep
    <2>7. CASE EndedBlock
      BY <2>7, SMTT(30) DEF EndedBlock, blockVars, vars
    <2> QED BY <2>1, <2>2, <2>3, <2>4, <2>5, <2>6, <2>7 DEF BlockNext
  <1>3. CASE EagleStep
    <2>1. EagleNext
      BY <1>3 DEF EagleStep
    <2>2. CASE PrefillEagle
      BY <2>2 DEF PrefillEagle, Next, LoopStep
    <2>3. CASE ProposeEagle
      BY <2>3 DEF ProposeEagle, Next, ProposeAny
    <2>4. CASE VerifyEagle
      BY <2>4 DEF VerifyEagle, Next, LoopStep
    <2>5. CASE CommitEagle
      BY <2>5 DEF CommitEagle, Next, LoopStep
    <2>6. CASE FinishEagle
      BY <2>6 DEF FinishEagle, Next, LoopStep
    <2>7. CASE EndedEagle
      BY <2>7 DEF EndedEagle, eagleVars, vars
    <2> QED BY <2>1, <2>2, <2>3, <2>4, <2>5, <2>6, <2>7 DEF EagleNext
  <1>4. CASE UNCHANGED allVars
    BY <1>4 DEF allVars, eagleVars, vars
  <1> QED BY <1>1, <1>2, <1>3, <1>4

\* The loop with any of the evaluators' callbacks is the loop of SpecDecode, so
\* everything that holds for an arbitrary drafter holds for these.
THEOREM EvaluatorsRunTheLoop == LoopSpec => Spec
  <1>1. LoopInit => Init
    BY DEF LoopInit, BlockInit
  <1> QED BY <1>1, StepIsLoopStep, PTL DEF LoopSpec, Spec

\* The invariant of the loop and of the drafter in use is inductive.
LEMMA LoopInductive == LoopSpec => []LoopIInv
  <1>1. LoopInit => LoopIInv
    <2> SUFFICES ASSUME LoopInit PROVE LoopIInv
      OBVIOUS
    <2>1. IInv /\ phase = "prefill"
      BY InitIInv DEF LoopInit, BlockInit, Init
    <2>2. BlockInv
      BY <2>1 DEF LoopInit, BlockInit, BlockInv
    <2>3. EagleInv
      BY <2>1 DEF EagleInv
    <2> QED BY <2>1, <2>2, <2>3 DEF LoopIInv
  <1>2. LoopIInv /\ [AnyStep \/ BlockStep \/ EagleStep]_allVars => LoopIInv'
    <2> SUFFICES ASSUME LoopIInv, [AnyStep \/ BlockStep \/ EagleStep]_allVars
                 PROVE  LoopIInv'
      OBVIOUS
    <2>1. IInv /\ IInv'
      BY StepIsLoopStep, NextIInv DEF LoopIInv
    <2>2. CASE AnyStep
      BY <2>1, <2>2 DEF AnyStep, LoopIInv
    <2>3. CASE BlockStep
      <3>1. loop = "block" /\ loop' = "block" /\ [BlockNext]_blockVars
        BY <2>3 DEF BlockStep
      <3>2. BlockInv'
        BY <2>1, <3>1, BlockNextInv DEF LoopIInv
      <3> QED BY <2>1, <3>1, <3>2 DEF LoopIInv
    <2>4. CASE EagleStep
      <3>1. loop = "eagle3" /\ loop' = "eagle3" /\ [EagleNext]_eagleVars
        BY <2>4 DEF EagleStep
      <3>2. EagleInv'
        BY <2>1, <3>1, EagleNextInv DEF LoopIInv
      <3> QED BY <2>1, <3>1, <3>2 DEF LoopIInv
    <2>5. CASE UNCHANGED allVars
      <3>1. loop' = loop /\ UNCHANGED eagleVars /\ UNCHANGED blockVars
        BY <2>5 DEF allVars, eagleVars, draftVars, blockVars
      <3>2. loop = "block" => BlockInv'
        BY <2>1, <3>1, BlockNextInv DEF LoopIInv
      <3>3. loop = "eagle3" => EagleInv'
        BY <2>1, <3>1, EagleNextInv DEF LoopIInv
      <3> QED BY <2>1, <3>1, <3>2, <3>3 DEF LoopIInv
    <2> QED BY <2>2, <2>3, <2>4, <2>5
  <1> QED BY <1>1, <1>2, PTL DEF LoopSpec

\* In every layer of a block drafter the cached entries and the hidden states of
\* the last round are the target's hidden states of the committed tokens: the
\* crop of forward_myspec_draft_block and the slice of _update leave no noise
\* and no rejected token, for every number of latent tokens and block size.
THEOREM BlockAlwaysSeesCommitted == LoopSpec => []BlockSeesCommitted
  <1>1. LoopIInv => BlockSeesCommitted
    <2> SUFFICES ASSUME LoopIInv, loop = "block", phase = "loop"
                 PROVE  /\ maskCache = CommittedContext(Len(maskCache))
                        /\ drafter = "myspec" => latentCache = maskCache
                        /\ contextHidden = [i \in 1..start - Len(maskCache) |->
                                               SubSeq(outputIds, 1, Len(maskCache) + i)]
      BY Zenon DEF BlockSeesCommitted, DraftSeesCommitted
    <2>1. BlockInv /\ IInv
      BY DEF LoopIInv
    <2>2. PICK n \in 0..start : /\ maskCache = Context(outputIds, n)
                                /\ contextHidden = Hiddens(outputIds, n, start)
      BY <2>1 DEF BlockInv
    <2>3. start \in Nat /\ \A i \in 1..start + 1 : outputIds[i] \in Token
      BY <2>1, RoundSizes
    <2>4. Len(maskCache) = n
      <3>1. n \in Nat /\ \A i \in 1..n : outputIds[i] \in Token
        BY <2>3
      <3> QED BY <2>2, <3>1, ContextFacts
    <2>5. CommittedContext(n) = Context(outputIds, n)
      BY Zenon DEF CommittedContext, Context
    <2>6. contextHidden = [i \in 1..start - n |-> SubSeq(outputIds, 1, n + i)]
      BY <2>2, Zenon DEF Hiddens
    <2>7. drafter = "myspec" => latentCache = maskCache
      BY <2>1 DEF BlockInv
    <2> QED BY <2>2, <2>4, <2>5, <2>6, <2>7, Zenon
  <1> QED BY <1>1, LoopInductive, PTL

\* The slices of position_ids fit the tensors of a block draft in every round,
\* the last one included, and no block proposal makes verify_draft_tokens raise.
THEOREM BlockAlwaysFits == LoopSpec => []BlockShapesMatch
  <1>1. LoopIInv => BlockShapesMatch
    <2> SUFFICES ASSUME LoopIInv, loop = "block" PROVE DraftShapesMatch
      BY DEF BlockShapesMatch
    <2>1. BlockInv /\ IInv
      BY DEF LoopIInv
    <2>2. phase = "verify" => ~InvalidProposal
      BY <2>1 DEF BlockInv
    <2>3. ASSUME phase = "loop", start < MaxLength
          PROVE  /\ Len(latentCache) <= start /\ Len(maskCache) <= start
                 /\ drafter = "myspec" =>
                       /\ Len(Positions(Len(latentCache), start)) = Len(contextHidden)
                       /\ Len(Positions(start, start + NumLatentTokens)) = NumLatentTokens
                       /\ Len(Positions(start, start + MaxProposalTokens)) = MaxProposalTokens
                 /\ drafter = "dspark" =>
                       Len(Positions(Len(maskCache), start + MaxProposalTokens)) =
                           Len(contextHidden) + MaxProposalTokens
      <3>1. PICK n \in 0..start : /\ maskCache = Context(outputIds, n)
                                  /\ contextHidden = Hiddens(outputIds, n, start)
        BY <2>1, <2>3 DEF BlockInv
      <3>2. /\ start \in Nat /\ MaxLength \in Nat /\ BufferLength \in Nat
            /\ MaxProposalTokens \in Nat /\ BufferLength = MaxLength + MaxProposalTokens + 1
            /\ \A i \in 1..start : outputIds[i] \in Token
        BY <2>1, <2>3, RoundSizes
      <3>3. Len(maskCache) = n
        <4>1. n \in Nat /\ \A i \in 1..n : outputIds[i] \in Token
          BY <3>2
        <4> QED BY <3>1, <4>1, ContextFacts
      <3>4. Len(contextHidden) = start - n
        BY <3>1, <3>2, HiddensFacts, Zenon
      <3>5. /\ drafter = "myspec" => Len(latentCache) = n
            /\ drafter = "dspark" => Len(latentCache) = 0
            /\ drafter \in {"myspec", "dspark"}
        BY <2>1, <2>3, <3>3 DEF BlockInv
      <3>6. Len(Positions(n, start)) = start - n
        BY <2>3, <3>2, PositionsFacts
      <3>7. Len(Positions(start, start + NumLatentTokens)) = NumLatentTokens
        <4>1. /\ NumLatentTokens \in Nat /\ start + NumLatentTokens \in Nat
              /\ start <= start + NumLatentTokens /\ start + NumLatentTokens <= BufferLength
          BY <2>3, <3>2, LatentAssumption
        <4>2. Len(Positions(start, start + NumLatentTokens)) = start + NumLatentTokens - start
          BY <3>2, <4>1, PositionsFacts
        <4> QED BY <3>2, <4>1, <4>2
      <3>8. Len(Positions(start, start + MaxProposalTokens)) = MaxProposalTokens
        <4>1. /\ start + MaxProposalTokens \in Nat
              /\ start <= start + MaxProposalTokens /\ start + MaxProposalTokens <= BufferLength
          BY <2>3, <3>2
        <4>2. Len(Positions(start, start + MaxProposalTokens)) = start + MaxProposalTokens - start
          BY <3>2, <4>1, PositionsFacts
        <4> QED BY <3>2, <4>1, <4>2
      <3>9. Len(Positions(n, start + MaxProposalTokens)) = start - n + MaxProposalTokens
        <4>1. /\ start + MaxProposalTokens \in Nat /\ n \in Nat
              /\ n <= start + MaxProposalTokens /\ start + MaxProposalTokens <= BufferLength
          BY <2>3, <3>2
        <4>2. Len(Positions(n, start + MaxProposalTokens)) = start + MaxProposalTokens - n
          BY <3>2, <4>1, PositionsFacts
        <4> QED BY <3>2, <4>1, <4>2
      <3>10. Len(latentCache) <= start /\ Len(maskCache) <= start
        BY <3>2, <3>3, <3>5
      <3> QED BY <3>3, <3>4, <3>5, <3>6, <3>7, <3>8, <3>9, <3>10, SMTT(30)
    <2> QED BY <2>2, <2>3, Zenon DEF DraftShapesMatch
  <1> QED BY <1>1, LoopInductive, PTL

\* Between rounds the autoregressive drafter's cache pairs the target's hidden
\* state of every committed token with the token after it, at the position the
\* training used: the crop and the extension of _update undo every proposal.
THEOREM EagleAlwaysAsTrained == LoopSpec => []EagleCacheAsTrained
  <1>1. LoopIInv => EagleCacheAsTrained
    <2> SUFFICES ASSUME LoopIInv, loop = "eagle3", phase = "loop"
                 PROVE  /\ draftCache = TrainedPairing(start)
                        /\ draftHidden = draftCache /\ currentPos = start
      BY DEF EagleCacheAsTrained, DraftCacheAsTrained
    <2>1. /\ draftCache = Pairing(outputIds, start)
          /\ draftHidden = draftCache /\ currentPos = start
      BY DEF LoopIInv, EagleInv
    <2>2. TrainedPairing(start) = Pairing(outputIds, start)
      BY Zenon DEF TrainedPairing, Pairing
    <2> QED BY <2>1, <2>2
  <1> QED BY <1>1, LoopInductive, PTL

\* While a proposal is in flight, cache_len_before marks the end of the
\* committed entries, the draft entries follow at the next positions, and
\* verify_draft_tokens does not raise.
THEOREM EagleAlwaysUndoable == LoopSpec => []EagleProposalUndoable
  <1>1. LoopIInv => EagleProposalUndoable
    <2> SUFFICES ASSUME LoopIInv, loop = "eagle3" PROVE ProposalIsUndoable
      BY DEF EagleProposalUndoable
    <2>1. EagleInv /\ IInv
      BY DEF LoopIInv
    <2>2. phase = "verify" => ~InvalidProposal
      BY <2>1 DEF EagleInv
    <2>3. ASSUME phase \in {"verify", "commit"}
          PROVE  /\ cacheLenBefore = start
                 /\ SubSeq(draftCache, 1, start) = TrainedPairing(start)
                 /\ \A i \in start + 1..Len(draftCache) : draftCache[i].pos = i - 1
      <3>1. /\ cacheLenBefore = start
            /\ draftCache \in Seq(EagleEntry) /\ start <= Len(draftCache)
            /\ \A i \in 1..start : draftCache[i] = Pairing(outputIds, start)[i]
            /\ \A i \in start + 1..Len(draftCache) : draftCache[i].pos = i - 1
        BY <2>1, <2>3 DEF EagleInv
      <3>2. start \in Nat /\ \A i \in 1..start + 1 : outputIds[i] \in Token
        BY <2>1, <2>3, RoundSizes
      <3>3. Pairing(outputIds, start) \in Seq(EagleEntry) /\ Len(Pairing(outputIds, start)) = start
        BY <3>2, PairingFacts
      <3>4. \A i \in 1..start : draftCache[i] \in EagleEntry
        BY <3>1, <3>2, ElementOfSeq
      <3>5. /\ SubSeq(draftCache, 1, start) \in Seq(EagleEntry)
            /\ Len(SubSeq(draftCache, 1, start)) = start
            /\ \A i \in 1..start : SubSeq(draftCache, 1, start)[i] = draftCache[i]
        BY <3>2, <3>4, SubSeqProperties, SMTT(30)
      <3>6. SubSeq(draftCache, 1, start) = Pairing(outputIds, start)
        BY <3>1, <3>3, <3>5, SeqEqual
      <3>7. TrainedPairing(start) = Pairing(outputIds, start)
        BY Zenon DEF TrainedPairing, Pairing
      <3> QED BY <3>1, <3>6, <3>7, SMTT(30)
    <2> QED BY <2>2, <2>3, Zenon DEF ProposalIsUndoable
  <1> QED BY <1>1, LoopInductive, PTL
=============================================================================
