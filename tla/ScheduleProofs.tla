--------------------------- MODULE ScheduleProofs ---------------------------
(***************************************************************************)
(* What is planned ahead holds, for every configuration: the schedule a    *)
(* training job computes and the data order it draws over restarts         *)
(* (DataOrder), the learning rate a resume continues with (LRSchedule),    *)
(* and the two blocks that the server allocates ahead of a speculative     *)
(* decode (SpecReserve).                                                   *)
(***************************************************************************)
EXTENDS DataOrder, LRSchedule, SpecReserve, TLAPS

\* Integer division undoes multiplication.
LEMMA MulDiv ==
    ASSUME NEW a \in Nat, NEW b \in Nat \ {0}
    PROVE  (a * b) \div b = a
  OBVIOUS

\* A number with remainder 0 is the quotient times the divisor.
LEMMA DivMul ==
    ASSUME NEW a \in Nat, NEW b \in Nat \ {0}, a % b = 0
    PROVE  a = (a \div b) * b /\ a \div b \in Nat
  OBVIOUS

\* Division stays within the naturals.
LEMMA DivNat ==
    ASSUME NEW a \in Nat, NEW b \in Nat \ {0}
    PROVE  a \div b \in Nat
  OBVIOUS

\* So does multiplication.
LEMMA MulNat ==
    ASSUME NEW a \in Nat, NEW b \in Nat
    PROVE  a * b \in Nat
  OBVIOUS

\* Products may be regrouped.
LEMMA MulAssoc ==
    ASSUME NEW a \in Nat, NEW b \in Nat, NEW c \in Nat
    PROVE  a * (b * c) = (a * b) * c /\ a * b = b * a
  OBVIOUS

\* Multiplication distributes over addition.
LEMMA MulDistr ==
    ASSUME NEW a \in Nat, NEW b \in Nat, NEW c \in Nat
    PROVE  (a + b) * c = a * c + b * c
  OBVIOUS

\* Products of positive numbers are positive.
LEMMA MulPos ==
    ASSUME NEW a \in Nat \ {0}, NEW b \in Nat \ {0}
    PROVE  a * b \in Nat \ {0}
  OBVIOUS

\* Multiplication is monotonic.
LEMMA MulMono ==
    ASSUME NEW a \in Nat, NEW b \in Nat, NEW p \in Nat, a <= b
    PROVE  a * p <= b * p
  OBVIOUS

\* A positive factor may be cancelled.
LEMMA MulCancel ==
    ASSUME NEW a \in Nat, NEW b \in Nat, NEW p \in Nat \ {0}
    PROVE  /\ a * p <= b * p => a <= b
           /\ a * p < b * p => a < b
  OBVIOUS

\* Rounding up: the epochs that max_train_steps needs hold at least that many
\* steps.
LEMMA CeilMul ==
    ASSUME NEW a \in Nat, NEW b \in Nat \ {0}
    PROVE  /\ (a + b - 1) \div b \in Nat
           /\ a <= ((a + b - 1) \div b) * b
  OBVIOUS

\* Quotient and remainder are unique.
LEMMA DivModUnique ==
    ASSUME NEW e \in Nat, NEW p \in Nat \ {0}, NEW o \in 0..p - 1
    PROVE  (e * p + o) \div p = e /\ (e * p + o) % p = o
  OBVIOUS

\* _compute_training_schedule loses no sample of an epoch to rounding: an epoch
\* of a rank is steps_per_epoch whole optimizer steps, those of all ranks make
\* samples_per_epoch, and steps_per_epoch is the number of global batches in
\* the dataset.
THEOREM ScheduleExact ==
    ASSUME NEW c \in Configs
    PROVE  /\ StepsPerEpoch(c) = c.dataset \div c.global
           /\ StepsPerEpoch(c) \in Nat \ {0}
           /\ GradAccSteps(c) \in Nat \ {0}
           /\ PerStep(c) \in Nat \ {0}
           /\ PerRank(c) = StepsPerEpoch(c) * PerStep(c)
           /\ PerRank(c) \in Nat \ {0}
           /\ SamplesPerEpoch(c) = PerRank(c) * c.world
  <1> DEFINE W == c.world
             L == c.local
             G == c.global
             ga == GradAccSteps(c)
             q == c.dataset \div G
  <1>1. W \in Nat \ {0} /\ L \in Nat \ {0} /\ G \in Nat \ {0} /\ c.dataset \in Nat \ {0}
    BY ConfigAssumption
  <1>2. G % (W * L) = 0 /\ q > 0
    BY ConfigAssumption
  <1>3. W * L \in Nat \ {0}
    BY <1>1, MulPos
  <1>4. G = ga * (W * L) /\ ga \in Nat
    BY <1>1, <1>2, <1>3, DivMul, Zenon DEF GradAccSteps
  <1>5. ga # 0
    BY <1>1, <1>3, <1>4
  <1>6. q \in Nat \ {0}
    BY <1>1, <1>2, DivNat
  <1> HIDE DEF ga, q, W, L, G
  <1>7. ga * L \in Nat \ {0}
    BY <1>1, <1>4, <1>5, MulPos
  <1>8. q * (ga * L) \in Nat \ {0}
    BY <1>6, <1>7, MulPos
  <1>9. SamplesPerEpoch(c) = q * G
    BY DEF SamplesPerEpoch, q, G
  <1>10. ga * (W * L) = (ga * L) * W
    <2>1. W * L = L * W
      BY <1>1, MulAssoc
    <2>2. ga * (L * W) = (ga * L) * W
      BY <1>1, <1>4, MulAssoc
    <2> QED  BY <2>1, <2>2
  <1>11. SamplesPerEpoch(c) = (q * (ga * L)) * W
    <2>1. q * ((ga * L) * W) = (q * (ga * L)) * W
      BY <1>1, <1>6, <1>7, MulAssoc
    <2> QED  BY <1>4, <1>9, <1>10, <2>1
  <1>12. PerRank(c) = q * (ga * L)
    BY <1>1, <1>8, <1>11, MulDiv DEF PerRank, W
  <1>13. q * ga \in Nat
    BY <1>4, <1>6, MulNat
  <1>14. q * (ga * L) = (q * ga) * L
    BY <1>1, <1>4, <1>6, MulAssoc
  <1>15. MicroBatchesPerEpoch(c) = q * ga
    BY <1>1, <1>12, <1>13, <1>14, MulDiv DEF MicroBatchesPerEpoch, L
  <1>16. StepsPerEpoch(c) = q
    BY <1>4, <1>5, <1>6, <1>15, MulDiv DEF StepsPerEpoch, ga
  <1>17. PerStep(c) = ga * L
    BY DEF PerStep, ga, L
  <1> QED
    BY <1>4, <1>5, <1>6, <1>7, <1>8, <1>11, <1>12, <1>16, <1>17 DEF ga, q, W, G

-----------------------------------------------------------------------------
(* The invariant. *)

\* The steps of the job fit its epochs.
LEMMA StepsFit ==
    ASSUME NEW c \in Configs
    PROVE  /\ MaxTrainSteps(c) \in Nat /\ NumTrainEpochs(c) \in Nat
           /\ MaxTrainSteps(c) * PerStep(c) <= NumTrainEpochs(c) * PerRank(c)
  <1> DEFINE S == StepsPerEpoch(c)
             P == PerStep(c)
             N == NumTrainEpochs(c)
  <1>1. S \in Nat \ {0} /\ P \in Nat \ {0} /\ PerRank(c) = S * P
    BY ScheduleExact
  <1>2. c.epochs \in Nat \ {0} /\ c.steps \in Nat
    BY ConfigAssumption
  <1> HIDE DEF S, P
  <1>3. MaxTrainSteps(c) \in Nat /\ N \in Nat /\ MaxTrainSteps(c) <= N * S
    <2>1. CASE c.steps = 0
      BY <1>1, <1>2, <2>1, MulNat DEF MaxTrainSteps, NumTrainEpochs, S
    <2>2. CASE c.steps # 0
      BY <1>1, <1>2, <2>2, CeilMul DEF MaxTrainSteps, NumTrainEpochs, S
    <2> QED  BY <2>1, <2>2
  <1> HIDE DEF N
  <1>4. N * (S * P) = (N * S) * P
    BY <1>1, <1>3, MulAssoc
  <1>5. N * S \in Nat
    BY <1>1, <1>3, MulNat
  <1>6. MaxTrainSteps(c) * P <= (N * S) * P
    BY <1>1, <1>3, <1>5, MulMono
  <1> QED
    BY <1>1, <1>3, <1>4, <1>6 DEF N, P

\* The initial states satisfy the invariant.
LEMMA InitIInv == Init => IInv
  <1> SUFFICES ASSUME Init PROVE IInv
    OBVIOUS
  <1>1. cfg \in Configs
    BY DEF Init
  <1> DEFINE P == PerRank(cfg)
  <1>2. P \in Nat \ {0} /\ PerStep(cfg) \in Nat
    BY <1>1, ScheduleExact
  <1>3. MaxTrainSteps(cfg) \in Nat
    BY <1>1, StepsFit
  <1>4. Remaining(cfg, 0) = MaxTrainSteps(cfg) * PerStep(cfg)
    BY <1>3 DEF Remaining
  <1>5. Remaining(cfg, 0) \in Nat
    BY <1>2, <1>3, <1>4, MulNat
  <1> HIDE DEF P
  <1>6. 0 \div P = 0 /\ 0 % P = 0 /\ 0 \in 0..P - 1
    BY <1>2
  <1>7. NewSampler(0, Remaining(cfg, 0)) = [epoch |-> 0, offset |-> 0, left |-> Remaining(cfg, 0)]
    BY <1>6 DEF NewSampler, P
  <1>8. sampler = [r \in Ranks |-> [epoch |-> 0, offset |-> 0, left |-> Remaining(cfg, 0)]]
    BY <1>7 DEF Init
  <1>9. drawn = [r \in Ranks |-> <<>>]
    BY DEF Init
  <1>10. ASSUME NEW r \in Ranks
         PROVE  /\ sampler[r].epoch * P + sampler[r].offset = Len(drawn[r])
                /\ Len(drawn[r]) + sampler[r].left = MaxTrainSteps(cfg) * PerStep(cfg)
                /\ DOMAIN drawn[r] = {}
    BY <1>2, <1>4, <1>5, <1>8, <1>9
  <1>11. sampler \in [Ranks -> [epoch : Nat, offset : 0..P - 1, left : Nat]]
    BY <1>5, <1>6, <1>8
  <1>12. drawn \in [Ranks -> Seq(0..cfg.dataset - 1)]
    BY <1>9
  <1>13. restarts \in 0..MaxRestarts
    BY ConfigAssumption DEF Init
  <1> QED
    BY <1>1, <1>10, <1>11, <1>12, <1>13 DEF Init, IInv, P

\* A number is its quotient times the divisor plus its remainder.
LEMMA DivModSplit ==
    ASSUME NEW n \in Nat, NEW p \in Nat \ {0}
    PROVE  n \div p \in Nat /\ n % p \in 0..p - 1 /\ (n \div p) * p + (n % p) = n
  OBVIOUS

\* A draw takes the sample that its place in the stream says.
LEMMA DrawIInv ==
    ASSUME IInv, NEW r \in Ranks, Draw(r)
    PROVE  IInv'
  <1> DEFINE P == PerRank(cfg)
             T == MaxTrainSteps(cfg) * PerStep(cfg)
             N == NumTrainEpochs(cfg)
             s == sampler[r]
             x == EpochSlice(r, s.epoch, s.offset)
  <1>1. cfg \in Configs /\ cfg' = cfg /\ shift' = shift /\ restarts' = restarts
    BY DEF IInv, Draw
  <1>2. P \in Nat \ {0}
    BY <1>1, ScheduleExact
  <1>3. N \in Nat /\ T <= N * P
    BY <1>1, StepsFit
  <1>4. s \in [epoch : Nat, offset : 0..P - 1, left : Nat] /\ s.left > 0
    BY DEF IInv, Draw
  <1>5. drawn[r] \in Seq(0..cfg.dataset - 1) /\ Len(drawn[r]) \in Nat
    BY DEF IInv
  <1>6. s.epoch * P + s.offset = Len(drawn[r]) /\ Len(drawn[r]) + s.left = T
    BY DEF IInv
  <1>7. cfg.dataset \in Nat \ {0} /\ cfg.world \in Nat
    BY <1>1, ConfigAssumption
  <1>8. Ranks' = Ranks /\ P' = P /\ T' = T /\ N' = N /\ Ranks \subseteq Nat
    BY <1>1, <1>7 DEF Ranks, PerRank, SamplesPerEpoch, MaxTrainSteps, PerStep, GradAccSteps,
                      StepsPerEpoch, MicroBatchesPerEpoch, NumTrainEpochs
  <1>10. drawn' = [drawn EXCEPT ![r] = Append(drawn[r], x)]
    BY DEF Draw
  <1>11. sampler' = [sampler EXCEPT ![r] = Advance(s)]
    BY DEF Draw
  <1> HIDE DEF P, T, N
  <1>12. s.epoch \in 0..N - 1
    <2>1. s.epoch * P \in Nat /\ N * P \in Nat
      BY <1>2, <1>3, <1>4, MulNat
    <2>2. s.epoch * P < N * P
      BY <1>3, <1>4, <1>5, <1>6, <2>1
    <2> QED  BY <1>2, <1>3, <1>4, <2>2, MulCancel
  <1>13. x \in 0..cfg.dataset - 1
    <2>1. shift[s.epoch] \in Nat
      BY <1>12, <1>7 DEF IInv, N
    <2>2. r + s.offset * cfg.world \in Nat
      BY <1>2, <1>4, <1>7, <1>8, MulNat
    <2> QED  BY <1>7, <2>1, <2>2 DEF EpochSlice, EpochPerm
  <1>14. /\ Advance(s) \in [epoch : Nat, offset : 0..P - 1, left : Nat]
         /\ Advance(s).epoch * P + Advance(s).offset = Len(drawn[r]) + 1
         /\ Len(drawn[r]) + 1 + Advance(s).left = T
    <2> DEFINE e == s.epoch
               o == s.offset
               l == s.left
               n == Len(drawn[r])
    <2>1. e \in Nat /\ o \in 0..P - 1 /\ l \in Nat \ {0} /\ n \in Nat /\ e * P \in Nat
      BY <1>2, <1>4, <1>5, MulNat
    <2>2. e * P + o = n /\ n + l = T
      BY <1>6
    <2> HIDE DEF n
    <2>3. CASE o + 1 < P
      <3>1. Advance(s) = [epoch |-> e, offset |-> o + 1, left |-> l - 1]
        BY <2>3 DEF Advance, P
      <3> HIDE DEF e, o, l
      <3>2. o + 1 \in 0..P - 1 /\ l - 1 \in Nat /\ e * P + (o + 1) = n + 1 /\ n + 1 + (l - 1) = T
        BY <1>2, <2>1, <2>2, <2>3
      <3> QED  BY <2>1, <3>1, <3>2 DEF n
    <2>4. CASE ~(o + 1 < P)
      <3>1. Advance(s) = [epoch |-> e + 1, offset |-> 0, left |-> l - 1]
        BY <2>4 DEF Advance, P
      <3> HIDE DEF e, o, l
      <3>2. (e + 1) * P = e * P + 1 * P
        BY <1>2, <2>1, MulDistr
      <3>3. 0 \in 0..P - 1 /\ l - 1 \in Nat /\ (e + 1) * P + 0 = n + 1 /\ n + 1 + (l - 1) = T
        BY <1>2, <2>1, <2>2, <2>4, <3>2
      <3> QED  BY <2>1, <3>1, <3>3 DEF n
    <2> QED  BY <2>3, <2>4
  <1>15. sampler' \in [Ranks -> [epoch : Nat, offset : 0..P - 1, left : Nat]]
    BY <1>11, <1>14 DEF IInv, P
  <1>16. drawn' \in [Ranks -> Seq(0..cfg.dataset - 1)]
    BY <1>5, <1>10, <1>13 DEF IInv
  <1>17. ASSUME NEW q \in Ranks
         PROVE  /\ sampler'[q].epoch * P + sampler'[q].offset = Len(drawn'[q])
                /\ Len(drawn'[q]) + sampler'[q].left = T
                /\ \A k \in DOMAIN drawn'[q] :
                      drawn'[q][k] = EpochSlice(q, (k - 1) \div P, (k - 1) % P)
    <2>1. CASE q # r
      <3>1. sampler'[q] = sampler[q] /\ drawn'[q] = drawn[q]
        BY <1>10, <1>11, <2>1 DEF IInv
      <3> QED  BY <3>1 DEF IInv, P, T
    <2>2. CASE q = r
      <3>1. sampler'[r] = Advance(s) /\ drawn'[r] = Append(drawn[r], x)
        BY <1>10, <1>11 DEF IInv
      <3>2. Len(drawn'[r]) = Len(drawn[r]) + 1
        BY <1>5, <3>1
      <3>3. ASSUME NEW k \in DOMAIN drawn'[r]
            PROVE  drawn'[r][k] = EpochSlice(r, (k - 1) \div P, (k - 1) % P)
        <4>1. CASE k \in DOMAIN drawn[r]
          <5>1. drawn'[r][k] = drawn[r][k]
            BY <1>5, <3>1, <4>1
          <5> QED  BY <4>1, <5>1 DEF IInv, P
        <4>2. CASE k \notin DOMAIN drawn[r]
          <5>1. k = Len(drawn[r]) + 1 /\ drawn'[r][k] = x
            BY <1>5, <3>1, <4>2
          <5>2. (k - 1) \div P = s.epoch /\ (k - 1) % P = s.offset
            <6>1. k - 1 = s.epoch * P + s.offset
              BY <1>5, <1>6, <5>1
            <6>2. s.epoch \in Nat /\ s.offset \in 0..P - 1
              BY <1>4
            <6>3. (s.epoch * P + s.offset) \div P = s.epoch /\ (s.epoch * P + s.offset) % P = s.offset
              BY <1>2, <6>2, DivModUnique, Zenon
            <6> QED  BY <6>1, <6>3
          <5> QED  BY <5>1, <5>2
        <4> QED  BY <4>1, <4>2
      <3> QED  BY <1>14, <2>2, <3>1, <3>2, <3>3
    <2> QED  BY <2>1, <2>2
  <1> HIDE DEF s, x
  <1>18. ASSUME NEW q \in Ranks, NEW k \in DOMAIN drawn'[q]
         PROVE  drawn'[q][k] = EpochSlice(q, (k - 1) \div P, (k - 1) % P)'
    <2>1. drawn'[q][k] = EpochSlice(q, (k - 1) \div P, (k - 1) % P)
      BY <1>17
    <2>2. EpochSlice(q, (k - 1) \div P, (k - 1) % P)' = EpochSlice(q, (k - 1) \div P, (k - 1) % P)
      BY <1>1, <1>8 DEF EpochSlice, EpochPerm
    <2> QED  BY <2>1, <2>2
  <1>20. \A q \in Ranks :
           /\ sampler'[q].epoch * P + sampler'[q].offset = Len(drawn'[q])
           /\ Len(drawn'[q]) + sampler'[q].left = T
           /\ \A k \in DOMAIN drawn'[q] :
                 drawn'[q][k] = EpochSlice(q, (k - 1) \div P, (k - 1) % P)'
    BY <1>17, <1>18
  <1>19. shift \in [0..N - 1 -> 0..cfg.dataset - 1] /\ restarts \in 0..MaxRestarts
    BY DEF IInv, N
  <1> QED
    BY <1>1, <1>8, <1>15, <1>16, <1>19, <1>20, SMTT(30) DEF IInv, P, T, N

\* A prefix of a sequence.
LEMMA Prefix ==
    ASSUME NEW A, NEW q \in Seq(A), NEW n \in Nat, n <= Len(q)
    PROVE  /\ SubSeq(q, 1, n) \in Seq(A)
           /\ Len(SubSeq(q, 1, n)) = n
           /\ \A k \in 1..n : SubSeq(q, 1, n)[k] = q[k]
  OBVIOUS

\* A restart leaves every rank where the steps of its checkpoint end.
LEMMA RestartIInv ==
    ASSUME IInv, NEW g \in 0..MaxTrainSteps(cfg) - 1, Restart(g)
    PROVE  IInv'
  <1> DEFINE P == PerRank(cfg)
             S == PerStep(cfg)
             M == MaxTrainSteps(cfg)
             N == NumTrainEpochs(cfg)
             n == g * S
             s == NewSampler(StartOffset(g), Remaining(cfg, g))
  <1>1. cfg \in Configs /\ cfg' = cfg /\ shift' = shift
    BY DEF IInv, Restart
  <1>2. P \in Nat \ {0} /\ S \in Nat \ {0} /\ M \in Nat /\ g \in Nat /\ M - g \in Nat
    BY <1>1, ScheduleExact, StepsFit
  <1>3. Ranks' = Ranks /\ P' = P /\ S' = S /\ M' = M /\ N' = N
    BY <1>1 DEF Ranks, PerRank, SamplesPerEpoch, MaxTrainSteps, PerStep, GradAccSteps,
                StepsPerEpoch, MicroBatchesPerEpoch, NumTrainEpochs
  <1>4. sampler' = [r \in Ranks |-> s]
    BY DEF Restart
  <1>5. drawn' = [r \in Ranks |-> SubSeq(drawn[r], 1, n)]
    BY DEF Restart
  <1>6. s = [epoch |-> n \div P, offset |-> n % P, left |-> (M - g) * S]
    BY DEF NewSampler, StartOffset, Remaining
  <1>7. \A r \in Ranks : n <= Len(drawn[r])
    BY DEF Restart, IInv
  <1>8. restarts' \in 0..MaxRestarts
    BY ConfigAssumption DEF Restart, IInv
  <1> HIDE DEF P, S, M, N, s
  <1>9. n \in Nat /\ (M - g) * S \in Nat
    BY <1>2, MulNat
  <1>10. n + (M - g) * S = M * S
    BY <1>2, MulDistr
  <1> HIDE DEF n
  <1>11. n \div P \in Nat /\ n % P \in 0..P - 1 /\ (n \div P) * P + (n % P) = n
    BY <1>2, <1>9, DivModSplit, Zenon
  <1>12. sampler' \in [Ranks -> [epoch : Nat, offset : 0..P - 1, left : Nat]]
    BY <1>4, <1>6, <1>9, <1>11
  <1>13. ASSUME NEW r \in Ranks
         PROVE  /\ drawn'[r] \in Seq(0..cfg.dataset - 1)
                /\ Len(drawn'[r]) = n
                /\ \A k \in DOMAIN drawn'[r] : k \in DOMAIN drawn[r] /\ drawn'[r][k] = drawn[r][k]
    <2>1. drawn[r] \in Seq(0..cfg.dataset - 1) /\ n <= Len(drawn[r])
      BY <1>7 DEF IInv
    <2>2. drawn'[r] = SubSeq(drawn[r], 1, n)
      BY <1>5, Zenon
    <2>3. /\ drawn'[r] \in Seq(0..cfg.dataset - 1)
          /\ Len(drawn'[r]) = n
          /\ \A k \in 1..n : drawn'[r][k] = drawn[r][k]
      <3> DEFINE q == drawn[r]
                 A == 0..cfg.dataset - 1
      <3>1. q \in Seq(A) /\ n \in Nat /\ n <= Len(q)
        BY <1>9, <2>1
      <3> HIDE DEF q, A
      <3>2. /\ SubSeq(q, 1, n) \in Seq(A)
            /\ Len(SubSeq(q, 1, n)) = n
            /\ \A k \in 1..n : SubSeq(q, 1, n)[k] = q[k]
        BY <3>1, Prefix, Zenon
      <3>3. drawn'[r] = SubSeq(q, 1, n)
        BY <2>2 DEF q
      <3> QED  BY <3>2, <3>3, Zenon DEF q, A
    <2>4. DOMAIN drawn'[r] = 1..n /\ 1..n \subseteq DOMAIN drawn[r]
      BY <1>9, <2>1, <2>3
    <2> QED  BY <2>3, <2>4
  <1>14. ASSUME NEW r \in Ranks
         PROVE  /\ sampler'[r].epoch * P + sampler'[r].offset = Len(drawn'[r])
                /\ Len(drawn'[r]) + sampler'[r].left = M * S
    <2>1. sampler'[r] = [epoch |-> n \div P, offset |-> n % P, left |-> (M - g) * S]
      BY <1>4, <1>6
    <2> QED  BY <1>10, <1>11, <1>13, <2>1
  <1>15. ASSUME NEW r \in Ranks, NEW k \in DOMAIN drawn'[r]
         PROVE  drawn'[r][k] = EpochSlice(r, (k - 1) \div P, (k - 1) % P)'
    <2>1. drawn'[r][k] = EpochSlice(r, (k - 1) \div P, (k - 1) % P)
      BY <1>13 DEF IInv, P
    <2>2. EpochSlice(r, (k - 1) \div P, (k - 1) % P)' = EpochSlice(r, (k - 1) \div P, (k - 1) % P)
      BY <1>1, <1>3 DEF EpochSlice, EpochPerm
    <2> QED  BY <2>1, <2>2
  <1>16. drawn' \in [Ranks -> Seq(0..cfg.dataset - 1)]
    BY <1>5, <1>13
  <1>17. shift \in [0..N - 1 -> 0..cfg.dataset - 1]
    BY DEF IInv, N
  <1> QED
    BY <1>1, <1>3, <1>8, <1>12, <1>14, <1>15, <1>16, <1>17 DEF IInv, P, S, M, N

\* The invariant holds in every state of every job.
THEOREM Invariance == Spec => []IInv
  <1>1. Init => IInv
    BY InitIInv
  <1>2. IInv /\ [Next]_vars => IInv'
    <2> SUFFICES ASSUME IInv, [Next]_vars PROVE IInv'
      OBVIOUS
    <2>1. CASE DrawAny
      BY <2>1, DrawIInv DEF DrawAny
    <2>2. CASE \E g \in 0..MaxTrainSteps(cfg) - 1 : Restart(g)
      BY <2>2, RestartIInv, SMTT(30)
    <2>3. CASE UNCHANGED vars
      BY <2>3 DEF vars, IInv, Ranks, PerRank, SamplesPerEpoch, MaxTrainSteps, PerStep,
                  GradAccSteps, StepsPerEpoch, MicroBatchesPerEpoch, NumTrainEpochs,
                  EpochSlice, EpochPerm
    <2> QED  BY <2>1, <2>2, <2>3 DEF Next, Exhausted
  <1> QED  BY <1>1, <1>2, PTL DEF Spec

\* The samplers of StatelessResumableDistributedSampler stay within the epochs
\* of the schedule and within the samples of an epoch.
THEOREM TypeCorrect == Spec => []TypeOK
  <1>1. IInv => TypeOK
    <2> SUFFICES ASSUME IInv PROVE TypeOK
      OBVIOUS
    <2> DEFINE P == PerRank(cfg)
               N == NumTrainEpochs(cfg)
               T == MaxTrainSteps(cfg) * PerStep(cfg)
    <2>1. cfg \in Configs
      BY DEF IInv
    <2>2. P \in Nat \ {0} /\ N \in Nat /\ T <= N * P
      BY <2>1, ScheduleExact, StepsFit
    <2>3. ASSUME NEW r \in Ranks
          PROVE  /\ sampler[r] \in [epoch : Nat, offset : 0..P - 1, left : Nat]
                 /\ sampler[r].epoch * P + sampler[r].offset = Len(drawn[r])
                 /\ Len(drawn[r]) + sampler[r].left = T
      BY DEF IInv
    <2> HIDE DEF P, N, T
    <2>4. ASSUME NEW r \in Ranks
          PROVE  sampler[r].epoch \in 0..N
      <3> DEFINE e == sampler[r].epoch
                 o == sampler[r].offset
                 l == sampler[r].left
      <3>1. e \in Nat /\ o \in Nat /\ l \in Nat
        BY <2>2, <2>3
      <3>2. e * P \in Nat /\ N * P \in Nat
        BY <2>2, <3>1, MulNat
      <3>3. e * P + o + l = T
        BY <2>3
      <3> HIDE DEF e, o, l
      <3>4. e * P <= N * P
        BY <2>2, <3>1, <3>2, <3>3
      <3>5. e <= N
        BY <2>2, <3>1, <3>4, MulCancel
      <3> QED  BY <2>2, <3>1, <3>5 DEF e
    <2>5. ASSUME NEW r \in Ranks
          PROVE  sampler[r] \in [epoch : 0..N, offset : 0..P - 1, left : Nat]
      BY <2>3, <2>4
    <2> QED  BY <2>5 DEF IInv, TypeOK, P, N
  <1> QED  BY <1>1, Invariance, PTL

\* However often the job restarts, and whatever its DataLoaders had drawn ahead,
\* each rank draws exactly the samples of max_train_steps optimizer steps.
THEOREM DrawsAddUpAlways == Spec => []DrawsAddUp
  <1>1. IInv => DrawsAddUp
    BY DEF IInv, DrawsAddUp
  <1> QED  BY <1>1, Invariance, PTL

\* The k-th sample a rank trains on is the same in every execution with the same
\* shuffles, restarted or not.
THEOREM SameStreamAlways == Spec => []SameStream
  <1>1. IInv => SameStream
    <2> SUFFICES ASSUME IInv, NEW r \in Ranks, NEW k \in DOMAIN drawn[r]
                 PROVE  drawn[r][k] = EpochPerm((k - 1) \div PerRank(cfg),
                                                ((k - 1) % PerRank(cfg)) * cfg.world + r)
      BY DEF SameStream
    <2>1. drawn[r][k] = EpochPerm((k - 1) \div PerRank(cfg),
                                  r + ((k - 1) % PerRank(cfg)) * cfg.world)
      BY DEF IInv, EpochSlice
    <2>2. ((k - 1) % PerRank(cfg)) * cfg.world \in Int /\ r \in Int
      <3>1. PerRank(cfg) \in Nat \ {0} /\ cfg.world \in Nat
        BY ConfigAssumption, ScheduleExact, Zenon DEF IInv
      <3>2. k - 1 \in Nat
        BY DEF IInv
      <3>3. (k - 1) % PerRank(cfg) \in Nat
        BY <3>1, <3>2, DivModSplit
      <3>4. r \in Int
        BY <3>1 DEF Ranks
      <3> QED  BY <3>1, <3>3, <3>4, MulNat
    <2>3. r + ((k - 1) % PerRank(cfg)) * cfg.world = ((k - 1) % PerRank(cfg)) * cfg.world + r
      BY <2>2
    <2> QED  BY <2>1, <2>3
  <1> QED  BY <1>1, Invariance, PTL

-----------------------------------------------------------------------------
(***************************************************************************)
(* SameTrajectory for every number of steps and warm-up steps.  The        *)
(* invariant says in which stage both schedulers are after k steps; it     *)
(* holds of the running process and of the checkpoint, which is why a      *)
(* resume continues in the same stage.                                     *)
(***************************************************************************)

\* What state_dict saves of an optimizer that has done k steps.
StateAt(k) ==
  [lr |-> Rate(k),
   last_epoch |-> IF k < warmup THEN k ELSE warmup,
   finished |-> k >= warmup,
   after |-> IF k < warmup THEN 0 ELSE k - warmup,
   fp32_params |-> [rates |-> Rates(k), bits |-> 32]]

\* The optimizer after k steps.
OptAt(k) ==
  [lr |-> Rate(k),
   last_epoch |-> IF k < warmup THEN k ELSE warmup,
   finished |-> k >= warmup,
   after |-> IF k < warmup THEN 0 ELSE k - warmup,
   master |-> [rates |-> Rates(k), bits |-> 32],
   model |-> Rates(k)]

TrajectoryInv ==
  /\ warmup \in 0..Total
  /\ proc \in {"up", "down"}
  /\ step \in 0..Total
  /\ proc = "up" => opt = OptAt(step)
  /\ file = NoFile \/ \E k \in 0..Total :
       file = [step |-> k, model |-> Rates(k), optimizer |-> StateAt(k)]

\* One more rate: the rates of k + 1 steps are those of k steps and the next one.
LEMMA RatesAppend ==
  ASSUME NEW k \in Nat
  PROVE  Append(Rates(k), Rate(k)) = Rates(k + 1)
<1> DEFINE R(i) == Rate(i)
<1>1. Rates(k) = [i \in 1..k |-> R(i - 1)] /\ Rates(k + 1) = [i \in 1..(k + 1) |-> R(i - 1)]
  BY DEF Rates
<1> HIDE DEF R
<1>2. Append([i \in 1..k |-> R(i - 1)], R(k)) = [i \in 1..(k + 1) |-> R(i - 1)]
  OBVIOUS
<1> QED
  BY <1>1, <1>2 DEF R

\* The optimizer of either stage, spelled out.
LEMMA OptAtStages ==
  ASSUME warmup \in Nat, NEW k \in Nat
  PROVE  /\ k < warmup => OptAt(k) =
              [lr |-> Rate(k), last_epoch |-> k, finished |-> FALSE, after |-> 0,
               master |-> [rates |-> Rates(k), bits |-> 32], model |-> Rates(k)]
         /\ k >= warmup => OptAt(k) =
              [lr |-> Rate(k), last_epoch |-> warmup, finished |-> TRUE, after |-> k - warmup,
               master |-> [rates |-> Rates(k), bits |-> 32], model |-> Rates(k)]
<1>1. k < warmup => (k >= warmup) = FALSE
  OBVIOUS
<1>2. k >= warmup => (k >= warmup) = TRUE /\ ~(k < warmup)
  OBVIOUS
<1> QED
  BY <1>1, <1>2, Zenon DEF OptAt

\* BF16Optimizer's constructor gives the optimizer of step 0.
LEMMA ConstructIsStart ==
  ASSUME warmup \in 0..Total
  PROVE  Construct(<<>>) = OptAt(0)
<1>1. Rates(0) = <<>>
  BY DEF Rates
<1>2. warmup \in Nat
  BY TotalAssumption
<1>3. get_lr(0, 0, Cos(0)) = Rate(0)
  BY <1>2 DEF get_lr, after_get_lr, Rate, Warm, Cos
<1>4. (<<>> = <<>>) = TRUE
  OBVIOUS
<1>5. CASE warmup = 0
  <2>1. (warmup = 0) = TRUE /\ 0 >= warmup /\ 0 - warmup = 0
    BY <1>5
  <2> QED
    BY <1>1, <1>2, <1>3, <1>4, <1>5, <2>1, OptAtStages, ZenonT(30) DEF Construct
<1>6. CASE warmup # 0
  <2>1. (warmup = 0) = FALSE /\ 0 < warmup
    BY <1>2, <1>6
  <2> QED
    BY <1>1, <1>2, <1>3, <1>4, <2>1, OptAtStages, ZenonT(30) DEF Construct
<1> QED
  BY <1>5, <1>6

\* A step takes the optimizer of step k to that of step k + 1: in the warm-up, at
\* its end, where get_lr finds the cosine scheduler at epoch 0, and after it.
LEMMA StepAdvances ==
  ASSUME warmup \in 0..Total, NEW k \in 0..(Total - 1)
  PROVE  optimizer_step(OptAt(k)) = OptAt(k + 1)
<1> DEFINE o == OptAt(k)
           s == scheduler_step(o)
<1>1. warmup \in Nat /\ k \in Nat /\ k + 1 \in Nat
  BY TotalAssumption
<1>2. Append(Rates(k), Rate(k)) = Rates(k + 1)
  BY <1>1, RatesAppend
<1>3. o.lr = Rate(k) /\ o.master.rates = Rates(k) /\ o.master.bits = 32
  BY DEF OptAt
<1>4. optimizer_step(o) =
        [lr |-> s.lr, last_epoch |-> s.last_epoch, finished |-> s.finished, after |-> s.after,
         master |-> [rates |-> Rates(k + 1), bits |-> 32], model |-> Rates(k + 1)]
  BY <1>2, <1>3, Zenon DEF optimizer_step
<1> HIDE DEF s
<1>5. CASE k + 1 < warmup
  <2>1. o.finished = FALSE /\ o.last_epoch = k /\ o.after = 0
    BY <1>1, <1>5, OptAtStages
  <2>2. get_lr(k + 1, 0, Rate(k)) = Rate(k + 1) /\ (k + 1 >= warmup) = FALSE
    BY <1>1, <1>5 DEF get_lr, Rate
  <2>3. s = [lr |-> Rate(k + 1), last_epoch |-> k + 1, finished |-> FALSE, after |-> 0]
    BY <1>3, <2>1, <2>2, Zenon DEF s, scheduler_step
  <2>4. OptAt(k + 1) =
          [lr |-> Rate(k + 1), last_epoch |-> k + 1, finished |-> FALSE, after |-> 0,
           master |-> [rates |-> Rates(k + 1), bits |-> 32], model |-> Rates(k + 1)]
    BY <1>1, <1>5, OptAtStages, Zenon
  <2>5. s.lr = Rate(k + 1) /\ s.last_epoch = k + 1 /\ s.finished = FALSE /\ s.after = 0
    BY <2>3
  <2> QED
    BY <1>4, <2>4, <2>5, Zenon
<1>6. CASE k + 1 = warmup
  <2>1. o.finished = FALSE /\ o.last_epoch = k /\ o.after = 0
    BY <1>1, <1>6, OptAtStages
  <2>2. Rate(k) = Cos(0) /\ Rate(k + 1) = Cos(0)
    BY <1>1, <1>6 DEF Rate, Warm
  <2>3. get_lr(k + 1, 0, Rate(k)) = Rate(k + 1) /\ (k + 1 >= warmup) = TRUE
    BY <1>1, <1>6, <2>2 DEF get_lr, after_get_lr
  <2>4. s = [lr |-> Rate(k + 1), last_epoch |-> k + 1, finished |-> TRUE, after |-> 0]
    BY <1>3, <2>1, <2>3, Zenon DEF s, scheduler_step
  <2>5. OptAt(k + 1) =
          [lr |-> Rate(k + 1), last_epoch |-> k + 1, finished |-> TRUE, after |-> 0,
           master |-> [rates |-> Rates(k + 1), bits |-> 32], model |-> Rates(k + 1)]
    <3>1. k + 1 >= warmup /\ (k + 1) - warmup = 0
      BY <1>1, <1>6
    <3> QED
      BY <1>1, <1>6, <3>1, OptAtStages, Zenon
  <2>6. s.lr = Rate(k + 1) /\ s.last_epoch = k + 1 /\ s.finished = TRUE /\ s.after = 0
    BY <2>4
  <2> QED
    BY <1>4, <2>5, <2>6, Zenon
<1>7. CASE k >= warmup
  <2>1. o.finished = TRUE /\ o.last_epoch = warmup /\ o.after = k - warmup
    BY <1>1, <1>7, OptAtStages
  <2>2. Rate(k) = Cos(k - warmup) /\ Rate(k + 1) = Cos(k - warmup + 1)
    BY <1>1, <1>7 DEF Rate
  <2>3. (k - warmup + 1) # 0 /\ (k - warmup + 1) - 1 = k - warmup
    BY <1>1, <1>7
  <2>4. after_get_lr(k - warmup + 1, Rate(k)) = Rate(k + 1)
    BY <2>2, <2>3 DEF after_get_lr
  <2>5. s = [lr |-> Rate(k + 1), last_epoch |-> warmup, finished |-> TRUE,
             after |-> k - warmup + 1]
    BY <1>3, <2>1, <2>4, Zenon DEF s, scheduler_step
  <2>6. OptAt(k + 1) =
          [lr |-> Rate(k + 1), last_epoch |-> warmup, finished |-> TRUE, after |-> k - warmup + 1,
           master |-> [rates |-> Rates(k + 1), bits |-> 32], model |-> Rates(k + 1)]
    <3>1. k + 1 >= warmup /\ (k + 1) - warmup = k - warmup + 1
      BY <1>1, <1>7
    <3> QED
      BY <1>1, <3>1, OptAtStages, Zenon
  <2>7. s.lr = Rate(k + 1) /\ s.last_epoch = warmup /\ s.finished = TRUE /\ s.after = k - warmup + 1
    BY <2>5
  <2> QED
    BY <1>4, <2>6, <2>7, Zenon
<1> QED
  BY <1>1, <1>5, <1>6, <1>7

\* The invariant holds initially and over starts, steps, checkpoints and stops.
THEOREM TrajectoryInductive == ScheduleSpec => []TrajectoryInv
<1> USE TotalAssumption
<1>1. ScheduleInit => TrajectoryInv
  BY DEF ScheduleInit, TrajectoryInv
<1>2. TrajectoryInv /\ [ScheduleNext]_scheduleVars => TrajectoryInv'
  <2> SUFFICES ASSUME TrajectoryInv, [ScheduleNext]_scheduleVars PROVE TrajectoryInv'
    OBVIOUS
  <2>0. warmup' = warmup
    BY DEF ScheduleNext, scheduleVars, StartRun, Step, Save, StopRun
  <2>1. /\ (OptAt(step))' = OptAt(step')
        /\ \A k \in 0..Total : (Rates(k))' = Rates(k) /\ (StateAt(k))' = StateAt(k)
    BY <2>0 DEF OptAt, StateAt, Rates, Rate, Warm, Cos
  <2>2. CASE StartRun
    <3>1. CASE file = NoFile
      BY <2>0, <2>1, <2>2, <3>1, ConstructIsStart DEF StartRun, TrajectoryInv
    <3>2. CASE file # NoFile
      <4>1. PICK k \in 0..Total :
              file = [step |-> k, model |-> Rates(k), optimizer |-> StateAt(k)]
        BY <3>2 DEF TrajectoryInv
      <4>2. file.step = k /\ file.model = Rates(k) /\ file.optimizer = StateAt(k)
        BY <4>1, SMTT(30)
      <4>3. load_state_dict(Construct(file.model), StateAt(k)) = OptAt(k)
        BY DEF load_state_dict, StateAt, OptAt
      <4>4. step' = k /\ opt' = OptAt(k) /\ proc' = "up" /\ file' = file
        BY <2>2, <3>2, <4>2, <4>3 DEF StartRun
      <4> QED
        BY <2>0, <2>1, <4>4 DEF TrajectoryInv
    <3> QED
      BY <3>1, <3>2
  <2>3. CASE Step
    <3>1. step \in 0..(Total - 1) /\ step + 1 \in 0..Total
      BY <2>3 DEF Step, TrajectoryInv
    <3>2. opt' = OptAt(step + 1) /\ step' = step + 1 /\ proc' = proc /\ file' = file
      BY <2>3, <3>1, StepAdvances DEF Step, TrajectoryInv
    <3> QED
      BY <2>0, <2>1, <3>1, <3>2 DEF TrajectoryInv
  <2>4. CASE Save
    <3>1. opt = OptAt(step) /\ opt' = opt /\ step' = step /\ proc' = proc
      BY <2>4, SMTT(30) DEF Save, TrajectoryInv
    <3>2. state_dict(OptAt(step)) = StateAt(step) /\ OptAt(step).model = Rates(step)
      BY DEF state_dict, StateAt, OptAt
    <3>3. file' = [step |-> step, model |-> Rates(step), optimizer |-> StateAt(step)]
      BY <2>4, <3>1, <3>2 DEF Save
    <3> QED
      BY <2>0, <2>1, <3>1, <3>3 DEF TrajectoryInv
  <2>5. CASE StopRun
    BY <2>0, <2>1, <2>5 DEF StopRun, TrajectoryInv
  <2>6. CASE UNCHANGED scheduleVars
    BY <2>0, <2>1, <2>6 DEF scheduleVars, TrajectoryInv
  <2> QED
    BY <2>2, <2>3, <2>4, <2>5, <2>6 DEF ScheduleNext
<1> QED
  BY <1>1, <1>2, PTL DEF ScheduleSpec

\* For every length of the run and of the warm-up, a run that is stopped and
\* resumed at any of its checkpoints trains as an uninterrupted one.
THEOREM ResumeKeepsTrajectory == ScheduleSpec => []SameTrajectory
<1>1. TrajectoryInv => SameTrajectory
  BY DEF TrajectoryInv, SameTrajectory, OptAt
<1> QED
  BY <1>1, TrajectoryInductive, PTL

-----------------------------------------------------------------------------
(* The reserve of a speculative decode. *)

\* Rounding up to pages loses nothing and adds less than a page
\* (page_aligned_decode_alloc_lens).
LEMMA CeilAlignBounds ==
  ASSUME NEW n \in Nat
  PROVE  /\ CeilAlign(n) \in Nat
         /\ n <= CeilAlign(n)
         /\ CeilAlign(n) < n + PageSize
<1> DEFINE q == (n + PageSize - 1) \div PageSize
           r == (n + PageSize - 1) % PageSize
<1>1. PageSize \in Nat /\ PageSize > 0 /\ n + PageSize - 1 \in Nat
  BY ReserveAssumption
<1>2. q \in Nat /\ r \in 0..(PageSize - 1) /\ n + PageSize - 1 = PageSize * q + r
  BY <1>1
<1> HIDE DEF q, r
<1>3. q * PageSize = PageSize * q /\ q * PageSize \in Nat
  BY <1>1, <1>2
<1>4. CeilAlign(n) = q * PageSize
  BY DEF CeilAlign, q
<1> QED
  BY <1>1, <1>2, <1>3, <1>4

\* The strengthened invariant holds initially and is preserved by every step of
\* the loop and of the device.
THEOREM ReserveInductive == ReserveSpec => []ReserveInv
<1> USE ReserveAssumption
<1>1. ReserveInit => ReserveInv
  BY DEF ReserveInit, ReserveInv, NoBatch, Reserve
<1>2. ReserveInv /\ [ReserveNext]_reserveVars => ReserveInv'
  <2> SUFFICES ASSUME ReserveInv, [ReserveNext]_reserveVars PROVE ReserveInv'
    OBVIOUS
  <2>1. CASE LaunchVerify
    <3>1. comm + Reserve \in Nat
      BY DEF ReserveInv, Reserve
    <3>2. /\ CeilAlign(comm + Reserve) \in Nat
          /\ comm + Reserve <= CeilAlign(comm + Reserve)
          /\ CeilAlign(comm + Reserve) < comm + Reserve + PageSize
      BY <3>1, CeilAlignBounds
    <3>3. /\ alloc' \in Nat
          /\ comm + Reserve <= alloc'
          /\ alloc' < comm + Reserve + PageSize
      BY <2>1, <3>2 DEF LaunchVerify, NextAlloc, ReserveInv, Reserve
    <3> QED
      BY <2>1, <3>3 DEF LaunchVerify, ReserveInv, Reserve, NoBatch
  <2>2. CASE LaunchSync
    <3>1. comm + Reserve \in Nat /\ last.n \in 0..Block
      BY DEF ReserveInv, Reserve
    <3>2. /\ CeilAlign(comm + Reserve) \in Nat
          /\ comm + Reserve <= CeilAlign(comm + Reserve)
          /\ CeilAlign(comm + Reserve) < comm + Reserve + PageSize
      BY <3>1, CeilAlignBounds
    <3>3. /\ alloc' \in Nat
          /\ comm + Reserve <= alloc'
          /\ alloc' < comm + Reserve + PageSize
      BY <2>2, <3>2 DEF LaunchSync, NextAlloc, ReserveInv, Reserve
    <3> QED
      BY <2>2, <3>1, <3>3 DEF LaunchSync, ReserveInv, Reserve, NoBatch
  <2>3. CASE LaunchOther
    BY <2>3 DEF LaunchOther, ReserveInv, NoBatch, Reserve
  <2>4. CASE ProcessResult
    BY <2>4 DEF ProcessResult, ReserveInv, NoBatch, Reserve
  <2>5. ASSUME NEW n \in 1..Block, VerifyBatch(n) PROVE ReserveInv'
    <3>0. n \in 0..Block /\ n \in Nat
      BY <2>5
    <3>1. CASE last.st = "launched"
      <4>1. /\ last' \in [st : {"none", "launched", "done"}, row : Nat, n : 0..Block]
            /\ last'.st = "done" /\ last'.n = n /\ cur' = cur
        BY <2>5, <3>0, <3>1, Zenon DEF VerifyBatch, ReserveInv
      <4>2. dlen' = dlen + n /\ pc' = pc /\ comm' = comm /\ alloc' = alloc
        BY <2>5 DEF VerifyBatch
      <4> QED
        BY <3>0, <3>1, <4>1, <4>2 DEF ReserveInv, NoBatch, Reserve
    <3>2. CASE last.st # "launched" /\ cur.st = "launched"
      <4>1. /\ cur' \in [st : {"none", "launched", "done"}, row : Nat, n : 0..Block]
            /\ cur'.st = "done" /\ cur'.n = n /\ last' = last
        BY <2>5, <3>0, <3>2, Zenon DEF VerifyBatch, ReserveInv
      <4>2. dlen' = dlen + n /\ pc' = pc /\ comm' = comm /\ alloc' = alloc
        BY <2>5 DEF VerifyBatch
      <4> QED
        BY <3>0, <3>2, <4>1, <4>2 DEF ReserveInv, NoBatch, Reserve
    <3> QED
      BY <2>5, <3>1, <3>2 DEF VerifyBatch
  <2>6. CASE UNCHANGED reserveVars
    BY <2>6 DEF reserveVars, ReserveInv, NoBatch, Reserve
  <2> QED
    BY <2>1, <2>2, <2>3, <2>4, <2>5, <2>6 DEF ReserveNext
<1> QED
  BY <1>1, <1>2, PTL DEF ReserveSpec

\* For every block and page size the verify block lies inside the row its batch
\* was launched with, and a row is over-allocated by less than the reserve and a
\* page.
THEOREM ReserveSuffices == ReserveSpec => []AlwaysInReserve
<1>1. ReserveInv => AlwaysInReserve
  BY ReserveAssumption DEF ReserveInv, AlwaysInReserve, Executing, Reserve
<1> QED
  BY <1>1, ReserveInductive, PTL

=============================================================================
