------------------------------ MODULE DataOrder ------------------------------
(***************************************************************************)
(* Which training sample every rank sees when: the schedule computed by    *)
(* trainer/base_trainer.py and the resumable distributed sampler of        *)
(* utils/distributed.py, over restarts from a checkpoint.                  *)
(*                                                                         *)
(* A sample is its number in the dataset.  The DataLoader draws ahead of   *)
(* training; what was drawn and not trained on is lost in a restart.       *)
(***************************************************************************)
EXTENDS Integers, Sequences, FiniteSets

CONSTANTS
    Configs,     \* job configurations: records of the sizes below
    MaxRestarts  \* bound on the restarts

\* What the asserts of the schedule demand of a configuration.
ASSUME ConfigAssumption ==
    /\ MaxRestarts \in Nat
    /\ \A c \in Configs :
          /\ {c.dataset, c.world, c.local, c.global, c.epochs} \subseteq Nat \ {0}
          /\ c.steps \in Nat
          /\ c.global % (c.world * c.local) = 0
          /\ c.dataset \div c.global > 0

VARIABLES
    cfg,      \* the configuration
    shift,    \* the shuffle of each epoch
    sampler,  \* the generator of each rank: epoch, offset in it, samples left
    drawn,    \* what each rank has drawn, restarts included
    restarts  \* restarts so far

vars == <<cfg, shift, sampler, drawn, restarts>>

-----------------------------------------------------------------------------
(* _compute_training_schedule. *)

GradAccSteps(c) == c.global \div (c.world * c.local)

\* Mutant: an epoch is only cut to a multiple of the ranks' batches.
SamplesCutByRank(c) == (c.dataset \div (c.world * c.local)) * (c.world * c.local)

SamplesPerEpoch(c) == (c.dataset \div c.global) * c.global
PerRank(c) == SamplesPerEpoch(c) \div c.world
MicroBatchesPerEpoch(c) == PerRank(c) \div c.local
StepsPerEpoch(c) == MicroBatchesPerEpoch(c) \div GradAccSteps(c)

\* max_train_steps, 0 for None, decides over num_train_epochs.
MaxTrainSteps(c) == IF c.steps = 0 THEN c.epochs * StepsPerEpoch(c) ELSE c.steps
NumTrainEpochs(c) ==
    IF c.steps = 0 THEN c.epochs ELSE (c.steps + StepsPerEpoch(c) - 1) \div StepsPerEpoch(c)

\* The samples a rank trains on in one optimizer step.
PerStep(c) == GradAccSteps(c) * c.local

\* remaining_samples in train, after g optimizer steps.
Remaining(c, g) == (MaxTrainSteps(c) - g) * PerStep(c)

-----------------------------------------------------------------------------
(* StatelessResumableDistributedSampler. *)

Ranks == 0..cfg.world - 1

\* _epoch_perm: the shuffle of an epoch depends on nothing but its number.
EpochPerm(e, i) == (i + shift[e]) % cfg.dataset

\* Mutant: every rank takes a block of the epoch one sample too far on.
BlockSlice(r, e, i) == EpochPerm(e, r * (PerRank(cfg) - 1) + i)

\* _epoch_slice_for_rank: every num_replicas-th sample, from the rank on.
EpochSlice(r, e, i) == EpochPerm(e, r + i * cfg.world)

\* Mutant: the offset is not carried into the epoch.
RestartEpoch(offset, num) ==
    [epoch |-> offset \div PerRank(cfg), offset |-> 0, left |-> num]

\* A sampler with a start offset, as _iter_stream begins.
NewSampler(offset, num) ==
    [epoch |-> offset \div PerRank(cfg), offset |-> offset % PerRank(cfg), left |-> num]

\* next of _iter_stream: on to the next epoch after the last sample of one.
Advance(s) ==
    IF s.offset + 1 < PerRank(cfg)
    THEN [epoch |-> s.epoch, offset |-> s.offset + 1, left |-> s.left - 1]
    ELSE [epoch |-> s.epoch + 1, offset |-> 0, left |-> s.left - 1]

-----------------------------------------------------------------------------
Init ==
    /\ cfg \in Configs
    /\ shift \in [0..NumTrainEpochs(cfg) - 1 -> 0..cfg.dataset - 1]
    /\ sampler = [r \in Ranks |-> NewSampler(0, Remaining(cfg, 0))]
    /\ drawn = [r \in Ranks |-> <<>>]
    /\ restarts = 0

\* The DataLoader of rank r draws the next sample.
Draw(r) ==
    /\ sampler[r].left > 0
    /\ drawn' = [drawn EXCEPT ![r] =
                    Append(@, EpochSlice(r, sampler[r].epoch, sampler[r].offset))]
    /\ sampler' = [sampler EXCEPT ![r] = Advance(@)]
    /\ UNCHANGED <<cfg, shift, restarts>>

\* start_offset_samples: next_micro_step * local_batch_size.
StartOffset(g) == g * PerStep(cfg)

\* The job is launched again from the checkpoint of step g: train builds new
\* samplers; training up to step g needed the samples drawn until then.
Restart(g) ==
    /\ restarts < MaxRestarts
    /\ \A r \in Ranks : Len(drawn[r]) >= g * PerStep(cfg)
    /\ sampler' = [r \in Ranks |-> NewSampler(StartOffset(g), Remaining(cfg, g))]
    /\ drawn' = [r \in Ranks |-> SubSeq(drawn[r], 1, g * PerStep(cfg))]
    /\ restarts' = restarts + 1
    /\ UNCHANGED <<cfg, shift>>

Exhausted == (\A r \in Ranks : sampler[r].left = 0) /\ UNCHANGED vars

DrawAny == \E r \in Ranks : Draw(r)
Next ==
    \/ DrawAny
    \/ \E g \in 0..MaxTrainSteps(cfg) - 1 : Restart(g)
    \/ Exhausted

\* The DataLoaders keep drawing.
Spec == Init /\ [][Next]_vars /\ WF_vars(DrawAny)

-----------------------------------------------------------------------------
(* Properties. *)

\* A sampler never leaves the epochs of the schedule nor the samples of an
\* epoch (_iter_stream), and draws existing samples only.
TypeOK ==
    /\ cfg \in Configs
    /\ sampler \in [Ranks -> [epoch : 0..NumTrainEpochs(cfg), offset : 0..PerRank(cfg) - 1,
                              left : Nat]]
    /\ drawn \in [Ranks -> Seq(0..cfg.dataset - 1)]
    /\ restarts \in 0..MaxRestarts

\* What the theorems rest on: every sampler stands where the number of samples
\* its rank has drawn says, and each of these was the one at its place.
IInv ==
    /\ cfg \in Configs
    /\ shift \in [0..NumTrainEpochs(cfg) - 1 -> 0..cfg.dataset - 1]
    /\ sampler \in [Ranks -> [epoch : Nat, offset : 0..PerRank(cfg) - 1, left : Nat]]
    /\ drawn \in [Ranks -> Seq(0..cfg.dataset - 1)]
    /\ \A r \in Ranks :
          /\ sampler[r].epoch * PerRank(cfg) + sampler[r].offset = Len(drawn[r])
          /\ Len(drawn[r]) + sampler[r].left = MaxTrainSteps(cfg) * PerStep(cfg)
          /\ \A k \in DOMAIN drawn[r] :
                drawn[r][k] = EpochSlice(r, (k - 1) \div PerRank(cfg), (k - 1) % PerRank(cfg))
    /\ restarts \in 0..MaxRestarts

\* The positions, over all ranks, of what was drawn in epoch e.
DrawnIn(e) ==
    {p \in Ranks \X (e * PerRank(cfg) + 1..(e + 1) * PerRank(cfg)) :
        p[2] <= Len(drawn[p[1]])}

\* No sample is drawn twice within an epoch, by whichever ranks and over
\* whatever restarts, and a finished epoch has drawn samples_per_epoch of them
\* ("each epoch uses the first total_size samples from a deterministic shuffle").
EpochOnce ==
    \A e \in 0..NumTrainEpochs(cfg) - 1 :
        LET samples == {drawn[p[1]][p[2]] : p \in DrawnIn(e)}
        IN  /\ Cardinality(samples) = Cardinality(DrawnIn(e))
            /\ samples \subseteq {EpochPerm(e, i) : i \in 0..SamplesPerEpoch(cfg) - 1}

\* The optimizer steps are global batches: the samples of one step are
\* global_batch_size different ones of a single epoch, and the last step of an
\* epoch ends it, so that checkpoints at global_step % steps_per_epoch = 0 stand
\* at the ends of epochs.
StepIsGlobalBatch ==
    \A g \in 0..MaxTrainSteps(cfg) - 1 :
        LET ks == g * PerStep(cfg) + 1..(g + 1) * PerStep(cfg)
            e == g \div StepsPerEpoch(cfg)
        IN  (\A r \in Ranks : Len(drawn[r]) >= (g + 1) * PerStep(cfg)) =>
               /\ Cardinality({drawn[r][k] : r \in Ranks, k \in ks}) = cfg.global
               /\ ks \subseteq e * PerRank(cfg) + 1..(e + 1) * PerRank(cfg)

\* A resumed job sees what an uninterrupted one would have seen: the k-th
\* sample of a rank is always the same.
SameStream ==
    \A r \in Ranks : \A k \in DOMAIN drawn[r] :
        drawn[r][k] = EpochPerm((k - 1) \div PerRank(cfg),
                                ((k - 1) % PerRank(cfg)) * cfg.world + r)

\* Every rank draws exactly the samples of max_train_steps optimizer steps: what
\* it has and what is left always add up, whatever was drawn ahead and lost in a
\* restart.
DrawsAddUp == \A r \in Ranks : Len(drawn[r]) + sampler[r].left = MaxTrainSteps(cfg) * PerStep(cfg)

=============================================================================
