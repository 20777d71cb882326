----------------------------- MODULE LRSchedule -----------------------------
(***************************************************************************)
(* The optimizer of a training run (BF16Optimizer) with its two-stage      *)
(* learning-rate schedule, over checkpoints, crashes and resumes.  The     *)
(* rate is state in three places: the optimizer's parameter group, the     *)
(* warm-up scheduler and the cosine scheduler behind it, whose get_lr      *)
(* computes the next rate from the group's current one.  The weights are   *)
(* kept twice: fp32 masters and the model's bf16 copy.  Weights are the    *)
(* sequence of rates they were updated with, and the precision they were   *)
(* kept in (32 bits until they are first rounded to 16).                   *)
(***************************************************************************)
EXTENDS Integers, Sequences

CONSTANTS
  Total,       \* total_steps, the trainer's max_train_steps
  NoFile

ASSUME TotalAssumption == Total \in Nat \ {0}

VARIABLES
  warmup,    \* warmup_steps = int(warmup_ratio * total_steps)
  proc,        \* the process is "up" or "down"
  step,      \* optimizer steps done, the trainer's global_step
  opt,       \* BF16Optimizer
  file       \* the training state and weights of the last checkpoint

scheduleVars == <<warmup, proc, step, opt, file>>

-----------------------------------------------------------------------------
\* Rates

\* The k-th value of the cosine, in closed form; the 0-th is the base rate.
Cos(k) == [stage |-> "cosine", k |-> k]

\* k / warmup of the base rate.
Warm(k) == IF k = warmup THEN Cos(0) ELSE [stage |-> "warmup", k |-> k]

Wrong == [stage |-> "wrong", k |-> 0]

\* get_lr of CosineAnnealingLR, chained: the factor between two epochs is applied
\* to the rate found in the parameter group.
after_get_lr(after, lr) ==
  IF after = 0 THEN lr ELSE IF lr = Cos(after - 1) THEN Cos(after) ELSE Wrong

\* get_lr of WarmupScheduler.
get_lr(last_epoch, after, lr) ==
  IF last_epoch >= warmup THEN after_get_lr(after, lr) ELSE Warm(last_epoch + 1)

-----------------------------------------------------------------------------
\* BF16Optimizer

\* The constructor: fp32 masters are cloned from the model's bf16 parameters, so
\* they are exact only before the first update; both schedulers take their
\* initial step.
Construct(rates) ==
  [lr |-> get_lr(0, 0, Cos(0)),
   last_epoch |-> 0, finished |-> warmup = 0, after |-> 0,
   master |-> [rates |-> rates, bits |-> IF rates = <<>> THEN 32 ELSE 16], model |-> rates]

\* WarmupScheduler.step: once finished only the cosine scheduler advances.
scheduler_step(o) ==
  IF o.finished
  THEN [lr |-> after_get_lr(o.after + 1, o.lr), last_epoch |-> o.last_epoch,
        finished |-> TRUE, after |-> o.after + 1]
  ELSE [lr |-> get_lr(o.last_epoch + 1, o.after, o.lr), last_epoch |-> o.last_epoch + 1,
        finished |-> o.last_epoch + 1 >= warmup, after |-> o.after]

\* AdamW applies the rate of its group, the schedule advances, the model gets
\* rounded copies of the masters.
optimizer_step(o) ==
  LET rates == Append(o.master.rates, o.lr)
      s == scheduler_step(o)
  IN [lr |-> s.lr, last_epoch |-> s.last_epoch, finished |-> s.finished, after |-> s.after,
      master |-> [rates |-> rates, bits |-> o.master.bits], model |-> rates]

\* state_dict of the optimizer, with those of both schedulers.
state_dict(o) ==
  [lr |-> o.lr, last_epoch |-> o.last_epoch, finished |-> o.finished,
   after |-> o.after, fp32_params |-> o.master]

\* Mutant: the cosine scheduler's own state is left at its constructor's.
LoadOuterOnly(o, s) ==
  [o EXCEPT !.lr = s.lr, !.last_epoch = s.last_epoch, !.finished = s.finished,
            !.master = s.fp32_params, !.model = s.fp32_params.rates]

\* load_state_dict: AdamW, the two schedulers, the masters, the model's copies.
load_state_dict(o, s) ==
  [lr |-> s.lr, last_epoch |-> s.last_epoch, finished |-> s.finished,
   after |-> s.after, master |-> s.fp32_params, model |-> s.fp32_params.rates]

-----------------------------------------------------------------------------
\* The trainer

Down == [lr |-> Wrong, last_epoch |-> 0, finished |-> FALSE, after |-> 0,
         master |-> [rates |-> <<>>, bits |-> 16], model |-> <<>>]

ScheduleInit ==
  /\ warmup \in 0..Total
  /\ proc = "down" /\ step = 0 /\ opt = Down /\ file = NoFile

\* A process starts: afresh, or from the last checkpoint's weights and then its
\* training state.
StartRun ==
  /\ proc = "down"
  /\ proc' = "up"
  /\ IF file = NoFile
     THEN step' = 0 /\ opt' = Construct(<<>>)
     ELSE /\ step' = file.step
          /\ opt' = load_state_dict(Construct(file.model), file.optimizer)
  /\ UNCHANGED <<warmup, file>>

\* One optimizer step.
Step ==
  /\ proc = "up" /\ step < Total
  /\ opt' = optimizer_step(opt)
  /\ step' = step + 1
  /\ UNCHANGED <<warmup, proc, file>>

\* A checkpoint at a step boundary (periodic, at the end of an epoch, on suspend).
Save ==
  /\ proc = "up"
  /\ file' = [step |-> step, model |-> opt.model, optimizer |-> state_dict(opt)]
  /\ UNCHANGED <<warmup, proc, step, opt>>

\* The process ends: suspended, killed or complete.
StopRun ==
  /\ proc = "up"
  /\ proc' = "down" /\ step' = 0 /\ opt' = Down
  /\ UNCHANGED <<warmup, file>>

ScheduleNext == StartRun \/ Step \/ Save \/ StopRun

ScheduleSpec == ScheduleInit /\ [][ScheduleNext]_scheduleVars

-----------------------------------------------------------------------------
\* The schedule as meant: the rate of the k-th optimizer step, from 0.
Rate(k) == IF k < warmup THEN Warm(k + 1) ELSE Cos(k - warmup)

Rates(k) == [i \in 1..k |-> Rate(i - 1)]

\* However often the run is stopped and resumed, in either stage or between them,
\* the weights are those of one uninterrupted run: the masters have been updated
\* once with the rate of each step so far, never rounded, the model holds their
\* copies, and the group holds the rate of the next step.
SameTrajectory ==
  proc = "up" => /\ opt.master = [rates |-> Rates(step), bits |-> 32]
               /\ opt.model = Rates(step)
               /\ opt.lr = Rate(step)

=============================================================================
