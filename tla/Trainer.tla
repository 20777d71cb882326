------------------------------- MODULE Trainer -------------------------------
(***************************************************************************)
(* The training job: trainer/base_trainer.py (train and its two ways to    *)
(* save), trainer/ckpt_manager.py (save, discover, load), safe_symlink of  *)
(* utils/io.py and the suspend controller of utils/hfai_suspend.py, for    *)
(* all ranks of the job.                                                   *)
(*                                                                         *)
(* Every rank runs train by itself and meets the others only in the        *)
(* collective operations of torch.distributed.  A collective is one joint  *)
(* step of all ranks, possible when all of them stand at it: what a rank   *)
(* does next is local to it.  Consecutive collectives with no effect in    *)
(* between are one.  A file being written is torn until the write ends.    *)
(* logging.resume_checkpoint_dir names the job's own checkpoint directory, *)
(* and the job is always launched with the same ranks.                     *)
(***************************************************************************)
EXTENDS Integers, FiniteSets

CONSTANTS
    WorldSize,           \* world_size
    GradAccSteps,        \* gradient_accumulation_steps
    MaxTrainSteps,       \* max_train_steps
    CheckpointingSteps,  \* args.logging.checkpointing_steps
    StepsPerEpoch,       \* steps_per_epoch
    MaxCrashes,          \* bound on the crashes
    MaxSuspends          \* bound on the suspend commands

ASSUME TrainerAssumption ==
    /\ {WorldSize, GradAccSteps, MaxTrainSteps, CheckpointingSteps, StepsPerEpoch}
          \subseteq Nat \ {0}
    /\ MaxCrashes \in Nat /\ MaxSuspends \in Nat

Ranks == 0..WorldSize - 1
Main == 0                    \* is_global_main_process
Steps == 1..MaxTrainSteps
TotalMicroSteps == MaxTrainSteps * GradAccSteps
MaxLaunches == 1 + MaxCrashes + MaxSuspends
NoLink == 0                  \* there is no step_latest

VARIABLES
    pc,             \* where each rank is
    site,           \* the call each rank's save belongs to
    nextMicroStep,  \* self.next_micro_step of each rank
    requested,      \* the Event of the suspend controller of rank 0
    dirs,           \* the files of each directory step_<n>
    latest,         \* the step that step_latest names
    linked,         \* history: step_latest was created at some time
    launches,       \* launches so far
    crashes,        \* crashes so far
    suspends        \* suspend commands so far

vars == <<pc, site, nextMicroStep, requested, dirs, latest, linked, launches, crashes, suspends>>

\* A file: the launch that wrote it, and whether the write ended.
NoFile == [by |-> 0, whole |-> FALSE]
TornFile == [by |-> launches, whole |-> FALSE]
WholeFile == [by |-> launches, whole |-> TRUE]
EmptyDir == [model |-> NoFile, state |-> [r \in Ranks |-> NoFile]]

GlobalStep(r) == nextMicroStep[r] \div GradAccSteps

\* What load_resume_draft_model and load_training_state need.
Loadable(d) == d.model.whole /\ \A r \in Ranks : d.state[r].whole

Damaged == latest # NoLink /\ ~Loadable(dirs[latest])

Down == \A r \in Ranks : pc[r] = "down"

Init ==
    /\ pc = [r \in Ranks |-> "down"]
    /\ site = [r \in Ranks |-> "none"]
    /\ nextMicroStep = [r \in Ranks |-> 0]
    /\ requested = FALSE
    /\ dirs = [g \in Steps |-> EmptyDir]
    /\ latest = NoLink /\ linked = FALSE
    /\ launches = 0 /\ crashes = 0 /\ suspends = 0

-----------------------------------------------------------------------------
(* Launching the job. *)

\* The micro step that __init__ continues from: the one of the checkpoint that
\* discover_latest_checkpoint finds, or 0.
ResumedMicroStep == latest * GradAccSteps

\* __init__ of every rank, and the beginning of train, which returns at once
\* when nothing is left to do.  Loading a torn file raises on every launch.
Launch ==
    /\ Down
    /\ ~Damaged
    /\ launches' = launches + 1
    /\ nextMicroStep' = [r \in Ranks |-> ResumedMicroStep]
    /\ pc' = [r \in Ranks |-> IF latest >= MaxTrainSteps THEN "exit" ELSE "train"]
    /\ site' = [r \in Ranks |-> "none"]
    /\ requested' = FALSE
    /\ UNCHANGED <<dirs, latest, linked, crashes, suspends>>

-----------------------------------------------------------------------------
(* The training loop. *)

\* The sampler was given the samples of the remaining micro steps.
MoreBatches(r) == nextMicroStep[r] < TotalMicroSteps

ShouldSync(r) == (nextMicroStep[r] + 1) % GradAccSteps = 0

\* A micro step within no_sync: forward and backward of one rank.
MicroStep(r) ==
    /\ pc[r] = "train" /\ MoreBatches(r) /\ ~ShouldSync(r)
    /\ nextMicroStep' = [nextMicroStep EXCEPT ![r] = @ + 1]
    /\ UNCHANGED <<pc, site, requested, dirs, latest, linked, launches, crashes, suspends>>

\* Mutant: no checkpoints between the ends of epochs.
EpochEndOnly(g) == g % StepsPerEpoch = 0

\* The condition of the periodic checkpoint after global step g.
SaveDue(g) == g % CheckpointingSteps = 0 \/ g % StepsPerEpoch = 0

\* A micro step with gradient reduction, a collective, and the optimizer step.
SyncStep ==
    /\ \A r \in Ranks : pc[r] = "train" /\ MoreBatches(r) /\ ShouldSync(r)
    /\ nextMicroStep' = [r \in Ranks |-> nextMicroStep[r] + 1]
    /\ LET due(r) == SaveDue((nextMicroStep[r] + 1) \div GradAccSteps)
       IN  /\ pc' = [r \in Ranks |-> IF due(r) THEN "mkdir" ELSE "poll"]
           /\ site' = [r \in Ranks |-> IF due(r) THEN "periodic" ELSE "none"]
    /\ UNCHANGED <<requested, dirs, latest, linked, launches, crashes, suspends>>

\* Mutant: every rank reads its own Event; only rank 0 has a monitor thread.
OwnEvent(r) == requested /\ r = Main

\* SuspendController.requested: rank 0's flag, broadcast.
SuspendDecision(r) == requested

\* _save_and_suspend begins with a save.
SuspendFrom(r) == "mkdir"

\* After every optimizer step the ranks ask whether to suspend.
PollSuspend ==
    /\ \A r \in Ranks : pc[r] = "poll"
    /\ pc' = [r \in Ranks |-> IF SuspendDecision(r) THEN SuspendFrom(r) ELSE "train"]
    /\ site' = [r \in Ranks |-> IF SuspendDecision(r) THEN "suspend" ELSE "none"]
    /\ UNCHANGED <<nextMicroStep, requested, dirs, latest, linked, launches, crashes, suspends>>

\* Mutant: no save when the loop ends.
LeaveUnsaved(r) ==
    /\ pc[r] = "train" /\ ~MoreBatches(r)
    /\ pc' = [pc EXCEPT ![r] = "exit"]
    /\ UNCHANGED <<site, nextMicroStep, requested, dirs, latest, linked, launches, crashes, suspends>>

\* The save at the end of train.
FinalSave(r) ==
    /\ pc[r] = "train" /\ ~MoreBatches(r)
    /\ pc' = [pc EXCEPT ![r] = "mkdir"]
    /\ site' = [site EXCEPT ![r] = "final"]
    /\ UNCHANGED <<nextMicroStep, requested, dirs, latest, linked, launches, crashes, suspends>>

\* _monitor_suspend, on rank 0 while the loop runs.
ReceiveSuspend ==
    /\ pc[Main] \notin {"down", "dead", "exit", "go_suspend"} /\ site[Main] # "final"
    /\ ~requested
    /\ suspends < MaxSuspends
    /\ requested' = TRUE
    /\ suspends' = suspends + 1
    /\ UNCHANGED <<pc, site, nextMicroStep, dirs, latest, linked, launches, crashes>>

-----------------------------------------------------------------------------
(* save_checkpoint. *)

\* A local step of rank r within save_checkpoint.
Moves(r, from, to) ==
    /\ pc[r] = from
    /\ pc' = [pc EXCEPT ![r] = to]
    /\ UNCHANGED <<site, nextMicroStep, requested, launches, crashes, suspends>>

\* Rank 0 makes the directory, or finds it, and writes train_config.py.
MakeDir(r) == Moves(r, "mkdir", "gather") /\ UNCHANGED <<dirs, latest, linked>>

\* The barrier, and the gathering of the full state dict on rank 0.
Gather ==
    /\ \A r \in Ranks : pc[r] = "gather"
    /\ pc' = [r \in Ranks |-> IF r = Main THEN "model" ELSE "state"]
    /\ UNCHANGED <<site, nextMicroStep, requested, dirs, latest, linked, launches, crashes,
                   suspends>>

\* save_pretrained on rank 0: the write begins and ends.
BeginModel(r) ==
    /\ Moves(r, "model", "model_writing")
    /\ dirs' = [dirs EXCEPT ![GlobalStep(r)].model = TornFile]
    /\ UNCHANGED <<latest, linked>>
EndModel(r) ==
    /\ Moves(r, "model_writing", "state")
    /\ dirs' = [dirs EXCEPT ![GlobalStep(r)].model = WholeFile]
    /\ UNCHANGED <<latest, linked>>

\* Mutant: no barrier between the states and the link.
NoBarrier(r) == IF r = Main THEN "unlink" ELSE "saved"

\* Every rank waits for the states of all.
AfterState(r) == "written"

\* torch.save of the training state of rank r: the write begins and ends.
BeginState(r) ==
    /\ Moves(r, "state", "state_writing")
    /\ dirs' = [dirs EXCEPT ![GlobalStep(r)].state[r] = TornFile]
    /\ UNCHANGED <<latest, linked>>
EndState(r) ==
    /\ Moves(r, "state_writing", AfterState(r))
    /\ dirs' = [dirs EXCEPT ![GlobalStep(r)].state[r] = WholeFile]
    /\ UNCHANGED <<latest, linked>>

\* The barrier after the states are written.
StatesWritten ==
    /\ \A r \in Ranks : pc[r] = "written"
    /\ pc' = [r \in Ranks |-> IF r = Main THEN "unlink" ELSE "saved"]
    /\ UNCHANGED <<site, nextMicroStep, requested, dirs, latest, linked, launches, crashes,
                   suspends>>

\* safe_symlink: the old link is removed, then the new one is made.
Unlink(r) ==
    /\ Moves(r, "unlink", "symlink")
    /\ latest' = NoLink
    /\ UNCHANGED <<dirs, linked>>
Symlink(r) ==
    /\ Moves(r, "symlink", "saved")
    /\ latest' = GlobalStep(r)
    /\ linked' = TRUE
    /\ UNCHANGED dirs

\* Where a rank goes when the save returns.
AfterSave(r) ==
    CASE site[r] = "periodic" -> "poll"
      [] site[r] = "suspend" -> IF r = Main THEN "go_suspend" ELSE "exit"
      [] site[r] = "final" -> "exit"

\* The barriers after the link, of save_checkpoint and of its two callers.
Saved ==
    /\ \A r \in Ranks : pc[r] = "saved"
    /\ pc' = [r \in Ranks |-> AfterSave(r)]
    /\ UNCHANGED <<site, nextMicroStep, requested, dirs, latest, linked, launches, crashes,
                   suspends>>

\* hfai.client.go_suspend ends the whole job, to be launched again later.
GoSuspend ==
    /\ pc[Main] = "go_suspend"
    /\ pc' = [r \in Ranks |-> "down"]
    /\ UNCHANGED <<site, nextMicroStep, requested, dirs, latest, linked, launches, crashes,
                   suspends>>

-----------------------------------------------------------------------------
(* Crashes. *)

\* A rank dies; the others go on until a collective, or until they are killed.
Crash(r) ==
    /\ pc[r] \notin {"down", "dead", "exit"}
    /\ crashes < MaxCrashes
    /\ crashes' = crashes + 1
    /\ pc' = [pc EXCEPT ![r] = "dead"]
    /\ UNCHANGED <<site, nextMicroStep, requested, dirs, latest, linked, launches, suspends>>

\* spawn, or the cluster, ends the job once a rank is dead.
KillJob ==
    /\ \E r \in Ranks : pc[r] = "dead"
    /\ pc' = [r \in Ranks |-> "down"]
    /\ UNCHANGED <<site, nextMicroStep, requested, dirs, latest, linked, launches, crashes,
                   suspends>>

-----------------------------------------------------------------------------
Local(r) ==
    \/ MicroStep(r) \/ FinalSave(r) \/ MakeDir(r)
    \/ BeginModel(r) \/ EndModel(r) \/ BeginState(r) \/ EndState(r)
    \/ Unlink(r) \/ Symlink(r)

Collective == SyncStep \/ PollSuspend \/ Gather \/ StatesWritten \/ Saved

Finished == \A r \in Ranks : pc[r] = "exit"

\* Training is over, or every further launch raises.
Terminated == (Finished \/ (Down /\ Damaged)) /\ UNCHANGED vars

Next ==
    \/ Launch \/ Collective \/ ReceiveSuspend \/ GoSuspend \/ KillJob \/ Terminated
    \/ \E r \in Ranks : Local(r) \/ Crash(r)

\* Ranks run, collectives that all have reached complete, and the job is
\* launched again when it is down.
Fairness ==
    /\ \A r \in Ranks : WF_vars(Local(r))
    /\ WF_vars(Collective) /\ WF_vars(GoSuspend) /\ WF_vars(KillJob) /\ WF_vars(Launch)

Spec == Init /\ [][Next]_vars /\ Fairness

-----------------------------------------------------------------------------
(* Properties. *)

CollectivePoints == {"poll", "gather", "written", "saved"}

\* Rank r can only go on together with the others.
AtCollective(r) ==
    \/ pc[r] \in CollectivePoints
    \/ pc[r] = "train" /\ MoreBatches(r) /\ ShouldSync(r)

\* The ranks never wait for each other in different collectives, which would
\* hang the job: those that wait stand at the same one, of the same step and
\* of the same save (save_checkpoint and SuspendController.requested, which
\* every rank must call equally often).
CollectivesMatch ==
    \A r, s \in Ranks :
        AtCollective(r) /\ AtCollective(s) =>
            pc[r] = pc[s] /\ site[r] = site[s] /\ nextMicroStep[r] = nextMicroStep[s]

\* step_latest, whenever it exists, and so after a crash at any point of a save,
\* names a directory with the files of all ranks (the asserts at load time hold),
\* all written by the same launch although a launch may save into a directory
\* that a crashed one left behind.  It is loadable but for one case: a save of
\* that very step, which writes in place, is under way or was hit by a crash.
ConsistentCheckpoint ==
    /\ latest # NoLink =>
          /\ dirs[latest].model # NoFile
          /\ \A r \in Ranks :
                /\ dirs[latest].state[r] # NoFile
                /\ dirs[latest].state[r].by = dirs[latest].model.by
    /\ Damaged =>
          \E r \in Ranks : site[r] \in {"suspend", "final"} /\ GlobalStep(r) = latest

\* All files of step g are whole, and of this launch.
Whole(g) == dirs[g].model = WholeFile /\ \A r \in Ranks : dirs[g].state[r] = WholeFile

\* What a crash costs, wherever a rank of a running job is.  At most
\* checkpointing_steps optimizer steps, counted from the checkpoint that
\* step_latest names or, when there is no step_latest, from the beginning, but
\* for two cases.  A suspend or final save rewrites in place the step that
\* step_latest names and that the job has reached: a crash there leaves a torn
\* checkpoint, and every launch raises.  Rank 0 is, or died, between the unlink
\* and the symlink of safe_symlink: a crash there costs all steps, although the
\* files of the step reached are complete (AutoResumes is about the missing
\* link).  A launch after such a crash begins again, and is bounded again.
\* A suspend costs nothing: when the job suspends itself everything done so far
\* is saved.
LossBounded ==
    /\ \A r \in Ranks : pc[r] # "down" =>
          \/ ~Damaged /\ GlobalStep(r) \in latest..latest + CheckpointingSteps
          \/ Damaged /\ GlobalStep(r) = latest
          \/ latest = NoLink /\ pc[Main] \in {"symlink", "dead"} /\ Whole(GlobalStep(r))
    /\ pc[Main] = "go_suspend" =>
        /\ latest # NoLink /\ Loadable(dirs[latest])
        /\ \A r \in Ranks : pc[r] # "dead" => GlobalStep(r) = latest

\* However often the job is suspended or crashes, training completes with its
\* last step saved, unless a crash hit a save of the step that step_latest
\* names.
TrainingCompletes == <>((Finished /\ latest = MaxTrainSteps) \/ (Damaged /\ Down))

\* "AUTO-RESUME from ..., to force fresh run change exp_name or remove
\* step_latest" (load_training_state): once a checkpoint was announced, a
\* launch finds one.
AutoResumes == linked /\ Down => latest # NoLink

=============================================================================
