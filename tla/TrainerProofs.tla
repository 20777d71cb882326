---------------------------- MODULE TrainerProofs ----------------------------
(***************************************************************************)
(* The training job is safe for any number of ranks, steps, crashes and    *)
(* suspends.  Between two collectives all ranks, the dead ones included,   *)
(* are in the same stage of the same optimizer step: a dead rank takes     *)
(* part in no collective, so nobody leaves the stage it died in.  The      *)
(* inductive invariant names that stage and says, for each, which files    *)
(* of the step are written and how far training is from step_latest.       *)
(***************************************************************************)
EXTENDS Trainer, TLAPS

File == [by : Nat, whole : BOOLEAN]

Sites == {"none", "periodic", "suspend", "final"}
Places ==
  {"down", "dead", "train", "mkdir", "gather", "model", "model_writing", "state", "state_writing",
   "written", "unlink", "symlink", "saved", "poll", "go_suspend", "exit"}

\* The types of what the invariant speaks of.
TypeInv ==
  /\ pc \in [Ranks -> Places]
  /\ site \in [Ranks -> Sites]
  /\ nextMicroStep \in [Ranks -> Nat]
  /\ dirs \in [Steps -> [model : File, state : [Ranks -> File]]]
  /\ latest \in 0..MaxTrainSteps
  /\ launches \in Nat

Stages == {"down", "train", "last", "begin", "write", "link", "poll", "over"}

\* The micro step that optimizer step k + 1 begins with.
Micro(k) == k * GradAccSteps

\* Rank r is in the given stage of optimizer step k and, where there is one, of
\* the save called at c.  In stage "last" the ranks leave the loop one by one.
InStage(r, k, stage, c) ==
  /\ stage = "down" => pc[r] = "down"
  /\ stage = "train" =>
       /\ pc[r] \in {"train", "dead"} /\ site[r] = "none"
       /\ nextMicroStep[r] \in Micro(k)..Micro(k) + GradAccSteps - 1
  /\ stage \notin {"down", "train"} => nextMicroStep[r] = Micro(k)
  /\ stage = "last" => \/ pc[r] = "train" /\ site[r] = "none"
                       \/ pc[r] \in {"mkdir", "gather"} /\ site[r] = "final"
                       \/ pc[r] = "dead"
  /\ stage \in {"begin", "write", "link", "poll", "over"} => site[r] = c
  /\ stage = "begin" => pc[r] \in {"mkdir", "gather", "dead"}
  /\ stage = "write" => \/ pc[r] \in {"state", "state_writing", "written", "dead"}
                        \/ r = Main /\ pc[r] \in {"model", "model_writing"}
  /\ stage = "link" => \/ pc[r] \in {"saved", "dead"}
                       \/ r = Main /\ pc[r] \in {"unlink", "symlink"}
  /\ stage = "poll" => pc[r] \in {"poll", "dead"}
  /\ stage = "over" => \/ pc[r] \in {"exit", "dead"}
                       \/ r = Main /\ c = "suspend" /\ pc[r] = "go_suspend"

\* Which steps and which saves have the stage.
Proper(k, stage, c) ==
  /\ stage = "train" => k < MaxTrainSteps
  /\ stage \notin {"down", "train"} => k \in Steps
  /\ stage = "last" => k = MaxTrainSteps
  /\ stage = "begin" => c \in {"periodic", "suspend"}
  /\ stage \in {"write", "link"} => c \in {"periodic", "suspend", "final"}
  /\ stage = "over" => c \in {"none", "suspend", "final"}
  /\ stage # "down" => launches > 0

\* All files of step k are of this launch.
Own(k) == dirs[k].model.by = launches /\ \A r \in Ranks : dirs[k].state[r].by = launches

\* What is written of step k.  A periodic save never meets step_latest; another
\* one may, but only where this launch has saved the step before.
Files(k, stage, c) ==
  /\ stage = "write" =>
       /\ pc[Main] \in {"state", "state_writing", "written"} => dirs[k].model = WholeFile
       /\ \A r \in Ranks : pc[r] = "written" => dirs[k].state[r] = WholeFile
  /\ stage = "link" => Whole(k) /\ (pc[Main] = "saved" => latest = k)
  /\ stage = "over" /\ c # "none" => Whole(k) /\ latest = k
  /\ stage \in {"last", "begin", "write", "poll"} /\ latest = k => Own(k)
  /\ stage \in {"begin", "write"} /\ c = "periodic" => latest # k
  /\ stage \notin {"down", "write"} => ~Damaged
  /\ stage = "write" /\ Damaged => latest = k

\* Rank 0 is, or died, between unlink and symlink.
Unlinked(stage) == stage = "link" /\ latest = NoLink /\ pc[Main] \in {"symlink", "dead"}

\* step_latest is not ahead and, unless it is just being replaced, no step that
\* calls for a checkpoint lies between it and step k, which is being saved if it
\* calls for one.
Near(k, stage) ==
  stage # "down" =>
    /\ latest <= k
    /\ Unlinked(stage) \/
         \A j \in latest + 1..k :
           j % CheckpointingSteps = 0 => j = k /\ stage \in {"begin", "write", "link"}

At(k, stage, c) ==
  /\ \A r \in Ranks : InStage(r, k, stage, c)
  /\ Proper(k, stage, c) /\ Files(k, stage, c) /\ Near(k, stage)

\* The inductive invariant.
IInv ==
  /\ TypeInv
  /\ ConsistentCheckpoint
  /\ \E k \in 0..MaxTrainSteps, stage \in Stages, c \in Sites : At(k, stage, c)

-----------------------------------------------------------------------------
(* Arithmetic of steps and micro steps. *)

\* The constants and the sets made of them.
LEMMA Constants ==
  /\ WorldSize \in Nat /\ WorldSize > 0 /\ GradAccSteps \in Nat /\ GradAccSteps > 0
  /\ MaxTrainSteps \in Nat /\ MaxTrainSteps > 0
  /\ CheckpointingSteps \in Nat /\ CheckpointingSteps > 0
  /\ Main \in Ranks
BY TrainerAssumption DEF Ranks, Main

\* Optimizer step k + 1 has GradAccSteps micro steps, and the last one of
\* training is the last one of the last step.
LEMMA MicroSteps ==
  ASSUME NEW k \in Nat
  PROVE  /\ Micro(k) \in Nat /\ Micro(k + 1) = Micro(k) + GradAccSteps
         /\ Micro(MaxTrainSteps) = TotalMicroSteps
         /\ k < MaxTrainSteps => Micro(k) + GradAccSteps <= TotalMicroSteps
<1>1. /\ Micro(k) \in Nat /\ Micro(k + 1) = Micro(k) + GradAccSteps
      /\ Micro(MaxTrainSteps) = TotalMicroSteps
  BY Constants DEF Micro, TotalMicroSteps
<1>2. ASSUME k < MaxTrainSteps
      PROVE  (k + 1) * GradAccSteps <= MaxTrainSteps * GradAccSteps
  <2>1. PICK d \in Nat : MaxTrainSteps = (k + 1) + d
    <3>1. MaxTrainSteps - (k + 1) \in Nat
      BY <1>2, Constants
    <3>. QED  BY <3>1, Constants
  <2>2. MaxTrainSteps * GradAccSteps = (k + 1) * GradAccSteps + d * GradAccSteps
    BY <2>1, Constants
  <2>3. d * GradAccSteps \in Nat /\ (k + 1) * GradAccSteps \in Nat
    BY Constants
  <2>. QED  BY <2>2, <2>3
<1>. QED  BY <1>1, <1>2 DEF Micro, TotalMicroSteps

\* Quotient and remainder of a number given by them.
LEMMA Divide ==
  ASSUME NEW b \in Nat \ {0}, NEW q \in Nat, NEW o \in 0..b - 1
  PROVE  (q * b + o) \div b = q /\ (q * b + o) % b = o
OBVIOUS

\* A number is made of them.
LEMMA DivideBack ==
  ASSUME NEW n \in Nat, NEW b \in Nat \ {0}
  PROVE  n \div b \in Nat /\ n % b \in 0..b - 1 /\ (n \div b) * b + (n % b) = n
OBVIOUS

\* A micro step of optimizer step k + 1 belongs to step k of the counter
\* global_step, and gradients are synchronised after the last one.
LEMMA WithinStep ==
  ASSUME NEW k \in Nat, NEW n \in Micro(k)..Micro(k) + GradAccSteps - 1
  PROVE  /\ n \in Nat /\ n \div GradAccSteps = k
         /\ (n + 1) % GradAccSteps = 0 <=> n + 1 = Micro(k + 1)
<1>. DEFINE o == n - k * GradAccSteps
<1>1. /\ n \in Nat /\ o \in 0..GradAccSteps - 1 /\ k * GradAccSteps \in Nat
      /\ n = k * GradAccSteps + o
  BY Constants, MicroSteps DEF Micro
<1>. HIDE DEF o
<1>2. n \div GradAccSteps = k
  <2>1. (k * GradAccSteps + o) \div GradAccSteps = k
    BY <1>1, TrainerAssumption, Divide
  <2>. QED  BY <1>1, <2>1
<1>3. CASE o = GradAccSteps - 1
  <2>1. n + 1 = (k + 1) * GradAccSteps + 0
    BY <1>1, <1>3, Constants
  <2>2. (n + 1) % GradAccSteps = 0
    <3>1. ((k + 1) * GradAccSteps + 0) % GradAccSteps = 0
      <4>1. k + 1 \in Nat /\ GradAccSteps \in Nat \ {0} /\ 0 \in 0..GradAccSteps - 1
        BY Constants
      <4>. QED  BY ONLY <4>1, Divide, SMTT(30)
    <3>. QED  BY <2>1, <3>1
  <2>. QED  BY <1>1, <1>2, <2>1, <2>2, Constants DEF Micro
<1>4. CASE o < GradAccSteps - 1
  <2>1. n + 1 = k * GradAccSteps + (o + 1) /\ o + 1 \in 0..GradAccSteps - 1
    BY <1>1, <1>4, Constants
  <2>2. (n + 1) % GradAccSteps = o + 1
    <3>1. (k * GradAccSteps + (o + 1)) % GradAccSteps = o + 1
      BY <2>1, TrainerAssumption, Divide
    <3>. QED  BY <2>1, <3>1
  <2>3. n + 1 # Micro(k + 1)
    BY <1>1, <1>4, Constants, MicroSteps DEF Micro
  <2>. QED  BY <1>1, <1>2, <2>2, <2>3
<1>. QED  BY <1>1, <1>3, <1>4, Constants

\* Of the steps after l, one of the next CheckpointingSteps calls for a
\* checkpoint.
LEMMA CheckpointWithin ==
  ASSUME NEW l \in Nat
  PROVE  \E j \in l + 1..l + CheckpointingSteps : j % CheckpointingSteps = 0
<1>. DEFINE C == CheckpointingSteps
            q == l \div C
<1>1. q \in Nat /\ l % C \in 0..C - 1 /\ q * C + (l % C) = l
  BY TrainerAssumption, DivideBack, Zenon
<1>2. (q + 1) * C = q * C + C /\ q * C \in Nat
  BY <1>1, Constants
<1>3. (q + 1) * C \in l + 1..l + C
  BY <1>1, <1>2, Constants
<1>4. ((q + 1) * C + 0) % C = 0
  BY <1>1, Constants, Divide
<1>. QED  BY <1>2, <1>3, <1>4, Constants

-----------------------------------------------------------------------------
(* What the invariant says of a rank. *)

\* In every stage but "down" all ranks are at global step k.
LEMMA GlobalSteps ==
  ASSUME NEW k \in 0..MaxTrainSteps, NEW stage \in Stages, NEW c, At(k, stage, c),
         stage # "down", NEW r \in Ranks
  PROVE  GlobalStep(r) = k
<1>1. nextMicroStep[r] \in Micro(k)..Micro(k) + GradAccSteps - 1
  BY Constants, MicroSteps DEF At, InStage
<1>. QED  BY <1>1, Constants, WithinStep DEF GlobalStep

\* The invariant implies the properties.
LEMMA Consequences ==
  ASSUME IInv
  PROVE  CollectivesMatch /\ ConsistentCheckpoint /\ LossBounded
<1>1. PICK k \in 0..MaxTrainSteps, stage \in Stages, c \in Sites : At(k, stage, c)
  BY DEF IInv
<1>2. CollectivesMatch
  <2>. SUFFICES ASSUME NEW r \in Ranks, NEW s \in Ranks, AtCollective(r), AtCollective(s)
                PROVE  pc[r] = pc[s] /\ site[r] = site[s] /\ nextMicroStep[r] = nextMicroStep[s]
    BY DEF CollectivesMatch
  <2>1. InStage(r, k, stage, c) /\ InStage(s, k, stage, c)
    BY <1>1 DEF At
  <2>2. CASE stage = "train"
    <3>1. /\ nextMicroStep[r] + 1 = Micro(k + 1) /\ nextMicroStep[s] + 1 = Micro(k + 1)
          /\ nextMicroStep[r] \in Nat /\ nextMicroStep[s] \in Nat
      BY <2>1, <2>2, Constants, WithinStep DEF InStage, AtCollective, ShouldSync, CollectivePoints
    <3>. QED  BY <2>1, <2>2, <3>1 DEF InStage, AtCollective, CollectivePoints
  <2>3. CASE stage = "last"
    <3>1. Micro(k) = TotalMicroSteps /\ Micro(k) \in Nat
      BY <1>1, <2>3, Constants, MicroSteps DEF At, Proper
    <3>2. pc[r] # "train" /\ pc[s] # "train"
      BY <2>1, <2>3, <3>1 DEF InStage, AtCollective, MoreBatches, CollectivePoints
    <3>. QED  BY <2>1, <2>3, <3>2 DEF InStage, AtCollective, CollectivePoints
  <2>4. CASE stage \notin {"train", "last"}
    BY <2>1, <2>4 DEF InStage, AtCollective, CollectivePoints, Stages
  <2>. QED  BY <2>2, <2>3, <2>4
<1>3. LossBounded
  <2>1. ASSUME NEW r \in Ranks, pc[r] # "down"
        PROVE  \/ ~Damaged /\ GlobalStep(r) \in latest..latest + CheckpointingSteps
               \/ Damaged /\ GlobalStep(r) = latest
               \/ latest = NoLink /\ pc[Main] \in {"symlink", "dead"} /\ Whole(GlobalStep(r))
    <3>1. stage # "down"
      BY <1>1, <2>1 DEF At, InStage
    <3>2. GlobalStep(r) = k
      BY <1>1, <3>1, GlobalSteps
    <3>3. latest \in Nat /\ latest <= k
      BY <1>1, <3>1, Constants DEF At, Near, IInv, TypeInv
    <3>4. CASE Damaged
      BY <1>1, <3>1, <3>2, <3>4 DEF At, Files
    <3>5. CASE Unlinked(stage)
      BY <1>1, <3>2, <3>5 DEF At, Files, Unlinked
    <3>6. CASE ~Damaged /\ ~Unlinked(stage)
      <4>1. PICK j \in latest + 1..latest + CheckpointingSteps : j % CheckpointingSteps = 0
        BY <3>3, CheckpointWithin
      <4>2. ~(j <= k /\ j # k)
        BY <1>1, <3>1, <3>3, <3>6, <4>1, Constants DEF At, Near
      <4>. QED  BY <3>2, <3>3, <3>6, <4>1, <4>2, Constants
    <3>. QED  BY <3>4, <3>5, <3>6
  <2>2. ASSUME pc[Main] = "go_suspend"
        PROVE  /\ latest # NoLink /\ Loadable(dirs[latest])
               /\ \A r \in Ranks : pc[r] # "dead" => GlobalStep(r) = latest
    <3>1. stage = "over" /\ c = "suspend"
      BY <1>1, <2>2, Constants DEF At, InStage, Stages
    <3>2. latest = k /\ Whole(k) /\ k \in Steps
      BY <1>1, <3>1 DEF At, Files, Proper
    <3>3. \A r \in Ranks : GlobalStep(r) = latest
      BY <1>1, <3>1, <3>2, GlobalSteps
    <3>. QED  BY <3>2, <3>3, Constants DEF Whole, WholeFile, Loadable, Steps, NoLink
  <2>. QED  BY <2>1, <2>2 DEF LossBounded
<1>. QED  BY <1>2, <1>3 DEF IInv

-----------------------------------------------------------------------------
(* Every step preserves the invariant. *)

\* Before the first launch there is no checkpoint.
LEMMA InitIInv == Init => IInv
<1>. SUFFICES ASSUME Init PROVE IInv
  OBVIOUS
<1>1. TypeInv
  <2>1. NoFile \in File
    BY DEF NoFile, File
  <2>2. EmptyDir \in [model : File, state : [Ranks -> File]]
    BY <2>1 DEF EmptyDir
  <2>3. dirs \in [Steps -> [model : File, state : [Ranks -> File]]]
    BY <2>2 DEF Init
  <2>4. pc \in [Ranks -> Places] /\ site \in [Ranks -> Sites] /\ nextMicroStep \in [Ranks -> Nat]
    BY DEF Init, Places, Sites
  <2>5. latest \in 0..MaxTrainSteps /\ launches \in Nat
    BY Constants DEF Init, NoLink
  <2>. QED  BY <2>3, <2>4, <2>5 DEF TypeInv, Init
<1>2. ConsistentCheckpoint
  BY DEF Init, ConsistentCheckpoint, Damaged
<1>3. At(0, "down", "none")
  BY DEF Init, At, InStage, Proper, Files, Near
<1>. QED  BY <1>1, <1>2, <1>3, Constants DEF IInv, Stages, Sites

\* A launch starts from step_latest, or ends at once after the last step.
LEMMA LaunchIInv == ASSUME IInv, Launch PROVE IInv'
<1>. DEFINE stage == IF latest >= MaxTrainSteps THEN "over" ELSE "train"
<1>1. latest \in 0..MaxTrainSteps /\ latest' = latest /\ dirs' = dirs /\ ~Damaged /\ ~Damaged'
  BY DEF IInv, TypeInv, Launch, Damaged, Loadable
<1>2. ResumedMicroStep = Micro(latest) /\ Micro(latest) \in Nat
  BY <1>1, MicroSteps, Constants DEF ResumedMicroStep, Micro
<1>3. TypeInv'
  BY <1>2 DEF IInv, TypeInv, Places, Sites, Launch
<1>4. ConsistentCheckpoint'
  BY <1>1 DEF IInv, ConsistentCheckpoint
<1>5. ASSUME NEW r \in Ranks
      PROVE  InStage(r, latest, stage, "none")'
  BY <1>1, <1>2, Constants DEF Launch, InStage
<1>6. Proper(latest, stage, "none")'
  BY <1>1, Constants DEF Launch, Proper, Steps, IInv, TypeInv
<1>7. Files(latest, stage, "none")' /\ Near(latest, stage)'
  BY <1>1, Constants DEF Files, Near
<1>8. At(latest, stage, "none")'
  BY <1>1, <1>5, <1>6, <1>7 DEF At
<1>. QED  BY <1>1, <1>3, <1>4, <1>8 DEF IInv, Stages, Sites

\* An optimizer step takes all ranks to the next step at once.
LEMMA SyncStepIInv == ASSUME IInv, SyncStep PROVE IInv'
<1>1. PICK k \in 0..MaxTrainSteps, stage \in Stages, c \in Sites : At(k, stage, c)
  BY DEF IInv
<1>2. k \in Nat /\ stage = "train"
  <2>1. pc[Main] = "train" /\ nextMicroStep[Main] < TotalMicroSteps /\ InStage(Main, k, stage, c)
    BY <1>1, Constants DEF SyncStep, MoreBatches, At
  <2>2. stage # "last"
    BY <1>1, <2>1, Constants, MicroSteps DEF InStage, At, Proper
  <2>. QED  BY <2>1, <2>2, Constants DEF InStage, Stages
<1>3. k + 1 \in Steps /\ latest <= k
  BY <1>1, <1>2, Constants DEF At, Proper, Near, Steps
<1>. DEFINE due == SaveDue(k + 1)
            to == IF due THEN "begin" ELSE "poll"
            d == IF due THEN "periodic" ELSE "none"
<1>4. ASSUME NEW r \in Ranks
      PROVE  nextMicroStep[r] + 1 = Micro(k + 1) /\ (nextMicroStep[r] + 1) \div GradAccSteps = k + 1
  <2>1. nextMicroStep[r] + 1 = Micro(k + 1)
    BY <1>1, <1>2, WithinStep DEF At, InStage, SyncStep, ShouldSync
  <2>2. Micro(k + 1) \in Micro(k + 1)..Micro(k + 1) + GradAccSteps - 1
    BY <1>2, Constants, MicroSteps
  <2>. QED  BY <1>2, <2>1, <2>2, WithinStep
<1>5. /\ nextMicroStep' = [r \in Ranks |-> Micro(k + 1)]
      /\ pc' = [r \in Ranks |-> IF due THEN "mkdir" ELSE "poll"]
      /\ site' = [r \in Ranks |-> d]
  BY <1>4, Zenon DEF SyncStep
<1>6. dirs' = dirs /\ latest' = latest /\ launches' = launches
      /\ ~Damaged /\ ~Damaged'
  BY <1>1, <1>2 DEF SyncStep, At, Files, Damaged, Loadable
<1>7. TypeInv'
  BY <1>2, <1>5, <1>6, MicroSteps DEF IInv, TypeInv, Places, Sites
<1>8. ConsistentCheckpoint'
  BY <1>6 DEF IInv, ConsistentCheckpoint
<1>9. \A r \in Ranks : InStage(r, k + 1, to, d)'
  BY <1>5 DEF InStage
<1>10. Proper(k + 1, to, d)'
  BY <1>1, <1>2, <1>3, <1>6 DEF Proper, At
<1>11. Files(k + 1, to, d)'
  BY <1>2, <1>3, <1>6 DEF Files, IInv, TypeInv
<1>12. Near(k + 1, to)'
  <2>1. latest \in Nat
    BY Constants DEF IInv, TypeInv
  <2>2. ASSUME NEW j \in latest + 1..k + 1, j % CheckpointingSteps = 0
        PROVE  j = k + 1 /\ due
    <3>1. ~(j \in latest + 1..k)
      BY <1>1, <1>2, <2>2 DEF At, Near, Unlinked
    <3>2. j = k + 1
      BY <1>2, <2>1, <3>1
    <3>. QED  BY <2>2, <3>2 DEF SaveDue
  <2>. QED  BY <1>2, <1>3, <1>6, <2>1, <2>2 DEF Near
<1>13. At(k + 1, to, d)'
  BY <1>9, <1>10, <1>11, <1>12 DEF At
<1>. QED  BY <1>3, <1>7, <1>8, <1>13 DEF IInv, Stages, Sites, Steps

\* The ranks begin the save of a suspend together, or go on together.
LEMMA PollSuspendIInv == ASSUME IInv, PollSuspend PROVE IInv'
<1>1. PICK k \in 0..MaxTrainSteps, stage \in Stages, c \in Sites : At(k, stage, c)
  BY DEF IInv
<1>2. stage = "poll" /\ k \in Steps
  <2>1. pc[Main] = "poll" /\ InStage(Main, k, stage, c)
    BY <1>1, Constants DEF PollSuspend, At
  <2>2. stage = "poll"
    BY <2>1 DEF InStage, Stages
  <2>. QED  BY <1>1, <2>2 DEF At, Proper
<1>. DEFINE to == IF requested THEN "begin" ELSE IF k < MaxTrainSteps THEN "train" ELSE "last"
            d == IF requested THEN "suspend" ELSE "none"
<1>3. /\ pc' = [r \in Ranks |-> IF requested THEN "mkdir" ELSE "train"]
      /\ site' = [r \in Ranks |-> d] /\ nextMicroStep' = nextMicroStep /\ requested' = requested
  BY DEF PollSuspend, SuspendDecision, SuspendFrom
<1>4. dirs' = dirs /\ latest' = latest /\ launches' = launches
      /\ ~Damaged /\ ~Damaged'
  BY <1>1, <1>2 DEF PollSuspend, At, Files, Damaged, Loadable
<1>5. TypeInv'
  BY <1>3, <1>4 DEF IInv, TypeInv, Places, Sites
<1>6. ConsistentCheckpoint'
  BY <1>4 DEF IInv, ConsistentCheckpoint
<1>7. ASSUME NEW r \in Ranks
      PROVE  InStage(r, k, to, d)'
  <2>1. nextMicroStep[r] = Micro(k) /\ Micro(k) \in Micro(k)..Micro(k) + GradAccSteps - 1
    BY <1>1, <1>2, Constants, MicroSteps DEF At, InStage
  <2>2. CASE requested
    BY <1>3, <2>1, <2>2 DEF InStage
  <2>3. CASE ~requested
    BY <1>3, <2>1, <2>3 DEF InStage
  <2>. QED  BY <2>2, <2>3
<1>8. Proper(k, to, d)'
  BY <1>1, <1>2, <1>4, Constants DEF Proper, At, Steps
<1>9. Files(k, to, d)'
  BY <1>1, <1>2, <1>4 DEF Files, At, Own
<1>10. Near(k, to)'
  BY <1>1, <1>2, <1>4 DEF Near, Unlinked, At
<1>11. At(k, to, d)'
  BY <1>7, <1>8, <1>9, <1>10 DEF At
<1>. QED  BY <1>5, <1>6, <1>11 DEF IInv, Stages, Sites

\* A micro step stays within the optimizer step.
LEMMA MicroStepIInv == ASSUME IInv, NEW q \in Ranks, MicroStep(q) PROVE IInv'
<1>1. PICK k \in 0..MaxTrainSteps, stage \in Stages, c \in Sites : At(k, stage, c)
  BY DEF IInv
<1>2. k \in Nat /\ stage = "train"
  <2>1. pc[q] = "train" /\ nextMicroStep[q] < TotalMicroSteps /\ InStage(q, k, stage, c)
    BY <1>1 DEF MicroStep, MoreBatches, At
  <2>2. stage # "last"
    BY <1>1, <2>1, Constants, MicroSteps DEF InStage, At, Proper
  <2>. QED  BY <2>1, <2>2, Constants DEF InStage, Stages
<1>3. nextMicroStep[q] + 1 \in Micro(k)..Micro(k) + GradAccSteps - 1
  <2>1. nextMicroStep[q] \in Micro(k)..Micro(k) + GradAccSteps - 1
    BY <1>1, <1>2 DEF At, InStage
  <2>2. nextMicroStep[q] + 1 # Micro(k + 1)
    BY <1>2, <2>1, WithinStep DEF MicroStep, ShouldSync
  <2>3. Micro(k) \in Nat /\ Micro(k + 1) = Micro(k) + GradAccSteps
    BY <1>2, MicroSteps
  <2>. QED  BY <2>1, <2>2, <2>3, Constants
<1>4. /\ nextMicroStep' = [nextMicroStep EXCEPT ![q] = @ + 1]
      /\ pc' = pc /\ site' = site /\ dirs' = dirs /\ latest' = latest
      /\ launches' = launches /\ ~Damaged /\ ~Damaged'
  BY <1>1, <1>2 DEF MicroStep, At, Files, Damaged, Loadable
<1>5. TypeInv'
  BY <1>4 DEF IInv, TypeInv
<1>6. ConsistentCheckpoint'
  BY <1>4 DEF IInv, ConsistentCheckpoint
<1>7. \A r \in Ranks : InStage(r, k, stage, c)'
  BY <1>1, <1>2, <1>3, <1>4, SMTT(30) DEF At, InStage, IInv, TypeInv
<1>8. At(k, stage, c)'
  BY <1>1, <1>2, <1>4, <1>7, Zenon DEF At, Proper, Files, Near, Unlinked
<1>. QED  BY <1>5, <1>6, <1>8 DEF IInv

\* A step that moves one rank within its stage, and nothing else.
LEMMA LocalIInv ==
  ASSUME IInv, NEW q \in Ranks, NEW to \in Places, NEW d \in Sites,
         NEW k \in 0..MaxTrainSteps, NEW stage \in Stages, NEW c \in Sites, At(k, stage, c),
         pc' = [pc EXCEPT ![q] = to], site' = [site EXCEPT ![q] = d],
         nextMicroStep' = nextMicroStep, dirs' = dirs, latest' = latest,
         launches' = launches, InStage(q, k, stage, c)',
         stage \notin {"write", "link"} \/ to = "dead", ~Damaged \/ d = site[q]
  PROVE  IInv'
<1>1. TypeInv'
  BY DEF IInv, TypeInv
<1>2. Damaged' <=> Damaged
  BY DEF Damaged, Loadable
<1>3. ConsistentCheckpoint'
  BY <1>2 DEF IInv, TypeInv, ConsistentCheckpoint, GlobalStep
<1>4. ASSUME NEW r \in Ranks
      PROVE  InStage(r, k, stage, c)'
  <2>1. CASE r = q
    BY <2>1, SMTT(30)
  <2>2. CASE r # q
    BY <2>2 DEF At, InStage, IInv, TypeInv
  <2>. QED  BY <2>1, <2>2
<1>5. Files(k, stage, c)'
  <2>1. (Whole(k)' <=> Whole(k)) /\ (Own(k)' <=> Own(k)) /\ Files(k, stage, c)
    BY DEF At, Whole, Own, WholeFile
  <2>2. CASE stage = "write"
    BY <1>2, <2>1, <2>2, Constants, Zenon DEF Files, WholeFile, IInv, TypeInv
  <2>3. CASE stage = "link"
    BY <1>2, <2>1, <2>3, Constants, SMTT(30) DEF Files, IInv, TypeInv
  <2>4. CASE stage \notin {"write", "link"}
    BY <1>2, <2>1, <2>4 DEF Files
  <2>. QED  BY <2>2, <2>3, <2>4, SMTT(30)
<1>6. Near(k, stage)'
  <2>1. Unlinked(stage) => Unlinked(stage)'
    BY Constants DEF Unlinked, IInv, TypeInv
  <2>. QED  BY <2>1 DEF At, Near
<1>7. At(k, stage, c)'
  BY <1>4, <1>5, <1>6 DEF At, Proper
<1>. QED  BY <1>1, <1>3, <1>7 DEF IInv

\* The ranks leave the loop one by one, after the last step.
LEMMA FinalSaveIInv == ASSUME IInv, NEW q \in Ranks, FinalSave(q) PROVE IInv'
<1>1. PICK k \in 0..MaxTrainSteps, stage \in Stages, c \in Sites : At(k, stage, c)
  BY DEF IInv
<1>2. stage = "last"
  <2>1. pc[q] = "train" /\ ~(nextMicroStep[q] < TotalMicroSteps) /\ InStage(q, k, stage, c)
    BY <1>1 DEF FinalSave, MoreBatches, At
  <2>2. stage # "train"
    <3>. SUFFICES ASSUME stage = "train" PROVE FALSE
      OBVIOUS
    <3>1. nextMicroStep[q] <= Micro(k) + GradAccSteps - 1 /\ k < MaxTrainSteps
      BY <1>1, <2>1 DEF InStage, At, Proper
    <3>2. Micro(k) + GradAccSteps <= TotalMicroSteps /\ Micro(k) \in Nat /\ TotalMicroSteps \in Nat
      BY <3>1, MicroSteps, Constants
    <3>3. nextMicroStep[q] \in Nat
      BY DEF IInv, TypeInv
    <3>. QED  BY <2>1, <3>1, <3>2, <3>3, Constants
  <2>. QED  BY <2>1, <2>2 DEF InStage, Stages
<1>3. InStage(q, k, stage, c)'
  BY <1>1, <1>2 DEF FinalSave, At, InStage, IInv, TypeInv
<1>4. ~Damaged
  BY <1>1, <1>2 DEF At, Files
<1>5. /\ pc' = [pc EXCEPT ![q] = "mkdir"] /\ site' = [site EXCEPT ![q] = "final"]
      /\ nextMicroStep' = nextMicroStep /\ dirs' = dirs /\ latest' = latest
      /\ launches' = launches /\ "mkdir" \in Places /\ "final" \in Sites
      /\ stage \notin {"write", "link"}
  BY <1>2 DEF FinalSave, Places, Sites
<1>. QED  BY ONLY <1>1, <1>3, <1>4, <1>5, IInv, LocalIInv, Zenon

\* A rank reaches the barrier of the save.
LEMMA MakeDirIInv == ASSUME IInv, NEW q \in Ranks, MakeDir(q) PROVE IInv'
<1>1. PICK k \in 0..MaxTrainSteps, stage \in Stages, c \in Sites : At(k, stage, c)
  BY DEF IInv
<1>2. stage \in {"begin", "last"}
  BY <1>1 DEF MakeDir, Moves, At, InStage, Stages
<1>3. InStage(q, k, stage, c)'
  BY <1>1, <1>2 DEF MakeDir, Moves, At, InStage, IInv, TypeInv
<1>4. site' = [site EXCEPT ![q] = site[q]] /\ site[q] \in Sites
  BY DEF MakeDir, Moves, IInv, TypeInv
<1>5. /\ pc' = [pc EXCEPT ![q] = "gather"] /\ nextMicroStep' = nextMicroStep /\ dirs' = dirs
      /\ latest' = latest /\ launches' = launches /\ "gather" \in Places
      /\ stage \notin {"write", "link"}
  BY <1>2 DEF MakeDir, Moves, Places
<1>. QED  BY ONLY <1>1, <1>3, <1>4, <1>5, IInv, LocalIInv, Zenon

\* A rank dies within its stage.
LEMMA CrashIInv == ASSUME IInv, NEW q \in Ranks, Crash(q) PROVE IInv'
<1>1. PICK k \in 0..MaxTrainSteps, stage \in Stages, c \in Sites : At(k, stage, c)
  BY DEF IInv
<1>2. stage # "down"
  BY <1>1 DEF Crash, At, InStage
<1>3. InStage(q, k, stage, c)'
  BY <1>1, <1>2 DEF Crash, At, InStage, IInv, TypeInv
<1>4. site' = [site EXCEPT ![q] = site[q]] /\ site[q] \in Sites
  BY DEF Crash, IInv, TypeInv
<1>5. /\ pc' = [pc EXCEPT ![q] = "dead"] /\ nextMicroStep' = nextMicroStep /\ dirs' = dirs
      /\ latest' = latest /\ launches' = launches /\ "dead" \in Places
  BY DEF Crash, Places
<1>. QED  BY ONLY <1>1, <1>3, <1>4, <1>5, IInv, LocalIInv, Zenon

\* All ranks go down; what is saved stays.
LEMMA DownIInv ==
  ASSUME IInv, pc' = [r \in Ranks |-> "down"],
         site' = site, nextMicroStep' = nextMicroStep, dirs' = dirs, latest' = latest,
         launches' = launches
  PROVE  IInv'
<1>1. TypeInv'
  BY DEF IInv, TypeInv, Places
<1>2. ConsistentCheckpoint'
  BY DEF IInv, ConsistentCheckpoint, Damaged, Loadable, GlobalStep
<1>3. At(0, "down", "none")'
  BY DEF At, InStage, Proper, Files, Near
<1>. QED  BY <1>1, <1>2, <1>3, Constants DEF IInv, Stages, Sites

\* The full state dict is gathered: writing begins.
LEMMA GatherIInv == ASSUME IInv, Gather PROVE IInv'
<1>1. PICK k \in 0..MaxTrainSteps, stage \in Stages, c \in Sites : At(k, stage, c)
  BY DEF IInv
<1>2. stage \in {"begin", "last"}
  <2>1. pc[Main] = "gather" /\ InStage(Main, k, stage, c)
    BY <1>1, Constants DEF Gather, At
  <2>. QED  BY <2>1 DEF InStage, Stages
<1>. DEFINE d == IF stage = "last" THEN "final" ELSE c
<1>3. /\ pc' = [r \in Ranks |-> IF r = Main THEN "model" ELSE "state"]
      /\ site' = site /\ nextMicroStep' = nextMicroStep /\ dirs' = dirs /\ latest' = latest
      /\ launches' = launches /\ ~Damaged /\ ~Damaged'
  BY <1>1, <1>2 DEF Gather, At, Files, Damaged, Loadable
<1>4. TypeInv'
  BY <1>3 DEF IInv, TypeInv, Places
<1>5. ConsistentCheckpoint'
  BY <1>3 DEF IInv, ConsistentCheckpoint
<1>6. ASSUME NEW r \in Ranks
      PROVE  InStage(r, k, "write", d)'
  <2>1. pc[r] = "gather" /\ InStage(r, k, stage, c)
    BY <1>1 DEF Gather, At
  <2>2. nextMicroStep[r] = Micro(k) /\ site[r] = d
    BY <1>2, <2>1 DEF InStage
  <2>. QED  BY <1>3, <2>2 DEF InStage
<1>7. Proper(k, "write", d)'
  BY <1>1, <1>2, <1>3 DEF At, Proper
<1>8. Files(k, "write", d)'
  BY <1>1, <1>2, <1>3, Constants DEF At, Files, Own
<1>9. Near(k, "write")'
  BY <1>1, <1>2, <1>3 DEF At, Near, Unlinked
<1>10. At(k, "write", d)'
  BY <1>6, <1>7, <1>8, <1>9 DEF At
<1>. QED  BY <1>4, <1>5, <1>10 DEF IInv, Stages, Sites

\* A write into the directory of step k moves one rank within stage "write".
\* It may tear the checkpoint that step_latest names, but only one of step k.
LEMMA WriteIInv ==
  ASSUME IInv, NEW q \in Ranks, NEW to \in Places,
         NEW k \in Steps, NEW c \in Sites, At(k, "write", c),
         pc' = [pc EXCEPT ![q] = to], site' = site, nextMicroStep' = nextMicroStep,
         latest' = latest, launches' = launches,
         dirs' \in [Steps -> [model : File, state : [Ranks -> File]]],
         \A g \in Steps : g # k => dirs'[g] = dirs[g],
         latest = k => Own(k)', InStage(q, k, "write", c)', Files(k, "write", c)'
  PROVE  IInv'
<1>1. TypeInv'
  BY DEF IInv, TypeInv
<1>2. latest \in 0..MaxTrainSteps /\ launches > 0 /\ launches \in Nat
  BY SMTT(30) DEF IInv, TypeInv, At, Proper
<1>3. ConsistentCheckpoint'
  <2>1. CASE latest = k
    <3>1. Own(k)'
      BY <2>1
    <3>2. /\ dirs'[k].model # NoFile
          /\ \A r \in Ranks : /\ dirs'[k].state[r] # NoFile
                              /\ dirs'[k].state[r].by = dirs'[k].model.by
      BY <1>2, <3>1 DEF Own, NoFile
    <3>3. c # "periodic" /\ c \in {"periodic", "suspend", "final"}
      BY <2>1, SMTT(30) DEF At, Files, Proper
    <3>4. site[Main] = c /\ GlobalStep(Main) = k /\ GlobalStep(Main)' = GlobalStep(Main)
      <4>1. GlobalStep(Main) = k
        <5>1. k \in 0..MaxTrainSteps /\ "write" \in Stages /\ "write" # "down" /\ Main \in Ranks
          BY Constants, SMTT(30) DEF Steps, Stages
        <5>. QED  BY <5>1, GlobalSteps, ZenonT(30)
      <4>. QED  BY <4>1, Constants, Zenon DEF At, InStage, GlobalStep
    <3>5. \E r \in Ranks : site'[r] \in {"suspend", "final"} /\ GlobalStep(r)' = latest'
      BY <2>1, <3>3, <3>4, Constants, Zenon
    <3>. QED  BY <2>1, <3>2, <3>5 DEF ConsistentCheckpoint
  <2>2. CASE latest # k
    <3>1. ~Damaged
      BY <2>2 DEF At, Files
    <3>2. latest # NoLink => latest \in Steps /\ dirs'[latest] = dirs[latest]
      BY <1>2, <2>2, Constants, SMTT(30) DEF Steps, NoLink
    <3>. QED  BY <3>1, <3>2, SMTT(30) DEF IInv, ConsistentCheckpoint, Damaged, Loadable
  <2>. QED  BY <2>1, <2>2, SMTT(30)
<1>4. ASSUME NEW r \in Ranks
      PROVE  InStage(r, k, "write", c)'
  <2>1. CASE r = q
    BY <2>1, SMTT(30)
  <2>2. CASE r # q
    BY <2>2 DEF At, InStage, IInv, TypeInv
  <2>. QED  BY <2>1, <2>2
<1>5. At(k, "write", c)'
  BY <1>4 DEF At, Proper, Near, Unlinked
<1>. QED  BY <1>1, <1>3, <1>5, Constants DEF IInv, Stages, Steps

\* save_pretrained on rank 0 writes the weights of step k.
LEMMA BeginModelIInv == ASSUME IInv, NEW q \in Ranks, BeginModel(q) PROVE IInv'
<1>1. PICK k \in 0..MaxTrainSteps, stage \in Stages, c \in Sites : At(k, stage, c)
  BY DEF IInv
<1>2. stage = "write" /\ q = Main /\ k \in Steps /\ GlobalStep(q) = k
  <2>1. pc[q] = "model" /\ InStage(q, k, stage, c)
    BY <1>1 DEF BeginModel, Moves, At
  <2>2. stage = "write" /\ q = Main
    BY <2>1 DEF InStage, Stages
  <2>. QED  BY <1>1, <2>2, GlobalSteps DEF At, Proper
<1>3. /\ pc' = [pc EXCEPT ![q] = "model_writing"] /\ site' = site /\ nextMicroStep' = nextMicroStep
      /\ latest' = latest /\ launches' = launches
      /\ dirs' = [dirs EXCEPT ![k].model = TornFile] /\ "model_writing" \in Places
  BY <1>2 DEF BeginModel, Moves, Places
<1>4. /\ dirs \in [Steps -> [model : File, state : [Ranks -> File]]] /\ TornFile \in File
      /\ pc \in [Ranks -> Places] /\ launches \in Nat
  BY DEF IInv, TypeInv, TornFile, File
<1>5. /\ dirs' \in [Steps -> [model : File, state : [Ranks -> File]]]
      /\ \A g \in Steps : g # k => dirs'[g] = dirs[g]
      /\ dirs'[k].model = TornFile /\ dirs'[k].state = dirs[k].state
  BY <1>2, <1>3, <1>4
<1>6. latest = k => Own(k)'
  BY <1>1, <1>2, <1>3, <1>5 DEF At, Files, Own, TornFile
<1>7. InStage(q, k, "write", c)'
  BY <1>1, <1>2, <1>3, <1>4 DEF At, InStage
<1>8. Files(k, "write", c)'
  <2>1. /\ WholeFile' = WholeFile
        /\ \A r \in Ranks : pc'[r] = IF r = q THEN "model_writing" ELSE pc[r]
        /\ pc[q] = "model"
        /\ pc[Main] \in {"state", "state_writing", "written"} => dirs[k].model = WholeFile
        /\ \A r \in Ranks : pc[r] = "written" => dirs[k].state[r] = WholeFile
    <3>1. WholeFile' = WholeFile
      BY <1>3 DEF WholeFile
    <3>2. (\A r \in Ranks : pc'[r] = IF r = q THEN "model_writing" ELSE pc[r]) /\ pc[q] = "model"
      BY <1>3, <1>4 DEF BeginModel, Moves
    <3>3. Files(k, "write", c)
      BY <1>1, <1>2 DEF At
    <3>. QED  BY <3>1, <3>2, <3>3 DEF Files
  <2>2. /\ \A r \in Ranks : pc'[r] = "written" => dirs'[k].state[r] = WholeFile'
        /\ pc'[Main] \in {"state", "state_writing", "written"} => dirs'[k].model = WholeFile'
    BY <1>2, <1>5, <2>1, Constants
  <2>3. Damaged' => latest' = k
    <3>. SUFFICES ASSUME latest # k PROVE ~Damaged'
      BY <1>3
    <3>1. ~Damaged
      BY <1>1, <1>2 DEF At, Files
    <3>2. latest # NoLink => latest \in Steps /\ dirs'[latest] = dirs[latest]
      BY <1>5, Constants DEF Steps, NoLink, IInv, TypeInv
    <3>. QED  BY <1>3, <3>1, <3>2 DEF Damaged, Loadable
  <2>4. (c = "periodic" => latest' # k) /\ (latest' = k => Own(k)')
    BY <1>1, <1>2, <1>3, <1>6 DEF At, Files
  <2>. QED  BY <2>2, <2>3, <2>4 DEF Files
<1>. QED  BY ONLY <1>1, <1>2, <1>3, <1>5, <1>6, <1>7, <1>8, IInv, WriteIInv, Zenon

\* The weights of step k are whole.
LEMMA EndModelIInv == ASSUME IInv, NEW q \in Ranks, EndModel(q) PROVE IInv'
<1>1. PICK k \in 0..MaxTrainSteps, stage \in Stages, c \in Sites : At(k, stage, c)
  BY DEF IInv
<1>2. stage = "write" /\ q = Main /\ k \in Steps /\ GlobalStep(q) = k
  <2>1. pc[q] = "model_writing" /\ InStage(q, k, stage, c)
    BY <1>1 DEF EndModel, Moves, At
  <2>2. stage = "write" /\ q = Main
    BY <2>1 DEF InStage, Stages
  <2>. QED  BY <1>1, <2>2, GlobalSteps DEF At, Proper
<1>3. /\ pc' = [pc EXCEPT ![q] = "state"] /\ site' = site /\ nextMicroStep' = nextMicroStep
      /\ latest' = latest /\ launches' = launches
      /\ dirs' = [dirs EXCEPT ![k].model = WholeFile] /\ "state" \in Places
  BY <1>2 DEF EndModel, Moves, Places
<1>4. /\ dirs \in [Steps -> [model : File, state : [Ranks -> File]]] /\ WholeFile \in File
      /\ pc \in [Ranks -> Places] /\ launches \in Nat
  BY DEF IInv, TypeInv, WholeFile, File
<1>5. /\ dirs' \in [Steps -> [model : File, state : [Ranks -> File]]]
      /\ \A g \in Steps : g # k => dirs'[g] = dirs[g]
      /\ dirs'[k].model = WholeFile /\ dirs'[k].state = dirs[k].state
  BY <1>2, <1>3, <1>4
<1>6. latest = k => Own(k)'
  BY <1>1, <1>2, <1>3, <1>5 DEF At, Files, Own, WholeFile
<1>7. InStage(q, k, "write", c)'
  BY <1>1, <1>2, <1>3, <1>4 DEF At, InStage
<1>8. Files(k, "write", c)'
  <2>1. /\ WholeFile' = WholeFile
        /\ \A r \in Ranks : pc'[r] = IF r = q THEN "state" ELSE pc[r]
        /\ pc[q] = "model_writing"
        /\ pc[Main] \in {"state", "state_writing", "written"} => dirs[k].model = WholeFile
        /\ \A r \in Ranks : pc[r] = "written" => dirs[k].state[r] = WholeFile
    <3>1. WholeFile' = WholeFile
      BY <1>3 DEF WholeFile
    <3>2. (\A r \in Ranks : pc'[r] = IF r = q THEN "state" ELSE pc[r]) /\ pc[q] = "model_writing"
      BY <1>3, <1>4 DEF EndModel, Moves
    <3>3. Files(k, "write", c)
      BY <1>1, <1>2 DEF At
    <3>. QED  BY <3>1, <3>2, <3>3 DEF Files
  <2>2. /\ \A r \in Ranks : pc'[r] = "written" => dirs'[k].state[r] = WholeFile'
        /\ pc'[Main] \in {"state", "state_writing", "written"} => dirs'[k].model = WholeFile'
    BY <1>2, <1>5, <2>1, Constants
  <2>3. Damaged' => latest' = k
    <3>. SUFFICES ASSUME latest # k PROVE ~Damaged'
      BY <1>3
    <3>1. ~Damaged
      BY <1>1, <1>2 DEF At, Files
    <3>2. latest # NoLink => latest \in Steps /\ dirs'[latest] = dirs[latest]
      BY <1>5, Constants DEF Steps, NoLink, IInv, TypeInv
    <3>. QED  BY <1>3, <3>1, <3>2 DEF Damaged, Loadable
  <2>4. (c = "periodic" => latest' # k) /\ (latest' = k => Own(k)')
    BY <1>1, <1>2, <1>3, <1>6 DEF At, Files
  <2>. QED  BY <2>2, <2>3, <2>4 DEF Files
<1>. QED  BY ONLY <1>1, <1>2, <1>3, <1>5, <1>6, <1>7, <1>8, IInv, WriteIInv, Zenon

\* torch.save of rank q writes its training state of step k.
LEMMA BeginStateIInv == ASSUME IInv, NEW q \in Ranks, BeginState(q) PROVE IInv'
<1>1. PICK k \in 0..MaxTrainSteps, stage \in Stages, c \in Sites : At(k, stage, c)
  BY DEF IInv
<1>2. stage = "write" /\ k \in Steps /\ GlobalStep(q) = k
  <2>1. pc[q] = "state" /\ InStage(q, k, stage, c)
    BY <1>1 DEF BeginState, Moves, At
  <2>2. stage = "write"
    BY <2>1 DEF InStage, Stages
  <2>. QED  BY <1>1, <2>2, GlobalSteps DEF At, Proper
<1>3. /\ pc' = [pc EXCEPT ![q] = "state_writing"] /\ site' = site /\ nextMicroStep' = nextMicroStep
      /\ latest' = latest /\ launches' = launches
      /\ dirs' = [dirs EXCEPT ![k].state[q] = TornFile] /\ "state_writing" \in Places
  BY <1>2 DEF BeginState, Moves, Places
<1>4. /\ dirs \in [Steps -> [model : File, state : [Ranks -> File]]] /\ TornFile \in File
      /\ pc \in [Ranks -> Places] /\ launches \in Nat
  BY DEF IInv, TypeInv, TornFile, File
<1>5. /\ dirs' \in [Steps -> [model : File, state : [Ranks -> File]]]
      /\ \A g \in Steps : g # k => dirs'[g] = dirs[g]
      /\ dirs'[k].model = dirs[k].model
      /\ \A r \in Ranks : dirs'[k].state[r] = IF r = q THEN TornFile ELSE dirs[k].state[r]
  BY <1>2, <1>3, <1>4
<1>6. latest = k => Own(k)'
  BY <1>1, <1>2, <1>3, <1>5 DEF At, Files, Own, TornFile
<1>7. InStage(q, k, "write", c)'
  BY <1>1, <1>2, <1>3, <1>4 DEF At, InStage
<1>8. Files(k, "write", c)'
  <2>1. /\ WholeFile' = WholeFile
        /\ \A r \in Ranks : pc'[r] = IF r = q THEN "state_writing" ELSE pc[r]
        /\ pc[q] = "state"
        /\ pc[Main] \in {"state", "state_writing", "written"} => dirs[k].model = WholeFile
        /\ \A r \in Ranks : pc[r] = "written" => dirs[k].state[r] = WholeFile
    <3>1. WholeFile' = WholeFile
      BY <1>3 DEF WholeFile
    <3>2. (\A r \in Ranks : pc'[r] = IF r = q THEN "state_writing" ELSE pc[r]) /\ pc[q] = "state"
      BY <1>3, <1>4 DEF BeginState, Moves
    <3>3. Files(k, "write", c)
      BY <1>1, <1>2 DEF At
    <3>. QED  BY <3>1, <3>2, <3>3 DEF Files
  <2>2. /\ \A r \in Ranks : pc'[r] = "written" => dirs'[k].state[r] = WholeFile'
        /\ pc'[Main] \in {"state", "state_writing", "written"} => dirs'[k].model = WholeFile'
    BY <1>2, <1>5, <2>1, Constants
  <2>3. Damaged' => latest' = k
    <3>. SUFFICES ASSUME latest # k PROVE ~Damaged'
      BY <1>3
    <3>1. ~Damaged
      BY <1>1, <1>2 DEF At, Files
    <3>2. latest # NoLink => latest \in Steps /\ dirs'[latest] = dirs[latest]
      BY <1>5, Constants DEF Steps, NoLink, IInv, TypeInv
    <3>. QED  BY <1>3, <3>1, <3>2 DEF Damaged, Loadable
  <2>4. (c = "periodic" => latest' # k) /\ (latest' = k => Own(k)')
    BY <1>1, <1>2, <1>3, <1>6 DEF At, Files
  <2>. QED  BY <2>2, <2>3, <2>4 DEF Files
<1>. QED  BY ONLY <1>1, <1>2, <1>3, <1>5, <1>6, <1>7, <1>8, IInv, WriteIInv, Zenon

\* The training state of rank q is whole.
LEMMA EndStateIInv == ASSUME IInv, NEW q \in Ranks, EndState(q) PROVE IInv'
<1>1. PICK k \in 0..MaxTrainSteps, stage \in Stages, c \in Sites : At(k, stage, c)
  BY DEF IInv
<1>2. stage = "write" /\ k \in Steps /\ GlobalStep(q) = k
  <2>1. pc[q] = "state_writing" /\ InStage(q, k, stage, c)
    BY <1>1 DEF EndState, Moves, At
  <2>2. stage = "write"
    BY <2>1 DEF InStage, Stages
  <2>. QED  BY <1>1, <2>2, GlobalSteps DEF At, Proper
<1>3. /\ pc' = [pc EXCEPT ![q] = "written"] /\ site' = site /\ nextMicroStep' = nextMicroStep
      /\ latest' = latest /\ launches' = launches
      /\ dirs' = [dirs EXCEPT ![k].state[q] = WholeFile] /\ "written" \in Places
  BY <1>2 DEF EndState, Moves, Places, AfterState
<1>4. /\ dirs \in [Steps -> [model : File, state : [Ranks -> File]]] /\ WholeFile \in File
      /\ pc \in [Ranks -> Places] /\ launches \in Nat
  BY DEF IInv, TypeInv, WholeFile, File
<1>5. /\ dirs' \in [Steps -> [model : File, state : [Ranks -> File]]]
      /\ \A g \in Steps : g # k => dirs'[g] = dirs[g]
      /\ dirs'[k].model = dirs[k].model
      /\ \A r \in Ranks : dirs'[k].state[r] = IF r = q THEN WholeFile ELSE dirs[k].state[r]
  BY <1>2, <1>3, <1>4
<1>6. latest = k => Own(k)'
  BY <1>1, <1>2, <1>3, <1>5 DEF At, Files, Own, WholeFile
<1>7. InStage(q, k, "write", c)'
  BY <1>1, <1>2, <1>3, <1>4 DEF At, InStage
<1>8. Files(k, "write", c)'
  <2>1. /\ WholeFile' = WholeFile
        /\ \A r \in Ranks : pc'[r] = IF r = q THEN "written" ELSE pc[r]
        /\ pc[q] = "state_writing"
        /\ pc[Main] \in {"state", "state_writing", "written"} => dirs[k].model = WholeFile
        /\ \A r \in Ranks : pc[r] = "written" => dirs[k].state[r] = WholeFile
    <3>1. WholeFile' = WholeFile
      BY <1>3 DEF WholeFile
    <3>2. (\A r \in Ranks : pc'[r] = IF r = q THEN "written" ELSE pc[r]) /\ pc[q] = "state_writing"
      BY <1>3, <1>4 DEF EndState, Moves
    <3>3. Files(k, "write", c)
      BY <1>1, <1>2 DEF At
    <3>. QED  BY <3>1, <3>2, <3>3 DEF Files
  <2>2. /\ \A r \in Ranks : pc'[r] = "written" => dirs'[k].state[r] = WholeFile'
        /\ pc'[Main] \in {"state", "state_writing", "written"} => dirs'[k].model = WholeFile'
    BY <1>2, <1>5, <2>1, Constants
  <2>3. Damaged' => latest' = k
    <3>. SUFFICES ASSUME latest # k PROVE ~Damaged'
      BY <1>3
    <3>1. ~Damaged
      BY <1>1, <1>2 DEF At, Files
    <3>2. latest # NoLink => latest \in Steps /\ dirs'[latest] = dirs[latest]
      BY <1>5, Constants DEF Steps, NoLink, IInv, TypeInv
    <3>. QED  BY <1>3, <3>1, <3>2 DEF Damaged, Loadable
  <2>4. (c = "periodic" => latest' # k) /\ (latest' = k => Own(k)')
    BY <1>1, <1>2, <1>3, <1>6 DEF At, Files
  <2>. QED  BY <2>2, <2>3, <2>4 DEF Files
<1>. QED  BY ONLY <1>1, <1>2, <1>3, <1>5, <1>6, <1>7, <1>8, IInv, WriteIInv, Zenon

\* Once all states are written the checkpoint of step k is whole.
LEMMA StatesWrittenIInv == ASSUME IInv, StatesWritten PROVE IInv'
<1>1. PICK k \in 0..MaxTrainSteps, stage \in Stages, c \in Sites : At(k, stage, c)
  BY DEF IInv
<1>2. stage = "write" /\ k \in Steps
  <2>1. pc[Main] = "written" /\ InStage(Main, k, stage, c)
    BY <1>1, Constants DEF StatesWritten, At
  <2>2. stage = "write"
    BY <2>1 DEF InStage, Stages
  <2>. QED  BY <1>1, <2>2 DEF At, Proper
<1>3. /\ pc' = [r \in Ranks |-> IF r = Main THEN "unlink" ELSE "saved"]
      /\ site' = site /\ nextMicroStep' = nextMicroStep /\ dirs' = dirs /\ latest' = latest
      /\ launches' = launches
  BY DEF StatesWritten
<1>4. Whole(k) /\ Whole(k)'
  <2>1. Whole(k)
    BY <1>1, <1>2, Constants DEF At, Files, StatesWritten, Whole
  <2>. QED  BY <1>3, <2>1, Zenon DEF Whole, WholeFile
<1>5. ~Damaged /\ ~Damaged'
  <2>1. ~Damaged
    BY <1>1, <1>2, <1>4 DEF At, Files, Whole, WholeFile, Damaged, Loadable
  <2>. QED  BY <1>3, <2>1 DEF Damaged, Loadable
<1>6. TypeInv'
  BY <1>3 DEF IInv, TypeInv, Places
<1>7. ConsistentCheckpoint'
  BY <1>3, <1>5, SMTT(30) DEF IInv, ConsistentCheckpoint
<1>8. \A r \in Ranks : InStage(r, k, "link", c)'
  BY <1>1, <1>2, <1>3 DEF At, InStage
<1>9. Proper(k, "link", c)' /\ Near(k, "link")'
  BY <1>1, <1>2, <1>3 DEF At, Proper, Near, Unlinked
<1>10. Files(k, "link", c)'
  BY <1>3, <1>4, <1>5, Constants DEF Files
<1>11. At(k, "link", c)'
  BY <1>8, <1>9, <1>10 DEF At
<1>. QED  BY <1>6, <1>7, <1>11 DEF IInv, Stages

\* Between unlink and symlink no checkpoint is named.
LEMMA UnlinkIInv == ASSUME IInv, NEW q \in Ranks, Unlink(q) PROVE IInv'
<1>1. PICK k \in 0..MaxTrainSteps, stage \in Stages, c \in Sites : At(k, stage, c)
  BY DEF IInv
<1>2. stage = "link" /\ q = Main /\ k \in Steps
  <2>1. pc[q] = "unlink" /\ InStage(q, k, stage, c)
    BY <1>1, SMTT(30) DEF Unlink, Moves, At
  <2>2. stage = "link" /\ q = Main
    BY <2>1 DEF InStage, Stages
  <2>. QED  BY <1>1, <2>2 DEF At, Proper
<1>3. /\ pc' = [pc EXCEPT ![q] = "symlink"] /\ site' = site /\ nextMicroStep' = nextMicroStep
      /\ dirs' = dirs /\ latest' = NoLink /\ launches' = launches
  BY DEF Unlink, Moves
<1>4. TypeInv' /\ pc \in [Ranks -> Places] /\ latest \in Nat
  BY <1>3, Constants DEF IInv, TypeInv, Places, NoLink
<1>5. ConsistentCheckpoint' /\ ~Damaged'
  BY <1>3, SMTT(30) DEF ConsistentCheckpoint, Damaged
<1>6. \A r \in Ranks : InStage(r, k, "link", c)'
  BY <1>1, <1>2, <1>3, <1>4 DEF At, InStage
<1>7. Proper(k, "link", c)'
  BY <1>1, <1>2, <1>3 DEF At, Proper
<1>8. Near(k, "link")'
  BY <1>2, <1>3, <1>4, Constants DEF Near, Unlinked, NoLink, Steps
<1>9. Files(k, "link", c)'
  BY <1>1, <1>2, <1>3, <1>4, <1>5, Zenon DEF At, Files, Whole, WholeFile
<1>10. At(k, "link", c)'
  BY <1>6, <1>7, <1>8, <1>9 DEF At
<1>. QED  BY <1>4, <1>5, <1>10 DEF IInv, Stages

\* The link then names the whole checkpoint of step k.
LEMMA SymlinkIInv == ASSUME IInv, NEW q \in Ranks, Symlink(q) PROVE IInv'
<1>1. PICK k \in 0..MaxTrainSteps, stage \in Stages, c \in Sites : At(k, stage, c)
  BY DEF IInv
<1>2. stage = "link" /\ q = Main /\ k \in Steps /\ GlobalStep(q) = k
  <2>1. pc[q] = "symlink" /\ InStage(q, k, stage, c)
    BY <1>1 DEF Symlink, Moves, At
  <2>2. stage = "link" /\ q = Main
    BY <2>1 DEF InStage, Stages
  <2>. QED  BY <1>1, <2>2, GlobalSteps DEF At, Proper
<1>3. /\ pc' = [pc EXCEPT ![q] = "saved"] /\ site' = site /\ nextMicroStep' = nextMicroStep
      /\ dirs' = dirs /\ latest' = k /\ launches' = launches
  BY <1>2 DEF Symlink, Moves
<1>4. TypeInv' /\ pc \in [Ranks -> Places] /\ launches \in Nat
  BY <1>3, Constants, SMTT(30) DEF IInv, TypeInv, Places
<1>5. Whole(k) /\ Whole(k)' /\ launches > 0
  BY <1>1, <1>2, <1>3, ZenonT(30) DEF At, Files, Proper, Whole, WholeFile
<1>6. ConsistentCheckpoint' /\ ~Damaged'
  BY <1>3, <1>4, <1>5, SMTT(30) DEF ConsistentCheckpoint, Damaged, Loadable, Whole, WholeFile, NoFile
<1>7. \A r \in Ranks : InStage(r, k, "link", c)'
  BY <1>1, <1>2, <1>3, <1>4, Zenon DEF At, InStage
<1>8. Proper(k, "link", c)' /\ Near(k, "link")'
  BY <1>1, <1>2, <1>3, SMTT(30) DEF At, Proper, Near, Steps
<1>9. Files(k, "link", c)'
  BY <1>3, <1>5, <1>6, Zenon DEF Files
<1>10. At(k, "link", c)'
  BY <1>7, <1>8, <1>9 DEF At
<1>. QED  BY <1>4, <1>6, <1>10 DEF IInv, Stages

\* After the save the ranks go on together.
LEMMA SavedIInv == ASSUME IInv, Saved PROVE IInv'
<1>1. PICK k \in 0..MaxTrainSteps, stage \in Stages, c \in Sites : At(k, stage, c)
  BY DEF IInv
<1>2. stage = "link" /\ k \in Steps
  <2>1. pc[Main] = "saved" /\ InStage(Main, k, stage, c)
    BY <1>1, Constants DEF Saved, At
  <2>2. stage = "link"
    BY <2>1, SMTT(30) DEF InStage, Stages
  <2>. QED  BY <1>1, <2>2 DEF At, Proper
<1>3. /\ latest = k /\ Whole(k) /\ ~Damaged /\ c \in {"periodic", "suspend", "final"}
      /\ \A r \in Ranks : site[r] = c
  BY <1>1, <1>2, Constants, Zenon DEF At, Files, Proper, InStage, Saved
<1>. DEFINE to == IF c = "periodic" THEN "poll" ELSE "over"
            place(r) == IF c = "periodic" THEN "poll"
                        ELSE IF c = "suspend" /\ r = Main THEN "go_suspend" ELSE "exit"
<1>4. \A r \in Ranks : AfterSave(r) = place(r)
  BY <1>3 DEF AfterSave
<1>5. /\ pc' = [r \in Ranks |-> place(r)]
      /\ site' = site /\ nextMicroStep' = nextMicroStep /\ dirs' = dirs /\ latest' = latest
      /\ launches' = launches
  BY <1>4, Zenon DEF Saved
<1>6. TypeInv'
  BY <1>5, SMTT(30) DEF IInv, TypeInv, Places
<1>7. ConsistentCheckpoint' /\ ~Damaged' /\ Whole(k)'
  BY <1>3, <1>5, ZenonT(30) DEF IInv, ConsistentCheckpoint, Damaged, Loadable, Whole, WholeFile
<1>8. \A r \in Ranks : InStage(r, k, to, c)'
  BY <1>1, <1>2, <1>5, <1>3 DEF At, InStage
<1>9. Proper(k, to, c)' /\ Near(k, to)'
  BY <1>1, <1>2, <1>3, <1>5 DEF At, Proper, Near, Steps
<1>10. Files(k, to, c)'
  <2>1. Own(k)'
    BY <1>7 DEF Whole, WholeFile, Own
  <2>. QED  BY <1>3, <1>5, <1>7, <2>1, ZenonT(30) DEF Files
<1>11. At(k, to, c)'
  BY <1>8, <1>9, <1>10 DEF At
<1>. QED  BY <1>6, <1>7, <1>11 DEF IInv, Stages

\* What the invariant speaks of stays the same.
LEMMA UnchangedIInv ==
  ASSUME IInv, pc' = pc, site' = site, nextMicroStep' = nextMicroStep, dirs' = dirs,
         latest' = latest, launches' = launches
  PROVE  IInv'
<1>1. TypeInv' /\ ConsistentCheckpoint'
  BY DEF IInv, TypeInv, ConsistentCheckpoint, Damaged, Loadable, GlobalStep
<1>2. PICK k \in 0..MaxTrainSteps, stage \in Stages, c \in Sites : At(k, stage, c)
  BY SMTT(30) DEF IInv
<1>3. At(k, stage, c)'
  BY <1>2, ZenonT(30) DEF At, InStage, Proper, Files, Near, Unlinked, Whole, Own, WholeFile,
     Damaged, Loadable
<1>. QED  BY <1>1, <1>3, SMTT(30) DEF IInv

\* The invariant is inductive.
LEMMA NextIInv == IInv /\ [Next]_vars => IInv'
<1>. SUFFICES ASSUME IInv, [Next]_vars PROVE IInv'
  OBVIOUS
<1>1. CASE Launch
  BY <1>1, LaunchIInv
<1>2. CASE Collective
  BY <1>2, SyncStepIInv, PollSuspendIInv, GatherIInv, StatesWrittenIInv, SavedIInv DEF Collective
<1>3. CASE ReceiveSuspend
  BY <1>3, UnchangedIInv DEF ReceiveSuspend
<1>4. CASE GoSuspend
  BY <1>4, DownIInv DEF GoSuspend
<1>5. CASE KillJob
  BY <1>5, DownIInv DEF KillJob
<1>6. CASE Terminated \/ UNCHANGED vars
  BY <1>6, UnchangedIInv DEF Terminated, vars
<1>7. ASSUME NEW r \in Ranks, Local(r)
      PROVE  IInv'
  BY <1>7, MicroStepIInv, FinalSaveIInv, MakeDirIInv, BeginModelIInv, EndModelIInv,
     BeginStateIInv, EndStateIInv, UnlinkIInv, SymlinkIInv DEF Local
<1>8. ASSUME NEW r \in Ranks, Crash(r)
      PROVE  IInv'
  BY <1>8, CrashIInv
<1>. QED  BY <1>1, <1>2, <1>3, <1>4, <1>5, <1>6, <1>7, <1>8 DEF Next

-----------------------------------------------------------------------------
(* The properties, for any job. *)

\* The invariant holds in every state of every job.
LEMMA Invariant == Spec => []IInv
<1>. QED  BY InitIInv, NextIInv, PTL DEF Spec

\* Whatever rank crashes wherever, the ranks of save_checkpoint and of
\* SuspendController.requested never wait in different collectives.
THEOREM CollectivesAlwaysMatch == Spec => []CollectivesMatch
<1>1. IInv => CollectivesMatch
  BY Consequences
<1>. QED  BY <1>1, Invariant, PTL

\* step_latest always names a directory with the files of all ranks, from one
\* launch, and is torn only by a crash in a second save of the same step.
THEOREM CheckpointAlwaysConsistent == Spec => []ConsistentCheckpoint
<1>1. IInv => ConsistentCheckpoint
  BY Consequences
<1>. QED  BY <1>1, Invariant, PTL

\* A crash costs at most checkpointing_steps optimizer steps, unless it hits the
\* in-place rewrite of the step that step_latest names or falls between unlink
\* and symlink, where the files of the step are complete; _save_and_suspend
\* loses none.
THEOREM LossAlwaysBounded == Spec => []LossBounded
<1>1. IInv => LossBounded
  BY Consequences
<1>. QED  BY <1>1, Invariant, PTL

=============================================================================
