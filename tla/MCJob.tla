------------------------------- MODULE MCJob -------------------------------
(***************************************************************************)
(* The parts of a training or evaluation job that share no state, for TLC: *)
(* the order of the samples, the learning rates, the index of the JSONL    *)
(* files, the metrics of training and those of evaluation.  As no part     *)
(* reads a variable of another, the steps of one cannot matter to the      *)
(* properties of the others: the initial state chooses the part that       *)
(* moves, and the others stay in an initial state.                         *)
(***************************************************************************)
EXTENDS DataOrder, LRSchedule, JsonlIndex, Functions, TLC

VARIABLES
    part,                                                    \* the part that moves
    flushPc, flushStep, metrics, todo, got, summary, want,   \* of MetricsFlush
    dataset, evalPc, task, next, sums, rows                  \* of EvalMetrics

\* All small configurations that pass the asserts of the schedule.
MCConfigs ==
    {c \in [dataset : 2..5, world : 1..2, local : 1..2, global : {2, 4}, epochs : {2},
            steps : {0, 3}] :
        c.global % (c.world * c.local) = 0 /\ c.dataset \div c.global > 0}

\* Two files: one that grows, one that is emptied.
MCLines == (1 :> <<<<2, 3>>, <<2, 2, 1>>>>) @@ (2 :> <<<<4>>, <<>>>>)

\* Bound: one of them is rewritten.
OneWrite == mtime'[1] + mtime'[2] <= 3

Processes == Permutations(Proc)

\* Two ranks, and one metric of every kind the losses and the logger use.
Flush == INSTANCE MetricsFlush WITH
    WorldSize <- 2, Reduction <- <<"ratio", "last", "dp_mean", "dp_sum", "mean">>,
    Values <- {1, 3}, Dens <- {0, 2}, LoggingSteps <- 2, MaxAdds <- 2,
    pc <- flushPc, step <- flushStep

\* Three ranks; a task with a sample more than ranks, one with nothing to do and
\* one with a single sample.
Eval == INSTANCE EvalMetrics WITH
    WorldSize <- 3, MaxProposalTokens <- 2, Sizes <- <<4, 0, 1>>, NoLists <- Torn,
    Responses <- {Torn, <<>>, <<<<2, 2, 1>>, <<1, 0, 0>>>>, <<<<2, 1, 1>>>>}, pc <- evalPc

flushVars == <<flushPc, flushStep, metrics, todo, got, summary, want>>
evalVars == <<dataset, evalPc, task, next, sums, rows>>
jobVars == <<part, vars, scheduleVars, indexVars, flushVars, evalVars>>

-----------------------------------------------------------------------------
\* A resting part is in the same initial state in every behaviour.
JobInit ==
    /\ part \in {"order", "schedule", "index", "flush", "eval"}
    /\ Init
    /\ part # "order" => /\ cfg = CHOOSE c \in Configs : c.world * c.dataset = 2
                         /\ Range(shift) = {0}
    /\ ScheduleInit
    /\ part # "schedule" => warmup = 0
    /\ IndexInit
    /\ Flush!Init
    /\ Eval!Init
    /\ part # "eval" => Range(dataset) = {<<>>}

OrderStep ==
    part = "order" /\ Next /\ UNCHANGED <<part, scheduleVars, indexVars, flushVars, evalVars>>

ScheduleStep ==
    part = "schedule" /\ ScheduleNext /\ UNCHANGED <<part, vars, indexVars, flushVars, evalVars>>

IndexStep ==
    /\ part = "index" /\ IndexNext /\ OneWrite
    /\ UNCHANGED <<part, vars, scheduleVars, flushVars, evalVars>>

FlushStep ==
    part = "flush" /\ Flush!Next /\ UNCHANGED <<part, vars, scheduleVars, indexVars, evalVars>>

EvalStep ==
    part = "eval" /\ Eval!Next /\ UNCHANGED <<part, vars, scheduleVars, indexVars, flushVars>>

JobNext == OrderStep \/ ScheduleStep \/ IndexStep \/ FlushStep \/ EvalStep

JobSpec == JobInit /\ [][JobNext]_jobVars

-----------------------------------------------------------------------------
\* SummaryIsGlobal of MetricsFlush: a flush that returns reports, on every rank,
\* each metric of the window reduced over every entry of every rank.
FlushIsGlobal == Flush!SummaryIsGlobal

\* RowsExact of EvalMetrics: each row of rank 0 counts every sample of its task
\* exactly once, and no partial result is ever reported.
EvalRowsExact == Eval!RowsExact

=============================================================================
