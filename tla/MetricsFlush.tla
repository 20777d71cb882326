---------------------------- MODULE MetricsFlush ----------------------------
(***************************************************************************)
(* The metrics buffer of a training run.  Every rank collects scalars with *)
(* add_metric; after every LoggingSteps optimizer steps flush exchanges    *)
(* the schemas of all buffers and then reduces metric by metric.  The      *)
(* collectives of torch.distributed know no names: the k-th call of one    *)
(* rank meets the k-th call of the others, whatever they are for.          *)
(* Values are fractions <<numerator, denominator>>.                        *)
(***************************************************************************)
EXTENDS Integers, SequencesExt, FiniteSetsExt

CONSTANTS
  WorldSize,
  Reduction,     \* Reduction[n] of metric n, in the order of sorted names
  Values, Dens,  \* values and denominators the losses emit
  LoggingSteps,
  MaxAdds        \* bound: entries of a rank's losses in a window

Rank == 1..WorldSize

Name == DOMAIN Reduction

VARIABLES
  pc,        \* of each rank
  step,      \* global_step, in the window
  metrics,   \* _metrics of each rank: the entries of each name
  todo,      \* the names flush has not reduced yet
  got,       \* the reduced numerator of a ratio
  summary,   \* what the last flush has computed
  want       \* history: the summary that each rank should get

vars == <<pc, step, metrics, todo, got, summary, want>>

-----------------------------------------------------------------------------
\* Fractions

AddQ(a, b) == <<a[1] * b[2] + b[1] * a[2], a[2] * b[2]>>

SameQ(a, b) == a[1] * b[2] = b[1] * a[2]

SumQ(s) == FoldLeft(AddQ, <<0, 1>>, s)

\* _safe_div
safe_div(num, den) == IF den[1] = 0 THEN <<0, 1>> ELSE <<num[1] * den[2], num[2] * den[1]>>

-----------------------------------------------------------------------------
\* _metrics

NoMetrics == [n \in Name |-> <<>>]

Kept(m) == {n \in Name : m[n] # <<>>}

\* Mutant: the schema leaves out how many entries there are.
SchemaWithoutCount(m) == [n \in Kept(m) |-> Reduction[n]]

\* _schema: name, kind and reduction, number of entries.
schema(m) == [n \in Kept(m) |-> <<Reduction[n], Len(m[n])>>]

\* A reduction without dp_ stays on the rank.
IsLocal(n) == Reduction[n] \in {"last", "mean"}

\* The values, or the numerators or denominators, of a metric.
Part(m, n, i) == [k \in DOMAIN m[n] |-> <<m[n][k][i], 1>>]

\* _local_reduce and the sums of flush: sum and mean both give the mean.
local_reduce(m, n) ==
  LET s == Part(m, n, 1)
  IN CASE Reduction[n] = "ratio" -> SumQ(s)
       [] Reduction[n] = "last" -> s[Len(s)]
       [] Reduction[n] \in {"mean", "dp_mean", "dp_sum"} -> safe_div(SumQ(s), <<Len(s), 1>>)

\* _reduce_dp_value: the all-reduce of the ranks' values.
reduce_dp_value(n, vals) ==
  LET sum == SumQ(vals)
  IN IF Reduction[n] = "dp_mean" THEN <<sum[1], sum[2] * WorldSize>> ELSE sum

\* What a flush of the buffers ms should report of name n on rank r: of all entries
\* of all ranks the ratio of the sums, the mean or the total per emit; of a local
\* metric the rank's own last entry or mean.
Reported(ms, n, r) ==
  LET Summed(i) == SumQ([s \in Rank |-> SumQ(Part(ms[s], n, i))])
      count == FoldLeft(LAMBDA c, s : c + Len(ms[s][n]), 0, [s \in Rank |-> s])
  IN CASE Reduction[n] = "ratio" -> safe_div(Summed(1), Summed(2))
       [] Reduction[n] = "last" -> <<ms[r][n][Len(ms[r][n])][1], 1>>
       [] Reduction[n] = "mean" -> safe_div(SumQ(Part(ms[r], n, 1)), <<Len(ms[r][n]), 1>>)
       [] Reduction[n] = "dp_mean" -> safe_div(Summed(1), <<count, 1>>)
       [] Reduction[n] = "dp_sum" -> safe_div(Summed(1), <<count, WorldSize>>)

-----------------------------------------------------------------------------
Init ==
  /\ pc = [r \in Rank |-> "train"]
  /\ step = [r \in Rank |-> 0]
  /\ metrics = [r \in Rank |-> NoMetrics]
  /\ todo = [r \in Rank |-> <<>>]
  /\ got = [r \in Rank |-> <<0, 1>>]
  /\ summary = [r \in Rank |-> <<>>]
  /\ want = [r \in Rank |-> <<>>]

Goto(r, label) == pc' = [pc EXCEPT ![r] = label]

\* add_metric by a loss; only a ratio has a denominator.
add_metric(r, n, value, den) ==
  /\ pc[r] = "train"
  /\ Reduction[n] # "last"
  /\ den \in IF Reduction[n] = "ratio" THEN Dens ELSE {1}
  /\ FoldSet(LAMBDA x, c : c + Len(metrics[r][x]), 0, {x \in Name : Reduction[x] # "last"}) < MaxAdds
  /\ metrics' = [metrics EXCEPT ![r][n] = Append(@, <<value, den>>)]
  /\ UNCHANGED <<pc, step, todo, got, summary, want>>

\* on_optimizer_step: the rank's own lr and gradient norm, and the flush if due,
\* which begins with the exchange of the schemas.
OnOptimizerStep(r) ==
  /\ pc[r] = "train"
  /\ metrics' = [metrics EXCEPT ![r] =
                   [n \in Name |-> IF Reduction[n] = "last"
                                   THEN Append(@[n], <<step[r] + r, 1>>) ELSE @[n]]]
  /\ step' = [step EXCEPT ![r] = (@ + 1) % LoggingSteps]
  /\ Goto(r, IF step'[r] = 0 THEN "gather" ELSE "train")
  /\ UNCHANGED <<todo, got, summary, want>>

\* _assert_schema_consistent: every rank compares all schemas with rank 0's, so
\* either all go on or all raise.  Outside the try: the buffers are kept.
AllGatherSchemas ==
  LET same == \A r \in Rank : schema(metrics[r]) = schema(metrics[1]) IN
  /\ \A r \in Rank : pc[r] = "gather"
  /\ pc' = [r \in Rank |-> IF same THEN "flush" ELSE "raised"]
  /\ todo' = [r \in Rank |-> IF same THEN SetToSortSeq(Kept(metrics[r]), <) ELSE <<>>]
  /\ summary' = [r \in Rank |-> <<>>]
  /\ want' = [r \in Rank |-> IF same THEN [n \in Kept(metrics[r]) |-> Reported(metrics, n, r)]
                             ELSE <<>>]
  /\ UNCHANGED <<step, metrics, got>>

\* The head of the loop of flush: a local metric is done at once, else the rank
\* enters an all-reduce.
FlushNext(r) ==
  /\ pc[r] = "flush" /\ todo[r] # <<>>
  /\ LET n == Head(todo[r]) IN
     \/ /\ IsLocal(n)
        /\ summary' = [summary EXCEPT ![r] = (n :> local_reduce(metrics[r], n)) @@ @]
        /\ todo' = [todo EXCEPT ![r] = Tail(@)]
        /\ UNCHANGED pc
     \/ /\ ~IsLocal(n)
        /\ Goto(r, "reduce")
        /\ UNCHANGED <<summary, todo>>
  /\ UNCHANGED <<step, metrics, got, want>>

\* What rank r puts into the all-reduce it is in.
Sent(r) ==
  IF pc[r] = "den" THEN SumQ(Part(metrics[r], Head(todo[r]), 2))
  ELSE local_reduce(metrics[r], Head(todo[r]))

\* One all-reduce that every rank has entered: rank by rank, a ratio goes on with
\* its denominator, anything else is done.
AllReduce ==
  LET vals == [r \in Rank |-> Sent(r)]
      Res(r) == reduce_dp_value(Head(todo[r]), vals)
      Num(r) == pc[r] = "reduce" /\ Reduction[Head(todo[r])] = "ratio"
  IN
  /\ \A r \in Rank : pc[r] \in {"reduce", "den"}
  /\ pc' = [r \in Rank |-> IF Num(r) THEN "den" ELSE "flush"]
  /\ got' = [r \in Rank |-> IF Num(r) THEN Res(r) ELSE <<0, 1>>]
  /\ todo' = [r \in Rank |-> IF Num(r) THEN todo[r] ELSE Tail(todo[r])]
  /\ summary' = [r \in Rank |->
       IF Num(r) THEN summary[r]
       ELSE (Head(todo[r]) :> IF pc[r] = "den" THEN safe_div(got[r], Res(r)) ELSE Res(r))
            @@ summary[r]]
  /\ UNCHANGED <<step, metrics, want>>

\* finally: reset()
FlushDone(r) ==
  /\ pc[r] = "flush" /\ todo[r] = <<>>
  /\ metrics' = [metrics EXCEPT ![r] = NoMetrics]
  /\ Goto(r, "returned")
  /\ UNCHANGED <<step, todo, got, summary, want>>

\* The summary is logged and training goes on.
Log(r) ==
  /\ pc[r] = "returned"
  /\ summary' = [summary EXCEPT ![r] = <<>>]
  /\ want' = [want EXCEPT ![r] = <<>>]
  /\ Goto(r, "train")
  /\ UNCHANGED <<step, metrics, todo, got>>

\* The assertion ends the job.
Ended == (\A r \in Rank : pc[r] = "raised") /\ UNCHANGED vars

Next ==
  \/ \E r \in Rank :
       \/ \E n \in Name, v \in Values, d \in Dens \cup {1} : add_metric(r, n, v, d)
       \/ OnOptimizerStep(r) \/ FlushNext(r) \/ FlushDone(r) \/ Log(r)
  \/ AllGatherSchemas \/ AllReduce \/ Ended

Spec == Init /\ [][Next]_vars

-----------------------------------------------------------------------------
\* A flush that returns reports, on every rank, exactly the metrics of the window,
\* each reduced over every entry of every rank: no entry of one metric is added
\* to another, a mean of means is the mean of all, a ratio of no tokens is 0.
SummaryIsGlobal ==
  \A r \in Rank : pc[r] = "returned" =>
    /\ DOMAIN summary[r] = DOMAIN want[r]
    /\ \A n \in DOMAIN want[r] : SameQ(summary[r][n], want[r][n])

=============================================================================
