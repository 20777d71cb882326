----------------------------- MODULE EvalMetrics -----------------------------
(***************************************************************************)
(* The evaluation driver.  Every rank decodes its share of a dataset and   *)
(* counts what its samples' rounds accepted; two all-reduces add the       *)
(* counts of the ranks; rank 0 turns them into a row.  Ranks run at their  *)
(* own pace, may have no samples, and may fail.  A sample is what          *)
(* generate_one_sample returns of it: a sequence of rounds                 *)
(*   <<acceptance_length, proposal_length, accepted_draft_length>>         *)
(* or NoLists when the response has no such lists.  Sampling is seeded by  *)
(* the sample's index, so a sample is the same on every rank.              *)
(***************************************************************************)
EXTENDS Integers, SequencesExt, FiniteSetsExt

CONSTANTS
  WorldSize,
  MaxProposalTokens,
  Sizes,          \* Sizes[d]: samples of the d-th task after max_samples
  Responses,      \* what a sample may be
  NoLists, None

Rank == 0..(WorldSize - 1)

Task == DOMAIN Sizes

Sample == UNION {{d} \X (0..Sizes[d] - 1) : d \in Task}

Pos == 0..(MaxProposalTokens - 1)

VARIABLES
  dataset,   \* dataset[<<d, i>>]: sample i of task d
  pc, task,  \* of each rank
  next,      \* the next sample of the rank
  sums,      \* metric_summary, local until it is reduced
  rows       \* metrics_rows of rank 0

vars == <<dataset, pc, task, next, sums, rows>>

-----------------------------------------------------------------------------
\* Counting

Zero == [samples |-> 0, proposals |-> 0, accepted |-> 0, proposed |-> 0,
         proposals_at |-> [p \in Pos |-> 0], accepted_at |-> [p \in Pos |-> 0]]

\* Mutant: a proposal of p tokens counts at position p too.
CountPastEnd(s, round) ==
  [samples |-> s.samples, proposals |-> s.proposals + 1,
   accepted |-> s.accepted + round[1], proposed |-> s.proposed + round[2],
   proposals_at |-> [p \in Pos |-> s.proposals_at[p] + IF round[2] >= p THEN 1 ELSE 0],
   accepted_at |-> [p \in Pos |-> s.accepted_at[p] + IF round[3] > p THEN 1 ELSE 0]]

\* The inner loop of allreduce_response_metrics.
CountRound(s, round) ==
  [samples |-> s.samples, proposals |-> s.proposals + 1,
   accepted |-> s.accepted + round[1], proposed |-> s.proposed + round[2],
   proposals_at |-> [p \in Pos |-> s.proposals_at[p] + IF round[2] > p THEN 1 ELSE 0],
   accepted_at |-> [p \in Pos |-> s.accepted_at[p] + IF round[3] > p THEN 1 ELSE 0]]

\* One response: a response without lists is a sample without rounds.
CountResponse(s, response) ==
  LET s1 == [s EXCEPT !.samples = @ + 1]
  IN IF response = NoLists THEN s1 ELSE FoldLeft(CountRound, s1, response)

\* The first tensor of the all-reduce, added up over the ranks.
ReduceScalars(s) ==
  LET Summed(Field(_)) == MapThenSumSet(LAMBDA r : Field(sums[r]), Rank)
  IN [s EXCEPT !.samples = Summed(LAMBDA x : x.samples),
               !.proposals = Summed(LAMBDA x : x.proposals),
               !.accepted = Summed(LAMBDA x : x.accepted),
               !.proposed = Summed(LAMBDA x : x.proposed)]

\* The second one: the counts by position.
ReducePositions(s) ==
  LET Summed(Field(_)) == MapThenSumSet(LAMBDA r : Field(sums[r]), Rank)
  IN [s EXCEPT !.proposals_at = [p \in Pos |-> Summed(LAMBDA x : x.proposals_at[p])],
               !.accepted_at = [p \in Pos |-> Summed(LAMBDA x : x.accepted_at[p])]]

\* build_metrics_row; fractions are <<numerator, denominator>>.
build_metrics_row(d, s) ==
  IF s.proposals = 0
  THEN [dataset |-> d, num_samples |-> s.samples, draft_tokens |-> <<0, 1>>,
        acceptance_length |-> <<0, 1>>, verify_rate |-> <<0, 1>>,
        accept_rates |-> [p \in Pos |-> None]]
  ELSE [dataset |-> d, num_samples |-> s.samples,
        draft_tokens |-> <<s.proposed, s.proposals>>,
        acceptance_length |-> <<s.accepted, s.proposals>>,
        verify_rate |-> <<s.accepted, s.proposed + s.proposals>>,
        accept_rates |-> [p \in Pos |-> IF s.proposals_at[p] = 0 THEN None
                                        ELSE <<s.accepted_at[p], s.proposals_at[p]>>]]

-----------------------------------------------------------------------------
Init ==
  /\ dataset \in [Sample -> Responses]
  /\ pc = [r \in Rank |-> "run"]
  /\ task = [r \in Rank |-> 1]
  /\ next = [r \in Rank |-> r]
  /\ sums = [r \in Rank |-> Zero]
  /\ rows = <<>>

\* run_dataset: one sample of the rank's stride, counted when the loop is over.
RunSample(r) ==
  /\ pc[r] = "run" /\ next[r] < Sizes[task[r]]
  /\ sums' = [sums EXCEPT ![r] = CountResponse(@, dataset[<<task[r], next[r]>>])]
  /\ next' = [next EXCEPT ![r] = @ + WorldSize]
  /\ UNCHANGED <<dataset, pc, task, rows>>

\* The rank enters the first all-reduce.
EndRun(r) ==
  /\ pc[r] = "run" /\ next[r] >= Sizes[task[r]]
  /\ pc' = [pc EXCEPT ![r] = "scalars"]
  /\ UNCHANGED <<dataset, task, next, sums, rows>>

\* Decoding a sample raises.
Fail(r) ==
  /\ pc[r] = "run" /\ next[r] < Sizes[task[r]]
  /\ pc' = [pc EXCEPT ![r] = "raised"]
  /\ UNCHANGED <<dataset, task, next, sums, rows>>

\* The tensor of the positions is reduced only if it has elements.
AllReduceScalars ==
  /\ \A r \in Rank : pc[r] = "scalars"
  /\ sums' = [r \in Rank |-> ReduceScalars(sums[r])]
  /\ pc' = [r \in Rank |-> IF MaxProposalTokens > 0 THEN "positions" ELSE "record"]
  /\ UNCHANGED <<dataset, task, next, rows>>

AllReducePositions ==
  /\ \A r \in Rank : pc[r] = "positions"
  /\ sums' = [r \in Rank |-> ReducePositions(sums[r])]
  /\ pc' = [r \in Rank |-> "record"]
  /\ UNCHANGED <<dataset, task, next, rows>>

\* record_dataset_metrics and the loop of evaluate.
Record(r) ==
  /\ pc[r] = "record"
  /\ rows' = IF r = 0 /\ sums[r].samples > 0
             THEN Append(rows, build_metrics_row(task[r], sums[r])) ELSE rows
  /\ sums' = [sums EXCEPT ![r] = Zero]
  /\ next' = [next EXCEPT ![r] = r]
  /\ \/ /\ task[r] < Len(Sizes)
        /\ task' = [task EXCEPT ![r] = @ + 1]
        /\ pc' = [pc EXCEPT ![r] = "run"]
     \/ /\ task[r] = Len(Sizes)
        /\ pc' = [pc EXCEPT ![r] = "done"]
        /\ UNCHANGED task
  /\ UNCHANGED dataset

\* All ranks are done, or one has raised and the others wait for it until the
\* launcher or the communication timeout ends the job.
Ended ==
  /\ \A r \in Rank : pc[r] \in {"done", "raised", "scalars"}
  /\ \E r \in Rank : pc[r] # "scalars"
  /\ UNCHANGED vars

Next ==
  \/ \E r \in Rank : RunSample(r) \/ EndRun(r) \/ Fail(r) \/ Record(r)
  \/ AllReduceScalars \/ AllReducePositions \/ Ended

Spec == Init /\ [][Next]_vars

-----------------------------------------------------------------------------
\* The rounds of task d, as <<sample, round>>.
Rounds(d) ==
  UNION {{x} \X DOMAIN dataset[x] : x \in {x \in Sample : x[1] = d /\ dataset[x] # NoLists}}

\* The row that task d should have, defined on all its samples at once.
ExactRow(d) ==
  LET R == Rounds(d)
      Round(x) == dataset[x[1]][x[2]]
      Summed(i) == MapThenSumSet(LAMBDA x : Round(x)[i], R)
      Longer(i, p) == Cardinality({x \in R : Round(x)[i] > p})
      Per(num, den) == IF R = {} THEN <<0, 1>> ELSE <<num, den>>
  IN [dataset |-> d, num_samples |-> Sizes[d],
      draft_tokens |-> Per(Summed(2), Cardinality(R)),
      acceptance_length |-> Per(Summed(1), Cardinality(R)),
      verify_rate |-> Per(Summed(1), Summed(2) + Cardinality(R)),
      accept_rates |-> [p \in Pos |-> IF Longer(2, p) = 0 THEN None
                                      ELSE <<Longer(3, p), Longer(2, p)>>]]

\* Rank 0's rows are those of the first tasks that have samples, in order, and each
\* counts every sample of its task on whatever rank it ran exactly once, however
\* the ranks interleave and whichever of them fails: no partial result is ever
\* reported.  When the ranks are done every task has its row.
RowsExact ==
  LET tasks == SelectSeq([d \in Task |-> d], LAMBDA d : Sizes[d] > 0) IN
  /\ Len(rows) <= Len(tasks)
  /\ \A k \in DOMAIN rows : rows[k] = ExactRow(tasks[k])
  /\ (\A r \in Rank : pc[r] = "done") => Len(rows) = Len(tasks)

=============================================================================
