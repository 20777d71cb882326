# Verification of DeepSpec and its serving engine

TLA+ models of the parts of the repository whose correctness is hard to test, TLC configurations that check
them on small instances, and TLAPS proofs of the most important results for every instance.

## The system

The repository trains and evaluates draft models for speculative decoding (`src/DeepSpec`) and serves them
with a copy of SGLang (`src/sglang`) to which the LatentSpec drafter was added. The stages feed each other:

```
generate_train_data.py --> prepare_target_cache.py --> train.py --------------> eval.py
  JSONL of answers           shards, index, manifest     checkpoints              acceptance metrics
  JSONL dataset              cache dataset               sampler, prefetcher,     decoding loop
                                                         optimizer, metrics,      + one drafter
                                                         save/suspend/resume
                                                              |
                                                              +------------------> SGLang server
                                                                                   scheduler, radix cache, KV pool,
                                                                                   DFlash/LatentSpec worker
```

| Part | Source | Module | |
|---|---|---|---|
| decoding loop: propose, verify, commit | `deepspec/eval/base_evaluator.py`, `deepspec/utils/sampling.py` | `SpecDecode`, abstract `ARDecode` | checked, proved |
| block drafters MySpec (LatentSpec) and DSpark | `deepspec/eval/{myspec,dspark}`, attention and cache of `deepspec/modeling` | `BlockDraft` (with `SpecDecode`) | checked, proved |
| Eagle3 drafter | `deepspec/eval/eagle3` | `Eagle3Draft` (with `SpecDecode`) | checked, proved |
| evaluation driver and metrics | `deepspec/eval/base_evaluator.py` | `EvalMetrics` | checked |
| training schedule and sampler | `deepspec/trainer/base_trainer.py`, `deepspec/utils/distributed.py` | `DataOrder` | checked, proved |
| training loop, checkpoints, suspend and resume | `deepspec/trainer/{base_trainer,ckpt_manager}.py`, `deepspec/utils/{io,hfai_suspend}.py` | `Trainer` | checked, proved |
| optimizer and learning-rate schedule | `deepspec/utils/optim.py` | `LRSchedule` | checked, proved |
| metrics buffer and training logger | `deepspec/utils/{metrics,training_logger}.py` | `MetricsFlush` | checked |
| JSONL dataset and its shared index | `deepspec/data/jsonl_dataset.py` | `JsonlIndex` | checked, proved |
| target cache: writers, merging, reading | `scripts/data/prepare_target_cache.py`, `deepspec/data/target_cache_dataset.py` | `TargetCache` | checked |
| CUDA prefetcher | `deepspec/data/cuda_prefetcher.py` | `Prefetcher` | checked, proved |
| regeneration of training data | `scripts/data/generate_train_data.py` | `RegenData` | checked, proved |
| serving: radix cache | `srt/mem_cache/radix_cache.py` | `RadixTree` | checked in `Scheduler` |
| serving: scheduler, allocator, token table, DFlash decode | `srt/managers`, `srt/mem_cache`, `srt/speculative/dflash_*` | `Scheduler` | checked |
| serving: reservation for speculative decode | `srt/speculative/dflash_info_v2.py`, `srt/mem_cache/allocation.py` | `SpecReserve` | checked, proved |
| serving: LatentSpec drafter and its KV | `srt/models/latentspec.py`, `srt/speculative/dflash_worker_v2.py`, `srt/layers/attention/triton_backend.py` | `LatentServe` | checked, proved |

(`deepspec`, `scripts` are below `src/DeepSpec`, `srt` is `src/sglang/python/sglang/srt`.) `PROJECT.json`
lists every part with the reason where it is left out, the source lines of every definition, and the hazards
the properties were chosen for.

## The modules

An index `i` of the code is `i + 1` in TLA+ sequences, unless a module says otherwise. Every module is written
in one pattern: constants with a named assumption, variables named after the fields they stand for, one action
per handler or per atomic step of it, properties at the end. Definitions marked *Mutant* are wrong variants of
the one that follows them, used to see that a property notices the difference.

### SpecDecode, ARDecode

One call of `generate_decoding_sample` with an arbitrary drafter. `Prefill` is the prompt pass with the
early return; `Propose(p)` the propose callback; `RejectProposal` the two `ValueError`s; `Verify`
`verify_draft_tokens`; `Commit` the rest of the loop body; `Finish` truncation and trimming.

* A probability row is a function from tokens to integer weights. Rejection sampling may accept where the
  target weight is positive, may reject where it is smaller than the draft weight, and draws the
  replacement from where the target exceeds the draft. So the model says *which* samples are possible,
  not how often.
* A KV cache is the sequence of tokens its entries were computed from and a forward pass scores exactly
  that sequence, so a wrong crop changes the sampled rows instead of going unnoticed.
* `TargetProbs` is any function of the whole context. The buffer starts `Unwritten` (`torch.empty`).

`ARDecode` is the promise: the prompt followed by tokens sampled one after the other from the target, up
to the first stop token or the length limit. `AR == INSTANCE ARDecode WITH ...` maps the loop to it by what
it would return if it stopped now.

### BlockDraft, Eagle3Draft, Evaluators

The drafters as the callbacks of the same loop: their actions are those of `SpecDecode` conjoined with what
the callback does to the drafter's own state. A cache entry is the hidden state it came from (the tokens the
target had seen) and its RoPE position; for Eagle3 also the token it is fused with. Slices of
`position_ids` end where the tensor ends, as in Python. The confidence head is any choice of positions
below the threshold; the state starts with either of MySpec and DSpark. `Evaluators` is the choice `eval.py`
makes by the architecture of the draft model, with an arbitrary drafter as one more choice.

### EvalMetrics

`run_dataset`, `allreduce_response_metrics`, `build_metrics_row` and `evaluate` on all ranks. A sample is the
three lists its rounds leave behind, or a response without lists. Ranks take their strided share at their own
pace, may have nothing to do, and may fail at any sample; the two all-reduces are joint steps.

### DataOrder

`_compute_training_schedule` as operators of a configuration record, and the per-rank generator of
`StatelessResumableDistributedSampler` as epoch, offset and samples left. `Draw(r)` is one `next` of a
DataLoader, which may run ahead of training by any amount; `Restart(g)` launches the job again from the
checkpoint of step `g`, dropping what was drawn beyond it. The shuffle of an epoch is external; the model
uses a rotation by an arbitrary amount per epoch, because what matters is that it is a permutation that
depends on the epoch alone.

### Trainer

All ranks of a job, each at a program point. Collectives are joint steps, possible when all ranks stand at
them. `save_checkpoint` is split at every file write (begin and end, torn in between), at the barriers, and
at the two system calls of `safe_symlink`. `Launch` is `__init__` with `discover_latest_checkpoint` and
loading. A rank may crash anywhere; the others go on until a collective or until `KillJob`. Rank 0's
monitor thread may receive a suspend command at any time. The model assumes that `logging.resume_checkpoint_dir`
is the job's own checkpoint directory, so that a launch looks for `step_latest` where the job saves, and that the
job is always launched with the same number of ranks.

### LRSchedule

`BF16Optimizer` with `WarmupScheduler` and the cosine scheduler behind it. The weights are the sequence of
rates they were updated with and the precision they were kept in; a rate is a stage and a count. The cosine
computes its next rate from the one in the parameter group, so a resume that restores the counters and not the
rate yields `Wrong`. torch's `CosineAnnealingLR` is external; the model takes from it that `get_lr` at epoch 0
returns the group's rate and later multiplies it by the factor between two epochs.

### MetricsFlush

Every rank's buffer and the calls of `flush`, one collective at a time: the k-th collective of one rank meets
the k-th of the others, whatever they are for, which is what makes differing buffers dangerous. Values are
fractions. The reductions are the five in use (`ratio`, `last`, `mean`, `dp_mean`, `dp_sum`).

### JsonlIndex

Processes that open the same files and share a directory of line indexes. `_build_all_line_starts` is split at
every file operation, because another process may rename its own index into place, and another program may
rewrite a data file, in between. `Stop` kills a process anywhere, also between dump and rename. A rewrite is
taken to change the modification time; two rewrites within the clock's resolution are outside the model.

### TargetCache

Per rank a producer and a writer thread with the bounded queue between them; bytes are pairs of sample and
field, so that reading the wrong offset or shard shows. `Check`/`Put`/`PutTimeout` are the loop of `_put`,
`WriterStep` is `write_sample_bytes` with sharding and index record, `Rename` moves one shard,
`FinalizeIndex`, `WriteManifest` and `Cleanup` are rank 0's last steps. Write failures, crashes of a rank at
any point, and a second launch on the same directory are possible. Reading is the operators `ReadAsserts`
and `ReadField`.

### Prefetcher

The loop, the background thread, the two CUDA streams as queues and the caching allocator, which may hand out
a block as soon as no Python reference is left unless `record_stream` forbids it. Streams and allocator are
external and modelled from how the class relies on them. An exception of the DataLoader may end the thread.

### RegenData

The main thread, the request threads and up to three launches of the script, with and without `--resume`,
with any subset of servers up. A kill loses any suffix of what the launch wrote to each of its two buffered
files, possibly tearing a record.

### RadixTree, Scheduler

`RadixTree` is the prefix cache as operators on a value: matching, splitting, inserting, locking and evicting
whole pages. `Scheduler` composes it with the page allocator, the token table, the requests and
`event_loop_overlap`. One iteration takes in requests and aborts, merges the last batch, admits prefills with
`PrefillAdder` (possibly a chunk), checks memory and retracts, launches, and only then processes the result of
the batch before; `pc` walks through these steps. `Gpu` runs launched batches in order at any time after their
launch: it reads and writes the KV slots named in the batch, not those the host has meanwhile freed or handed
out; `ran` counts the queued batches that have run. `setup` says how the server was started, with or without speculation. A slot holds the tokens its key was computed from, for the target and for the draft model, so that reading
another request's page, or one freed too early, shows. Running out of memory where the code raises sets `err`.

The radix cache may evict any unlocked leaf, and the waiting queue may be served in any order: the code's
strategies and policies are choices the properties do not depend on. The new-token ratio is 0 or 1. With speculation
on, decode reserves two blocks beyond the committed length and a verify step commits any number of tokens.

### SpecReserve

The reservation alone, for one request and without page identities, so that it can be proved: `comm` and
`alloc` of the host, `dlen` of the device, and the two batches in flight. It adds `LaunchSync`, the iterations in
which `is_disable_overlap_for_batch` processes the last result before the launch.

### LatentServe

The draft pool below one row of the token table, layer by layer. `Extend` is the prefill branch of
`forward_batch_generation`; `StartDraft`, `RunLatentLayer`, `WriteLatentKV`, `RunProposalLayer` are the draft
model's forward pass; `Verify` and `AppendTargetHidden` the rest of the decode branch. An entry is named by its kind, the
forward pass of the target it belongs to, and its position; `origin` remembers which pass committed each
position, so that the entry of a rejected row can be told from the one committed there later. `Rematch` gives the
row, or a beginning of it, to the next request without clearing a slot. `Attended` is what the stage metadata
of the Triton backend lets a layer read, `Trained` what `forward_myspec_draft_block` gives the same layer in
DeepSpec. Slots past the row are the subject of `SpecReserve`, those of other requests of `Scheduler`. The
assumption `num_latent_tokens <= proposal_size` is what `cache_locs[:, :num_latent_tokens]` relies on.

## What the runs check

| Run | Instance | Shows |
|---|---|---|
| `specdecode` | 3 tokens (1 stop), 2 prompts, 4 new tokens, blocks of up to 2, target row a hash of the context; any drafter, the two block drafters with 4 latent tokens and a confidence head, or Eagle3 | losslessness, exact target cache, buffer bound, metric lists add up to the progress, refinement of `ARDecode`, every sample ends; the block drafters attend to exactly the hidden states of committed tokens at their positions and all slices fit; the Eagle3 cache always has the pairing used in training and every proposal can be undone |
| `regendata` | 4 lines, 2 servers, 2 requests each, 3 launches, 1 kill | every result written once, resume continues exactly, launches end |
| `regenkilled` | same | **violation**, see findings |
| `trainer` | 2 ranks, 5 steps of 2 micro steps, checkpoints every 2 steps and at epochs of 3, 2 crashes, 1 suspend | no mismatched collectives, `step_latest` never names missing or mixed files, a crash costs at most 2 steps unless it hits one of the two unsafe windows of a save (below), training completes unless a crash tore the linked checkpoint |
| `trainerlink` | 2 ranks, 2 steps of 1 micro step, a checkpoint at each, 1 crash, no suspend | **violation**, see findings |
| `targetcache` | 2 ranks, 4 samples of length 0, 1 or 3, shards of 16 bytes, queue of 1, 1 failure, 2 launches | a manifest implies a cache that reads back exactly the kept samples in order; asserts of writer and reader hold; no rename collision; a launched job ends |
| `prefetcher` | 5 batches, 4 blocks, 3 operations in flight, 1 exception | the GPU reads the batch the loop was given, order, termination |
| `prefetchererror` | same | **violation**, see findings |
| `job`, data order | all configurations with up to 5 samples, 2 ranks, batches up to 4; 2 epochs or 3 steps; 2 restarts | no sample twice per epoch, each step a full global batch of one epoch, same stream after restarts |
| `job`, learning rate | 6 steps, 0 to 6 of them warm-up, any saves, stops and resumes | the weights are those of an uninterrupted run: each step once, with its rate, in full precision |
| `job`, JSONL index | 2 processes, 2 files, one rewritten at any time: one grows or the other is emptied | a dataset whose files did not change yields every line once, in order; no torn index is loaded |
| `job`, metrics flush | 2 ranks, 5 metrics, 2 entries per window, windows of 2 steps | a flush that returns reports the reduction over all entries of all ranks; no rank waits in a collective the others do not enter |
| `job`, evaluation | 3 ranks, tasks of 4, 0 and 1 samples, 4 kinds of responses, failures | every row is exactly the metrics of all samples, whoever decoded them; a failed rank leaves no partial row |
| `serve`, reservation | blocks of 3, pages of 4, lengths up to 12 | a verify block lies in the row its batch was launched with |
| `serve`, drafter | 2 latent tokens, blocks of 3, 1 latent and 2 proposal layers, a row of 8 slots, 4 passes | every layer reads the context of the committed tokens and the latent keys of its own round |
| `scheduler` | pages of 2 tokens, 3 rows, chunks of 3, blocks of 3, any acceptance; without speculation 7 pages and 3 requests (`reqB` the second turn of `reqA`, `reqC` unrelated), with it 6 pages and the same three, or two longer ones; the second turn may be aborted | pages and locks accounted for in every state, every batch reads its own KV inside its own slots, no allocation fails, outputs are the model's own, every request ends |
| `scheduleradmission` | 2 pages of 8, an input of 9 tokens | **violation**, see findings |

`specdecode`, `job`, `serve` and `scheduler` are each one TLC run whose initial state chooses among several
instances: the drafter, the part, or the setup of the server. In `job` and `serve` the parts share no variable, so
the steps of one cannot matter to the properties of another; the chosen part moves and the others stay in an
initial state, which avoids a product of independent state spaces. A deadlock of the chosen part is a deadlock of
the run.

Why these bounds: blocks of 2 have all of none/partly/fully accepted and a stop token at each place, and the
length limit is reached in the middle of a block; the latent tokens are the most that fit the position tensor.
A shard holds one large or several small samples, and one sample can exceed it. Checkpoint period, epoch
length and number of steps are pairwise different, so that periodic, epoch-end, suspending and final saves
occur separately and together. Two crashes are one within a save and one within the next launch's save of the
same step. Queues of one or two entries are full most of the time. The page pools of the scheduler are too small
for all requests at once, so that eviction, retraction and aborts for lack of memory happen, and the second turn
contains the first one's answer, so that a prefix is shared, split and inserted twice; blocks and pages do not
divide each other in `serve`. In its drafter part a round can commit fewer tokens than there are latent ones, exactly as
many, and more, and three rounds follow a prefill. Three ranks share four samples, so one of them has two.

Deadlock is checked in every run but `serve`, where the row of the drafter is used up after `MaxRound` passes. Where a system may rest there are explicit stuttering actions (`Ended`, `Terminated`, `Idle`,
`Exhausted`), or a step that remains possible.

### Fairness

Weak fairness throughout, and only for code that runs by itself: the single thread of the decoding loop; each
rank's local steps, and collectives once all ranks have arrived; producer and writer threads; both CUDA
streams; the DataLoaders; the main thread of `generate_train_data.py` and each of its requests; the scheduler's
event loop and the forward stream. The script sets no timeout of its own: that a request returns or fails rests
on the default timeout of the OpenAI client. In `Trainer` and `TargetCache` a job with a dead rank is taken down
(the spawning parent, or the launcher, ends the other processes), and `Trainer` assumes that a job that is down
is launched again, as the cluster does after a suspend. No crash, kill, suspend command or write failure is ever
obliged to happen, nor a launch of the two data scripts, nor the arrival or abort of a request.

In `Scheduler` the two conditions are stated on the variable each side moves, `WF_pc(HostMoves)` and
`WF_ran(GpuMoves)`: the event loop can step unless it waits for a result, and each of its steps moves `pc` or
retracts one of finitely many requests before it does; the forward stream can step while a launched batch has not
run, and counts it in `ran`.

### Findings

* `regenkilled`: `generate_train_data.py --resume` skips as many input lines as were written, but lines are
  written in completion order; after a kill a line can be skipped that has no result, and the script finally
  prints that all samples are processed.
* `trainerlink`: `safe_symlink` unlinks and then links; a crash in between leaves no `step_latest` and the next
  launch trains from scratch.
* `prefetchererror`: `CUDAPrefetcher` handles `StopIteration` only; any other exception of the DataLoader is
  lost in the thread and the previous batch is trained on again.
* `scheduleradmission`: an input whose length rounded up to pages leaves no room for the admission budget is
  accepted by the intake and refused by `PrefillAdder` in every iteration; `batch_is_full`, set on the way, also
  keeps out later requests. The comment at the clip of `max_new_tokens` says that this bound prevents it.

A remark on the drafter: the comment on the latent slots (`srt/models/latentspec.py:160`) says that target
verification overwrites them after the draft forward. The worker rebuilds only the committed rows of the draft
pool, so latent keys may stay in slots behind them. That is harmless: `AttendsAsTrained` shows that none is read.

## What is proved

Each proof finds an inductive invariant `IInv`, shows that it holds initially, that every action preserves it
(one step or lemma per action), and that it implies the property.

`SpecDecodeProofs` — for every vocabulary, stop set, prompt set, length limits, target function and set of
proposals that satisfy the assumptions of `SpecDecode` (weights are naturals, rows come from `Rows`, a
proposal has one row per draft token): `Lossless`, `CacheHoldsCommitted`, `CommitFitsBuffer`, `TypeOK`.
`Lossless` is not inductive: a commit keeps it only because the block was scored over a cache that
holds exactly the committed tokens and because its kept prefix was found sampleable. `IInv` therefore joins
`Lossless` with `CacheHoldsCommitted`, `VerifiedBlock` (what `Verify` leaves for `Commit`), `StartWithinSample`
and `TypeOK`. The sequence lemmas say what a buffer with a block written into it has as its prefixes.

`SpecRefinementProofs` — two results on top of that invariant. `MetricsDescribeTheLoop`: the acceptance lengths
add up to the tokens the loop advanced by, and no round accepts more than it proposed. The sum is a recursive
function of the list of rounds; that it exists and grows by the last entry is shown by the least length for which
it would not. `RefinesAutoregressive`: the loop implements `ARDecode`. Under the mapping a prefill samples the
first token, a commit samples as many tokens as it adds to what the loop would return now, and everything else
stutters. The step that needs an argument is the commit: the tokens of a block after its first stop token, or
beyond the length limit, must not be counted, and every one before was sampled from the row of its own prefix.
`StopInv` adds that the committed tokens hold a stop token only once the loop has decided to stop.

`DraftProofs` — for every number of latent tokens that `position_ids` has room for (`LatentAssumption`), with and
without a confidence head, and everything `SpecDecodeProofs` is general in: `BlockSeesCommitted`,
`BlockShapesMatch`, `EagleCacheAsTrained`, `EagleProposalUndoable`. `EvaluatorsRunTheLoop` shows that the loop
with the callbacks of any evaluator is the loop of `SpecDecode`, whose `IInv` then says which hidden states the
callbacks receive. The properties of the block drafters speak of the state between rounds only; `BlockInv` adds
that during a round the whole committed context is cached and nothing else. `EagleInv` adds that during a round the
cache begins with the trained pairing, the drafter's entries follow, and `current_pos` has not moved. `RoundFacts`
is the lemma both commits rest on: the hidden states of the kept block are those of the tokens just written.

`TrainerProofs` — for any number of ranks, steps, accumulation steps, checkpoint intervals, crashes and suspends:
`CollectivesMatch`, `ConsistentCheckpoint`, `LossBounded`. Between two collectives all ranks are in the same stage
of the same optimizer step, the dead ones included, because nobody passes a collective without them. `IInv` is
the existence of that step and stage (`At`), with what the stage says of the program points of the ranks, of the
files of the step, and of the distance to `step_latest`. A collective moves all ranks to the next stage; every
other action stays within one. `LossBounded` says in full what a crash costs: at most `checkpointing_steps` steps,
except in two windows. In one, a suspend or final save rewrites in place the step that `step_latest` names; a crash
there tears the checkpoint and every launch raises (`Damaged`). In the other, rank 0 is between the `unlink` and the
`symlink_to` of `safe_symlink`; a crash there costs all steps, as `trainerlink` shows, although the files of the
step are complete on disk. The bound holds again for the launch that follows such a crash.

`PrefetcherProofs` — for any number of batches, blocks and operations in flight: `ComputesItsBatch` and
`OrderUnlessError`. The y-th batch puts a wait and a read on the compute stream. `IInv` says of every read that
is still to come that its block holds the batch, or that the copy of the batch is the last one queued into that
block and is covered by the wait before the read; a block with a read to come is recorded, so the allocator does
not hand it out.

`RegenDataProofs` — for any number of lines, servers, requests in flight, launches and kills: `EachResultOnce` and
`ResumeContinues`. `Places` says that a range of samples is divided among the queues and the two files, each
sample in one place; `IInv` asserts it twice, for the launch with the records behind those it found, and, while
nothing was killed, for all launches with the whole files. The first gives `EachResultOnce`; the second makes
the number of lines the number of the last sample, by a bijection, so that a resumed launch starts right behind
it. After a kill the second no longer holds, which is the finding `regenkilled`.

`ScheduleProofs` — the training schedule, the learning rate and the reservation of the server.
For every configuration that passes the asserts (`ConfigAssumption`): `ScheduleExact`
(the integer divisions of the schedule lose nothing: an epoch of a rank is `steps_per_epoch` whole steps),
and over any number of draws and restarts `TypeOK`, `DrawsAddUp` and `SameStream`. `IInv` says that a sampler
stands at `epoch * per_rank + offset` = number of samples drawn, that drawn and left add up, and that each drawn
sample is the one at its place; the proof rests on the uniqueness of quotient and remainder, stated as a lemma
like the other facts of non-linear arithmetic.
For every number of steps and of warm-up steps: `SameTrajectory` over any saves, stops and
resumes. `TrajectoryInv` says that the whole optimizer, its schedulers and the file are functions of a step number
(`OptAt`, `StateAt`); `StepAdvances` goes through the warm-up, its last step, where the two schedulers hand over,
and the cosine.
For every block and page size and every length: `AlwaysInReserve`. A block fits because the
row of the newer batch in flight was computed when the older one was not committed: `ReserveInv` relates how far the
device is ahead of the host to the batches in flight, and gives each of them a row that leaves room for all that
may be committed before it runs. `CeilAlignBounds` is the arithmetic of rounding to pages.

`CacheProofs` — the shared line index and the draft KV of the server.
For any number of processes, files, versions and kills: the index of a file that was not
written since it was looked at is the file's own (`IndexIsCurrent`), and no process loads a torn one. `IndexIInv`
is `TypeInv /\ CacheInv /\ ProcInv`: a shared index whose key names the file's present version is the index of
that version (under an older key it is whole but may be of a later version: nobody who saw the new file looks
that key up), and a process between
two file operations knows of its key and its index what it needs for the next one.
That every line is then read once and in order (`ReadsItsLines`) is checked by TLC.
For every number of latent tokens, block size and depth of the two stacks:
`AttendsAsTrained`. `IInv` says that every committed slot holds its context in every layer, except for the rows of
a verification that is still being appended, and that the latent keys of the layer that reads are those just
written; nothing is assumed of the slots behind.

Only model-checked:

* all liveness properties: fairness and `ENABLED` are beyond the proof system;
* what depends on the value of a recursive operator or a fold over data for every input: `ManifestMeansReadable`
  and `NothingLost` (offsets and lengths of the target cache), `FlushIsGlobal`, `EvalRowsExact`, `ReadsItsLines`;
* `EpochOnce` and `StepIsGlobalBatch`, which speak of the permutations of whole epochs over all ranks;
* the properties of `Scheduler`, whose invariants relate a radix tree, pages, requests and two batches in flight.

## What is not modelled

* Numeric code (networks, heads, losses, AdamW, confidence histograms): its values are real numbers. Exact
  sampling distributions: rows are integer weights, only supports are compared.
* Anchors, attention masks and positions of the training batches: pure tensor functions without state.
* String and tokenizer work (`parser.py`, templates, reports), configuration, entry points and one-shot scripts.
* `target_realtime_*.py` is imported nowhere.
* In the target cache: batching (samples reach the writer in source order either way), the reader's private map
  of open shards, padding.
* In the scheduler: grammars (but see `LaunchSync`), mixed chunks, bigram keys, sliding-window, Mamba and
  hierarchical pools, data and pipeline parallelism, disaggregation, beams, priorities and preemption,
  prefill-only requests, timeouts, LoRA, the tile budget of prefills, stop tokens (requests end by length or
  abort), inputs the intake rejects. The order of pages within a group that is freed together is simplified.
* In the LatentSpec worker: CUDA graphs (they replay the same stages over static buffers), sampling of the draft,
  the compact draft window, loading of the checkpoint.
* The rest of SGLang: models, kernels, quantization, front ends, other speculative algorithms. It is over a million
  lines, nearly all of the repository, and without a state machine that the LatentSpec path depends on;
  the modules therefore cover a small share of the repository's lines and most of the stateful code that was
  written or changed for it.
