----------------------------- MODULE TargetCache -----------------------------
(***************************************************************************)
(* scripts/data/prepare_target_cache.py and the storage protocol of        *)
(* data/target_cache_dataset.py: every rank runs the target model over its *)
(* range of the source samples and hands the results to a writer thread,   *)
(* which appends them to shards and to a local index; then rank 0 numbers  *)
(* the shards of all ranks, every rank renames its own, and rank 0 writes  *)
(* the global index and, last, the manifest that makes the cache readable. *)
(*                                                                         *)
(* A byte is the pair of the sample and the field it belongs to; a shard   *)
(* is a sequence of bytes.  A source sample is given by its length, 0 when *)
(* the collator drops it.  Batching is left out: samples reach the writer  *)
(* one by one in source order.                                             *)
(***************************************************************************)
EXTENDS Integers, Sequences, SequencesExt, FiniteSets, Functions

CONSTANTS
    WorldSize,      \* world_size
    NumSamples,     \* len(dataset)
    Lengths,        \* the sequence lengths a sample may have, 0 for a dropped one
    Width,          \* bytes per token of the five fields of a sample
    MaxShardBytes,  \* args.max_shard_bytes
    QueueSize,      \* max_queue_size
    MaxLaunches,    \* bound on the launches of the script
    MaxFailures     \* bound on write failures and crashes

ASSUME CacheAssumption ==
    /\ {WorldSize, NumSamples, MaxShardBytes, QueueSize} \subseteq Nat \ {0}
    /\ Lengths \subseteq Nat
    /\ Width \in Seq(Nat \ {0}) /\ Len(Width) = 5
    /\ MaxLaunches \in Nat /\ MaxFailures \in Nat

Ranks == 0..WorldSize - 1
Main == 0
Samples == 0..NumSamples - 1
Fields == 1..5               \* input_ids, attention_mask, loss_mask, two hidden states
FieldsRead == {1, 3, 4, 5}   \* what __getitem__ returns
None == <<>>                 \* no summary, no index, no manifest yet

VARIABLES
    lens,        \* the length of each source sample
    exists,      \* the output directory is not empty
    pc,          \* where the main thread of each rank is
    src,         \* the next source sample of each rank
    produced,    \* AsyncTargetCacheWriter.num_local_samples
    queue,       \* the queue to the writer thread
    thread,      \* the writer thread: "none", "run", "closed" or "failed"
    shards,      \* the local shards of each rank
    localIndex,  \* samples.local.idx of each rank
    summary,     \* the number of local shards in each summary.json
    renamed,     \* how many shards each rank has renamed
    output,      \* the shards in the output directory, by number
    index,       \* samples.idx
    manifest,    \* manifest.json: the numbers of samples and shards
    launches,    \* launches so far
    failures     \* failures so far

local == <<src, produced, queue, thread, shards, localIndex>>
disk == <<summary, renamed, output, index, manifest>>
env == <<lens, exists, launches, failures>>
vars == <<env, pc, local, disk>>

-----------------------------------------------------------------------------
(* Pure parts. *)

MinOf(a, b) == IF a < b THEN a ELSE b

\* compute_local_sample_range: the first source sample of a rank and the one
\* after its last.
LocalRange(r) ==
    LET base == NumSamples \div WorldSize
        remainder == NumSamples % WorldSize
        start == r * base + MinOf(r, remainder)
    IN  <<start, start + base + (IF r < remainder THEN 1 ELSE 0)>>

\* expected_target_cache_tensor_nbytes
FieldBytes(len, f) == len * Width[f]

\* build_target_cache_sample_bytes: the bytes of all fields of a sample.
FieldOf(s, f) == [i \in 1..FieldBytes(lens[s], f) |-> <<s, f>>]
SampleBytes(s) == FlattenSeq([f \in Fields |-> FieldOf(s, f)])

\* The fields stand one after the other: where field f of a sample of the given
\* length begins when the sample begins at offset.
FieldOffset(offset, len, f) ==
    offset + SumFunctionOnSet([g \in Fields |-> FieldBytes(len, g)], 1..f - 1)

\* _ensure_shard: a sample larger than a shard gets one of its own.
NeedsShard(open, nbytes) ==
    \/ open = <<>>
    \/ Len(Last(open)) > 0 /\ Len(Last(open)) + nbytes > MaxShardBytes

\* The shards after _ensure_shard and the writes of write_sample_bytes.
Ensured(open, nbytes) == IF NeedsShard(open, nbytes) THEN Append(open, <<>>) ELSE open
WithSample(open, s) ==
    LET ready == Ensured(open, Len(SampleBytes(s)))
    IN  [ready EXCEPT ![Len(ready)] = @ \o SampleBytes(s)]

\* current_shard_size when the sample is written.
OffsetOf(open, s) == Len(Last(Ensured(open, Len(SampleBytes(s)))))

\* pack_index_record; shard numbers count from 0.
IndexRecord(id, open, s) ==
    [id |-> id, shard |-> Len(WithSample(open, s)) - 1, len |-> lens[s],
     offset |-> [f \in Fields |-> FieldOffset(OffsetOf(open, s), lens[s], f)]]

\* build_global_target_cache_shard_map: the ranks in the order of their ranges.
GlobalShard(r, k) == SumFunctionOnSet(summary, 0..r - 1) + k

-----------------------------------------------------------------------------
(* Launching, and the main thread of a rank up to its summary. *)

NoRank(value) == [r \in Ranks |-> value]

Init ==
    /\ lens \in [Samples -> Lengths]
    /\ exists = FALSE
    /\ pc = NoRank("down")
    /\ src = NoRank(0) /\ produced = NoRank(0) /\ queue = NoRank(<<>>)
    /\ thread = NoRank("none")
    /\ shards = NoRank(<<>>) /\ localIndex = NoRank(<<>>)
    /\ summary = NoRank(0) /\ renamed = NoRank(0)
    /\ output = <<>> /\ index = None /\ manifest = None
    /\ launches = 0 /\ failures = 0

\* prepare_target_cache_output_dir raises when the directory is not empty.
MayPrepare == ~exists

\* A launch, with possibly other data; up to the start of the writer threads.
Launch ==
    /\ \A r \in Ranks : pc[r] \in {"down", "done"}
    /\ launches < MaxLaunches
    /\ MayPrepare
    /\ launches' = launches + 1
    /\ exists' = TRUE
    /\ lens' \in IF launches = 0 THEN {lens} ELSE [Samples -> Lengths]
    /\ pc' = NoRank("check")
    /\ src' = [r \in Ranks |-> LocalRange(r)[1]]
    /\ produced' = NoRank(0) /\ queue' = NoRank(<<>>)
    /\ thread' = NoRank("run")
    /\ shards' = NoRank(<<>>) /\ localIndex' = NoRank(<<>>)
    /\ renamed' = NoRank(0) /\ summary' = NoRank(0)
    /\ UNCHANGED <<output, index, manifest, failures>>

\* The end of a rank's range: every sample was put, the sentinel is next.
AtEnd(r) == src[r] = LocalRange(r)[2]

\* Mutant: samples keep their number in the source.
SourceNumbered(r) == IF AtEnd(r) THEN [kind |-> "sentinel"]
                     ELSE [kind |-> "sample", id |-> src[r] - LocalRange(r)[1], sample |-> src[r]]

\* The sentinel, or the next sample with its local number.
Item(r) == IF AtEnd(r) THEN [kind |-> "sentinel"]
                       ELSE [kind |-> "sample", id |-> produced[r], sample |-> src[r]]

\* The collator dropped the sample.
Dropped(r) == ~AtEnd(r) /\ lens[src[r]] = 0
Skip(r) ==
    /\ pc[r] = "check" /\ Dropped(r)
    /\ src' = [src EXCEPT ![r] = @ + 1]
    /\ UNCHANGED <<env, pc, produced, queue, thread, shards, localIndex, disk>>

\* Mutant: the loop of _put does not look for a failure of the thread.
NeverRaises(r) == FALSE

\* _raise_if_failed
RaiseIfFailed(r) == thread[r] = "failed"

\* _put, of a sample or of the sentinel: the check at the head of its loop; a
\* failure leaves main through the finally clause and ends the rank.
Check(r) ==
    /\ pc[r] = "check" /\ ~Dropped(r)
    /\ pc' = [pc EXCEPT ![r] = IF RaiseIfFailed(r) THEN "dead" ELSE "put"]
    /\ UNCHANGED <<env, local, disk>>

\* The queue is not full.
HasRoom(r) == Len(queue[r]) < QueueSize

\* queue.put succeeds.
Put(r) ==
    /\ pc[r] = "put" /\ HasRoom(r)
    /\ queue' = [queue EXCEPT ![r] = Append(@, Item(r))]
    /\ IF AtEnd(r)
       THEN pc' = [pc EXCEPT ![r] = "join"] /\ UNCHANGED <<src, produced>>
       ELSE /\ pc' = [pc EXCEPT ![r] = "check"]
            /\ src' = [src EXCEPT ![r] = @ + 1]
            /\ produced' = [produced EXCEPT ![r] = @ + 1]
    /\ UNCHANGED <<env, thread, shards, localIndex, disk>>

\* queue.put times out, and the loop starts again.
PutTimeout(r) ==
    /\ pc[r] = "put" /\ ~HasRoom(r)
    /\ pc' = [pc EXCEPT ![r] = "check"]
    /\ UNCHANGED <<env, local, disk>>

\* close after the thread ended, and summary.json.
Join(r) ==
    /\ pc[r] = "join" /\ thread[r] # "run"
    /\ IF thread[r] = "failed"
       THEN pc' = [pc EXCEPT ![r] = "dead"] /\ UNCHANGED summary
       ELSE /\ pc' = [pc EXCEPT ![r] = "summarized"]
            /\ summary' = [summary EXCEPT ![r] = Len(shards[r])]
    /\ UNCHANGED <<env, local, renamed, output, index, manifest>>

-----------------------------------------------------------------------------
(* The writer thread. *)

\* _run takes the next item: write_sample_bytes, or the end.
WriterStep(r) ==
    /\ thread[r] = "run" /\ queue[r] # <<>> /\ pc[r] # "dead"
    /\ queue' = [queue EXCEPT ![r] = Tail(@)]
    /\ LET item == Head(queue[r])
       IN  IF item.kind = "sentinel"
           THEN /\ thread' = [thread EXCEPT ![r] = "closed"]
                /\ UNCHANGED <<shards, localIndex>>
           ELSE /\ shards' = [shards EXCEPT ![r] = WithSample(@, item.sample)]
                /\ localIndex' = [localIndex EXCEPT ![r] =
                      Append(@, IndexRecord(item.id, shards[r], item.sample))]
                /\ UNCHANGED thread
    /\ UNCHANGED <<env, pc, src, produced, disk>>

\* A write raises, for instance when the disk is full: the thread ends with
\* the item lost.
WriterFails(r) ==
    /\ thread[r] = "run" /\ queue[r] # <<>> /\ pc[r] # "dead"
    /\ failures < MaxFailures
    /\ failures' = failures + 1
    /\ queue' = [queue EXCEPT ![r] = Tail(@)]
    /\ thread' = [thread EXCEPT ![r] = "failed"]
    /\ UNCHANGED <<lens, exists, launches, pc, src, produced, shards, localIndex, disk>>

-----------------------------------------------------------------------------
(* Making one cache of the ranks' parts. *)

AllAt(point) == \A r \in Ranks : pc[r] = point

\* The barrier after the summaries, and the broadcast of the shard map.
ShareShardMap ==
    /\ AllAt("summarized")
    /\ pc' = NoRank("rename")
    /\ UNCHANGED <<env, local, disk>>

\* rename_local_target_cache_shards, one shard at a time.
RenameTarget(r, k) == GlobalShard(r, k)
Rename(r) ==
    /\ pc[r] = "rename"
    /\ IF renamed[r] < summary[r]
       THEN /\ output' = [k \in DOMAIN output \cup {RenameTarget(r, renamed[r])} |->
                             IF k = RenameTarget(r, renamed[r])
                             THEN shards[r][renamed[r] + 1] ELSE output[k]]
            /\ renamed' = [renamed EXCEPT ![r] = @ + 1]
            /\ UNCHANGED pc
       ELSE pc' = [pc EXCEPT ![r] = "renamed"] /\ UNCHANGED <<output, renamed>>
    /\ UNCHANGED <<env, local, summary, index, manifest>>

\* Mutant: rank 0 does not wait for the other ranks.
MainRenamed == pc[Main] = "renamed"

\* The barrier after the renaming.
RenamedByAll == AllAt("renamed")

\* finalize_target_cache_index: the records of all ranks, numbered again.
GlobalRecords ==
    LET ofRank(r) == [i \in DOMAIN localIndex[r] |->
                         [localIndex[r][i] EXCEPT !.shard = GlobalShard(r, @)]]
        all == FlattenSeq([i \in 1..WorldSize |-> ofRank(i - 1)])
    IN  [i \in DOMAIN all |-> [all[i] EXCEPT !.id = i - 1]]

FinalizeIndex ==
    /\ RenamedByAll
    /\ index' = GlobalRecords
    /\ pc' = [pc EXCEPT ![Main] = "indexed"]
    /\ UNCHANGED <<env, local, summary, renamed, output, manifest>>

\* _write_manifest: an atomic replacement of manifest.json.
WriteManifest ==
    /\ pc[Main] = "indexed"
    /\ manifest' = <<SumFunctionOnSet([r \in Ranks |-> produced[r]], Ranks),
                     SumFunctionOnSet(summary, Ranks)>>
    /\ pc' = [pc EXCEPT ![Main] = "cleanup"]
    /\ UNCHANGED <<env, local, summary, renamed, output, index>>

\* cleanup_target_cache_tmp_dir removes the local indexes and summaries; the
\* last barrier.
Cleanup ==
    /\ pc[Main] = "cleanup"
    /\ \A r \in Ranks \ {Main} : pc[r] = "renamed"
    /\ localIndex' = NoRank(<<>>) /\ summary' = NoRank(0)
    /\ pc' = NoRank("done")
    /\ UNCHANGED <<env, src, produced, queue, thread, shards, renamed, output, index, manifest>>

-----------------------------------------------------------------------------
(* Crashes. *)

Crash(r) ==
    /\ pc[r] \notin {"down", "dead", "done"}
    /\ failures < MaxFailures
    /\ failures' = failures + 1
    /\ pc' = [pc EXCEPT ![r] = "dead"]
    /\ UNCHANGED <<lens, exists, launches, local, disk>>

\* A dead rank ends the job.
KillJob ==
    /\ \E r \in Ranks : pc[r] = "dead"
    /\ pc' = NoRank("down")
    /\ thread' = NoRank("none")
    /\ UNCHANGED <<env, src, produced, queue, shards, localIndex, disk>>

\* Nobody launches the script, or it refuses.
Idle == (\A r \in Ranks : pc[r] \in {"down", "done"}) /\ UNCHANGED vars

MainThread(r) == Skip(r) \/ Check(r) \/ Put(r) \/ PutTimeout(r) \/ Join(r) \/ Rename(r)
Shared == ShareShardMap \/ FinalizeIndex \/ WriteManifest \/ Cleanup

Next ==
    \/ Launch \/ Shared \/ KillJob \/ Idle
    \/ \E r \in Ranks : MainThread(r) \/ WriterStep(r) \/ WriterFails(r) \/ Crash(r)

\* Every thread runs, collectives that all have reached complete, a job with a
\* dead rank is ended.
Fairness ==
    /\ \A r \in Ranks : WF_vars(MainThread(r)) /\ WF_vars(WriterStep(r))
    /\ WF_vars(Shared) /\ WF_vars(KillJob)

Spec == Init /\ [][Next]_vars /\ Fairness

-----------------------------------------------------------------------------
(* Reading: CacheDataset. *)

\* _read_tensor_from_shard
ReadField(rec, f) ==
    SubSeq(output[rec.shard], rec.offset[f] + 1, rec.offset[f] + FieldBytes(rec.len, f))

\* The asserts of _read_record, __getitem__ and _read_tensor_from_shard.
ReadAsserts(i) ==
    LET rec == index[i + 1]
    IN  /\ i + 1 \in DOMAIN index /\ rec.id = i /\ rec.len > 0
        /\ rec.shard \in DOMAIN output
        /\ \A f \in FieldsRead :
              rec.offset[f] + FieldBytes(rec.len, f) <= Len(output[rec.shard])

-----------------------------------------------------------------------------
(* Properties. *)

Kept == SetToSortSeq({s \in Samples : lens[s] > 0}, <)

\* A manifest is only there when the cache is complete, whatever failed or
\* crashed before or after: reading succeeds for every number of the manifest,
\* no assert of the reader fails, and the samples are the kept ones of the
\* source, in its order, with the bytes of their own fields.
ManifestMeansReadable ==
    manifest # None =>
        /\ manifest[1] = Len(Kept) /\ DOMAIN output = 0..manifest[2] - 1
        /\ \A i \in 0..manifest[1] - 1 :
              /\ ReadAsserts(i)
              /\ \A f \in FieldsRead : ReadField(index[i + 1], f) = FieldOf(Kept[i + 1], f)

\* Both asserts about numbering hold: close finds that the thread wrote as many
\* samples as were put ("lost samples"), and finalize_target_cache_index finds
\* the local index ordered by local sample number.  And no rank ever takes the
\* name of another rank's shard in the output directory, which would replace it.
NothingLost ==
    \A r \in Ranks :
        /\ pc[r] = "join" /\ thread[r] = "closed" => Len(localIndex[r]) = produced[r]
        /\ \A i \in DOMAIN localIndex[r] : localIndex[r][i].id = i - 1
        /\ pc[r] = "rename" /\ renamed[r] < summary[r] =>
              RenameTarget(r, renamed[r]) \notin DOMAIN output

\* A launched job ends, with a cache or with an error: a writer thread that
\* fails with the queue full never leaves its producer waiting.
JobEnds == (launches = 1) ~> (\A r \in Ranks : pc[r] \in {"down", "done"})

=============================================================================
