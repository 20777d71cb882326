------------------------------ MODULE Prefetcher ------------------------------
(***************************************************************************)
(* data/cuda_prefetcher.py and the loop that iterates over it: a           *)
(* background thread takes the next batch from the DataLoader and queues   *)
(* its copy to the GPU on a side stream, while the compute stream works on *)
(* the batch before.                                                       *)
(*                                                                         *)
(* Batch n is the n-th one of the DataLoader.  A CUDA stream is a queue of *)
(* operations that the GPU executes in order, the two streams against each *)
(* other in any order.  The caching allocator may hand a block out again   *)
(* as soon as Python holds no reference to it, unless record_stream was    *)
(* called: then not before the work queued on that stream is done.         *)
(***************************************************************************)
EXTENDS Integers, Sequences

CONSTANTS
    NumBatches,  \* batches of the DataLoader
    Blocks,      \* blocks of GPU memory
    MaxAhead,    \* bound on the compute operations in flight
    MaxErrors    \* bound on the exceptions of the DataLoader

ASSUME PrefetcherAssumption ==
    /\ NumBatches \in Nat /\ MaxAhead \in Nat \ {0} /\ MaxErrors \in Nat
    /\ 0 \notin Blocks

VARIABLES
    main,      \* the training loop: "iter", "next", "compute" or "end"
    thread,    \* the background thread: "none", "fetch", "transfer" or "over"
    pos,       \* batches taken from the DataLoader
    done,      \* _done
    gpuBatch,  \* _gpu_batch: the block, and the number of the batch meant to be in it
    held,      \* the batch of the loop
    yielded,   \* the batches the loop was given
    recorded,  \* the blocks record_stream was called for
    side,      \* the side stream: copies not executed yet
    compute,   \* the compute stream: operations not executed yet
    issued,    \* copies queued so far
    mem,       \* the batch that is really in each block
    computed,  \* what the compute stream has read
    errors     \* exceptions so far

vars == <<main, thread, pos, done, gpuBatch, held, yielded, recorded, side, compute, issued,
          mem, computed, errors>>
gpu == <<side, compute, mem, computed>>

NoBatch == [block |-> 0, batch |-> 0]

Init ==
    /\ main = "iter" /\ thread = "none"
    /\ pos = 0 /\ done = FALSE
    /\ gpuBatch = NoBatch /\ held = NoBatch /\ yielded = <<>>
    /\ recorded = {} /\ issued = 0
    /\ side = <<>> /\ compute = <<>>
    /\ mem = [b \in Blocks |-> 0] /\ computed = <<>>
    /\ errors = 0

-----------------------------------------------------------------------------
(* _fetch_and_transfer, in the thread, or in __iter__ for the first batch. *)

\* next(self._iter): a batch, or StopIteration.
Fetch ==
    /\ thread = "fetch"
    /\ IF pos < NumBatches
       THEN pos' = pos + 1 /\ thread' = "transfer" /\ UNCHANGED done
       ELSE done' = TRUE /\ thread' = "over" /\ UNCHANGED pos
    /\ UNCHANGED <<main, gpuBatch, held, yielded, recorded, issued, gpu, errors>>

\* Any other exception ends the thread, or leaves __iter__; the batch may be
\* lost, as it is when a worker process of the DataLoader raised.
FetchRaises ==
    /\ thread = "fetch"
    /\ errors < MaxErrors
    /\ errors' = errors + 1
    /\ thread' = "over"
    /\ main' = IF main = "iter" THEN "end" ELSE main
    /\ pos' \in {pos, pos + 1} \cap 0..NumBatches
    /\ UNCHANGED <<done, gpuBatch, held, yielded, recorded, issued, gpu>>

\* The blocks the allocator may hand out.
PendingReads(b) == \E i \in DOMAIN compute : compute[i].op = "read" /\ compute[i].block = b
Free(b) ==
    /\ b # gpuBatch.block /\ b # held.block
    /\ b \in recorded => ~PendingReads(b)

\* move_batch_to_device on the side stream: a block, the copy, and the
\* assignment to _gpu_batch.
Transfer ==
    /\ thread = "transfer"
    /\ \E b \in Blocks :
          /\ Free(b)
          /\ side' = Append(side, [block |-> b, batch |-> pos])
          /\ gpuBatch' = [block |-> b, batch |-> pos]
          /\ recorded' = recorded \ {b}
    /\ issued' = issued + 1
    /\ thread' = "over"
    /\ UNCHANGED <<main, pos, done, held, yielded, compute, mem, computed, errors>>

-----------------------------------------------------------------------------
(* The training loop. *)

\* __iter__ fetches the first batch itself.
Iter ==
    /\ main = "iter" /\ thread = "none"
    /\ thread' = "fetch"
    /\ UNCHANGED <<main, pos, done, gpuBatch, held, yielded, recorded, issued, gpu, errors>>

IterReturns ==
    /\ main = "iter" /\ thread = "over"
    /\ thread' = "none"
    /\ main' = "next"
    /\ UNCHANGED <<pos, done, gpuBatch, held, yielded, recorded, issued, gpu, errors>>

\* Mutant: the thread is not joined.
NoJoin == TRUE

\* self._thread.join()
Joined == thread \in {"none", "over"}

\* current.wait_stream(self.stream): what is queued on the compute stream later
\* waits for the copies issued so far.
WithWait == Append(compute, [op |-> "wait", copies |-> issued])

\* Mutant: record_stream is not called.
NoRecord(b) == recorded

\* value.record_stream(current)
WithRecord(b) == recorded \cup {b}

\* __next__ when there is a batch: the thread for the one after is started
\* before the batch is returned.
NextBatch ==
    /\ main = "next" /\ Joined /\ ~done
    /\ Len(compute) < MaxAhead
    /\ compute' = WithWait
    /\ recorded' = WithRecord(gpuBatch.block)
    /\ held' = gpuBatch
    /\ yielded' = Append(yielded, gpuBatch.batch)
    /\ thread' = "fetch"
    /\ main' = "compute"
    /\ UNCHANGED <<pos, done, gpuBatch, issued, side, mem, computed, errors>>

\* __next__ raises StopIteration.
StopIter ==
    /\ main = "next" /\ Joined /\ done
    /\ main' = "end"
    /\ thread' = "none"
    /\ UNCHANGED <<pos, done, gpuBatch, held, yielded, recorded, issued, gpu, errors>>

\* Mutant: the last batch is dropped when the thread has found the end.
DropLast ==
    /\ main = "compute"
    /\ compute' = IF done THEN compute
                  ELSE Append(compute, [op |-> "read", block |-> held.block])
    /\ main' = "next"
    /\ UNCHANGED <<thread, pos, done, gpuBatch, held, yielded, recorded, issued, side, mem,
                   computed, errors>>

\* Forward and backward: queued on the compute stream.
RunBatch ==
    /\ main = "compute"
    /\ compute' = Append(compute, [op |-> "read", block |-> held.block])
    /\ main' = "next"
    /\ UNCHANGED <<thread, pos, done, gpuBatch, held, yielded, recorded, issued, side, mem,
                   computed, errors>>

-----------------------------------------------------------------------------
(* The GPU. *)

CopyDone ==
    /\ side # <<>>
    /\ mem' = [mem EXCEPT ![Head(side).block] = Head(side).batch]
    /\ side' = Tail(side)
    /\ UNCHANGED <<main, thread, pos, done, gpuBatch, held, yielded, recorded, compute, issued,
                   computed, errors>>

WaitDone ==
    /\ compute # <<>> /\ Head(compute).op = "wait"
    /\ issued - Len(side) >= Head(compute).copies
    /\ compute' = Tail(compute)
    /\ UNCHANGED <<main, thread, pos, done, gpuBatch, held, yielded, recorded, side, issued, mem,
                   computed, errors>>

ReadDone ==
    /\ compute # <<>> /\ Head(compute).op = "read"
    /\ computed' = Append(computed, mem[Head(compute).block])
    /\ compute' = Tail(compute)
    /\ UNCHANGED <<main, thread, pos, done, gpuBatch, held, yielded, recorded, side, issued, mem,
                   errors>>

-----------------------------------------------------------------------------
Thread == Fetch \/ Transfer
Loop == Iter \/ IterReturns \/ NextBatch \/ StopIter \/ RunBatch
Terminated == main = "end" /\ compute = <<>> /\ side = <<>> /\ UNCHANGED vars

Next == Thread \/ FetchRaises \/ Loop \/ CopyDone \/ WaitDone \/ ReadDone \/ Terminated

\* Both threads run, and so do both streams.
Fairness ==
    /\ WF_vars(Thread) /\ WF_vars(Loop)
    /\ WF_vars(CopyDone) /\ WF_vars(WaitDone \/ ReadDone)

Spec == Init /\ [][Next]_vars /\ Fairness

-----------------------------------------------------------------------------
(* Properties. *)

\* The GPU computes on the data of the batch the loop was given: no copy of a
\* later batch reuses its memory too early, and none of its own is still under
\* way (wait_stream and record_stream in __next__).
ComputesItsBatch == \A i \in DOMAIN computed : computed[i] = yielded[i]

\* As long as the DataLoader raises nothing, the loop gets every batch once and
\* in order; after an exception it may get one again, but never an earlier one.
OrderUnlessError ==
    /\ \A i \in 2..Len(yielded) : yielded[i - 1] <= yielded[i]
    /\ errors = 0 =>
          /\ \A i \in DOMAIN yielded : yielded[i] = i
          /\ main = "end" => Len(yielded) = NumBatches

\* Every batch given to the loop is computed, and the loop ends.
AllComputed == <>(main = "end" /\ Len(computed) = Len(yielded))

\* The loop is never given the same batch twice: "the H2D copy for the next
\* batch" runs "concurrently with the forward/backward of the current batch".
NextIsNew == \A i \in 2..Len(yielded) : yielded[i - 1] < yielded[i]

=============================================================================
