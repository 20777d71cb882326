----------------------------- MODULE SpecReserve -----------------------------
(***************************************************************************)
(* The KV reservation of one request under speculative decode with the     *)
(* overlap scheduler, taken out of Scheduler so that it can be proved for  *)
(* every block and page size.  The host knows the request's length only    *)
(* as of the last processed result (kv_committed_len); the device is up to *)
(* one batch ahead.  In every iteration the loop launches a batch, which   *)
(* may not contain the request, and then processes the previous one.       *)
(***************************************************************************)
EXTENDS Integers

CONSTANTS
  Block,         \* speculative_num_draft_tokens
  PageSize,
  MaxLength      \* bound: no launch once the request is this long

ASSUME ReserveAssumption ==
  /\ Block \in Nat \ {0} /\ PageSize \in Nat \ {0} /\ MaxLength \in Nat

VARIABLES
  pc,        \* the loop: "launch" or "result"
  comm,      \* req.kv.kv_committed_len
  alloc,     \* req.kv.kv_allocated_len, the length of the row
  dlen,      \* the device's sequence length (FutureMap.new_seq_lens)
  cur, last  \* the batch just launched and last_batch

reserveVars == <<pc, comm, alloc, dlen, cur, last>>

-----------------------------------------------------------------------------
\* A batch without the request.
NoBatch == [st |-> "none", row |-> 0, n |-> 0]

\* Mutant: room for one block, as if the host knew the device's length.
OneBlock == Block

\* prepare_for_decode: reserve = 2 * block_size
Reserve == 2 * Block

\* Rounded up to whole pages.
CeilAlign(n) == ((n + PageSize - 1) \div PageSize) * PageSize

\* page_aligned_decode_alloc_lens: a row never shrinks.
NextAlloc ==
  LET want == CeilAlign(comm + Reserve) IN IF alloc >= want THEN alloc ELSE want

-----------------------------------------------------------------------------
\* The prompt's prefill has been processed; its slots are all committed.
ReserveInit ==
  /\ pc = "launch"
  /\ comm \in 1..MaxLength
  /\ alloc = comm /\ dlen = comm
  /\ cur = NoBatch /\ last = NoBatch

\* prepare_for_decode and run_batch: the batch sees the row as it is now.
LaunchVerify ==
  /\ pc = "launch" /\ comm < MaxLength
  /\ alloc' = NextAlloc
  /\ cur' = [st |-> "launched", row |-> alloc', n |-> 0]
  /\ pc' = "result"
  /\ UNCHANGED <<comm, dlen, last>>

\* is_disable_overlap_for_batch (a grammar needs the last tokens): the previous
\* result is processed after the rows were grown and before the launch.
LaunchSync ==
  /\ pc = "launch" /\ comm < MaxLength /\ last.st = "done"
  /\ alloc' = NextAlloc
  /\ comm' = comm + last.n
  /\ last' = NoBatch
  /\ cur' = [st |-> "launched", row |-> alloc', n |-> 0]
  /\ pc' = "result"
  /\ UNCHANGED dlen

\* The iteration runs a prefill of other requests, or nothing.
LaunchOther ==
  /\ pc = "launch"
  /\ cur' = NoBatch
  /\ pc' = "result"
  /\ UNCHANGED <<comm, alloc, dlen, last>>

\* The forward stream: batches in launch order, n tokens are committed.
VerifyBatch(n) ==
  /\ \/ /\ last.st = "launched"
        /\ last' = [last EXCEPT !.st = "done", !.n = n]
        /\ UNCHANGED cur
     \/ /\ last.st # "launched" /\ cur.st = "launched"
        /\ cur' = [cur EXCEPT !.st = "done", !.n = n]
        /\ UNCHANGED last
  /\ dlen' = dlen + n
  /\ UNCHANGED <<pc, comm, alloc>>

\* The result of the previous batch, with _resolve_spec_v2_tokens.
ProcessResult ==
  /\ pc = "result" /\ last.st # "launched"
  /\ comm' = comm + last.n
  /\ last' = cur
  /\ cur' = NoBatch
  /\ pc' = "launch"
  /\ UNCHANGED <<alloc, dlen>>

ReserveNext ==
  LaunchVerify \/ LaunchSync \/ LaunchOther \/ ProcessResult \/ \E n \in 1..Block : VerifyBatch(n)

ReserveSpec == ReserveInit /\ [][ReserveNext]_reserveVars

-----------------------------------------------------------------------------
\* The batch the device runs next, if any.
Executing == IF last.st = "launched" THEN last ELSE cur

\* The verify block is written at dlen .. dlen + Block - 1: this lies inside the
\* row that the batch was launched with, although prepare_for_decode computed
\* the row from a committed length that is one batch old.  And the row never
\* holds more than the reserve and a partial page beyond what is committed.
AlwaysInReserve ==
  /\ Executing.st = "launched" => dlen + Block <= Executing.row
  /\ alloc < comm + Reserve + PageSize

\* The inductive strengthening.  How far ahead of comm the device is follows from
\* the two batches in flight; the newer one was launched when the older one was
\* not yet committed, so its row leaves room for both.
ReserveInv ==
  /\ pc \in {"launch", "result"}
  /\ comm \in Nat /\ alloc \in Nat /\ dlen \in Nat
  /\ cur \in [st : {"none", "launched", "done"}, row : Nat, n : 0..Block]
  /\ last \in [st : {"none", "launched", "done"}, row : Nat, n : 0..Block]
  /\ pc = "launch" => cur = NoBatch
  /\ cur.st # "done" => cur.n = 0
  /\ last.st # "done" => last.n = 0
  /\ cur.st = "done" => last.st # "launched"
  /\ dlen = comm + last.n + cur.n
  /\ last.st = "launched" => comm + Block <= last.row
  /\ cur.st = "launched" => comm + Block <= cur.row
  /\ cur.st = "launched" /\ last.st # "none" => comm + Reserve <= cur.row
  /\ alloc < comm + Reserve + PageSize

=============================================================================
