------------------------------ MODULE Scheduler ------------------------------
(***************************************************************************)
(* The serving engine's scheduler with the overlap event loop: request     *)
(* intake and abort, prefill admission with chunking (PrefillAdder), the   *)
(* radix prefix cache, the paged KV allocator, decode with memory check    *)
(* and retraction, DFlash speculative decode with over-allocated KV, and   *)
(* the delayed processing of batch results.                                *)
(*                                                                         *)
(* One iteration of event_loop_overlap schedules and launches batch k and  *)
(* only then processes the result of batch k-1, so the host's lengths, its *)
(* finish decisions and the pages it frees lag behind the batches that are *)
(* already queued on the forward stream.  Gpu runs those batches in order, *)
(* at any time after their launch.                                         *)
(***************************************************************************)
EXTENDS RadixTree

CONSTANTS
  Setups,       \* [spec, pages, load]: how a server may be started, and what it is sent
  Req,          \* requests
  Prompt,       \* Prompt[r]: origin_input_ids
  AskedNew,     \* AskedNew[r]: sampling_params.max_new_tokens as sent
  MayAbort,     \* requests the client may abort
  NumRows,      \* rows of the ReqToTokenPool
  ChunkSize,    \* chunked_prefill_size (at most max_prefill_tokens)
  InputMargin,  \* what max_req_input_len keeps free below max_req_len
  RetractSteps, \* SGLANG_RETRACT_DECODE_STEPS
  Block,        \* its block size (bonus token and drafts)
  Model(_),     \* the target model's greedy next token
  None

ASSUME SchedulerAssumption ==
  /\ Setups \subseteq [spec : BOOLEAN, pages : Nat \ {0}, load : SUBSET Req]
  /\ {NumRows, ChunkSize, RetractSteps, Block} \subseteq Nat \ {0}
  /\ InputMargin \in Nat
  /\ MayAbort \subseteq Req
  /\ None \notin Req

VARIABLES
  setup,    \* how this server was started
  pc,       \* where the event loop is
  mem,      \* [req, cache, free, rows, err]: requests and the memory pools
  unborn,   \* requests not sent yet
  waiting,  \* waiting_queue
  running,  \* running_batch.reqs
  full,     \* running_batch.batch_is_full
  chunked,  \* chunked_req
  pending,  \* the chunked request to abort at the next scheduling step
  adder,    \* the PrefillAdder of this scheduling step
  cur,      \* the batch launched in this iteration
  last,     \* last_batch
  queue,    \* result_queue: the launched batches and their results
  kv,       \* contents of the KV slots, of the target and of the draft model
  fut,      \* FutureMap: next token and sequence length, per row, on the device
  ran       \* how many of the queued batches, from the first, have run

vars == <<setup, pc, mem, unborn, waiting, running, full, chunked, pending, adder,
          cur, last, queue, kv, fut, ran>>

spec == setup.spec                      \* DFlash speculative decoding is on

NumPages == setup.pages                 \* pages of the KV pool

MaxTotal == NumPages * PageSize         \* max_total_num_tokens

MaxReqLen == MaxTotal - 1               \* the context length is not the limit here

Page == 1..NumPages                     \* page 0 takes padded writes

Slot == PageSize..(MaxTotal + PageSize - 1)

NoRow == 0

NewReq == [out |-> <<>>, max_new |-> 0, fin |-> FALSE, stop |-> FALSE,
           retracted |-> FALSE, gone |-> FALSE, row |-> NoRow, loc |-> <<>>,
           comm |-> 0, prot |-> 0, node |-> <<>>, pre |-> <<>>, fill |-> 0, mid |-> 0]

NoAdder == [can |-> <<>>, cand |-> None, total |-> 0, cur |-> 0, chunk |-> 0, new_chunked |-> None]

NoBatch == [mode |-> "none", reqs |-> <<>>, chunked |-> None]

\* What a slot holds is the token prefix it was computed from; Junk is anything else.
Junk == <<>>

Init ==
  /\ setup \in Setups
  /\ pc = "recv"
  /\ mem = [req |-> [r \in Req |-> NewReq], cache |-> EmptyCache,
            free |-> [i \in 1..NumPages |-> i], rows |-> 1..NumRows, err |-> FALSE]
  /\ unborn = setup.load
  /\ waiting = {} /\ running = <<>> /\ full = FALSE
  /\ chunked = None /\ pending = None /\ adder = NoAdder
  /\ cur = NoBatch /\ last = NoBatch /\ queue = <<>> /\ ran = 0
  /\ kv = [s \in Slot |-> [t |-> Junk, d |-> Junk]]
  /\ fut = [row \in 1..NumRows |-> [tok |-> None, len |-> 0]]

-----------------------------------------------------------------------------
\* Memory: operators from a value of mem to a value of mem

Toks(m, r) == Prompt[r] \o m.req[r].out

Available(m) == Len(m.free) * PageSize

\* The pages of a run of slots that starts at a page boundary.
PagesOf(slots) ==
  [i \in 1..(CeilAlign(Len(slots)) \div PageSize) |->
     slots[(i - 1) * PageSize + 1] \div PageSize]

Free(m, slots) == [m EXCEPT !.free = PagesOf(slots) \o @]

\* evict_from_tree_cache: the memories it may leave.
EvictFor(m, num_tokens) ==
  {[m EXCEPT !.cache = evict(m.cache, N),
             !.free = FoldSet(LAMBDA n, f : PagesOf(m.cache.nodes[n].value) \o f, @, N)]
   : N \in Evictions(m.cache, num_tokens - Available(m))}

\* The row loc at length n: first in the last page it already has, then in pages
\* from the front of the free list.
alloc_extend_naive(loc, free, n) ==
  LET have == CeilAlign(Len(loc)) \div PageSize
      page(i) == (i - 1) \div PageSize
      start(i) == IF page(i) < have THEN loc[page(i) * PageSize + 1]
                  ELSE free[page(i) - have + 1] * PageSize
  IN [i \in 1..n |-> IF i <= Len(loc) THEN loc[i] ELSE start(i) + ((i - 1) % PageSize)]

\* alloc_extend, alloc_decode: the row of r grows to n slots, or the caller raises.
Grow(m, r, n) ==
  LET loc == m.req[r].loc
      need == (CeilAlign(n) - CeilAlign(Len(loc))) \div PageSize
  IN IF need > Len(m.free) THEN [m EXCEPT !.err = TRUE]
     ELSE [m EXCEPT !.req[r].loc = alloc_extend_naive(loc, m.free, n),
                    !.free = SubSeq(@, need + 1, Len(@))]

\* Mutant: the slots of tokens another request cached first are not given back.
KeepDuplicates(m, r) ==
  LET q == m.req[r]
      key == SubSeq(Toks(m, r), 1, FloorAlign(q.fill))
      hit == match_prefix(insert(m.cache, key, q.loc).cache, key)
      loc == [i \in DOMAIN q.loc |->
                IF q.prot < i /\ i <= Len(key) THEN hit.indices[i] ELSE q.loc[i]]
  IN [m EXCEPT
        !.cache = inc_lock_ref(dec_lock_ref(hit.cache, q.node), hit.node),
        !.req[r] = [q EXCEPT !.loc = loc, !.prot = Len(key), !.node = hit.node,
                             !.pre = hit.indices \o SubSeq(q.loc, Len(key) + 1, q.fill)]]

\* cache_unfinished_req for the first fill tokens.
cache_unfinished_req(m, r) ==
  LET q == m.req[r]
      key == SubSeq(Toks(m, r), 1, FloorAlign(q.fill))
      ins == insert(m.cache, key, q.loc)
      hit == match_prefix(ins.cache, key)
      loc == [i \in DOMAIN q.loc |->
                IF q.prot < i /\ i <= Len(key) THEN hit.indices[i] ELSE q.loc[i]]
  IN [Free(m, SubSeq(q.loc, q.prot + 1, ins.prefix_len)) EXCEPT
        !.cache = inc_lock_ref(dec_lock_ref(hit.cache, q.node), hit.node),
        !.req[r] = [q EXCEPT !.loc = loc, !.prot = Len(key), !.node = hit.node,
                             !.pre = hit.indices \o SubSeq(q.loc, Len(key) + 1, q.fill)]]

\* Mutant: a request released without insertion keeps its lock.
KeepLock(m, r, is_insert) ==
  LET q == m.req[r]
      ids == SubSeq(Toks(m, r), 1, q.comm)
      key == SubSeq(ids, 1, FloorAlign(Len(ids)))
      ins == IF is_insert THEN insert(m.cache, key, q.loc)
             ELSE [cache |-> m.cache, prefix_len |-> Len(key)]
      m1 == Free(m, SubSeq(q.loc, q.prot + 1, ins.prefix_len))
  IN [Free(m1, SubSeq(q.loc, Len(key) + 1, Len(ids))) EXCEPT
        !.cache = IF is_insert THEN dec_lock_ref(ins.cache, q.node) ELSE ins.cache]

\* cache_finished_req for the committed tokens: whole pages go to the tree, or
\* back to the pool without insertion; duplicates and the partial page are freed.
cache_finished_req(m, r, is_insert) ==
  LET q == m.req[r]
      ids == SubSeq(Toks(m, r), 1, q.comm)
      key == SubSeq(ids, 1, FloorAlign(Len(ids)))
      ins == IF is_insert THEN insert(m.cache, key, q.loc)
             ELSE [cache |-> m.cache, prefix_len |-> Len(key)]
      m1 == Free(m, SubSeq(q.loc, q.prot + 1, ins.prefix_len))
  IN [Free(m1, SubSeq(q.loc, Len(key) + 1, Len(ids))) EXCEPT
        !.cache = dec_lock_ref(ins.cache, q.node)]

\* release_kv_cache: cache_finished_req, then the over-allocated tail and the row.
release_kv_cache(m, r, is_insert) ==
  LET q == m.req[r] IN
  [Free(cache_finished_req(m, r, is_insert), SubSeq(q.loc, CeilAlign(q.comm) + 1, Len(q.loc)))
   EXCEPT !.rows = @ \cup {q.row},
          !.req[r].row = NoRow, !.req[r].loc = <<>>,
          !.err = @ \/ q.row = NoRow \/ (~spec /\ q.comm # Len(q.loc))]

-----------------------------------------------------------------------------
\* Intake

validate_input_length(r) == Len(Prompt[r]) < MaxReqLen - InputMargin

\* handle_generate_request: max_new_tokens is clipped to the pool.
Arrive(r) ==
  LET n == Len(Prompt[r]) IN
  /\ pc = "recv" /\ r \in unborn
  /\ validate_input_length(r)
  /\ mem' = [mem EXCEPT !.req[r].max_new =
               Max({0, Min({AskedNew[r], MaxReqLen - n - 1,
                            MaxTotal - CeilAlign(n) - PageSize - 1})})]
  /\ unborn' = unborn \ {r}
  /\ waiting' = waiting \cup {r}
  /\ UNCHANGED <<setup, pc, running, full, chunked, pending, adder, cur, last, queue, kv, fut, ran>>

\* abort_request
Abort(r) ==
  /\ pc = "recv" /\ r \in MayAbort \ unborn
  /\ ~mem.req[r].fin /\ ~mem.req[r].gone /\ ~mem.req[r].stop /\ pending # r
  /\ waiting' = waiting \ {r}
  /\ pending' = IF chunked = r THEN r ELSE pending
  /\ mem' = [mem EXCEPT !.req[r].gone = r \in waiting,
                        !.req[r].stop = r \in ToSet(running) \cup ToSet(last.reqs)]
  /\ UNCHANGED <<setup, pc, unborn, running, full, chunked, adder, cur, last, queue, kv, fut, ran>>

-----------------------------------------------------------------------------
\* Scheduling: get_next_batch_to_run

\* process_pending_chunked_abort.  The chunk in flight is drained later.
AbortChunk(m, r) ==
  release_kv_cache([m EXCEPT !.req[r].fin = TRUE, !.req[r].stop = FALSE], r, FALSE)

\* stash_chunked_request, when the last chunk produced new KV.
StashChunk(m, r) ==
  IF m.req[r].fill > Len(m.req[r].pre) THEN cache_unfinished_req(m, r) ELSE m

\* The first part of the step: abort or stash the chunked request and merge the
\* requests of the last prefill batch into the running batch.
MergeLastBatch ==
  LET drop == pending # None /\ pending = chunked
      ch == IF drop THEN None ELSE chunked
      keep == SelectSeq(last.reqs, LAMBDA r : ~mem'.req[r].fin /\ r \notin {ch, last.chunked})
  IN
  /\ pc = "recv"
  /\ mem' = IF drop THEN AbortChunk(mem, pending)
            ELSE IF ch # None THEN StashChunk(mem, ch) ELSE mem
  /\ chunked' = ch
  /\ pending' = IF drop \/ (pending # None /\ (mem.req[pending].fin \/ mem.req[pending].row = NoRow))
                THEN None ELSE pending
  /\ IF last.mode = "extend"
     THEN /\ running' = running \o keep
          /\ full' = (full /\ Len(keep) = Len(last.reqs) /\ running # <<>>)
     ELSE UNCHANGED <<running, full>>
  /\ pc' = "plan"
  /\ UNCHANGED <<setup, unborn, waiting, adder, cur, last, queue, kv, fut, ran>>

NumAllocatable == Min({NumRows - Len(running), Cardinality(mem.rows)})

RemTotal(m, a) == Available(m) + m.cache.evictable - a.total

CurRem(m, a) == Available(m) + m.cache.evictable - a.cur

\* can_run_list.append and _update_prefill_budget
Charge(a, r, n, max_new) ==
  [a EXCEPT !.can = Append(@, r),
            !.total = @ + CeilAlign(n) + max_new + PageSize,
            !.cur = @ + CeilAlign(n) + PageSize,
            !.chunk = @ - CeilAlign(n)]

\* No prefill: nothing waits, the batch is marked full, or no row is free.
SkipPrefill ==
  /\ pc = "plan" /\ chunked = None
  /\ full \/ waiting = {} \/ NumAllocatable <= 0
  /\ full' = (full \/ waiting # {})
  /\ pc' = "decode"
  /\ UNCHANGED <<setup, mem, unborn, waiting, running, chunked, pending, adder, cur, last,
                 queue, kv, fut, ran>>

\* A new PrefillAdder, which counts a fraction of what the running requests may
\* still generate, and add_chunked_req for the next chunk.
StartPrefill ==
  LET owed == FoldLeft(LAMBDA n, r : n + mem.req[r].max_new - Len(mem.req[r].out), 0, running)
      left == Len(Toks(mem, chunked)) - Len(mem.req[chunked].pre)
  IN
  /\ pc = "plan"
  /\ chunked # None \/ ~(full \/ waiting = {} \/ NumAllocatable <= 0)
  /\ \E offset \in {0, owed} :
       LET a == [NoAdder EXCEPT !.total = offset, !.chunk = ChunkSize]
           rem == Min({ChunkSize, RemTotal(mem, a)})
           n == Min({left, IF rem <= 0 THEN ChunkSize ELSE rem})
       IN IF chunked = None THEN adder' = a /\ UNCHANGED <<mem, chunked>>
          ELSE /\ mem' = [mem EXCEPT !.req[chunked].fill = Len(mem.req[chunked].pre) + n]
               /\ adder' = Charge(a, chunked, n, IF n = left THEN mem.req[chunked].max_new ELSE 0)
               /\ chunked' = IF n = left THEN None ELSE chunked
  /\ pc' = "prefill"
  /\ UNCHANGED <<setup, unborn, waiting, running, full, pending, cur, last, queue, kv, fut, ran>>

\* The next request of the waiting queue: stop if the batch is full, else
\* init_next_round_input matches its tokens but the last one against the tree.
\* The order of the queue (the schedule policy) is left open.
MatchReq(r) ==
  LET hit == match_prefix(mem.cache, Front(Toks(mem, r))) IN
  /\ pc = "prefill" /\ r \in waiting \ ToSet(adder.can)
  /\ \/ /\ full \/ Len(adder.can) >= NumAllocatable
        /\ full' = TRUE /\ pc' = "extend"
        /\ UNCHANGED <<mem, adder>>
     \/ /\ ~full /\ Len(adder.can) < NumAllocatable
        /\ mem' = [mem EXCEPT !.cache = hit.cache,
                              !.req[r] = [@ EXCEPT !.pre = hit.indices, !.node = hit.node,
                                                   !.prot = Len(hit.node)]]
        /\ adder' = [adder EXCEPT !.cand = r]
        /\ pc' = "admit"
        /\ UNCHANGED full
  /\ UNCHANGED <<setup, unborn, waiting, running, chunked, pending, cur, last, queue, kv, fut, ran>>

\* add_one_req: the request needs its input, what it may generate and a page, also
\* after its prefix is locked; it is taken whole if the chunk budget covers it,
\* else its first pages become the new chunked request.
AddOneReq ==
  LET r == adder.cand
      q == mem.req[r]
      n == Len(q.pre)
      cand == Len(Toks(mem, r)) - n
      want == cand + Max({q.max_new - Len(q.out), 0}) + PageSize
      locked == [mem EXCEPT !.cache = inc_lock_ref(@, q.node)]
      fits == CeilAlign(cand) <= adder.chunk
      part == FloorAlign(FloorAlign(adder.chunk) + n) - n
      Add(len, max_new, new_chunked) ==
        /\ mem' = [locked EXCEPT !.req[r].fill = n + len]
        /\ adder' = [Charge(adder, r, len, max_new) EXCEPT
                       !.cand = None, !.new_chunked = new_chunked]
        /\ full' = (RemTotal(mem', adder') <= 0 \/ CurRem(mem', adder') <= 0)
        /\ pc' = IF full' \/ adder'.chunk <= 0 THEN "extend" ELSE "prefill"
  IN
  /\ pc = "admit"
  /\ \/ /\ want >= RemTotal(mem, adder) \/ want >= RemTotal(locked, adder)
        /\ full' = TRUE /\ pc' = "extend"
        /\ UNCHANGED <<mem, adder>>
     \/ /\ want < RemTotal(locked, adder)
        /\ \/ fits /\ Add(cand, q.max_new, adder.new_chunked)
           \/ ~fits /\ part > 0 /\ Add(part, 0, r)
           \/ ~fits /\ part <= 0 /\ pc' = "extend" /\ UNCHANGED <<mem, full, adder>>
  /\ UNCHANGED <<setup, unborn, waiting, running, chunked, pending, cur, last, queue, kv, fut, ran>>

\* The loop has seen the whole waiting queue.
EndAdd ==
  /\ pc = "prefill" /\ waiting \subseteq ToSet(adder.can)
  /\ pc' = "extend"
  /\ UNCHANGED <<setup, mem, unborn, waiting, running, full, chunked, pending, adder,
                 cur, last, queue, kv, fut, ran>>

-----------------------------------------------------------------------------
\* Preparing and launching a batch

\* run_batch puts the batch on the forward stream.  _apply_war_barrier holds back
\* later writes to the token table, so the batch reads the rows as they are now.
Launch(m, mode, reqs, ch) ==
  /\ cur' = [mode |-> mode, reqs |-> reqs, chunked |-> ch]
  /\ queue' = Append(queue,
       [mode |-> mode,
        entries |-> [i \in DOMAIN reqs |->
          LET q == m.req[reqs[i]]
          IN [req |-> reqs[i], row |-> q.row, loc |-> q.loc,
              pos |-> IF mode = "extend" THEN Len(q.pre) ELSE q.comm - 1,
              ids |-> IF mode = "extend" THEN SubSeq(Toks(m, reqs[i]), 1, q.fill) ELSE <<>>,
              out |-> <<>>]]])

\* alloc_for_extend for one request: a row if it has none, its matched prefix,
\* new slots up to the end of the extend range.
ExtendOne(m, r) ==
  LET q == m.req[r]
      row == IF q.row = NoRow THEN CHOOSE x \in m.rows : TRUE ELSE q.row
  IN Grow([m EXCEPT !.rows = @ \ {row},
                    !.req[r] = [q EXCEPT !.row = row, !.loc = q.pre, !.comm = q.fill,
                                         !.retracted = FALSE]],
          r, q.fill)

\* The rest of _get_new_batch_prefill_raw with prepare_for_extend.
RunPrefill ==
  LET can == adder.can
      ch == IF adder.new_chunked # None THEN adder.new_chunked ELSE chunked
      m0 == [mem EXCEPT !.err = @ \/ (adder.new_chunked # None /\ chunked # None),
                        !.req = [r \in Req |-> IF r = ch THEN [@[r] EXCEPT !.mid = @ + 1] ELSE @[r]]]
      new == FoldLeft(LAMBDA n, r : n + m0.req[r].fill - Len(m0.req[r].pre), 0, can)
  IN
  /\ pc = "extend" /\ can # <<>>
  /\ waiting' = waiting \ ToSet(can)
  /\ chunked' = ch
  /\ \E m1 \in EvictFor(m0, IF PageSize = 1 THEN new ELSE new + Len(can) * PageSize) :
       LET m2 == FoldLeft(ExtendOne, m1, can)
       IN mem' = m2 /\ Launch(m2, "extend", can, ch)
  /\ adder' = NoAdder
  /\ pc' = "result"
  /\ UNCHANGED <<setup, unborn, running, full, pending, last, kv, fut, ran>>

NoPrefill ==
  /\ pc = "extend" /\ adder.can = <<>>
  /\ adder' = NoAdder
  /\ pc' = "decode"
  /\ UNCHANGED <<setup, mem, unborn, waiting, running, full, chunked, pending, cur, last,
                 queue, kv, fut, ran>>

\* Mutant: room for one block, as if the host knew the device's length.
OneBlock == Block

\* get_alloc_reserve_per_decode: twice the block, because the host's committed
\* length lags one batch behind the device.
Reserve == 2 * Block

\* page_aligned_decode_alloc_lens
NextAlloc(q) == Max({Len(q.loc), CeilAlign(q.comm + Reserve)})

\* Mutant: one block per request is checked, although two are allocated.
RequiredForOneBlock(m, reqs) ==
  FoldLeft(LAMBDA n, r :
             LET q == m.req[r]
             IN n + CeilAlign(Max({Len(q.loc), q.comm + Block})) - CeilAlign(Len(q.loc)),
           0, reqs)

\* new_tokens_required_next_decode
RequiredForDecode(m, reqs) ==
  FoldLeft(LAMBDA n, r :
             LET q == m.req[r]
             IN n + (IF spec THEN CeilAlign(NextAlloc(q)) - CeilAlign(Len(q.loc))
                     ELSE IF q.comm % PageSize = 0 THEN PageSize ELSE 0),
           0, reqs)

\* Mutant: batch_is_full survives the requests that filled the batch.
StaysFull ==
  LET live == SelectSeq(running, LAMBDA r : ~mem.req[r].fin)
      need == RequiredForDecode(mem, live)
  IN
  /\ pc = "decode"
  /\ running' = live
  /\ IF live = <<>> THEN /\ pc' = "result" /\ cur' = NoBatch /\ UNCHANGED mem
     ELSE /\ mem' \in EvictFor(mem, need)
          /\ pc' = IF Available(mem') < need THEN "retract" ELSE "prepare"
          /\ UNCHANGED cur
  /\ UNCHANGED <<setup, unborn, waiting, full, chunked, pending, adder, last, queue, kv, fut, ran>>

\* The beginning of update_running_batch, up to check_decode_mem.
CheckDecodeMem ==
  LET live == SelectSeq(running, LAMBDA r : ~mem.req[r].fin)
      need == RequiredForDecode(mem, live)
  IN
  /\ pc = "decode"
  /\ running' = live
  /\ full' = (full /\ Len(live) = Len(running))
  /\ IF live = <<>> THEN /\ pc' = "result" /\ cur' = NoBatch /\ UNCHANGED mem
     ELSE /\ mem' \in EvictFor(mem, need)
          /\ pc' = IF Available(mem') < need THEN "retract" ELSE "prepare"
          /\ UNCHANGED cur
  /\ UNCHANGED <<setup, unborn, waiting, chunked, pending, adder, last, queue, kv, fut, ran>>

reset_for_retract(q) ==
  [q EXCEPT !.pre = <<>>, !.node = <<>>, !.prot = 0, !.fill = 0, !.mid = 0,
            !.retracted = TRUE]

\* release_req: nothing is inserted into the tree.
ReleaseReq(m, r, remaining) ==
  {[m1 EXCEPT !.req[r] = reset_for_retract(@)]
   : m1 \in EvictFor(release_kv_cache(m, r, FALSE), remaining * RetractSteps)}

\* _get_decode_retraction_order: r is among the first to go.
RetractFirst(m, r, s) ==
  LET Key(x) == <<Len(m.req[x].out), Len(Prompt[x])>> IN
  \/ Key(r)[1] < Key(s)[1]
  \/ Key(r)[1] = Key(s)[1] /\ Key(r)[2] >= Key(s)[2]

\* One turn of the loop of retract_decode: the memory check failed for running.
RetractOne ==
  /\ pc = "retract" /\ Len(running) > 1
  /\ \E r \in ToSet(running) :
       /\ \A s \in ToSet(running) : RetractFirst(mem, r, s)
       /\ \E m1 \in ReleaseReq(mem, r, Len(running) - 1) :
            LET rest == SelectSeq(running, LAMBDA s : s # r)
                need == RequiredForDecode(m1, rest)
            IN /\ mem' \in EvictFor(m1, need)
               /\ pc' = IF Available(mem') < need THEN "retract" ELSE "prepare"
               /\ running' = rest
       /\ waiting' = waiting \cup {r}
  /\ full' = FALSE
  /\ UNCHANGED <<setup, unborn, chunked, pending, adder, cur, last, queue, kv, fut, ran>>

\* Even the last request does not fit: it is aborted and nothing runs.
AbortLast ==
  /\ pc = "retract" /\ Len(running) = 1
  /\ \E m1 \in ReleaseReq(mem, running[1], 0) :
       mem' = [m1 EXCEPT !.req[running[1]].gone = TRUE, !.req[running[1]].stop = TRUE]
  /\ running' = <<>> /\ full' = FALSE
  /\ cur' = NoBatch /\ pc' = "result"
  /\ UNCHANGED <<setup, unborn, waiting, chunked, pending, adder, last, queue, kv, fut, ran>>

\* One slot for a request, committed at once.
alloc_for_decode(m, r) ==
  [Grow(m, r, Len(m.req[r].loc) + 1) EXCEPT !.req[r].comm = @ + 1]

\* Slots up to the reserve, committed when the result is known.
alloc_for_spec_decode(m, r) == Grow(m, r, NextAlloc(m.req[r]))

\* ScheduleBatch.prepare_for_decode without speculation.
RunDecode ==
  /\ pc = "prepare" /\ ~spec
  /\ \E m1 \in EvictFor(mem, Len(running) * PageSize) :
       LET m2 == FoldLeft(alloc_for_decode, m1, running)
       IN mem' = m2 /\ Launch(m2, "decode", running, None)
  /\ pc' = "result"
  /\ UNCHANGED <<setup, unborn, waiting, running, full, chunked, pending, adder, last, kv, fut, ran>>

\* prepare_for_decode of the DFlash input: nothing is evicted if no row must grow.
RunSpecDecode ==
  LET new == FoldLeft(LAMBDA n, r : n + NextAlloc(mem.req[r]) - Len(mem.req[r].loc), 0, running)
      room == IF new = 0 THEN 0
              ELSE IF PageSize = 1 THEN new ELSE new + Len(running) * PageSize
  IN
  /\ pc = "prepare" /\ spec
  /\ \E m1 \in EvictFor(mem, room) :
       LET m2 == FoldLeft(alloc_for_spec_decode, m1, running)
       IN mem' = m2 /\ Launch(m2, "decode", running, None)
  /\ pc' = "result"
  /\ UNCHANGED <<setup, unborn, waiting, running, full, chunked, pending, adder, last, kv, fut, ran>>

-----------------------------------------------------------------------------
\* The device

\* Continue the token sequence s greedily by n tokens.
Greedy(s, n) ==
  LET g[i \in 0..n] == IF i = 0 THEN s ELSE Append(g[i - 1], Model(g[i - 1]))
  IN g[n]

\* The first n slots of the row hold the keys and values of the prefixes of s.
Holds(store, loc, n, s) == \A i \in 1..n : store[loc[i]].t = SubSeq(s, 1, i)

\* Position i of the row now holds the prefix of s; drafts says whether the draft
\* model's cache is written too.
Write(store, loc, from, to, s, drafts) ==
  [x \in Slot |->
     LET at == {i \in from..Min({to, Len(loc)}) : loc[i] = x}
         new == IF s = Junk THEN Junk ELSE SubSeq(s, 1, Max(at))
     IN IF at = {} THEN store[x]
        ELSE [t |-> new, d |-> IF drafts THEN new ELSE store[x].d]]

\* The prefill of one entry: attention over the cached prefix, the KV of the new
\* tokens (for the draft model too, from the target's hidden states), one token.
ForwardExtend(dev, e) ==
  LET n == Len(e.ids)
      s == IF Holds(dev.kv, e.loc, e.pos, e.ids) THEN e.ids ELSE Junk
  IN [kv |-> Write(dev.kv, e.loc, e.pos + 1, n, s, spec),
      fut |-> [dev.fut EXCEPT ![e.row] = [tok |-> Model(s), len |-> n]],
      entries |-> Append(dev.entries, [e EXCEPT !.out = <<Model(s)>>])]

\* One decode step: the input token comes from the FutureMap, its KV goes to the
\* next slot.
ForwardDecode(dev, e) ==
  LET n == e.pos
      known == dev.kv[e.loc[n]].t
      s == IF Len(known) = n /\ Holds(dev.kv, e.loc, n, known)
           THEN Append(known, dev.fut[e.row].tok) ELSE Junk
  IN [kv |-> Write(dev.kv, e.loc, n + 1, n + 1, s, FALSE),
      fut |-> [dev.fut EXCEPT ![e.row] = [tok |-> Model(s), len |-> n + 1]],
      entries |-> Append(dev.entries, [e EXCEPT !.out = <<Model(s)>>])]

\* One speculative step with a correct drafts: the block goes to Block slots after
\* the device's own sequence length, in both caches; only the committed positions
\* of the draft model's cache are then rewritten from the target's hidden states.
ForwardVerify(dev, e, a) ==
  LET n == dev.fut[e.row].len
      known == dev.kv[e.loc[n]].t
      ok == Len(known) = n /\ Holds(dev.kv, e.loc, n, known)
      s == IF ok THEN Greedy(Append(known, dev.fut[e.row].tok), a + 1) ELSE Junk
      kv1 == Write(dev.kv, e.loc, n + a + 2, n + Block, Junk, TRUE)
  IN [kv |-> Write(kv1, e.loc, n + 1, n + a + 1, s, TRUE),
      fut |-> [dev.fut EXCEPT ![e.row] =
                 [tok |-> IF ok THEN s[n + a + 2] ELSE None, len |-> n + a + 1]],
      entries |-> Append(dev.entries,
                    [e EXCEPT !.out = IF ok THEN SubSeq(s, n + 2, n + a + 2)
                                      ELSE [i \in 1..(a + 1) |-> None]])]

Pending == ran < Len(queue)

\* The device after batch b: with speculation any number of drafts is right.
ForwardBatch(b) ==
  LET dev == [kv |-> kv, fut |-> fut, entries |-> <<>>]
      Verified(a) == FoldLeft(LAMBDA d, k : ForwardVerify(d, b.entries[k], a[k]),
                              dev, [k \in DOMAIN b.entries |-> k])
  IN CASE b.mode = "extend" -> {FoldLeft(ForwardExtend, dev, b.entries)}
       [] b.mode = "decode" /\ ~spec -> {FoldLeft(ForwardDecode, dev, b.entries)}
       [] b.mode = "decode" /\ spec ->
            {Verified(a) : a \in [DOMAIN b.entries -> 0..(Block - 1)]}

\* The forward stream runs the batches in launch order.
Gpu ==
  /\ Pending
  /\ ran' = ran + 1
  /\ \E d \in ForwardBatch(queue[ran']) :
       /\ kv' = d.kv /\ fut' = d.fut
       /\ queue' = [queue EXCEPT ![ran'].entries = d.entries]
  /\ UNCHANGED <<setup, pc, mem, unborn, waiting, running, full, chunked, pending, adder,
                 cur, last>>

-----------------------------------------------------------------------------
\* Results

\* output_ids.extend and update_finish_state: an abort first, then the length.
Emit(q, tokens) ==
  LET out == q.out \o tokens
  IN [q EXCEPT !.out = out, !.stop = FALSE,
               !.fin = q.stop \/ Len(out) >= q.max_new]

\* Mutant: the token sampled after a middle chunk is taken for output.
EmitMiddleChunk(m, e) ==
  LET q == m.req[e.req]
      m1 == [m EXCEPT !.req[e.req] = Emit(q, e.out)]
  IN IF q.fin \/ q.retracted THEN m
     ELSE IF m1.req[e.req].fin THEN release_kv_cache(m1, e.req, TRUE)
     ELSE cache_unfinished_req(m1, e.req)

\* process_batch_result_prefill for one request.
PrefillResult(m, e) ==
  LET q == m.req[e.req]
      m1 == [m EXCEPT !.req[e.req] = Emit(q, e.out)]
  IN IF (q.fin /\ q.mid <= 0) \/ q.retracted THEN m
     ELSE IF q.mid > 0 THEN [m EXCEPT !.req[e.req].mid = @ - 1]
     ELSE IF m1.req[e.req].fin THEN release_kv_cache(m1, e.req, TRUE)
     ELSE cache_unfinished_req(m1, e.req)

\* _resolve_spec_v2_tokens: the accepted run is committed when its result arrives.
resolve_spec_v2_tokens(q, tokens) == [q EXCEPT !.comm = @ + Len(tokens)]

\* process_batch_result_decode for one request.
DecodeResult(m, e) ==
  LET q == m.req[e.req]
      q1 == IF spec THEN resolve_spec_v2_tokens(q, e.out) ELSE q
      m1 == [m EXCEPT !.req[e.req] = Emit(q1, e.out)]
  IN IF q.fin \/ q.retracted THEN m
     ELSE IF m1.req[e.req].fin THEN release_kv_cache(m1, e.req, TRUE)
     ELSE m1

\* The end of an iteration: the result of the batch before the one just launched.
ProcessResult ==
  /\ pc = "result"
  /\ IF last.mode = "none" THEN UNCHANGED <<mem, queue, ran>>
     ELSE LET b == Head(queue) IN
          /\ ran > 0                      \* copy_done.synchronize()
          /\ ran' = ran - 1
          /\ mem' = IF b.mode = "extend" THEN FoldLeft(PrefillResult, mem, b.entries)
                    ELSE FoldLeft(DecodeResult, mem, b.entries)
          /\ queue' = Tail(queue)
  /\ last' = cur
  /\ cur' = NoBatch
  /\ pc' = "recv"
  /\ UNCHANGED <<setup, unborn, waiting, running, full, chunked, pending, adder, kv, fut>>

-----------------------------------------------------------------------------
Host == \/ MergeLastBatch \/ SkipPrefill \/ StartPrefill \/ (\E r \in Req : MatchReq(r))
        \/ AddOneReq \/ EndAdd \/ RunPrefill \/ NoPrefill \/ CheckDecodeMem
        \/ RetractOne \/ AbortLast \/ RunDecode \/ RunSpecDecode \/ ProcessResult

Next == (\E r \in Req : Arrive(r) \/ Abort(r)) \/ Host \/ Gpu

\* The event loop goes on unless it waits for a result.  Every step of Host moves pc,
\* or retracts one of finitely many requests before it does.
HostMoves ==
  /\ pc # "result" \/ last.mode = "none" \/ ran > 0
  /\ pc' \in {"recv", "plan", "prefill", "admit", "extend", "decode", "retract", "prepare",
              "result"}

\* The forward stream goes on while a batch is queued.
GpuMoves == Pending /\ ran' = ran + 1

\* Weak fairness of Host and Gpu, in terms of the variable each of them moves.
FairSpec == Init /\ [][Next]_vars /\ WF_pc(HostMoves) /\ WF_ran(GpuMoves)

-----------------------------------------------------------------------------
\* Properties

\* The requests that hold a lock on their last_node.
Holders == {r \in Req : mem.req[r].row # NoRow} \cup ToSet(adder.can)

\* Every page is free, in the tree or private to one request, and never in two of
\* these places at once: no early return, abort, retraction, lost race for a
\* prefix or over-allocation leaks a page or frees it twice.
PagesAccounted ==
  LET nodes == mem.cache.nodes
      shared(n) == PagesOf(nodes[n].value)
      private(r) == PagesOf(SubSeq(mem.req[r].loc, mem.req[r].prot + 1, Len(mem.req[r].loc)))
  IN /\ Len(mem.free) + MapThenSumSet(LAMBDA n : Len(shared(n)), DOMAIN nodes)
                      + MapThenSumSet(LAMBDA r : Len(private(r)), Req) = NumPages
     /\ Page = ToSet(mem.free) \cup UNION {ToSet(shared(n)) : n \in DOMAIN nodes}
                               \cup UNION {ToSet(private(r)) : r \in Req}

\* A batch about to run finds in the slots of its rows exactly the keys and values
\* of its own request's tokens (and the draft model's, with speculation), and its
\* input token is the one the model produced: freed, evicted and reused pages and
\* rows never reach a batch that still reads them, requests already finished or
\* retracted included.
ReadsItsPrefix ==
  Pending =>
    LET b == queue[ran + 1] IN
    \A k \in DOMAIN b.entries :
      LET e == b.entries[k]
          n == IF b.mode = "extend" THEN e.pos
               ELSE IF spec THEN fut[e.row].len ELSE e.pos
          s == Greedy(Prompt[e.req], Max({0, n + 1 - Len(Prompt[e.req])}))
      IN /\ \A i \in 1..n : kv[e.loc[i]].t = SubSeq(s, 1, i)
         /\ spec => \A i \in 1..n : kv[e.loc[i]].d = SubSeq(s, 1, i)
         /\ b.mode = "decode" => fut[e.row].tok = s[n + 1]

\* A node's lock count is the number of requests whose prefix runs through it, and
\* the evictable and protected sizes the admission budget uses are exact.
LocksMatchHolders ==
  LET nodes == mem.cache.nodes
      unlocked == {n \in DOMAIN nodes : nodes[n].lock = 0}
  IN /\ \A n \in DOMAIN nodes :
          nodes[n].lock = Cardinality({r \in Holders : IsPrefix(n, mem.req[r].node)})
     /\ mem.cache.evictable = Tokens(nodes, unlocked)
     /\ mem.cache.protected = Tokens(nodes, DOMAIN nodes \ unlocked)

\* No allocation that follows a successful admission or decode memory check fails
\* (the code raises and the server dies), no KV is released twice, without
\* speculation nothing is over-allocated, and at most one request is chunked.
NeverDies == ~mem.err

\* The block a verify step writes lies in slots allocated to its request, although
\* the host reserved them from a committed length one batch old.
VerifyFits ==
  Pending =>
    LET b == queue[ran + 1] IN
    spec /\ b.mode = "decode" =>
      \A k \in DOMAIN b.entries :
        fut[b.entries[k].row].len + Block <= Len(b.entries[k].loc)

\* What a request has been sent is what the model alone would generate from its
\* prompt, through prefix sharing, chunking, retraction and recomputation, and
\* speculation, and it is complete when the request ends by itself.
OutputsGreedy ==
  \A r \in Req : Toks(mem, r) = Greedy(Prompt[r], Len(mem.req[r].out))

Ended(r) == mem.req[r].fin \/ mem.req[r].gone

\* Every request that enters the waiting queue ends: it is not starved by a stale
\* batch_is_full, lost between queue and batch, or retracted forever.
EveryRequestEnds == \A r \in Req : (r \in waiting) ~> Ended(r)

=============================================================================
