-------------------------- MODULE PrefetcherProofs --------------------------
(***************************************************************************)
(* The prefetcher computes on the right data for any number of batches,    *)
(* blocks and operations in flight.  The compute stream holds, for the     *)
(* batches not yet computed, a wait and a read each; the inductive         *)
(* invariant says of every read to come that the last copy into its block, *)
(* executed or queued, is the one of its batch, and that a queued one is   *)
(* covered by the wait before the read.                                    *)
(***************************************************************************)
EXTENDS Prefetcher, SequenceTheorems, TLAPS

Copies == [block : Blocks, batch : Nat]
Ops == [op : {"wait"}, copies : Nat] \cup [op : {"read"}, block : Blocks]

TypeInv ==
  /\ main \in {"iter", "next", "compute", "end"}
  /\ thread \in {"none", "fetch", "transfer", "over"}
  /\ pos \in 0..NumBatches /\ errors \in Nat /\ issued \in Nat
  /\ gpuBatch \in Copies \cup {NoBatch} /\ held \in Copies \cup {NoBatch}
  /\ yielded \in Seq(Nat) /\ computed \in Seq(Nat)
  /\ recorded \subseteq Blocks
  /\ side \in Seq(Copies) /\ compute \in Seq(Ops)
  /\ mem \in [Blocks -> Nat]

-----------------------------------------------------------------------------
(* The data of a block. *)

\* Batch n is in block b, and no copy into b is queued.
Settled(b, n) == mem[b] = n /\ \A q \in DOMAIN side : side[q].block # b

\* The copy of batch n into b is queued, no other one into b after it, and it is
\* among the first limit copies.
UnderWay(b, n, limit) ==
  \E p \in DOMAIN side :
    /\ side[p] = [block |-> b, batch |-> n]
    /\ issued - Len(side) + p <= limit
    /\ \A q \in DOMAIN side : q > p => side[q].block # b

-----------------------------------------------------------------------------
(* The operations of the compute stream: the wait of the y-th yielded batch  *)
(* is operation 2y - 1 and its read operation 2y.                            *)

Queued == 2 * Len(yielded) - (IF main = "compute" THEN 1 ELSE 0)
Executed == Queued - Len(compute)

WaitPending(y) == 2 * y - 1 > Executed
ReadPending(y) == 2 * y > Executed /\ 2 * y <= Queued
WaitOf(y) == compute[2 * y - 1 - Executed]
ReadOf(y) == compute[2 * y - Executed]

\* A read of the y-th batch in block b, done now or later, sees that batch.
Sound(y, b) ==
  \/ Settled(b, yielded[y])
  \/ WaitPending(y) /\ UnderWay(b, yielded[y], WaitOf(y).copies)

Streams ==
  /\ Executed >= 0 /\ 2 * Len(computed) \in {Executed - 1, Executed}
  /\ \A y \in 1..Len(yielded) : WaitPending(y) => WaitOf(y).op = "wait"
  /\ \A y \in 1..Len(yielded) :
       ReadPending(y) => /\ ReadOf(y).op = "read"
                         /\ ReadOf(y).block \in recorded
                         /\ Sound(y, ReadOf(y).block)

Batches ==
  /\ main = "compute" => /\ held \in Copies /\ held.block \in recorded
                         /\ Len(yielded) > 0 /\ Sound(Len(yielded), held.block)
  /\ main \in {"next", "compute"} /\ ~done => gpuBatch \in Copies
  /\ main = "iter" /\ thread = "over" /\ ~done => gpuBatch \in Copies
  /\ gpuBatch \in Copies =>
       \/ Settled(gpuBatch.block, gpuBatch.batch)
       \/ UnderWay(gpuBatch.block, gpuBatch.batch, issued)

\* How far the DataLoader and the loop are.
Order ==
  /\ Len(yielded) > 0 => yielded[Len(yielded)] <= gpuBatch.batch
  /\ gpuBatch.batch <= pos
  /\ thread \in {"fetch", "transfer"} \/ (main = "iter" /\ thread = "none") => ~done
  /\ errors = 0 =>
       /\ thread = "fetch" => pos = Len(yielded)
       /\ thread = "transfer" => pos = Len(yielded) + 1
       /\ thread \in {"none", "over"} =>
            IF done THEN Len(yielded) = NumBatches
            ELSE IF main = "iter" /\ thread = "none" THEN pos = 0 /\ yielded = <<>>
            ELSE pos = Len(yielded) + 1 /\ gpuBatch.batch = pos
       /\ main = "end" => done

\* The inductive invariant.
IInv == TypeInv /\ Streams /\ Batches /\ Order /\ ComputesItsBatch /\ OrderUnlessError

-----------------------------------------------------------------------------
(* Queues, by their positions. *)

\* A queue with one more element.
LEMMA AppendFacts ==
  ASSUME NEW S, NEW s \in Seq(S), NEW e \in S
  PROVE  /\ Append(s, e) \in Seq(S) /\ Len(s) \in Nat /\ Len(Append(s, e)) = Len(s) + 1
         /\ DOMAIN s = 1..Len(s) /\ DOMAIN Append(s, e) = 1..Len(s) + 1
         /\ \A i \in 1..Len(s) : Append(s, e)[i] = s[i]
         /\ Append(s, e)[Len(s) + 1] = e
OBVIOUS

\* A queue without its first element.
LEMMA TailFacts ==
  ASSUME NEW S, NEW s \in Seq(S), s # <<>>
  PROVE  /\ Tail(s) \in Seq(S) /\ Len(s) \in Nat \ {0} /\ Len(Tail(s)) = Len(s) - 1
         /\ DOMAIN s = 1..Len(s) /\ DOMAIN Tail(s) = 1..Len(s) - 1
         /\ \A i \in 1..Len(s) - 1 : Tail(s)[i] = s[i + 1]
         /\ Head(s) = s[1] /\ Head(s) \in S
<1>1. Len(s) \in Nat \ {0}
  BY EmptySeq
<1>. QED  BY <1>1, HeadTailProperties, LenProperties

-----------------------------------------------------------------------------
(* What the streams do to the data of a block. *)

\* Executing a copy keeps the last copy into every block.
LEMMA CopyKeeps ==
  ASSUME TypeInv, CopyDone, NEW b \in Blocks, NEW n \in Nat
  PROVE  /\ Settled(b, n) => Settled(b, n)'
         /\ \A l \in Nat : UnderWay(b, n, l) => Settled(b, n)' \/ UnderWay(b, n, l)'
<1>1. /\ DOMAIN side = 1..Len(side) /\ Len(side) \in Nat \ {0}
      /\ DOMAIN side' = 1..Len(side) - 1 /\ Len(side') = Len(side) - 1
      /\ \A i \in 1..Len(side) - 1 : side'[i] = side[i + 1]
      /\ side[1] \in Copies /\ mem' = [mem EXCEPT ![side[1].block] = side[1].batch]
      /\ mem \in [Blocks -> Nat] /\ issued' = issued /\ issued \in Nat
  <2>1. side \in Seq(Copies) /\ side # <<>> /\ side' = Tail(side) /\ mem \in [Blocks -> Nat]
        /\ mem' = [mem EXCEPT ![Head(side).block] = Head(side).batch]
        /\ issued' = issued /\ issued \in Nat
    BY DEF TypeInv, CopyDone
  <2>2. /\ Len(side) \in Nat \ {0} /\ Len(Tail(side)) = Len(side) - 1
        /\ DOMAIN side = 1..Len(side) /\ DOMAIN Tail(side) = 1..Len(side) - 1
        /\ \A i \in 1..Len(side) - 1 : Tail(side)[i] = side[i + 1]
        /\ Head(side) = side[1] /\ Head(side) \in Copies
    BY <2>1, TailFacts
  <2>. QED  BY <2>1, <2>2, Zenon
<1>2. /\ side[1].block \in Blocks
      /\ \A q \in DOMAIN side' : q + 1 \in DOMAIN side /\ q + 1 > 1 /\ side'[q] = side[q + 1]
  BY <1>1 DEF Copies
<1>3. ASSUME Settled(b, n)
      PROVE  Settled(b, n)'
  <2>1. side[1].block # b /\ \A q \in DOMAIN side' : side'[q].block # b
    BY <1>1, <1>2, <1>3 DEF Settled
  <2>. QED  BY <1>1, <1>2, <1>3, <2>1 DEF Settled
<1>4. ASSUME NEW l \in Nat, UnderWay(b, n, l)
      PROVE  Settled(b, n)' \/ UnderWay(b, n, l)'
  <2>1. PICK p \in DOMAIN side : /\ side[p] = [block |-> b, batch |-> n]
                                 /\ issued - Len(side) + p <= l
                                 /\ \A q \in DOMAIN side : q > p => side[q].block # b
    BY <1>4 DEF UnderWay
  <2>2. CASE p = 1
    <3>1. \A q \in DOMAIN side' : side'[q].block # b
      BY <1>2, <2>1, <2>2
    <3>2. mem'[b] = n
      BY <1>1, <2>1, <2>2
    <3>. QED  BY <3>1, <3>2 DEF Settled
  <2>3. CASE p # 1
    <3>1. p - 1 \in DOMAIN side' /\ side'[p - 1] = [block |-> b, batch |-> n]
      BY <1>1, <2>1, <2>3
    <3>2. issued' - Len(side') + (p - 1) <= l
      BY <1>1, <2>1
    <3>3. ASSUME NEW q \in DOMAIN side', q > p - 1
          PROVE  side'[q].block # b
      <4>1. q + 1 > p
        BY <1>1, <2>1, <3>3
      <4>. QED  BY <1>2, <2>1, <4>1
    <3>. QED  BY <3>1, <3>2, <3>3 DEF UnderWay
  <2>. QED  BY <2>2, <2>3
<1>. QED  BY <1>3, <1>4

\* Queueing a copy into another block changes nothing, and the last copy into
\* its own block is then its own.
LEMMA TransferKeeps ==
  ASSUME TypeInv, NEW x \in Blocks, NEW m \in Nat,
         side' = Append(side, [block |-> x, batch |-> m]), mem' = mem, issued' = issued + 1,
         NEW b \in Blocks, b # x, NEW n \in Nat
  PROVE  /\ Settled(b, n) => Settled(b, n)'
         /\ \A l \in Nat : UnderWay(b, n, l) => UnderWay(b, n, l)'
         /\ UnderWay(x, m, issued)'
<1>1. /\ DOMAIN side = 1..Len(side) /\ Len(side) \in Nat
      /\ DOMAIN side' = 1..Len(side) + 1 /\ Len(side') = Len(side) + 1
      /\ \A i \in 1..Len(side) : side'[i] = side[i]
      /\ side'[Len(side) + 1] = [block |-> x, batch |-> m] /\ issued \in Nat
  BY AppendFacts DEF TypeInv, Copies
<1>2. Settled(b, n) => Settled(b, n)'
  BY <1>1 DEF Settled
<1>3. ASSUME NEW l \in Nat, UnderWay(b, n, l)
      PROVE  UnderWay(b, n, l)'
  BY <1>1, <1>3 DEF UnderWay
<1>4. UnderWay(x, m, issued)'
  BY <1>1 DEF UnderWay
<1>. QED  BY <1>2, <1>3, <1>4

-----------------------------------------------------------------------------
(* Every step preserves the invariant. *)

\* At first nothing is queued.
LEMMA InitIInv == Init => IInv
<1>. SUFFICES ASSUME Init PROVE IInv
  OBVIOUS
<1>1. TypeInv
  BY PrefetcherAssumption DEF Init, TypeInv, NoBatch
<1>2. Streams
  BY DEF Init, Streams, Executed, Queued
<1>3. Batches
  BY PrefetcherAssumption DEF Init, Batches, NoBatch, Copies
<1>4. Order /\ ComputesItsBatch /\ OrderUnlessError
  BY PrefetcherAssumption DEF Init, Order, NoBatch, ComputesItsBatch, OrderUnlessError
<1>. QED  BY <1>1, <1>2, <1>3, <1>4 DEF IInv

\* Nothing is queued and nothing executed: the loop and the thread go on.
LEMMA HostKeeps ==
  ASSUME IInv, UNCHANGED gpu, issued' = issued, yielded' = yielded, recorded' = recorded,
         held' = held, gpuBatch' = gpuBatch, main' = "compute" <=> main = "compute"
  PROVE  /\ Streams' /\ ComputesItsBatch'
         /\ main' = "compute" => /\ held' \in Copies /\ held'.block \in recorded'
                                 /\ Len(yielded') > 0 /\ Sound(Len(yielded), held.block)'
         /\ gpuBatch' \in Copies =>
              \/ Settled(gpuBatch.block, gpuBatch.batch)'
              \/ UnderWay(gpuBatch.block, gpuBatch.batch, issued)'
<1>1. Queued' = Queued /\ Executed' = Executed
  BY DEF Queued, Executed, gpu
<1>2. \A b, n : (Settled(b, n)' <=> Settled(b, n))
  BY DEF Settled, gpu
<1>3. \A b, n, l : (UnderWay(b, n, l)' <=> UnderWay(b, n, l))
  BY DEF UnderWay, gpu
<1>4. \A y, b : Sound(y, b)' <=> Sound(y, b)
  BY <1>1, <1>2, <1>3 DEF Sound, WaitPending, WaitOf, gpu
<1>5. Streams'
  BY <1>1, <1>4 DEF IInv, Streams, WaitPending, WaitOf, ReadPending, ReadOf, gpu
<1>. QED  BY <1>2, <1>3, <1>4, <1>5 DEF IInv, Batches, ComputesItsBatch, gpu

\* The thread takes a batch, or finds the end.
LEMMA FetchIInv == ASSUME IInv, Fetch PROVE IInv'
<1>1. /\ UNCHANGED gpu /\ issued' = issued /\ yielded' = yielded /\ recorded' = recorded
      /\ held' = held /\ gpuBatch' = gpuBatch /\ main' = main /\ errors' = errors
      /\ thread = "fetch" /\ ~done /\ NumBatches \in Nat
  BY PrefetcherAssumption DEF Fetch, IInv, Order
<1>2. TypeInv'
  BY <1>1 DEF IInv, TypeInv, Fetch, gpu
<1>3. Streams' /\ ComputesItsBatch' /\ Batches'
  BY <1>1, HostKeeps DEF Batches, IInv, Fetch
<1>4. Order'
  <2>1. pos \in Nat /\ Len(yielded) \in Nat /\ gpuBatch.batch \in Nat
    BY DEF IInv, TypeInv, Copies, NoBatch
  <2>. QED  BY <1>1, <2>1 DEF IInv, TypeInv, Order, Fetch
<1>5. OrderUnlessError'
  BY <1>1 DEF IInv, OrderUnlessError
<1>. QED  BY <1>2, <1>3, <1>4, <1>5 DEF IInv

\* An exception of the DataLoader.
LEMMA FetchRaisesIInv == ASSUME IInv, FetchRaises PROVE IInv'
<1>1. /\ UNCHANGED gpu /\ issued' = issued /\ yielded' = yielded /\ recorded' = recorded
      /\ held' = held /\ gpuBatch' = gpuBatch /\ done' = done
      /\ thread' = "over" /\ main' = (IF main = "iter" THEN "end" ELSE main)
      /\ pos' \in {pos, pos + 1} \cap 0..NumBatches /\ errors' = errors + 1
  BY DEF FetchRaises
<1>2. TypeInv'
  BY <1>1 DEF IInv, TypeInv, gpu
<1>3. Streams' /\ ComputesItsBatch' /\ Batches'
  BY <1>1, HostKeeps DEF Batches, IInv
<1>4. errors' # 0 /\ pos' >= pos /\ gpuBatch.batch \in Nat /\ pos \in Nat
  BY <1>1, PrefetcherAssumption DEF IInv, TypeInv, Copies, NoBatch
<1>5. Order' /\ OrderUnlessError'
  BY <1>1, <1>4 DEF IInv, Order, OrderUnlessError
<1>. QED  BY <1>2, <1>3, <1>5 DEF IInv

\* The beginning and the end of the loop.
LEMMA LoopIInv == ASSUME IInv, Iter \/ IterReturns \/ StopIter PROVE IInv'
<1>1. /\ UNCHANGED gpu /\ issued' = issued /\ yielded' = yielded /\ recorded' = recorded
      /\ held' = held /\ gpuBatch' = gpuBatch /\ pos' = pos /\ done' = done /\ errors' = errors
      /\ main \in {"iter", "next"} /\ main' # "compute"
  BY DEF Iter, IterReturns, StopIter
<1>2. TypeInv'
  BY <1>1 DEF IInv, TypeInv, Iter, IterReturns, StopIter, gpu
<1>3. Streams' /\ ComputesItsBatch' /\ Batches'
  BY <1>1, HostKeeps DEF Batches, IInv, Iter, IterReturns, StopIter
<1>4. Order'
  <2>1. CASE Iter
    BY <1>1, <2>1 DEF IInv, Order, Iter
  <2>2. CASE IterReturns
    BY <1>1, <2>2 DEF IInv, Order, IterReturns
  <2>3. CASE StopIter
    BY <1>1, <2>3 DEF IInv, Order, StopIter, Joined
  <2>. QED  BY <2>1, <2>2, <2>3
<1>5. OrderUnlessError'
  BY <1>1 DEF IInv, Order, OrderUnlessError, Iter, IterReturns, StopIter, Joined
<1>. QED  BY <1>2, <1>3, <1>4, <1>5 DEF IInv

\* The positions of the operations of the compute stream.
LEMMA Positions ==
  ASSUME TypeInv, Streams
  PROVE  /\ Len(yielded) \in Nat /\ Len(compute) \in Nat /\ Len(computed) \in Nat
         /\ Queued \in Int /\ Executed \in Nat /\ Executed = Queued - Len(compute)
         /\ main = "compute" => Queued = 2 * Len(yielded) - 1
         /\ main # "compute" => Queued = 2 * Len(yielded)
         /\ DOMAIN compute = 1..Len(compute) /\ DOMAIN yielded = 1..Len(yielded)
         /\ DOMAIN computed = 1..Len(computed)
         /\ \A y \in 1..Len(yielded) :
              /\ WaitPending(y) => 2 * y - 1 - Executed \in 1..Len(compute)
              /\ ReadPending(y) => 2 * y - Executed \in 1..Len(compute)
<1>1. /\ Len(yielded) \in Nat /\ Len(compute) \in Nat /\ Len(computed) \in Nat
      /\ DOMAIN compute = 1..Len(compute) /\ DOMAIN yielded = 1..Len(yielded)
      /\ DOMAIN computed = 1..Len(computed)
  BY DEF TypeInv
<1>2. /\ Queued \in Int /\ Executed \in Nat /\ Executed = Queued - Len(compute)
      /\ main = "compute" => Queued = 2 * Len(yielded) - 1
      /\ main # "compute" => Queued = 2 * Len(yielded)
  BY <1>1 DEF Queued, Executed, Streams
<1>. QED  BY <1>1, <1>2 DEF WaitPending, ReadPending

\* The operations themselves.
LEMMA Operations ==
  ASSUME TypeInv, Streams, NEW y \in 1..Len(yielded)
  PROVE  /\ WaitPending(y) => WaitOf(y).op = "wait" /\ WaitOf(y).copies \in Nat
         /\ ReadPending(y) => ReadOf(y).op = "read" /\ ReadOf(y).block \in Blocks
<1>1. ASSUME NEW o \in Ops
      PROVE  /\ o.op = "wait" => o.copies \in Nat
             /\ o.op = "read" => o.block \in Blocks
  <2>1. CASE o \in [op : {"wait"}, copies : Nat]
    BY <2>1
  <2>2. CASE o \in [op : {"read"}, block : Blocks]
    BY <2>2
  <2>. QED  BY <2>1, <2>2 DEF Ops
<1>2. WaitPending(y) => WaitOf(y) \in Ops
  BY Positions, ElementOfSeq DEF WaitOf, TypeInv
<1>3. ReadPending(y) => ReadOf(y) \in Ops
  BY Positions, ElementOfSeq, SMTT(30) DEF ReadOf, TypeInv
<1>. QED  BY <1>1, <1>2, <1>3 DEF Streams

\* A copy is queued into a block that nothing to come reads.
LEMMA TransferIInv == ASSUME IInv, Transfer PROVE IInv'
<1>1. PICK x \in Blocks :
        /\ Free(x) /\ side' = Append(side, [block |-> x, batch |-> pos])
        /\ gpuBatch' = [block |-> x, batch |-> pos] /\ recorded' = recorded \ {x}
  BY DEF Transfer
<1>2. /\ thread = "transfer" /\ thread' = "over" /\ issued' = issued + 1 /\ main' = main
      /\ pos' = pos /\ done' = done /\ held' = held /\ yielded' = yielded /\ compute' = compute
      /\ mem' = mem /\ computed' = computed /\ errors' = errors
  BY DEF Transfer
<1>3. TypeInv /\ Streams /\ Batches /\ Order /\ pos \in Nat
  BY PrefetcherAssumption DEF IInv, TypeInv
<1>4. TypeInv'
  <2>1. [block |-> x, batch |-> pos] \in Copies
    BY <1>3 DEF Copies
  <2>2. side' \in Seq(Copies)
    BY <1>1, <1>3, <2>1, AppendFacts DEF TypeInv
  <2>. QED  BY <1>1, <1>2, <1>3, <2>1, <2>2 DEF TypeInv
<1>5. ASSUME NEW b \in Blocks, b # x, NEW n \in Nat
      PROVE  /\ Settled(b, n) => Settled(b, n)'
             /\ \A l \in Nat : UnderWay(b, n, l) => UnderWay(b, n, l)'
  BY <1>1, <1>2, <1>3, <1>5, TransferKeeps
<1>6. UnderWay(gpuBatch.block, gpuBatch.batch, issued)'
  <2>1. UnderWay(x, pos, issued)'
    <3>1. /\ DOMAIN side' = 1..Len(side) + 1 /\ Len(side') = Len(side) + 1
          /\ side'[Len(side) + 1] = [block |-> x, batch |-> pos]
          /\ Len(side) \in Nat /\ issued \in Nat
      BY <1>1, <1>3, AppendFacts DEF TypeInv, Copies
    <3>. QED  BY <1>2, <3>1 DEF UnderWay
  <2>. QED  BY <1>1, <1>2, <2>1
<1>7. Queued' = Queued /\ Executed' = Executed
  BY <1>2 DEF Queued, Executed
<1>8. ASSUME NEW y \in 1..Len(yielded), NEW b \in Blocks, b # x, Sound(y, b)
      PROVE  Sound(y, b)'
  <2>1. yielded[y] \in Nat
    BY <1>3 DEF TypeInv
  <2>2. CASE Settled(b, yielded[y])
    BY <1>2, <1>5, <1>8, <2>1, <2>2 DEF Sound
  <2>3. CASE WaitPending(y) /\ UnderWay(b, yielded[y], WaitOf(y).copies)
    <3>1. WaitOf(y).copies \in Nat
      BY <1>3, <2>3, Operations
    <3>2. UnderWay(b, yielded[y], WaitOf(y).copies)'
      BY <1>2, <1>5, <1>7, <1>8, <2>1, <2>3, <3>1 DEF WaitOf
    <3>. QED  BY <1>2, <1>7, <2>3, <3>2 DEF Sound, WaitPending
  <2>. QED  BY <1>8, <2>2, <2>3 DEF Sound
<1>9. Streams'
  <2>1. \A y : ReadOf(y)' = ReadOf(y) /\ WaitOf(y)' = WaitOf(y)
    BY <1>2, <1>7 DEF ReadOf, WaitOf
  <2>2. ASSUME NEW y \in 1..Len(yielded), ReadPending(y)
        PROVE  ReadOf(y).block \in recorded \ {x} /\ Sound(y, ReadOf(y).block)'
    <3>1. /\ ReadOf(y).op = "read" /\ ReadOf(y).block \in recorded
          /\ Sound(y, ReadOf(y).block) /\ ReadOf(y).block \in Blocks
      BY <1>3, <2>2 DEF Streams, TypeInv
    <3>2. PendingReads(ReadOf(y).block)
      <4>1. 2 * y - Executed \in DOMAIN compute
        BY <1>3, <2>2, Positions
      <4>. QED  BY <3>1, <4>1 DEF PendingReads, ReadOf
    <3>3. ReadOf(y).block # x
      BY <1>1, <3>1, <3>2 DEF Free
    <3>. QED  BY <1>8, <2>1, <3>1, <3>3
  <2>. QED  BY <1>1, <1>2, <1>3, <1>7, <2>2, <2>1 DEF Streams, WaitPending, ReadPending
<1>10. Batches'
  <2>1. ASSUME main = "compute"
        PROVE  held \in Copies /\ held.block \in recorded \ {x} /\ Sound(Len(yielded), held.block)'
    <3>1. held \in Copies /\ held.block \in recorded /\ Sound(Len(yielded), held.block)
      BY <1>3, <2>1 DEF Batches
    <3>2. held.block # x /\ held.block \in Blocks
      BY <1>1, <3>1 DEF Free, Copies
    <3>3. Len(yielded) \in 1..Len(yielded)
      BY <1>3, <2>1, Positions DEF Batches
    <3>. QED  BY <1>2, <1>8, <3>1, <3>2, <3>3
  <2>2. gpuBatch' \in Copies
    BY <1>1, <1>3 DEF Copies
  <2>. QED  BY <1>1, <1>2, <1>3, <1>6, <2>1, <2>2 DEF Batches
<1>11. Order' /\ OrderUnlessError' /\ ComputesItsBatch'
  <2>1. /\ gpuBatch'.batch = pos /\ gpuBatch.batch \in Nat /\ pos \in Nat
        /\ Len(yielded) > 0 => yielded[Len(yielded)] \in Nat
    BY <1>1, <1>3, SMTT(30) DEF TypeInv, Copies, NoBatch
  <2>2. Order'
    BY <1>2, <1>3, <2>1 DEF Order
  <2>. QED  BY <1>2, <2>2 DEF IInv, OrderUnlessError, ComputesItsBatch
<1>. QED  BY <1>4, <1>9, <1>10, <1>11 DEF IInv

\* The loop is given the batch of gpuBatch: its wait covers all copies so far.
LEMMA NextBatchIInv == ASSUME IInv, NextBatch PROVE IInv'
<1>. DEFINE wait == [op |-> "wait", copies |-> issued]
<1>0. PICK Y \in Nat : Y = Len(yielded)
  BY DEF IInv, TypeInv
<1>1. TypeInv /\ Streams /\ Batches /\ Order /\ gpuBatch \in Copies
  BY DEF IInv, NextBatch, Batches
<1>2. /\ main = "next" /\ main' = "compute" /\ thread' = "fetch" /\ ~done
      /\ compute' = Append(compute, wait) /\ yielded' = Append(yielded, gpuBatch.batch)
      /\ recorded' = recorded \cup {gpuBatch.block} /\ held' = gpuBatch
      /\ pos' = pos /\ done' = done /\ gpuBatch' = gpuBatch /\ issued' = issued /\ side' = side
      /\ mem' = mem /\ computed' = computed /\ errors' = errors /\ thread \in {"none", "over"}
  BY DEF NextBatch, WithWait, WithRecord, Joined
<1>3. gpuBatch.block \in Blocks /\ gpuBatch.batch \in Nat /\ wait \in Ops
  BY <1>1 DEF Copies, Ops, TypeInv
<1>4. /\ compute' \in Seq(Ops) /\ Len(compute') = Len(compute) + 1 /\ Len(compute) \in Nat
      /\ \A i \in 1..Len(compute) : compute'[i] = compute[i]
      /\ compute'[Len(compute) + 1] = wait
  BY <1>1, <1>2, <1>3, AppendFacts DEF TypeInv
<1>5. /\ yielded' \in Seq(Nat) /\ Len(yielded') = Y + 1 /\ Y \in Nat
      /\ \A i \in 1..Y : yielded'[i] = yielded[i] /\ yielded[i] \in Nat
      /\ yielded'[Y + 1] = gpuBatch.batch
      /\ DOMAIN yielded = 1..Y /\ DOMAIN yielded' = 1..Y + 1
  BY <1>0, <1>1, <1>2, <1>3, AppendFacts DEF TypeInv
<1>. HIDE DEF wait
<1>6. TypeInv'
  BY <1>1, <1>2, <1>3, <1>4, <1>5 DEF TypeInv
<1>7. Queued = 2 * Y /\ Queued' = 2 * Y + 1 /\ Executed' = Executed /\ Executed \in Nat
  <2>1. Queued = 2 * Y /\ Executed = Queued - Len(compute) /\ Executed \in Nat
    BY <1>0, <1>1, <1>2, Positions
  <2>2. Queued' = 2 * Y + 1
    BY <1>2, <1>5 DEF Queued
  <2>. QED  BY <1>4, <2>1, <2>2 DEF Executed
<1>8. ASSUME NEW y \in 1..Y
      PROVE  /\ WaitPending(y) => WaitOf(y)' = WaitOf(y)
             /\ ReadPending(y) => ReadOf(y)' = ReadOf(y)
             /\ WaitPending(y)' <=> WaitPending(y)
             /\ ReadPending(y)' <=> ReadPending(y)
  <2>1. /\ WaitPending(y) => 2 * y - 1 - Executed \in 1..Len(compute)
        /\ ReadPending(y) => 2 * y - Executed \in 1..Len(compute)
    BY <1>0, <1>1, Positions
  <2>2. (WaitPending(y)' <=> WaitPending(y)) /\ (ReadPending(y)' <=> ReadPending(y))
    BY <1>7 DEF WaitPending, ReadPending
  <2>3. WaitPending(y) => WaitOf(y)' = WaitOf(y)
    BY <1>4, <1>7, <2>1 DEF WaitOf
  <2>4. ReadPending(y) => ReadOf(y)' = ReadOf(y)
    BY <1>4, <1>7, <2>1 DEF ReadOf
  <2>. QED  BY <2>2, <2>3, <2>4
<1>9. ASSUME NEW b, NEW n
      PROVE  /\ Settled(b, n)' <=> Settled(b, n)
             /\ \A l : UnderWay(b, n, l)' <=> UnderWay(b, n, l)
  BY <1>2 DEF Settled, UnderWay
<1>10. WaitPending(Y + 1)' /\ WaitOf(Y + 1)' = wait /\ ~ReadPending(Y + 1)'
  <2>1. 2 * (Y + 1) - 1 - Executed = Len(compute) + 1
    BY <1>0, <1>1, <1>2, <1>4, <1>5, Positions
  <2>. QED  BY <1>4, <1>5, <1>7, <2>1 DEF WaitPending, WaitOf, ReadPending
<1>11. Sound(Y + 1, gpuBatch.block)'
  <2>1. \/ Settled(gpuBatch.block, gpuBatch.batch)
        \/ UnderWay(gpuBatch.block, gpuBatch.batch, issued)
    BY <1>1 DEF Batches
  <2>. QED  BY <1>2, <1>5, <1>9, <1>10, <2>1 DEF Sound, wait
<1>12. Streams'
  <2>1. ASSUME NEW y \in 1..Y + 1, WaitPending(y)'
        PROVE  WaitOf(y)'.op = "wait"
    <3>1. CASE y \in 1..Y
      BY <1>0, <1>1, <1>8, <2>1, <3>1 DEF Streams
    <3>2. CASE y = Y + 1
      BY <1>10, <3>2 DEF wait
    <3>. QED  BY <1>5, <3>1, <3>2
  <2>2. ASSUME NEW y \in 1..Y + 1, ReadPending(y)'
        PROVE  /\ ReadOf(y)'.op = "read" /\ ReadOf(y)'.block \in recorded'
               /\ Sound(y, ReadOf(y).block)'
    <3>1. y \in 1..Y
      BY <1>5, <1>10, <2>2
    <3>2. /\ ReadOf(y).op = "read" /\ ReadOf(y).block \in recorded
          /\ Sound(y, ReadOf(y).block) /\ ReadOf(y)' = ReadOf(y)
      BY <1>0, <1>1, <1>8, <2>2, <3>1 DEF Streams
    <3>3. Sound(y, ReadOf(y).block)'
      BY <1>5, <1>8, <1>9, <3>1, <3>2 DEF Sound
    <3>. QED  BY <1>2, <3>2, <3>3
  <2>3. 2 * Len(computed) \in {Executed - 1, Executed}
    BY <1>1 DEF Streams
  <2>. QED  BY <1>2, <1>5, <1>7, <2>1, <2>2, <2>3 DEF Streams
<1>13. Batches'
  <2>1. Sound(Len(yielded), held.block)'
    BY <1>2, <1>5, <1>11
  <2>. QED  BY <1>1, <1>2, <1>5, <1>9, <2>1 DEF Batches
<1>14. Order' /\ OrderUnlessError' /\ ComputesItsBatch'
  <2>1. Order'
    BY <1>0, <1>1, <1>2, <1>3, <1>5 DEF Order
  <2>2. \A i \in 2..Y + 1 : yielded'[i - 1] <= yielded'[i]
    <3>1. ASSUME NEW i \in 2..Y
          PROVE  yielded'[i - 1] <= yielded'[i]
      <4>1. yielded[i - 1] <= yielded[i]
        BY <1>0 DEF IInv, OrderUnlessError
      <4>2. i - 1 \in 1..Y /\ i \in 1..Y
        OBVIOUS
      <4>. QED  BY <1>5, <4>1, <4>2
    <3>2. Y > 0 => yielded'[Y] <= yielded'[Y + 1]
      BY <1>0, <1>1, <1>5 DEF Order
    <3>3. ASSUME NEW i \in 2..Y + 1
          PROVE  i \in 2..Y \/ (i = Y + 1 /\ i - 1 = Y /\ Y > 0)
      OBVIOUS
    <3>. QED  BY <3>1, <3>2, <3>3
  <2>3. ASSUME errors = 0
        PROVE  \A i \in 1..Y + 1 : yielded'[i] = i
    <3>1. gpuBatch.batch = Y + 1
      BY <1>0, <1>1, <1>2, <2>3 DEF Order
    <3>2. \A i \in 1..Y : yielded[i] = i
      BY <1>5, <2>3, Zenon DEF IInv, OrderUnlessError
    <3>. QED  BY <1>5, <3>1, <3>2
  <2>4. ComputesItsBatch'
    <3>1. Len(computed) <= Y /\ DOMAIN computed = 1..Len(computed)
      <4>1. /\ 2 * Len(computed) \in {Executed - 1, Executed} /\ Executed = 2 * Y - Len(compute)
            /\ Len(computed) \in Nat /\ DOMAIN computed = 1..Len(computed)
        BY <1>1, <1>7, Positions DEF Streams
      <4>. QED  BY <1>4, <4>1
    <3>. QED  BY <1>2, <1>5, <3>1 DEF IInv, ComputesItsBatch
  <2>. QED  BY <1>2, <1>5, <2>1, <2>2, <2>3, <2>4 DEF OrderUnlessError
<1>. QED  BY <1>6, <1>12, <1>13, <1>14 DEF IInv

\* The read of the batch is queued behind its wait.
LEMMA RunBatchIInv == ASSUME IInv, RunBatch PROVE IInv'
<1>. DEFINE read == [op |-> "read", block |-> held.block]
<1>0. PICK Y \in Nat : Y = Len(yielded)
  BY DEF IInv, TypeInv
<1>1. TypeInv /\ Streams /\ Batches /\ Order
  BY DEF IInv
<1>2. /\ main = "compute" /\ main' = "next" /\ thread' = thread
      /\ compute' = Append(compute, read) /\ yielded' = yielded /\ recorded' = recorded
      /\ held' = held /\ pos' = pos /\ done' = done /\ gpuBatch' = gpuBatch /\ issued' = issued
      /\ side' = side /\ mem' = mem /\ computed' = computed /\ errors' = errors
  BY DEF RunBatch
<1>3. /\ held.block \in Blocks /\ held.block \in recorded /\ Y > 0 /\ Sound(Y, held.block)
      /\ read \in Ops
  BY <1>0, <1>1, <1>2 DEF Batches, Copies, Ops
<1>4. /\ compute' \in Seq(Ops) /\ Len(compute') = Len(compute) + 1 /\ Len(compute) \in Nat
      /\ \A i \in 1..Len(compute) : compute'[i] = compute[i]
      /\ compute'[Len(compute) + 1] = read
  BY <1>1, <1>2, <1>3, AppendFacts DEF TypeInv
<1>. HIDE DEF read
<1>5. TypeInv'
  BY <1>1, <1>2, <1>4 DEF TypeInv
<1>6. Queued = 2 * Y - 1 /\ Queued' = 2 * Y /\ Executed' = Executed /\ Executed \in Nat
      /\ Executed = 2 * Y - 1 - Len(compute)
  <2>1. Queued = 2 * Y - 1 /\ Executed = Queued - Len(compute) /\ Executed \in Nat
    BY <1>0, <1>1, <1>2, Positions
  <2>2. Queued' = 2 * Y
    BY <1>0, <1>2 DEF Queued
  <2>. QED  BY <1>4, <2>1, <2>2 DEF Executed
<1>7. ASSUME NEW y \in 1..Y
      PROVE  /\ WaitPending(y) => WaitOf(y)' = WaitOf(y)
             /\ ReadPending(y) => ReadOf(y)' = ReadOf(y)
             /\ WaitPending(y)' <=> WaitPending(y)
             /\ ReadPending(y)' => ReadPending(y) \/ y = Y
  <2>1. /\ WaitPending(y) => 2 * y - 1 - Executed \in 1..Len(compute)
        /\ ReadPending(y) => 2 * y - Executed \in 1..Len(compute)
    BY <1>0, <1>1, Positions
  <2>2. (WaitPending(y)' <=> WaitPending(y)) /\ (ReadPending(y)' => ReadPending(y) \/ y = Y)
    BY <1>6 DEF WaitPending, ReadPending
  <2>3. WaitPending(y) => WaitOf(y)' = WaitOf(y)
    BY <1>4, <1>6, <2>1 DEF WaitOf
  <2>4. ReadPending(y) => ReadOf(y)' = ReadOf(y)
    BY <1>4, <1>6, <2>1, SMTT(30) DEF ReadOf
  <2>. QED  BY <2>2, <2>3, <2>4
<1>8. ASSUME NEW b, NEW n
      PROVE  /\ Settled(b, n)' <=> Settled(b, n)
             /\ \A l : UnderWay(b, n, l)' <=> UnderWay(b, n, l)
  BY <1>2 DEF Settled, UnderWay
<1>9. ASSUME NEW y \in 1..Y, NEW b, Sound(y, b)
      PROVE  Sound(y, b)'
  BY <1>2, <1>7, <1>8, <1>9 DEF Sound
<1>10. Streams'
  <2>1. ASSUME NEW y \in 1..Y, WaitPending(y)'
        PROVE  WaitOf(y)'.op = "wait"
    BY <1>0, <1>1, <1>7, <2>1 DEF Streams
  <2>2. ASSUME NEW y \in 1..Y, ReadPending(y)'
        PROVE  /\ ReadOf(y)'.op = "read" /\ ReadOf(y)'.block \in recorded'
               /\ Sound(y, ReadOf(y).block)'
    <3>1. CASE ReadPending(y) /\ y # Y
      <4>1. /\ ReadOf(y).op = "read" /\ ReadOf(y).block \in recorded
            /\ Sound(y, ReadOf(y).block) /\ ReadOf(y)' = ReadOf(y)
        BY <1>0, <1>1, <1>7, <3>1 DEF Streams
      <4>. QED  BY <1>2, <1>9, <4>1
    <3>2. CASE y = Y
      <4>1. 2 * y - Executed = Len(compute) + 1
        BY <1>4, <1>6, <3>2
      <4>2. ReadOf(y)' = read
        BY <1>4, <1>6, <4>1 DEF ReadOf
      <4>. QED  BY <1>2, <1>3, <1>9, <3>2, <4>2 DEF read
    <3>. QED  BY <1>7, <2>2, <3>1, <3>2
  <2>3. 2 * Len(computed) \in {Executed - 1, Executed}
    BY <1>1 DEF Streams
  <2>. QED  BY <1>0, <1>2, <1>6, <2>1, <2>2, <2>3 DEF Streams
<1>11. Batches'
  BY <1>1, <1>2, <1>8 DEF Batches
<1>12. Order' /\ OrderUnlessError' /\ ComputesItsBatch'
  BY <1>1, <1>2 DEF IInv, Order, OrderUnlessError, ComputesItsBatch
<1>. QED  BY <1>5, <1>10, <1>11, <1>12 DEF IInv

\* Executing a copy: what is under way settles.
LEMMA CopyDoneIInv == ASSUME IInv, CopyDone PROVE IInv'
<1>1. TypeInv /\ Streams /\ Batches /\ Order
  BY DEF IInv
<1>2. /\ main' = main /\ thread' = thread /\ compute' = compute /\ yielded' = yielded
      /\ recorded' = recorded /\ held' = held /\ pos' = pos /\ done' = done
      /\ gpuBatch' = gpuBatch /\ issued' = issued /\ computed' = computed /\ errors' = errors
      /\ side # <<>> /\ side' = Tail(side)
      /\ mem' = [mem EXCEPT ![Head(side).block] = Head(side).batch]
  BY DEF CopyDone
<1>3. TypeInv'
  <2>1. side' \in Seq(Copies) /\ Head(side) \in Copies
    BY <1>1, <1>2, TailFacts DEF TypeInv
  <2>2. mem' \in [Blocks -> Nat]
    BY <1>1, <1>2, <2>1, SMTT(30) DEF TypeInv, Copies
  <2>. QED  BY <1>1, <1>2, <2>1, <2>2 DEF TypeInv
<1>4. Queued' = Queued /\ Executed' = Executed
  BY <1>2 DEF Queued, Executed
<1>5. \A y : ReadOf(y)' = ReadOf(y) /\ WaitOf(y)' = WaitOf(y)
             /\ (WaitPending(y)' <=> WaitPending(y)) /\ (ReadPending(y)' <=> ReadPending(y))
  BY <1>2, <1>4 DEF ReadOf, WaitOf, WaitPending, ReadPending
<1>6. ASSUME NEW y \in 1..Len(yielded), NEW b \in Blocks, Sound(y, b)
      PROVE  Sound(y, b)'
  <2>1. yielded[y] \in Nat
    BY <1>1 DEF TypeInv
  <2>2. WaitPending(y) => WaitOf(y).copies \in Nat
    BY <1>1, Operations
  <2>. QED  BY <1>1, <1>2, <1>5, <1>6, <2>1, <2>2, CopyKeeps DEF Sound
<1>7. Streams'
  BY <1>1, <1>2, <1>4, <1>5, <1>6, Operations DEF Streams
<1>8. Batches'
  <2>1. ASSUME main = "compute"
        PROVE  Sound(Len(yielded), held.block)'
    <3>1. held.block \in Blocks /\ Len(yielded) \in 1..Len(yielded) /\ Sound(Len(yielded), held.block)
      BY <1>1, <2>1, Positions DEF Batches, Copies
    <3>. QED  BY <1>2, <1>6, <3>1
  <2>2. ASSUME gpuBatch \in Copies
        PROVE  \/ Settled(gpuBatch.block, gpuBatch.batch)'
               \/ UnderWay(gpuBatch.block, gpuBatch.batch, issued)'
    <3>1. gpuBatch.block \in Blocks /\ gpuBatch.batch \in Nat /\ issued \in Nat
      BY <1>1, <2>2 DEF Copies, TypeInv
    <3>. QED  BY <1>1, <1>2, <2>2, <3>1, CopyKeeps DEF Batches
  <2>. QED  BY <1>1, <1>2, <2>1, <2>2 DEF Batches
<1>9. Order' /\ OrderUnlessError' /\ ComputesItsBatch'
  BY <1>1, <1>2 DEF IInv, Order, OrderUnlessError, ComputesItsBatch
<1>. QED  BY <1>3, <1>7, <1>8, <1>9 DEF IInv

\* The first operation of the compute stream belongs to the next batch to be
\* computed.
LEMMA FrontOperation ==
  ASSUME TypeInv, Streams, compute # <<>>, NEW y, y = Len(computed) + 1
  PROVE  /\ y \in 1..Len(yielded)
         /\ Head(compute).op = "wait" =>
              2 * y - 1 = Executed + 1 /\ Head(compute) = WaitOf(y) /\ WaitPending(y)
         /\ Head(compute).op = "read" =>
              2 * y = Executed + 1 /\ Head(compute) = ReadOf(y) /\ ReadPending(y)
<1>1. Len(compute) \in Nat \ {0} /\ Head(compute) = compute[1]
  BY TailFacts DEF TypeInv
<1>2. /\ Len(yielded) \in Nat /\ Len(computed) \in Nat /\ Executed \in Nat /\ Queued \in Int
      /\ Queued <= 2 * Len(yielded) /\ Executed + 1 <= Queued
      /\ 2 * Len(computed) \in {Executed - 1, Executed}
  BY <1>1, Positions DEF Streams
<1>3. y \in 1..Len(yielded)
  BY <1>2
<1>4. CASE 2 * Len(computed) = Executed
  <2>1. WaitPending(y) /\ 2 * y - 1 - Executed = 1 /\ 2 * y - 1 = Executed + 1
    BY <1>2, <1>4 DEF WaitPending
  <2>2. Head(compute) = WaitOf(y) /\ WaitOf(y).op = "wait"
    BY <1>1, <1>3, <2>1 DEF WaitOf, Streams
  <2>. QED  BY <1>3, <2>1, <2>2
<1>5. CASE 2 * Len(computed) = Executed - 1
  <2>1. ReadPending(y) /\ 2 * y - Executed = 1 /\ 2 * y = Executed + 1
    BY <1>2, <1>5 DEF ReadPending
  <2>2. Head(compute) = ReadOf(y) /\ ReadOf(y).op = "read"
    BY <1>1, <1>3, <2>1 DEF ReadOf, Streams
  <2>. QED  BY <1>3, <2>1, <2>2
<1>. QED  BY <1>2, <1>4, <1>5

\* Taking it away moves the others forward.
LEMMA PopKeeps ==
  ASSUME TypeInv, Streams, compute # <<>>, compute' = Tail(compute), yielded' = yielded,
         main' = main, side' = side, mem' = mem, issued' = issued
  PROVE  /\ Queued' = Queued /\ Executed' = Executed + 1 /\ compute' \in Seq(Ops)
         /\ \A y \in 1..Len(yielded) :
              /\ WaitPending(y) => WaitPending(y)' \/ 2 * y - 1 = Executed + 1
              /\ WaitPending(y)' => WaitPending(y) /\ WaitOf(y)' = WaitOf(y)
              /\ ReadPending(y)' => ReadPending(y) /\ ReadOf(y)' = ReadOf(y)
         /\ \A b, n : Settled(b, n)' <=> Settled(b, n)
         /\ \A b, n, l : UnderWay(b, n, l)' <=> UnderWay(b, n, l)
<1>1. /\ compute' \in Seq(Ops) /\ Len(compute) \in Nat \ {0} /\ Len(compute') = Len(compute) - 1
      /\ \A i \in 1..Len(compute) - 1 : compute'[i] = compute[i + 1]
  BY TailFacts DEF TypeInv
<1>2. Queued' = Queued /\ Executed' = Executed + 1 /\ Executed \in Nat /\ Queued \in Int
  <2>1. Queued' = Queued /\ Executed = Queued - Len(compute) /\ Executed \in Nat /\ Queued \in Int
    BY Positions DEF Queued
  <2>. QED  BY <1>1, <2>1 DEF Executed
<1>3. ASSUME NEW y \in 1..Len(yielded)
      PROVE  /\ WaitPending(y) => WaitPending(y)' \/ 2 * y - 1 = Executed + 1
             /\ WaitPending(y)' => WaitPending(y) /\ WaitOf(y)' = WaitOf(y)
             /\ ReadPending(y)' => ReadPending(y) /\ ReadOf(y)' = ReadOf(y)
  <2>0. Len(yielded) \in Nat
    BY Positions
  <2>1. /\ WaitPending(y) => WaitPending(y)' \/ 2 * y - 1 = Executed + 1
        /\ WaitPending(y)' => WaitPending(y) /\ 2 * y - 1 - (Executed + 1) >= 1
        /\ ReadPending(y)' => ReadPending(y) /\ 2 * y - (Executed + 1) >= 1
    BY <1>2, <2>0 DEF WaitPending, ReadPending
  <2>2. /\ WaitPending(y) => 2 * y - 1 - Executed \in 1..Len(compute)
        /\ ReadPending(y) => 2 * y - Executed \in 1..Len(compute)
    BY Positions
  <2>3. ASSUME WaitPending(y)'
        PROVE  WaitOf(y)' = WaitOf(y)
    <3>1. /\ 2 * y - 1 - (Executed + 1) \in 1..Len(compute) - 1
          /\ (2 * y - 1 - (Executed + 1)) + 1 = 2 * y - 1 - Executed
      BY <1>1, <1>2, <2>0, <2>1, <2>2, <2>3
    <3>. QED  BY <1>1, <1>2, <3>1 DEF WaitOf
  <2>4. ASSUME ReadPending(y)'
        PROVE  ReadOf(y)' = ReadOf(y)
    <3>1. /\ 2 * y - (Executed + 1) \in 1..Len(compute) - 1
          /\ (2 * y - (Executed + 1)) + 1 = 2 * y - Executed
      BY <1>1, <1>2, <2>0, <2>1, <2>2, <2>4
    <3>. QED  BY <1>1, <1>2, <3>1 DEF ReadOf
  <2>. QED  BY <2>1, <2>3, <2>4
<1>4. (\A b, n : Settled(b, n)' <=> Settled(b, n))
      /\ (\A b, n, l : UnderWay(b, n, l)' <=> UnderWay(b, n, l))
  BY DEF Settled, UnderWay
<1>. QED  BY <1>1, <1>2, <1>3, <1>4

\* After such a step it is enough that the waits taken away have been met.
LEMMA PopIInv ==
  ASSUME IInv, compute # <<>>, compute' = Tail(compute), yielded' = yielded,
         main' = main, side' = side, mem' = mem, issued' = issued, thread' = thread,
         recorded' = recorded, held' = held, gpuBatch' = gpuBatch, pos' = pos, done' = done,
         errors' = errors, computed' \in Seq(Nat), ComputesItsBatch',
         2 * Len(computed') \in {Executed, Executed + 1},
         \A y \in 1..Len(yielded), b \in Blocks :
            2 * y - 1 = Executed + 1 /\ Sound(y, b) => Settled(b, yielded[y])
  PROVE  IInv'
<1>1. TypeInv /\ Streams /\ Batches /\ Order /\ Executed \in Nat
  BY Positions DEF IInv
<1>2. /\ Queued' = Queued /\ Executed' = Executed + 1 /\ compute' \in Seq(Ops)
      /\ \A y \in 1..Len(yielded) :
           /\ WaitPending(y) => WaitPending(y)' \/ 2 * y - 1 = Executed + 1
           /\ WaitPending(y)' => WaitPending(y) /\ WaitOf(y)' = WaitOf(y)
           /\ ReadPending(y)' => ReadPending(y) /\ ReadOf(y)' = ReadOf(y)
      /\ \A b, n : Settled(b, n)' <=> Settled(b, n)
      /\ \A b, n, l : UnderWay(b, n, l)' <=> UnderWay(b, n, l)
  BY <1>1, PopKeeps
<1>3. TypeInv'
  BY <1>1, <1>2 DEF TypeInv
<1>4. ASSUME NEW y \in 1..Len(yielded), NEW b \in Blocks, Sound(y, b)
      PROVE  Sound(y, b)'
  <2>1. CASE Settled(b, yielded[y])
    BY <1>2, <2>1 DEF Sound
  <2>2. CASE WaitPending(y) /\ UnderWay(b, yielded[y], WaitOf(y).copies) /\ WaitPending(y)'
    BY <1>2, <2>2 DEF Sound
  <2>3. CASE 2 * y - 1 = Executed + 1
    BY <1>2, <1>4, <2>3, Zenon DEF Sound
  <2>. QED  BY <1>2, <1>4, <2>1, <2>2, <2>3 DEF Sound
<1>5. Streams'
  <2>1. ASSUME NEW y \in 1..Len(yielded), ReadPending(y)'
        PROVE  /\ ReadOf(y)'.op = "read" /\ ReadOf(y)'.block \in recorded'
               /\ Sound(y, ReadOf(y).block)'
    <3>1. /\ ReadOf(y).op = "read" /\ ReadOf(y).block \in recorded /\ ReadOf(y).block \in Blocks
          /\ Sound(y, ReadOf(y).block) /\ ReadOf(y)' = ReadOf(y)
      BY <1>1, <1>2, <2>1, Operations DEF Streams
    <3>. QED  BY <1>4, <3>1
  <2>2. \A y \in 1..Len(yielded) : WaitPending(y)' => WaitOf(y)'.op = "wait"
    BY <1>1, <1>2 DEF Streams
  <2>3. Executed' >= 0 /\ 2 * Len(computed') \in {Executed' - 1, Executed'}
    BY <1>1, <1>2, SMTT(30)
  <2>. QED  BY <2>1, <2>2, <2>3 DEF Streams
<1>6. Batches'
  <2>1. ASSUME main = "compute"
        PROVE  Sound(Len(yielded), held.block)'
    <3>1. held.block \in Blocks /\ Len(yielded) \in 1..Len(yielded) /\ Sound(Len(yielded), held.block)
      BY <1>1, <2>1, Positions DEF Batches, Copies
    <3>. QED  BY <1>4, <3>1
  <2>. QED  BY <1>1, <1>2, <2>1 DEF Batches
<1>7. Order' /\ OrderUnlessError'
  BY <1>1 DEF IInv, Order, OrderUnlessError
<1>. QED  BY <1>3, <1>5, <1>6, <1>7 DEF IInv

\* A wait that is over: the copies it waited for are executed.
LEMMA WaitDoneIInv == ASSUME IInv, WaitDone PROVE IInv'
<1>1. TypeInv /\ Streams
  BY DEF IInv
<1>2. PICK y0 : y0 = Len(computed) + 1
  OBVIOUS
<1>3. /\ y0 \in 1..Len(yielded) /\ 2 * y0 - 1 = Executed + 1 /\ Head(compute) = WaitOf(y0)
      /\ WaitPending(y0) /\ Len(computed) \in Nat /\ Executed \in Nat /\ Len(yielded) \in Nat
  BY <1>1, <1>2, FrontOperation, Positions, SMTT(30) DEF WaitDone
<1>4. ASSUME NEW y \in 1..Len(yielded), NEW b \in Blocks, 2 * y - 1 = Executed + 1, Sound(y, b)
      PROVE  Settled(b, yielded[y])
  <2>1. y = y0
    BY <1>3, <1>4
  <2>2. issued - Len(side) >= WaitOf(y).copies /\ WaitOf(y).copies \in Nat
        /\ issued \in Nat /\ Len(side) \in Nat /\ DOMAIN side = 1..Len(side)
    BY <1>1, <1>3, <2>1, Operations, SMTT(30) DEF WaitDone, TypeInv
  <2>3. ~UnderWay(b, yielded[y], WaitOf(y).copies)
    BY <2>2 DEF UnderWay
  <2>. QED  BY <1>4, <2>3 DEF Sound
<1>5. 2 * Len(computed) \in {Executed, Executed + 1} /\ computed' = computed
      /\ computed \in Seq(Nat) /\ ComputesItsBatch'
  <2>1. 2 * Len(computed) = Executed
    BY <1>2, <1>3
  <2>. QED  BY <1>1, <2>1 DEF WaitDone, IInv, TypeInv, ComputesItsBatch
<1>. QED  BY <1>4, <1>5, PopIInv DEF WaitDone

\* A read sees the batch that the loop was given.
LEMMA ReadDoneIInv == ASSUME IInv, ReadDone PROVE IInv'
<1>1. TypeInv /\ Streams
  BY DEF IInv
<1>2. PICK y0 : y0 = Len(computed) + 1
  OBVIOUS
<1>3. /\ y0 \in 1..Len(yielded) /\ 2 * y0 = Executed + 1 /\ Head(compute) = ReadOf(y0)
      /\ ReadPending(y0) /\ Len(computed) \in Nat /\ Executed \in Nat /\ Len(yielded) \in Nat
  BY <1>1, <1>2, FrontOperation, Positions DEF ReadDone
<1>4. ReadOf(y0).block \in Blocks /\ mem[ReadOf(y0).block] = yielded[y0] /\ yielded[y0] \in Nat
  <2>1. Sound(y0, ReadOf(y0).block) /\ ReadOf(y0).block \in Blocks
    BY <1>1, <1>3, Operations DEF Streams
  <2>2. yielded[y0] \in Nat
    BY <1>1, <1>3, ElementOfSeq DEF TypeInv
  <2>3. ~WaitPending(y0)
    BY <1>3 DEF WaitPending
  <2>. QED  BY <2>1, <2>2, <2>3 DEF Sound, Settled
<1>5. computed' = Append(computed, yielded[y0]) /\ yielded' = yielded
  BY <1>3, <1>4 DEF ReadDone
<1>6. /\ computed' \in Seq(Nat) /\ Len(computed') = Len(computed) + 1
      /\ DOMAIN computed = 1..Len(computed) /\ DOMAIN computed' = 1..Len(computed) + 1
      /\ \A i \in 1..Len(computed) : computed'[i] = computed[i]
      /\ computed'[Len(computed) + 1] = yielded[y0]
  BY <1>1, <1>4, <1>5, AppendFacts DEF TypeInv
<1>7. ComputesItsBatch'
  BY <1>2, <1>3, <1>5, <1>6 DEF IInv, ComputesItsBatch
<1>8. 2 * Len(computed') \in {Executed, Executed + 1}
  BY <1>2, <1>3, <1>6
<1>9. \A y \in 1..Len(yielded) : 2 * y - 1 # Executed + 1
  BY <1>3
<1>. QED  BY <1>6, <1>7, <1>8, <1>9, PopIInv DEF ReadDone

\* The invariant is inductive.
LEMMA NextIInv == IInv /\ [Next]_vars => IInv'
<1>. SUFFICES ASSUME IInv, [Next]_vars PROVE IInv'
  OBVIOUS
<1>1. CASE Thread \/ FetchRaises
  BY <1>1, FetchIInv, TransferIInv, FetchRaisesIInv DEF Thread
<1>2. CASE Loop
  BY <1>2, LoopIInv, NextBatchIInv, RunBatchIInv DEF Loop
<1>3. CASE CopyDone \/ WaitDone \/ ReadDone
  BY <1>3, CopyDoneIInv, WaitDoneIInv, ReadDoneIInv, SMTT(30)
<1>4. CASE UNCHANGED vars
  <2>1. Streams' /\ ComputesItsBatch' /\ Batches'
    BY <1>4, HostKeeps DEF vars, gpu, IInv, Batches
  <2>. QED  BY <1>4, <2>1, SMTT(30) DEF vars, gpu, IInv, TypeInv, Order, OrderUnlessError
<1>. QED  BY <1>1, <1>2, <1>3, <1>4 DEF Next, Terminated

-----------------------------------------------------------------------------
(* The properties, for any DataLoader. *)

\* The invariant holds in every state of every run.
LEMMA Invariant == Spec => []IInv
<1>. QED  BY InitIInv, NextIInv, PTL DEF Spec

\* The forward and backward of a batch read that batch: record_stream and
\* wait_stream of __next__ are enough, however far the host runs ahead.
THEOREM AlwaysComputesItsBatch == Spec => []ComputesItsBatch
<1>1. IInv => ComputesItsBatch
  BY DEF IInv
<1>. QED  BY <1>1, Invariant, PTL

\* CUDAPrefetcher yields every batch once and in order as long as the
\* DataLoader raises nothing, and never goes back.
THEOREM AlwaysInOrder == Spec => []OrderUnlessError
<1>1. IInv => OrderUnlessError
  BY DEF IInv
<1>. QED  BY <1>1, Invariant, PTL

=============================================================================
