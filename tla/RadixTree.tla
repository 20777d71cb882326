------------------------------ MODULE RadixTree ------------------------------
(***************************************************************************)
(* The radix prefix cache of the serving engine (RadixCache, page-aligned, *)
(* without bigram keys, host tiers or a disabled tree) as operators on a   *)
(* value                                                                   *)
(*   [nodes, evictable, protected]                                         *)
(* where nodes maps the token path from the root to the end of a node's    *)
(* key to that node's KV slots and lock_ref.  A node keeps its end path    *)
(* when it is split (the new node is the upper half), so the path is the   *)
(* node's identity, and req.last_node is a path.  The root is <<>>; it is  *)
(* always locked and never stored.                                         *)
(***************************************************************************)
EXTENDS Integers, SequencesExt, FiniteSetsExt

CONSTANT PageSize

ASSUME PageSizeAssumption == PageSize \in Nat \ {0}

FloorAlign(n) == (n \div PageSize) * PageSize

CeilAlign(n) == FloorAlign(n + PageSize - 1)

EmptyCache == [nodes |-> <<>>, evictable |-> 0, protected |-> 0]

-----------------------------------------------------------------------------
\* Structure of the tree

\* n itself and the nodes above it (the walk over node.parent to the root).
Path(nodes, n) == {a \in DOMAIN nodes : IsPrefix(a, n)}

NodeStart(nodes, n) == Len(n) - Len(nodes[n].value)

\* Tokens held by the nodes of N.
Tokens(nodes, N) == MapThenSumSet(LAMBDA n : Len(nodes[n].value), N)

\* The slots of the first Len(path) tokens, the values along the path joined.
Indices(nodes, path) ==
  [i \in 1..Len(path) |->
     LET n == CHOOSE a \in Path(nodes, path) : NodeStart(nodes, a) < i /\ i <= Len(a)
     IN nodes[n].value[i - NodeStart(nodes, n)]]

\* How much of key the tree holds, in whole pages.
MatchedLen(nodes, key) ==
  Max({0} \cup {FloorAlign(Len(LongestCommonPrefix({n, key}))) : n \in DOMAIN nodes})

\* _split_node, when path ends inside a node: the upper part becomes a node of
\* its own and takes the lower part's lock count.
SplitNode(nodes, path) ==
  LET below == {n \in DOMAIN nodes : IsPrefix(path, n)}
      child == CHOOSE c \in below : \A d \in below : IsPrefix(c, d)
      k == Len(path) - NodeStart(nodes, child)
      upper == [value |-> SubSeq(nodes[child].value, 1, k), lock |-> nodes[child].lock]
      lower == [nodes[child] EXCEPT !.value = SubSeq(@, k + 1, Len(@))]
  IN IF path = <<>> \/ path \in DOMAIN nodes THEN nodes
     ELSE (path :> upper) @@ (child :> lower) @@ nodes

-----------------------------------------------------------------------------
\* Operations

\* match_prefix: the cache may be split; node is the last matched node.
match_prefix(cache, key) ==
  LET k == SubSeq(key, 1, FloorAlign(Len(key)))
      path == SubSeq(k, 1, MatchedLen(cache.nodes, k))
      nodes == SplitNode(cache.nodes, path)
  IN [cache |-> [cache EXCEPT !.nodes = nodes],
      node |-> path,
      indices |-> Indices(nodes, path)]

\* insert: the tail of key that the tree lacks becomes one unlocked node.
insert(cache, key, value) ==
  LET n == MatchedLen(cache.nodes, key)
      nodes == SplitNode(cache.nodes, SubSeq(key, 1, n))
      new == [value |-> SubSeq(value, n + 1, Len(key)), lock |-> 0]
  IN [cache |-> IF n = Len(key) THEN [cache EXCEPT !.nodes = nodes]
                ELSE [cache EXCEPT !.nodes = (key :> new) @@ nodes,
                                   !.evictable = @ + Len(key) - n],
      prefix_len |-> n]

\* inc_lock_ref and dec_lock_ref walk from the node to the root.
inc_lock_ref(cache, node) ==
  LET path == Path(cache.nodes, node)
      moved == Tokens(cache.nodes, {n \in path : cache.nodes[n].lock = 0})
  IN [nodes |-> [n \in DOMAIN cache.nodes |->
                   IF n \in path THEN [cache.nodes[n] EXCEPT !.lock = @ + 1]
                   ELSE cache.nodes[n]],
      evictable |-> cache.evictable - moved,
      protected |-> cache.protected + moved]

dec_lock_ref(cache, node) ==
  LET path == Path(cache.nodes, node)
      moved == Tokens(cache.nodes, {n \in path : cache.nodes[n].lock = 1})
  IN [nodes |-> [n \in DOMAIN cache.nodes |->
                   IF n \in path THEN [cache.nodes[n] EXCEPT !.lock = @ - 1]
                   ELSE cache.nodes[n]],
      evictable |-> cache.evictable + moved,
      protected |-> cache.protected - moved]

\* Mutant: nodes are evicted whether or not they are locked.
EvictLocked(cache, num_tokens) ==
  LET nodes == cache.nodes
      Closed(N) == \A n \in N : {d \in DOMAIN nodes : IsPrefix(n, d)} \subseteq N
      all == {N \in SUBSET DOMAIN nodes : Closed(N)}
  IN IF num_tokens <= 0 THEN {{}}
     ELSE {N \in all :
             IF Tokens(nodes, N) < num_tokens THEN \A M \in all : M \subseteq N
             ELSE \E n \in N : Closed(N \ {n}) /\ Tokens(nodes, N \ {n}) < num_tokens}

\* The sets of nodes evict(num_tokens) may remove: unlocked leaves first, then
\* parents left without children, until num_tokens are gone or nothing is left.
\* Which leaf goes first (the eviction strategy) is left open.
Evictions(cache, num_tokens) ==
  LET nodes == cache.nodes
      Closed(N) == \A n \in N : {d \in DOMAIN nodes : IsPrefix(n, d)} \subseteq N
      all == {N \in SUBSET {n \in DOMAIN nodes : nodes[n].lock = 0} : Closed(N)}
  IN IF num_tokens <= 0 THEN {{}}
     ELSE {N \in all :
             IF Tokens(nodes, N) < num_tokens THEN \A M \in all : M \subseteq N
             ELSE \E n \in N : Closed(N \ {n}) /\ Tokens(nodes, N \ {n}) < num_tokens}

\* evict, once the nodes N are chosen.
evict(cache, N) ==
  [cache EXCEPT !.nodes = Restrict(@, DOMAIN @ \ N),
                !.evictable = @ - Tokens(cache.nodes, N)]

=============================================================================
