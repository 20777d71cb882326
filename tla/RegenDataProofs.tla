--------------------------- MODULE RegenDataProofs ---------------------------
(***************************************************************************)
(* A launch of generate_train_data.py writes each result once, and a       *)
(* resumed launch continues where completed ones stopped, for any number   *)
(* of lines, servers, launches and kills.                                  *)
(***************************************************************************)
EXTENDS RegenData, FiniteSetTheorems, TLAPS

\* Every queue holds its samples in the order of submission.
Sorted(q, lo, hi) ==
  \A v \in Servers :
    /\ \A i \in 1..Len(q[v]) : q[v][i] \in lo + 1..hi /\ q[v][i] >= i
    /\ \A i, j \in 1..Len(q[v]) : i < j => q[v][i] < q[v][j]

\* No sample is in two queues.
Apart(q) ==
  \A v, u \in Servers : v # u =>
    \A i \in 1..Len(q[v]), j \in 1..Len(q[u]) : q[v][i] # q[u][j]

\* Behind its first b records, file f holds samples of lo + 1..hi, each once.
Distinct(f, b, lo, hi) ==
  /\ \A i \in b + 1..Len(f) : f[i].sample \in lo + 1..hi
  /\ \A i, j \in b + 1..Len(f) : f[i].sample = f[j].sample => i = j

\* No sample is in both files.
Disjoint(f, b, g, c) ==
  \A i \in b + 1..Len(f), j \in c + 1..Len(g) : f[i].sample # g[j].sample

\* No sample that was written is still in a queue.
NotQueued(q, f, b) ==
  \A v \in Servers : \A i \in 1..Len(q[v]), j \in b + 1..Len(f) : f[j].sample # q[v][i]

\* Sample s is in a queue, or in the file behind its first b records.
Queued(q, s) == \E v \in Servers : \E i \in 1..Len(q[v]) : q[v][i] = s
Recorded(f, b, s) == \E i \in b + 1..Len(f) : f[i].sample = s

\* The samples lo + 1..hi each have one place, in queues q, in file f behind
\* its first b records or in file g behind its first c.
Places(q, f, b, g, c, lo, hi) ==
  /\ Sorted(q, lo, hi)
  /\ Apart(q)
  /\ Distinct(f, b, lo, hi) /\ Distinct(g, c, lo, hi)
  /\ Disjoint(f, b, g, c)
  /\ NotQueued(q, f, b) /\ NotQueued(q, g, c)
  /\ \A s \in lo + 1..hi : Queued(q, s) \/ Recorded(f, b, s) \/ Recorded(g, c, s)

Record == [sample : Samples, whole : BOOLEAN]
AllWhole(f) == \A i \in 1..Len(f) : f[i].whole

TypeInv ==
  /\ phase \in {"down", "submit", "drain", "done", "all_processed"}
  /\ outputFile \in Seq(Record) /\ errorFile \in Seq(Record)
  /\ queues \in [Servers -> Seq(Samples)]
  /\ nextLine \in 1..NumLines + 1
  /\ skipLines \in Nat
  /\ kills \in Nat

\* A launch: its samples each have one place among the queues and what it wrote.
LaunchInv ==
  /\ phase \in {"submit", "drain", "done"} =>
       /\ base.out \in 0..Len(outputFile) /\ base.err \in 0..Len(errorFile)
       /\ skipLines < nextLine
       /\ Places(queues, outputFile, base.out, errorFile, base.err, skipLines, nextLine - 1)
  /\ phase \in {"submit", "drain"} => valid \in Seq(Servers) /\ nextServer \in 1..Len(valid)
  /\ phase \notin {"submit", "drain"} => queues = EmptyQueues

\* All launches together: as long as none was killed, the same holds of both
\* files from their beginning, and they hold whole records only.
CleanInv ==
  kills = 0 =>
    /\ AllWhole(outputFile) /\ AllWhole(errorFile)
    /\ Places(queues, outputFile, 0, errorFile, 0, 0, nextLine - 1)

IInv == TypeInv /\ LaunchInv /\ CleanInv

-----------------------------------------------------------------------------
(* What the operators of the model do with a queue and with a file. *)

\* Removing the entry at i keeps all others, in their order.
LEMMA WithoutFacts ==
  ASSUME NEW S, NEW q \in Seq(S), NEW i \in 1..Len(q)
  PROVE  /\ Without(q, i) \in Seq(S)
         /\ Len(Without(q, i)) = Len(q) - 1
         /\ \A j \in 1..Len(q) - 1 : Without(q, i)[j] = IF j < i THEN q[j] ELSE q[j + 1]
         /\ \A k \in 1..Len(q) : k # i =>
              \E j \in 1..Len(q) - 1 : Without(q, i)[j] = q[k]
<1> DEFINE n == Len(q) - 1
           r == [j \in 1..n |-> IF j < i THEN q[j] ELSE q[j + 1]]
<1>1. n \in Nat /\ Len(q) = n + 1
  OBVIOUS
<1>2. \A j \in 1..n : (IF j < i THEN q[j] ELSE q[j + 1]) \in S
  BY <1>1
<1>3. r \in [1..n -> S]
  BY <1>2
<1>4. r \in Seq(S) /\ Len(r) = n
  BY <1>1, <1>3
<1>5. \A j \in 1..n : r[j] = IF j < i THEN q[j] ELSE q[j + 1]
  OBVIOUS
<1>6. ASSUME NEW k \in 1..Len(q), k # i
      PROVE  \E j \in 1..n : r[j] = q[k]
  <2>1. CASE k < i
    <3>1. k \in 1..n /\ r[k] = q[k]
      BY <1>1, <1>5, <2>1
    <3>2. QED
      BY <3>1
  <2>2. CASE k > i
    <3>1. k - 1 \in 1..n /\ ~(k - 1 < i) /\ (k - 1) + 1 = k
      BY <1>1, <2>2
    <3>2. r[k - 1] = q[k]
      BY <1>5, <3>1
    <3>3. QED
      BY <3>1, <3>2, Zenon
  <2>3. QED
    BY <1>6, <2>1, <2>2
<1>7. Without(q, i) = r
  BY DEF Without
<1> HIDE DEF r
<1>8. QED
  BY <1>1, <1>4, <1>5, <1>6, <1>7, Zenon

\* The final loop takes a queue's first entry.
LEMMA TailIsWithout ==
  ASSUME NEW S, NEW q \in Seq(S), q # <<>>
  PROVE  1 \in 1..Len(q) /\ Head(q) = q[1] /\ Tail(q) = Without(q, 1)
<1>1. 1 \in 1..Len(q) /\ Head(q) = q[1]
  OBVIOUS
<1>2. Tail(q) \in Seq(S) /\ Len(Tail(q)) = Len(q) - 1
  OBVIOUS
<1>3. \A j \in 1..Len(q) - 1 : Tail(q)[j] = q[j + 1]
  OBVIOUS
<1>4. /\ Without(q, 1) \in Seq(S) /\ Len(Without(q, 1)) = Len(q) - 1
      /\ \A j \in 1..Len(q) - 1 : Without(q, 1)[j] = q[j + 1]
  BY <1>1, WithoutFacts
<1>5. Tail(q) = Without(q, 1)
  BY <1>2, <1>3, <1>4
<1>6. QED
  BY <1>1, <1>5

\* Writing a result adds one whole record at the end of the file.
LEMMA WriteLineFacts ==
  ASSUME NEW f \in Seq(Record), NEW s \in Samples
  PROVE  /\ WriteLine(f, s) \in Seq(Record)
         /\ Len(WriteLine(f, s)) = Len(f) + 1
         /\ \A i \in 1..Len(f) : WriteLine(f, s)[i] = f[i]
         /\ WriteLine(f, s)[Len(f) + 1].sample = s
         /\ AllWhole(f) => AllWhole(WriteLine(f, s))
<1> DEFINE r == [sample |-> s, whole |-> TRUE]
<1>1. r \in Record /\ r.sample = s /\ r.whole
  BY DEF Record
<1> HIDE DEF r
<1>2. /\ Append(f, r) \in Seq(Record) /\ Len(Append(f, r)) = Len(f) + 1
      /\ \A i \in 1..Len(f) : Append(f, r)[i] = f[i]
      /\ Append(f, r)[Len(f) + 1] = r
  BY <1>1
<1>3. WriteLine(f, s) = Append(f, r)
  BY DEF WriteLine, r
<1>4. ASSUME AllWhole(f) PROVE AllWhole(Append(f, r))
  <2>1. SUFFICES ASSUME NEW i \in 1..Len(f) + 1 PROVE Append(f, r)[i].whole
    BY <1>2 DEF AllWhole
  <2>2. CASE i \in 1..Len(f)
    BY <1>2, <1>4, <2>2 DEF AllWhole
  <2>3. CASE i = Len(f) + 1
    BY <1>1, <1>2, <2>3
  <2>4. QED
    BY <2>2, <2>3
<1>5. QED
  BY <1>1, <1>2, <1>3, <1>4

-----------------------------------------------------------------------------
(* How a step moves a sample from place to place. *)

\* The two files play the same part.
LEMMA PlacesSwap ==
  ASSUME NEW q, NEW f, NEW b, NEW g, NEW c, NEW lo, NEW hi
  PROVE  Places(q, f, b, g, c, lo, hi) => Places(q, g, c, f, b, lo, hi)
<1>1. Disjoint(f, b, g, c) => Disjoint(g, c, f, b)
  BY Zenon DEF Disjoint
<1>2. QED
  BY <1>1, Zenon DEF Places

\* A result is written and its future leaves its queue: the sample moves from
\* the queue to the file.
LEMMA PlacesTake ==
  ASSUME NEW q \in [Servers -> Seq(Samples)], NEW w \in Servers, NEW i \in 1..Len(q[w]),
         NEW f \in Seq(Record), NEW b \in 0..Len(f),
         NEW g \in Seq(Record), NEW c \in 0..Len(g),
         NEW lo \in Nat, NEW hi \in Nat,
         Places(q, f, b, g, c, lo, hi)
  PROVE  Places([q EXCEPT ![w] = Without(@, i)], WriteLine(f, q[w][i]), b, g, c, lo, hi)
<1> DEFINE s == q[w][i]
           r == [q EXCEPT ![w] = Without(@, i)]
           h == WriteLine(f, s)
<1>1. s \in Samples /\ s \in lo + 1..hi
  BY DEF Places, Sorted
<1>2. /\ Len(h) = Len(f) + 1
      /\ \A j \in 1..Len(f) : h[j] = f[j]
      /\ h[Len(f) + 1].sample = s
  BY <1>1, WriteLineFacts, Zenon
<1>3. /\ Len(r[w]) = Len(q[w]) - 1
      /\ \A j \in 1..Len(r[w]) : r[w][j] = IF j < i THEN q[w][j] ELSE q[w][j + 1]
      /\ \A k \in 1..Len(q[w]) : k # i => \E j \in 1..Len(r[w]) : r[w][j] = q[w][k]
  BY WithoutFacts, SMTT(30)
<1>4. \A v \in Servers : v # w => r[v] = q[v]
  OBVIOUS
<1> HIDE DEF s, r, h
<1>5. ASSUME NEW v \in Servers, NEW j \in 1..Len(r[v])
      PROVE  \E k \in 1..Len(q[v]) : k >= j /\ r[v][j] = q[v][k] /\ (v = w => k # i)
  <2>1. CASE v # w
    BY <1>4, <2>1
  <2>2. CASE v = w /\ j < i
    <3>1. j \in 1..Len(q[w]) /\ j >= j /\ j # i
      BY <1>3, <2>2
    <3>2. r[w][j] = q[w][j]
      BY <1>3, <2>2, Zenon
    <3>3. QED
      BY <2>2, <3>1, <3>2
  <2>3. CASE v = w /\ ~(j < i)
    <3>1. j + 1 \in 1..Len(q[w]) /\ j + 1 >= j /\ j + 1 # i
      BY <1>3, <2>3
    <3>2. r[w][j] = q[w][j + 1]
      BY <1>3, <2>3, Zenon
    <3>3. QED
      BY <2>3, <3>1, <3>2
  <2>4. QED
    BY <2>1, <2>2, <2>3
<1>6. Sorted(r, lo, hi)
  <2>1. SUFFICES ASSUME NEW v \in Servers
                 PROVE  /\ \A j \in 1..Len(r[v]) : r[v][j] \in lo + 1..hi /\ r[v][j] >= j
                        /\ \A j, k \in 1..Len(r[v]) : j < k => r[v][j] < r[v][k]
    BY DEF Sorted
  <2>2. /\ \A j \in 1..Len(q[v]) : q[v][j] \in lo + 1..hi /\ q[v][j] >= j
        /\ \A j, k \in 1..Len(q[v]) : j < k => q[v][j] < q[v][k]
    BY DEF Places, Sorted
  <2>3. ASSUME NEW j \in 1..Len(r[v]) PROVE r[v][j] \in lo + 1..hi /\ r[v][j] >= j
    <3>1. PICK k \in 1..Len(q[v]) : k >= j /\ r[v][j] = q[v][k]
      BY <1>5
    <3>2. q[v][k] \in lo + 1..hi /\ q[v][k] >= k
      BY <2>2
    <3>3. QED
      BY <3>1, <3>2
  <2>4. ASSUME NEW j \in 1..Len(r[v]), NEW k \in 1..Len(r[v]), j < k
        PROVE  r[v][j] < r[v][k]
    <3>1. CASE v # w
      BY <1>4, <2>2, <2>4, <3>1, SMTT(30)
    <3>2. CASE v = w
      <4>1. /\ j \in 1..Len(q[w]) /\ j + 1 \in 1..Len(q[w])
            /\ k \in 1..Len(q[w]) /\ k + 1 \in 1..Len(q[w])
        <5>1. Len(q[w]) \in Nat /\ j \in 1..Len(r[w]) /\ k \in 1..Len(r[w])
          BY <3>2
        <5>2. Len(r[w]) = Len(q[w]) - 1
          BY <1>3, Zenon
        <5>3. QED
          BY <5>1, <5>2
      <4>2. q[w][j] < q[w][k] /\ q[w][j] < q[w][k + 1] /\ q[w][j + 1] < q[w][k + 1]
        <5>1. \A m, n \in 1..Len(q[w]) : m < n => q[w][m] < q[w][n]
          BY <2>2, <3>2
        <5>2. j < k /\ j < k + 1 /\ j + 1 < k + 1
          BY <2>4
        <5>3. QED
          BY <4>1, <5>1, <5>2
      <4>3. /\ r[w][j] = IF j < i THEN q[w][j] ELSE q[w][j + 1]
            /\ r[w][k] = IF k < i THEN q[w][k] ELSE q[w][k + 1]
        BY <1>3, <3>2
      <4>4. k < i => j < i
        BY <2>4
      <4>5. QED
        BY <3>2, <4>2, <4>3, <4>4
    <3>3. QED
      BY <3>1, <3>2
  <2>5. QED
    BY <2>3, <2>4
<1>7. Apart(r)
  <2>1. SUFFICES ASSUME NEW v \in Servers, NEW u \in Servers, v # u,
                        NEW j \in 1..Len(r[v]), NEW k \in 1..Len(r[u])
                 PROVE  r[v][j] # r[u][k]
    BY SMTT(30) DEF Apart
  <2>2. PICK m \in 1..Len(q[v]) : r[v][j] = q[v][m]
    BY <1>5
  <2>3. PICK n \in 1..Len(q[u]) : r[u][k] = q[u][n]
    BY <1>5
  <2>4. QED
    BY <2>1, <2>2, <2>3 DEF Places, Apart
<1>8. ASSUME NEW v \in Servers, NEW j \in 1..Len(r[v]) PROVE r[v][j] # s
  <2>1. PICK k \in 1..Len(q[v]) : r[v][j] = q[v][k] /\ (v = w => k # i)
    BY <1>5
  <2>2. CASE v # w
    BY <2>1, <2>2 DEF Places, Apart, s
  <2>3. CASE v = w
    <3>1. \A m, n \in 1..Len(q[w]) : m < n => q[w][m] < q[w][n]
      BY DEF Places, Sorted
    <3>2. k \in 1..Len(q[w]) /\ (k < i \/ i < k)
      BY <2>1, <2>3
    <3>3. q[w][k] \in Samples /\ q[w][i] \in Samples
      BY <3>2
    <3>4. q[w][k] # q[w][i]
      BY <3>1, <3>2, <3>3 DEF Samples
    <3>5. QED
      BY <2>1, <2>3, <3>4 DEF s
  <2>4. QED
    BY <2>2, <2>3
<1>9. ASSUME NEW j \in b + 1..Len(f) PROVE f[j].sample # s /\ j \in 1..Len(f) /\ h[j] = f[j]
  BY <1>2 DEF Places, NotQueued, s
<1>10. \A j \in b + 1..Len(h) : j \in b + 1..Len(f) \/ (j = Len(f) + 1 /\ h[j].sample = s)
  BY <1>2
<1>11. Distinct(h, b, lo, hi)
  BY <1>1, <1>9, <1>10, Zenon DEF Places, Distinct
<1>12. Disjoint(h, b, g, c)
  <2>1. \A k \in c + 1..Len(g) : g[k].sample # s
    BY DEF Places, NotQueued, s
  <2>2. QED
    BY <1>9, <1>10, <2>1, Zenon DEF Places, Disjoint
<1>13. NotQueued(r, h, b)
  <2>1. SUFFICES ASSUME NEW v \in Servers, NEW j \in 1..Len(r[v]), NEW k \in b + 1..Len(h)
                 PROVE  h[k].sample # r[v][j]
    BY SMTT(30) DEF NotQueued
  <2>2. PICK m \in 1..Len(q[v]) : r[v][j] = q[v][m]
    BY <1>5
  <2>3. CASE k \in b + 1..Len(f)
    <3>1. f[k].sample # q[v][m] /\ h[k] = f[k]
      BY <1>9, <2>3, SMTT(30) DEF Places, NotQueued
    <3>2. QED
      BY <2>2, <3>1
  <2>4. CASE h[k].sample = s
    BY <1>8, <2>4, SMTT(30)
  <2>5. QED
    BY <1>10, <2>3, <2>4, SMTT(30)
<1>14. NotQueued(r, g, c)
  <2>1. SUFFICES ASSUME NEW v \in Servers, NEW j \in 1..Len(r[v]), NEW k \in c + 1..Len(g)
                 PROVE  g[k].sample # r[v][j]
    BY SMTT(30) DEF NotQueued
  <2>2. PICK m \in 1..Len(q[v]) : r[v][j] = q[v][m]
    BY <1>5
  <2>3. QED
    BY <2>2 DEF Places, NotQueued
<1>15. ASSUME NEW t \in lo + 1..hi
       PROVE  Queued(r, t) \/ Recorded(h, b, t) \/ Recorded(g, c, t)
  <2>1. CASE t = s
    <3>1. Len(f) + 1 \in b + 1..Len(h) /\ h[Len(f) + 1].sample = t
      BY <1>2, <2>1
    <3>2. QED
      BY <3>1 DEF Recorded
  <2>2. CASE Recorded(f, b, t)
    <3>1. PICK j \in b + 1..Len(f) : f[j].sample = t
      BY <2>2 DEF Recorded
    <3>2. j \in b + 1..Len(h) /\ h[j].sample = t
      BY <1>2, <1>9, <3>1
    <3>3. QED
      BY <3>2 DEF Recorded
  <2>3. CASE Queued(q, t) /\ t # s
    <3>1. PICK v \in Servers : \E k \in 1..Len(q[v]) : q[v][k] = t
      BY <2>3 DEF Queued
    <3>2. \E j \in 1..Len(r[v]) : r[v][j] = t
      BY <1>3, <1>4, <2>3, <3>1, Zenon DEF s
    <3>3. QED
      BY <3>2 DEF Queued
  <2>4. QED
    BY <2>1, <2>2, <2>3 DEF Places
<1>16. Distinct(g, c, lo, hi)
  BY DEF Places
<1>17. Places(r, h, b, g, c, lo, hi)
  BY <1>6, <1>7, <1>11, <1>12, <1>13, <1>14, <1>15, <1>16 DEF Places
<1>18. QED
  BY <1>17 DEF r, h, s

\* The next line is submitted: its sample goes to the end of a queue.
LEMMA PlacesPut ==
  ASSUME NEW q \in [Servers -> Seq(Samples)], NEW w \in Servers,
         NEW f \in Seq(Record), NEW b \in 0..Len(f),
         NEW g \in Seq(Record), NEW c \in 0..Len(g),
         NEW lo \in Nat, NEW hi \in Nat, lo <= hi, hi + 1 \in Samples,
         Places(q, f, b, g, c, lo, hi)
  PROVE  Places([q EXCEPT ![w] = Append(@, hi + 1)], f, b, g, c, lo, hi + 1)
<1> DEFINE s == hi + 1
           r == [q EXCEPT ![w] = Append(@, s)]
<1>1. s \in lo + 1..s /\ \A t \in lo + 1..hi : t \in lo + 1..s /\ t < s /\ t # s
  OBVIOUS
<1>2. \A t \in lo + 1..s : t \in lo + 1..hi \/ t = s
  OBVIOUS
<1>3. /\ Len(r[w]) = Len(q[w]) + 1
      /\ \A j \in 1..Len(q[w]) : r[w][j] = q[w][j]
      /\ r[w][Len(q[w]) + 1] = s
  OBVIOUS
<1>4. \A v \in Servers : v # w => r[v] = q[v]
  OBVIOUS
<1>5. \A v \in Servers : Len(q[v]) \in Nat
  OBVIOUS
<1> HIDE DEF s, r
<1>6. ASSUME NEW v \in Servers, NEW j \in 1..Len(r[v])
      PROVE  \/ j \in 1..Len(q[v]) /\ r[v][j] = q[v][j]
             \/ v = w /\ j = Len(q[v]) + 1 /\ r[v][j] = s
  <2>1. CASE v # w
    BY <1>4, <2>1
  <2>2. CASE v = w
    BY <1>3, <1>5, <2>2
  <2>3. QED
    BY <2>1, <2>2
<1>7. ASSUME NEW v \in Servers, NEW j \in 1..Len(q[v])
      PROVE  /\ j \in 1..Len(r[v]) /\ r[v][j] = q[v][j]
             /\ q[v][j] \in lo + 1..hi /\ q[v][j] >= j /\ q[v][j] # s
  <2>1. q[v][j] \in lo + 1..hi /\ q[v][j] >= j
    BY DEF Places, Sorted
  <2>2. CASE v # w
    BY <1>1, <1>4, <2>1, <2>2
  <2>3. CASE v = w
    BY <1>1, <1>3, <1>5, <2>1, <2>3, SMTT(30)
  <2>4. QED
    BY <2>2, <2>3
<1>8. s >= Len(q[w]) + 1
  <2>1. CASE Len(q[w]) = 0
    BY <2>1 DEF s
  <2>2. CASE Len(q[w]) # 0
    <3>1. Len(q[w]) \in 1..Len(q[w])
      BY <1>5, <2>2
    <3>2. q[w][Len(q[w])] \in lo + 1..hi /\ q[w][Len(q[w])] >= Len(q[w])
      BY <1>7, <3>1
    <3>3. QED
      BY <1>5, <3>2 DEF s
  <2>3. QED
    BY <2>1, <2>2
<1>9. Sorted(r, lo, s)
  <2>1. SUFFICES ASSUME NEW v \in Servers
                 PROVE  /\ \A j \in 1..Len(r[v]) : r[v][j] \in lo + 1..s /\ r[v][j] >= j
                        /\ \A j, k \in 1..Len(r[v]) : j < k => r[v][j] < r[v][k]
    BY Zenon DEF Sorted
  <2>2. ASSUME NEW j \in 1..Len(r[v]) PROVE r[v][j] \in lo + 1..s /\ r[v][j] >= j
    <3>1. CASE j \in 1..Len(q[v]) /\ r[v][j] = q[v][j]
      BY <1>1, <1>7, <3>1, SMTT(30)
    <3>2. CASE v = w /\ j = Len(q[v]) + 1 /\ r[v][j] = s
      BY <1>1, <1>8, <3>2
    <3>3. QED
      BY <1>6, <3>1, <3>2
  <2>3. ASSUME NEW j \in 1..Len(r[v]), NEW k \in 1..Len(r[v]), j < k
        PROVE  r[v][j] < r[v][k]
    <3>1. j \in 1..Len(q[v]) /\ r[v][j] = q[v][j]
      <4>1. CASE j = Len(q[v]) + 1
        <5>1. k \in 1..Len(q[v]) \/ k = Len(q[v]) + 1
          BY <1>6
        <5>2. QED
          BY <1>5, <2>3, <4>1, <5>1
      <4>2. QED
        BY <1>6, <4>1
    <3>2. CASE k \in 1..Len(q[v]) /\ r[v][k] = q[v][k]
      <4>1. q[v][j] < q[v][k]
        BY <2>3, <3>1, <3>2 DEF Places, Sorted
      <4>2. QED
        BY <3>1, <3>2, <4>1
    <3>3. CASE r[v][k] = s
      <4>1. q[v][j] < s
        BY <1>1, <1>7, <3>1
      <4>2. QED
        BY <3>1, <3>3, <4>1
    <3>4. QED
      BY <1>6, <3>2, <3>3
  <2>4. QED
    BY <2>2, <2>3, Zenon
<1>10. Apart(r)
  <2>1. SUFFICES ASSUME NEW v \in Servers, NEW u \in Servers, v # u,
                        NEW j \in 1..Len(r[v]), NEW k \in 1..Len(r[u])
                 PROVE  r[v][j] # r[u][k]
    BY DEF Apart
  <2>2. \A m \in 1..Len(q[v]), n \in 1..Len(q[u]) : q[v][m] # q[u][n]
    BY <2>1 DEF Places, Apart
  <2>3. \/ j \in 1..Len(q[v]) /\ r[v][j] = q[v][j] /\ q[v][j] # s
        \/ v = w /\ r[v][j] = s
    BY <1>6, <1>7
  <2>4. \/ k \in 1..Len(q[u]) /\ r[u][k] = q[u][k] /\ q[u][k] # s
        \/ u = w /\ r[u][k] = s
    BY <1>6, <1>7
  <2>5. QED
    BY <2>1, <2>2, <2>3, <2>4, SMTT(30)
<1>11. ASSUME NEW e, NEW a, Distinct(e, a, lo, hi), NotQueued(q, e, a)
       PROVE  Distinct(e, a, lo, s) /\ NotQueued(r, e, a)
  <2>1. \A j \in a + 1..Len(e) : e[j].sample \in lo + 1..hi
    BY <1>11 DEF Distinct
  <2>2. \A j \in a + 1..Len(e) : e[j].sample \in lo + 1..s /\ e[j].sample # s
    BY <1>1, <2>1
  <2>3. Distinct(e, a, lo, s)
    BY <1>11, <2>2, SMTT(30) DEF Distinct
  <2>4. NotQueued(r, e, a)
    BY <1>6, <1>11, <2>2, Zenon DEF NotQueued
  <2>5. QED
    BY <2>3, <2>4
<1>12. ASSUME NEW t \in lo + 1..s
       PROVE  Queued(r, t) \/ Recorded(f, b, t) \/ Recorded(g, c, t)
  <2>1. CASE t = s
    <3>1. Len(q[w]) + 1 \in 1..Len(r[w])
      BY <1>3, <1>5
    <3>2. QED
      BY <1>3, <2>1, <3>1 DEF Queued
  <2>2. CASE t \in lo + 1..hi
    <3>1. Queued(q, t) => Queued(r, t)
      BY <1>7, Zenon DEF Queued
    <3>2. QED
      BY <2>2, <3>1 DEF Places
  <2>3. QED
    BY <1>2, <2>1, <2>2
<1>13. Places(r, f, b, g, c, lo, s)
  BY <1>9, <1>10, <1>11, <1>12 DEF Places
<1>14. QED
  BY <1>13 DEF r, s

\* A launch starts with nothing queued and nothing written.
LEMMA PlacesNone ==
  ASSUME NEW f \in Seq(Record), NEW g \in Seq(Record), NEW lo \in Nat
  PROVE  Places(EmptyQueues, f, Len(f), g, Len(g), lo, lo)
<1>1. Len(f) + 1..Len(f) = {} /\ Len(g) + 1..Len(g) = {} /\ lo + 1..lo = {}
  OBVIOUS
<1>2. \A v \in Servers : 1..Len(EmptyQueues[v]) = {}
  BY DEF EmptyQueues
<1>3. Sorted(EmptyQueues, lo, lo) /\ Apart(EmptyQueues)
  BY <1>2 DEF Sorted, Apart
<1>4. /\ Distinct(f, Len(f), lo, lo) /\ Distinct(g, Len(g), lo, lo)
      /\ Disjoint(f, Len(f), g, Len(g))
  BY <1>1 DEF Distinct, Disjoint
<1>5. NotQueued(EmptyQueues, f, Len(f)) /\ NotQueued(EmptyQueues, g, Len(g))
  BY <1>2 DEF NotQueued
<1>6. QED
  BY <1>1, <1>3, <1>4, <1>5 DEF Places

-----------------------------------------------------------------------------
(* What the number of lines says. *)

\* How many numbers there are up to n.
LEMMA UpTo ==
  ASSUME NEW n \in Nat
  PROVE  IsFiniteSet(1..n) /\ Cardinality(1..n) = n
<1>1. 1 \in Int /\ n \in Int
  OBVIOUS
<1>2. IsFiniteSet(1..n) /\ Cardinality(1..n) = IF 1 > n THEN 0 ELSE n - 1 + 1
  BY <1>1, FS_Interval, Zenon
<1>3. QED
  BY <1>2

\* count_lines counts; of a file of whole records, all of them.
LEMMA LinesOfFacts ==
  ASSUME NEW f \in Seq(Record)
  PROVE  LinesOf(f) \in Nat /\ (AllWhole(f) => LinesOf(f) = Len(f))
<1> DEFINE ends == {i \in 1..Len(f) : f[i].whole}
<1>1. IsFiniteSet(1..Len(f)) /\ Cardinality(1..Len(f)) = Len(f)
  BY UpTo
<1>2. IsFiniteSet(ends)
  BY <1>1, FS_Subset
<1>3. Cardinality(ends) \in Nat
  BY <1>2, FS_CardinalityType
<1>4. AllWhole(f) => ends = 1..Len(f)
  BY DEF AllWhole
<1>5. AllWhole(f) => ~(f # <<>> /\ ~f[Len(f)].whole)
  <2>1. f # <<>> => Len(f) \in 1..Len(f)
    OBVIOUS
  <2>2. QED
    BY <2>1 DEF AllWhole
<1>6. LinesOf(f) = Cardinality(ends) + IF f # <<>> /\ ~f[Len(f)].whole THEN 1 ELSE 0
  BY Zenon DEF LinesOf
<1> HIDE DEF ends
<1>7. LinesOf(f) \in Nat
  BY <1>3, <1>6
<1>8. ASSUME AllWhole(f) PROVE LinesOf(f) = Len(f)
  BY <1>1, <1>3, <1>4, <1>5, <1>6, <1>8
<1>9. QED
  BY <1>7, <1>8

\* When nothing is queued and both files hold one record of each sample up to
\* hi, together they hold hi records.
LEMMA RecordsCount ==
  ASSUME NEW f \in Seq(Record), NEW g \in Seq(Record), NEW hi \in Nat,
         Places(EmptyQueues, f, 0, g, 0, 0, hi)
  PROVE  Len(f) + Len(g) = hi
<1> DEFINE n == Len(f) + Len(g)
           F == [k \in 1..n |-> IF k <= Len(f) THEN f[k].sample ELSE g[k - Len(f)].sample]
<1>1. n \in Nat /\ Len(f) \in Nat /\ Len(g) \in Nat
  OBVIOUS
<1>2. \A k \in 1..n : \/ k \in 1..Len(f) /\ F[k] = f[k].sample
                      \/ k - Len(f) \in 1..Len(g) /\ F[k] = g[k - Len(f)].sample
  BY <1>1
<1>3. /\ \A k \in 1..Len(f) : k \in 1..n /\ F[k] = f[k].sample
      /\ \A k \in 1..Len(g) : k + Len(f) \in 1..n /\ F[k + Len(f)] = g[k].sample
  BY <1>1
<1>4. /\ \A k \in 1..Len(f) : f[k].sample \in 1..hi
      /\ \A k, l \in 1..Len(f) : f[k].sample = f[l].sample => k = l
  BY DEF Places, Distinct
<1>5. /\ \A k \in 1..Len(g) : g[k].sample \in 1..hi
      /\ \A k, l \in 1..Len(g) : g[k].sample = g[l].sample => k = l
  BY DEF Places, Distinct
<1>6. \A k \in 1..Len(f), l \in 1..Len(g) : f[k].sample # g[l].sample
  BY DEF Places, Disjoint
<1>7. DOMAIN F = 1..n /\ F = [k \in 1..n |-> F[k]]
  OBVIOUS
<1> HIDE DEF n, F
<1>8. F \in [1..n -> 1..hi]
  <2>1. \A k \in 1..n : F[k] \in 1..hi
    BY <1>2, <1>4, <1>5, SMTT(30)
  <2>2. QED
    BY <1>7, <2>1
<1>9. \A k, l \in 1..n : F[k] = F[l] => k = l
  <2>1. SUFFICES ASSUME NEW k \in 1..n, NEW l \in 1..n, F[k] = F[l] PROVE k = l
    OBVIOUS
  <2>2. CASE k \in 1..Len(f) /\ F[k] = f[k].sample /\ l \in 1..Len(f) /\ F[l] = f[l].sample
    BY <1>4, <2>1, <2>2, Zenon
  <2>3. CASE /\ k - Len(f) \in 1..Len(g) /\ F[k] = g[k - Len(f)].sample
             /\ l - Len(f) \in 1..Len(g) /\ F[l] = g[l - Len(f)].sample
    <3>1. k - Len(f) = l - Len(f)
      BY <1>5, <2>1, <2>3, Zenon
    <3>2. QED
      BY <1>1, <3>1
  <2>4. QED
    BY <1>2, <1>6, <2>1, <2>2, <2>3
<1>10. \A t \in 1..hi : \E k \in 1..n : F[k] = t
  <2>1. SUFFICES ASSUME NEW t \in 1..hi PROVE \E k \in 1..n : F[k] = t
    OBVIOUS
  <2>2. ~Queued(EmptyQueues, t)
    BY DEF Queued, EmptyQueues
  <2>3. Recorded(f, 0, t) \/ Recorded(g, 0, t)
    <3>1. t \in 0 + 1..hi
      OBVIOUS
    <3>2. QED
      BY <2>2, <3>1 DEF Places
  <2>4. (\E k \in 1..Len(f) : f[k].sample = t) \/ (\E k \in 1..Len(g) : g[k].sample = t)
    BY <2>3 DEF Recorded
  <2>5. QED
    BY <1>3, <2>4, Zenon
<1>11. F \in Bijection(1..n, 1..hi)
  BY <1>7, <1>8, <1>9, <1>10 DEF Bijection, Injection, Surjection, IsInjective
<1>12. ExistsBijection(1..n, 1..hi)
  BY <1>11 DEF ExistsBijection
<1>13. IsFiniteSet(1..n) /\ Cardinality(1..n) = n /\ Cardinality(1..hi) = hi
  BY <1>1, UpTo
<1>14. Cardinality(1..hi) = Cardinality(1..n)
  BY <1>12, <1>13, FS_Bijection
<1>15. QED
  BY <1>13, <1>14 DEF n

\* What find_resume_offset returns after launches of which none was killed.
LEMMA CountIsNext ==
  ASSUME TypeInv, LaunchInv, CleanInv, kills = 0,
         phase \in {"down", "done", "all_processed"}
  PROVE  CountLines = nextLine - 1
<1>1. queues = EmptyQueues
  BY DEF LaunchInv
<1>2. Len(outputFile) + Len(errorFile) = nextLine - 1
  <2>1. nextLine - 1 \in Nat /\ outputFile \in Seq(Record) /\ errorFile \in Seq(Record)
    BY RegenAssumption DEF TypeInv
  <2>2. Places(EmptyQueues, outputFile, 0, errorFile, 0, 0, nextLine - 1)
    BY <1>1 DEF CleanInv
  <2>3. QED
    BY <2>1, <2>2, RecordsCount
<1>3. LinesOf(outputFile) = Len(outputFile) /\ LinesOf(errorFile) = Len(errorFile)
  BY LinesOfFacts DEF TypeInv, CleanInv
<1>4. QED
  BY <1>2, <1>3 DEF CountLines

\* valid_servers is a list of servers, none of them twice, and not empty.
LEMMA InOrderFacts ==
  ASSUME NEW up \in SUBSET Servers, up # {}, NEW s \in InOrder(up)
  PROVE  s \in Seq(Servers) /\ 1 \in 1..Len(s)
<1>1. IsFiniteSet(Servers)
  BY RegenAssumption, FS_Interval DEF Servers
<1>2. IsFiniteSet(up)
  BY <1>1, FS_Subset
<1>3. Cardinality(up) \in Nat /\ Cardinality(up) # 0
  BY <1>2, FS_CardinalityType, FS_EmptySet
<1>4. s \in [1..Cardinality(up) -> Servers]
  BY DEF InOrder
<1>5. QED
  BY <1>3, <1>4

-----------------------------------------------------------------------------
(* Every step keeps the invariant. *)

\* Before the first launch nothing is queued or written.
LEMMA InitIInv == Init => IInv
<1> SUFFICES ASSUME Init PROVE IInv
  OBVIOUS
<1>1. TypeInv
  <2>1. EmptyQueues \in [Servers -> Seq(Samples)]
    BY DEF EmptyQueues
  <2>2. QED
    BY <2>1, RegenAssumption DEF Init, TypeInv
<1>2. LaunchInv
  BY DEF Init, LaunchInv
<1>3. CleanInv
  <2>1. <<>> \in Seq(Record) /\ Len(<<>>) = 0 /\ 1 - 1 = 0 /\ 0 \in Nat
    OBVIOUS
  <2>2. Places(EmptyQueues, <<>>, 0, <<>>, 0, 0, 0)
    BY <2>1, PlacesNone, Zenon
  <2>3. AllWhole(<<>>)
    BY DEF AllWhole
  <2>4. QED
    BY <2>1, <2>2, <2>3 DEF Init, CleanInv
<1>4. QED
  BY <1>1, <1>2, <1>3 DEF IInv

\* write_finished_result with the removal of the future, in either loop.
LEMMA WriteStep ==
  ASSUME IInv, phase \in {"submit", "drain"},
         NEW w \in Servers, NEW i \in 1..Len(queues[w]),
         WriteFinishedResult(queues[w][i]),
         queues' = [queues EXCEPT ![w] = Without(@, i)],
         UNCHANGED <<phase, base, skipLines, nextLine, valid, nextServer, kills>>
  PROVE  IInv'
<1> DEFINE s == queues[w][i]
           hi == nextLine - 1
<1>1. /\ queues \in [Servers -> Seq(Samples)] /\ s \in Samples
      /\ outputFile \in Seq(Record) /\ errorFile \in Seq(Record)
      /\ skipLines \in Nat /\ hi \in Nat
  BY RegenAssumption DEF IInv, TypeInv
<1>2. /\ base.out \in 0..Len(outputFile) /\ base.err \in 0..Len(errorFile)
      /\ Places(queues, outputFile, base.out, errorFile, base.err, skipLines, hi)
  BY DEF IInv, LaunchInv
<1>3. 0 \in 0..Len(outputFile) /\ 0 \in 0..Len(errorFile) /\ 0 \in Nat
  BY <1>1
<1>4. queues' \in [Servers -> Seq(Samples)]
  <2>1. Without(queues[w], i) \in Seq(Samples)
    BY <1>1, WithoutFacts
  <2>2. QED
    BY <1>1, <2>1
<1> HIDE DEF s, hi
<1>5. /\ outputFile' \in Seq(Record) /\ errorFile' \in Seq(Record)
      /\ base.out \in 0..Len(outputFile') /\ base.err \in 0..Len(errorFile')
      /\ AllWhole(outputFile) => AllWhole(outputFile')
      /\ AllWhole(errorFile) => AllWhole(errorFile')
      /\ Places(queues', outputFile', base.out, errorFile', base.err, skipLines, hi)
      /\ \/ ~Places(queues, outputFile, 0, errorFile, 0, 0, hi)
         \/ Places(queues', outputFile', 0, errorFile', 0, 0, hi)
  <2>1. CASE status[s] # "error"
    <3>1. outputFile' = WriteLine(outputFile, s) /\ errorFile' = errorFile
      BY <2>1, Zenon DEF WriteFinishedResult, s
    <3>2. /\ outputFile' \in Seq(Record) /\ Len(outputFile') = Len(outputFile) + 1
          /\ AllWhole(outputFile) => AllWhole(outputFile')
      BY <1>1, <3>1, WriteLineFacts
    <3>3. Places(queues', outputFile', base.out, errorFile', base.err, skipLines, hi)
      BY <1>1, <1>2, <3>1, PlacesTake, Zenon DEF s
    <3>4. ASSUME Places(queues, outputFile, 0, errorFile, 0, 0, hi)
          PROVE  Places(queues', outputFile', 0, errorFile', 0, 0, hi)
      BY <1>1, <1>3, <3>1, <3>4, PlacesTake, Zenon DEF s
    <3>5. base.out \in 0..Len(outputFile')
      BY <1>1, <1>2, <3>2
    <3>6. QED
      BY <1>1, <1>2, <3>1, <3>2, <3>3, <3>4, <3>5
  <2>2. CASE status[s] = "error"
    <3>1. errorFile' = WriteLine(errorFile, s) /\ outputFile' = outputFile
      BY <2>2, Zenon DEF WriteFinishedResult, s
    <3>2. /\ errorFile' \in Seq(Record) /\ Len(errorFile') = Len(errorFile) + 1
          /\ AllWhole(errorFile) => AllWhole(errorFile')
      BY <1>1, <3>1, WriteLineFacts
    <3>3. Places(queues', outputFile', base.out, errorFile', base.err, skipLines, hi)
      <4>1. Places(queues, errorFile, base.err, outputFile, base.out, skipLines, hi)
        BY <1>2, PlacesSwap
      <4>2. Places(queues', errorFile', base.err, outputFile', base.out, skipLines, hi)
        BY <1>1, <1>2, <3>1, <4>1, PlacesTake, Zenon DEF s
      <4>3. QED
        BY <4>2, PlacesSwap
    <3>4. ASSUME Places(queues, outputFile, 0, errorFile, 0, 0, hi)
          PROVE  Places(queues', outputFile', 0, errorFile', 0, 0, hi)
      <4>1. Places(queues, errorFile, 0, outputFile, 0, 0, hi)
        BY <3>4, PlacesSwap
      <4>2. Places(queues', errorFile', 0, outputFile', 0, 0, hi)
        BY <1>1, <1>3, <3>1, <4>1, PlacesTake, Zenon DEF s
      <4>3. QED
        BY <4>2, PlacesSwap
    <3>5. base.err \in 0..Len(errorFile')
      BY <1>1, <1>2, <3>2
    <3>6. QED
      BY <1>1, <1>2, <3>1, <3>2, <3>3, <3>4, <3>5
  <2>3. QED
    BY <2>1, <2>2
<1>6. TypeInv'
  BY <1>4, <1>5 DEF IInv, TypeInv
<1>7. LaunchInv'
  <2>1. skipLines' < nextLine' /\ phase' = phase /\ base' = base
    BY DEF IInv, LaunchInv
  <2>2. Places(queues', outputFile', base'.out, errorFile', base'.err, skipLines', nextLine' - 1)
    BY <1>5 DEF hi
  <2>3. valid' \in Seq(Servers) /\ nextServer' \in 1..Len(valid')
    BY DEF IInv, LaunchInv
  <2>4. QED
    BY <1>5, <2>1, <2>2, <2>3 DEF LaunchInv
<1>8. CleanInv'
  <2>1. SUFFICES ASSUME kills' = 0
                 PROVE  /\ AllWhole(outputFile') /\ AllWhole(errorFile')
                        /\ Places(queues', outputFile', 0, errorFile', 0, 0, nextLine' - 1)
    BY Zenon DEF CleanInv
  <2>2. /\ AllWhole(outputFile) /\ AllWhole(errorFile)
        /\ Places(queues, outputFile, 0, errorFile, 0, 0, hi)
    BY <2>1 DEF IInv, CleanInv, hi
  <2>3. QED
    BY <1>5, <2>2 DEF hi
<1>9. QED
  BY <1>6, <1>7, <1>8 DEF IInv

\* A step that leaves files and queues alone, at the same or at the next phase.
LEMMA QuietStep ==
  ASSUME IInv,
         phase' \in {"down", "submit", "drain", "done", "all_processed"},
         phase' \in {"submit", "drain"} => phase \in {"submit", "drain"},
         phase' = "done" => phase \in {"submit", "drain", "done"},
         phase' \notin {"submit", "drain"} => queues = EmptyQueues,
         UNCHANGED <<outputFile, errorFile, base, skipLines, nextLine, queues, valid,
                     nextServer, kills>>
  PROVE  IInv'
<1>1. TypeInv'
  BY DEF IInv, TypeInv
<1>2. LaunchInv'
  BY DEF IInv, LaunchInv
<1>3. CleanInv'
  BY DEF IInv, CleanInv
<1>4. QED
  BY <1>1, <1>2, <1>3 DEF IInv

\* executor.submit.
LEMMA SubmitStep == IInv /\ Submit => IInv'
<1> SUFFICES ASSUME IInv, Submit PROVE IInv'
  OBVIOUS
<1> DEFINE w == CurrentServer
           hi == nextLine - 1
<1>1. /\ queues \in [Servers -> Seq(Samples)]
      /\ outputFile \in Seq(Record) /\ errorFile \in Seq(Record)
      /\ skipLines \in Nat /\ hi \in Nat /\ nextLine = hi + 1
  BY RegenAssumption DEF IInv, TypeInv
<1>2. phase = "submit" /\ nextLine <= NumLines
  BY DEF Submit, MoreToSubmit
<1>3. nextLine \in Samples /\ nextLine + 1 \in 1..NumLines + 1 /\ hi + 1 \in Samples
  BY <1>1, <1>2, RegenAssumption DEF Samples
<1>4. /\ base.out \in 0..Len(outputFile) /\ base.err \in 0..Len(errorFile)
      /\ skipLines < nextLine
      /\ Places(queues, outputFile, base.out, errorFile, base.err, skipLines, hi)
  BY <1>2 DEF IInv, LaunchInv
<1>5. valid \in Seq(Servers) /\ nextServer \in 1..Len(valid)
  BY <1>2 DEF IInv, LaunchInv
<1>6. w \in Servers
  BY <1>5 DEF CurrentServer
<1>7. nextServer' \in 1..Len(valid)
  <2>1. nextServer' = (nextServer % Len(valid)) + 1
    BY DEF Submit
  <2>2. Len(valid) \in Nat /\ Len(valid) > 0 /\ nextServer \in Int
    BY <1>5
  <2>3. QED
    BY <2>1, <2>2
<1>8. /\ queues' = [queues EXCEPT ![w] = Append(@, hi + 1)] /\ nextLine' = nextLine + 1
      /\ UNCHANGED <<phase, outputFile, errorFile, base, skipLines, valid, kills>>
  BY <1>1, Zenon DEF Submit
<1>9. queues' \in [Servers -> Seq(Samples)]
  <2>1. Append(queues[w], hi + 1) \in Seq(Samples)
    BY <1>1, <1>3, <1>6
  <2>2. QED
    BY <1>1, <1>8, <2>1, Zenon
<1> HIDE DEF w, hi
<1>10. nextLine' - 1 = hi + 1 /\ skipLines' < nextLine' /\ skipLines <= hi
  BY <1>1, <1>4, <1>8
<1>11. Places(queues', outputFile, base.out, errorFile, base.err, skipLines, hi + 1)
  BY <1>1, <1>3, <1>4, <1>6, <1>8, <1>10, PlacesPut, Zenon
<1>12. TypeInv'
  BY <1>3, <1>8, <1>9 DEF IInv, TypeInv
<1>13. LaunchInv'
  BY <1>2, <1>4, <1>5, <1>7, <1>8, <1>10, <1>11 DEF LaunchInv
<1>14. CleanInv'
  <2>1. SUFFICES ASSUME kills = 0
                 PROVE  /\ AllWhole(outputFile) /\ AllWhole(errorFile)
                        /\ Places(queues', outputFile, 0, errorFile, 0, 0, hi + 1)
    BY <1>8, <1>10 DEF CleanInv
  <2>2. /\ AllWhole(outputFile) /\ AllWhole(errorFile)
        /\ Places(queues, outputFile, 0, errorFile, 0, 0, hi)
    BY <2>1 DEF IInv, CleanInv, hi
  <2>3. 0 \in 0..Len(outputFile) /\ 0 \in 0..Len(errorFile) /\ 0 \in Nat /\ 0 <= hi
    BY <1>1
  <2>4. Places(queues', outputFile, 0, errorFile, 0, 0, hi + 1)
    BY <1>1, <1>3, <1>6, <1>8, <2>2, <2>3, PlacesPut, Zenon
  <2>5. QED
    BY <2>2, <2>4
<1>15. QED
  BY <1>12, <1>13, <1>14 DEF IInv

\* main up to the opening of the files.  A resumed launch after launches that
\* all completed skips exactly the samples that have a record.
LEMMA LaunchStep ==
  ASSUME IInv, NEW resume \in BOOLEAN, NEW up \in SUBSET Servers, Launch(resume, up)
  PROVE  IInv'
<1> DEFINE skip == FindResumeOffset(resume)
           keep == resume /\ skip > 0
<1>1. phase \in {"down", "done", "all_processed"} /\ kills' = kills
  BY DEF Launch
<1>2. queues = EmptyQueues
  BY <1>1 DEF IInv, LaunchInv
<1>3. outputFile \in Seq(Record) /\ errorFile \in Seq(Record) /\ nextLine \in 1..NumLines + 1
  BY DEF IInv, TypeInv
<1>4. LinesOf(outputFile) \in Nat /\ LinesOf(errorFile) \in Nat
  BY <1>3, LinesOfFacts
<1>5. skip \in Nat
  BY <1>4 DEF FindResumeOffset, CountLines
<1>6. CASE skip >= NumLines \/ up = {}
  <2>1. /\ phase' \in {"down", "all_processed"}
        /\ UNCHANGED <<outputFile, errorFile, base, skipLines, nextLine, queues, valid,
                       nextServer, kills>>
    BY <1>6, Zenon DEF Launch
  <2>2. QED
    BY <1>2, <2>1, QuietStep
<1>7. CASE ~(skip >= NumLines) /\ up # {}
  <2>1. /\ phase' = "submit"
        /\ outputFile' = IF keep THEN outputFile ELSE <<>>
        /\ errorFile' = IF keep THEN errorFile ELSE <<>>
        /\ base' = [out |-> Len(outputFile'), err |-> Len(errorFile')]
        /\ skipLines' = skip /\ nextLine' = skip + 1
        /\ queues' = EmptyQueues
        /\ valid' \in InOrder(up) /\ nextServer' = 1
    BY <1>7, Zenon DEF Launch
  <2>2. outputFile' \in Seq(Record) /\ errorFile' \in Seq(Record)
    BY <1>3, <2>1
  <2>3. nextLine' \in 1..NumLines + 1 /\ nextLine' - 1 = skip /\ skipLines' < nextLine'
    BY <1>5, <1>7, <2>1, RegenAssumption
  <2>4. EmptyQueues \in [Servers -> Seq(Samples)]
    BY DEF EmptyQueues
  <2>5. TypeInv'
    <3>1. kills' \in Nat
      BY <1>1 DEF IInv, TypeInv
    <3>2. QED
      BY <1>5, <2>1, <2>2, <2>3, <2>4, <3>1 DEF TypeInv
  <2>6. base'.out = Len(outputFile') /\ base'.err = Len(errorFile')
    BY <2>1
  <2>7. LaunchInv'
    <3>1. Places(queues', outputFile', base'.out, errorFile', base'.err, skipLines', nextLine' - 1)
      BY <1>5, <2>1, <2>2, <2>3, <2>6, PlacesNone, Zenon
    <3>2. base'.out \in 0..Len(outputFile') /\ base'.err \in 0..Len(errorFile')
      BY <2>2, <2>6
    <3>3. valid' \in Seq(Servers) /\ nextServer' \in 1..Len(valid')
      BY <1>7, <2>1, InOrderFacts
    <3>4. QED
      BY <2>1, <2>3, <3>1, <3>2, <3>3 DEF LaunchInv
  <2>8. CleanInv'
    <3>1. SUFFICES ASSUME kills = 0
                   PROVE  /\ AllWhole(outputFile') /\ AllWhole(errorFile')
                          /\ Places(EmptyQueues, outputFile', 0, errorFile', 0, 0, skip)
      BY <1>1, <2>1, <2>3 DEF CleanInv
    <3>2. CASE keep
      <4>1. skip = nextLine - 1
        BY <1>1, <3>1, <3>2, CountIsNext DEF IInv, FindResumeOffset
      <4>2. /\ AllWhole(outputFile) /\ AllWhole(errorFile)
            /\ Places(EmptyQueues, outputFile, 0, errorFile, 0, 0, skip)
        BY <1>2, <3>1, <4>1 DEF IInv, CleanInv
      <4>3. QED
        BY <2>1, <3>2, <4>2, Zenon
    <3>3. CASE ~keep
      <4>1. skip = 0
        BY <1>5, <3>3 DEF FindResumeOffset
      <4>2. outputFile' = <<>> /\ errorFile' = <<>>
        BY <2>1, <3>3
      <4>3. <<>> \in Seq(Record) /\ Len(<<>>) = 0 /\ 0 \in Nat
        OBVIOUS
      <4>4. Places(EmptyQueues, <<>>, 0, <<>>, 0, 0, 0)
        BY <4>3, PlacesNone, Zenon
      <4>5. AllWhole(<<>>)
        BY DEF AllWhole
      <4>6. QED
        BY <4>1, <4>2, <4>4, <4>5
    <3>4. QED
      BY <3>2, <3>3
  <2>9. QED
    BY <2>5, <2>7, <2>8 DEF IInv
<1>8. QED
  BY <1>6, <1>7

\* What a kill leaves of a file is a file.
LEMMA RemainsType ==
  ASSUME NEW f \in Seq(Record), NEW n \in 0..Len(f), NEW r \in Remains(f, n)
  PROVE  r \in Seq(Record)
<1>1. ASSUME NEW k \in 0..Len(f) PROVE SubSeq(f, 1, k) \in Seq(Record)
  <2>1. \A j \in 1..k : f[j] \in Record
    OBVIOUS
  <2>2. QED
    BY <2>1
<1>2. CASE \E k \in n..Len(f) : r = SubSeq(f, 1, k)
  BY <1>1, <1>2
<1>3. CASE \E k \in n..Len(f) - 1 :
             r = Append(SubSeq(f, 1, k), [f[k + 1] EXCEPT !.whole = FALSE])
  <2>1. PICK k \in n..Len(f) - 1 :
               r = Append(SubSeq(f, 1, k), [f[k + 1] EXCEPT !.whole = FALSE])
    BY <1>3, Zenon
  <2>2. k \in 0..Len(f) /\ k + 1 \in 1..Len(f)
    OBVIOUS
  <2>3. f[k + 1] \in Record
    BY <2>2
  <2>4. [f[k + 1] EXCEPT !.whole = FALSE] \in Record
    BY <2>3, Zenon DEF Record
  <2>5. SubSeq(f, 1, k) \in Seq(Record)
    BY <1>1, <2>2
  <2>6. QED
    BY <2>1, <2>4, <2>5
<1>4. QED
  BY <1>2, <1>3, Zenon DEF Remains

\* The process is killed: no queue survives, and of the files no more is known.
LEMMA KillStep == IInv /\ Kill => IInv'
<1> SUFFICES ASSUME IInv, Kill PROVE IInv'
  OBVIOUS
<1>1. outputFile \in Seq(Record) /\ errorFile \in Seq(Record) /\ kills \in Nat
  BY DEF IInv, TypeInv
<1>2. base.out \in 0..Len(outputFile) /\ base.err \in 0..Len(errorFile)
  BY DEF IInv, LaunchInv, Kill
<1>3. /\ phase' = "down" /\ kills' = kills + 1 /\ queues' = EmptyQueues
      /\ outputFile' \in Remains(outputFile, base.out)
      /\ errorFile' \in Remains(errorFile, base.err)
      /\ skipLines' = skipLines /\ nextLine' = nextLine
  BY DEF Kill
<1>4. outputFile' \in Seq(Record) /\ errorFile' \in Seq(Record)
  BY <1>1, <1>2, <1>3, RemainsType
<1>5. EmptyQueues \in [Servers -> Seq(Samples)]
  BY DEF EmptyQueues
<1>6. TypeInv'
  BY <1>1, <1>3, <1>4, <1>5 DEF IInv, TypeInv
<1>7. LaunchInv'
  BY <1>3 DEF LaunchInv
<1>8. CleanInv'
  BY <1>1, <1>3 DEF CleanInv
<1>9. QED
  BY <1>6, <1>7, <1>8 DEF IInv

\* Every step of the script, its workers and its environment.
LEMMA NextIInv == IInv /\ [Next]_vars => IInv'
<1> SUFFICES ASSUME IInv, [Next]_vars PROVE IInv'
  OBVIOUS
<1>1. phase \notin {"submit", "drain"} => queues = EmptyQueues
  BY DEF IInv, LaunchInv
<1>2. phase \in {"down", "submit", "drain", "done", "all_processed"}
  BY DEF IInv, TypeInv
<1>3. CASE LaunchAny
  BY <1>3, LaunchStep DEF LaunchAny
<1>4. CASE WriteReady
  <2>1. CurrentServer \in Servers
    BY <1>4 DEF WriteReady, IInv, LaunchInv, CurrentServer
  <2>2. PICK i \in 1..Len(queues[CurrentServer]) :
               /\ WriteFinishedResult(queues[CurrentServer][i])
               /\ queues' = [queues EXCEPT ![CurrentServer] = Without(@, i)]
    BY <1>4, Zenon DEF WriteReady
  <2>3. /\ phase \in {"submit", "drain"}
        /\ UNCHANGED <<phase, base, skipLines, nextLine, valid, nextServer, kills>>
    BY <1>4 DEF WriteReady
  <2>4. QED
    BY <2>1, <2>2, <2>3, WriteStep, Zenon
<1>5. CASE Submit
  BY <1>5, SubmitStep
<1>6. CASE EndOfInput
  BY <1>6, QuietStep DEF EndOfInput
<1>7. CASE Drain
  <2>1. /\ phase \in {"submit", "drain"}
        /\ UNCHANGED <<phase, base, skipLines, nextLine, valid, nextServer, kills>>
    BY <1>7 DEF Drain
  <2>2. valid \in Seq(Servers) /\ queues \in [Servers -> Seq(Samples)]
    BY <2>1 DEF IInv, TypeInv, LaunchInv
  <2>3. PICK v \in 1..Len(valid) :
               /\ queues[valid[v]] # <<>>
               /\ WriteFinishedResult(Head(queues[valid[v]]))
               /\ queues' = [queues EXCEPT ![valid[v]] = Tail(@)]
    BY <1>7, Zenon DEF Drain
  <2>4. valid[v] \in Servers
    BY <2>2
  <2>5. /\ 1 \in 1..Len(queues[valid[v]]) /\ Head(queues[valid[v]]) = queues[valid[v]][1]
        /\ Tail(queues[valid[v]]) = Without(queues[valid[v]], 1)
    BY <2>2, <2>3, <2>4, TailIsWithout, Zenon
  <2>6. queues' = [queues EXCEPT ![valid[v]] = Without(@, 1)]
    BY <2>3, <2>5, Zenon
  <2>7. WriteFinishedResult(queues[valid[v]][1])
    BY <2>3, <2>5
  <2>8. QED
    BY <2>1, <2>4, <2>5, <2>6, <2>7, WriteStep, Zenon
<1>8. CASE Complete
  BY <1>8, QuietStep DEF Complete
<1>9. CASE WorkerThread
  <2>1. /\ phase \in {"submit", "drain"}
        /\ UNCHANGED <<phase, outputFile, errorFile, base, skipLines, nextLine, queues, valid,
                       nextServer, kills>>
    BY <1>9 DEF WorkerThread, CallSglang
  <2>2. QED
    BY <2>1, QuietStep
<1>10. CASE Kill
  BY <1>10, KillStep
<1>11. CASE Idle \/ UNCHANGED vars
  <2>1. UNCHANGED <<phase, outputFile, errorFile, base, skipLines, nextLine, queues, valid,
                    nextServer, kills>>
    BY <1>11 DEF Idle, vars
  <2>2. QED
    BY <1>1, <1>2, <2>1, QuietStep
<1>12. QED
  BY <1>3, <1>4, <1>5, <1>6, <1>7, <1>8, <1>9, <1>10, <1>11, SMTT(30) DEF Next, MainThread

-----------------------------------------------------------------------------
(* What the invariant says. *)

\* The records of a sample in a file that holds each sample at most once.
LEMMA WrittenFacts ==
  ASSUME NEW f, NEW b, NEW lo, NEW hi, NEW s, Distinct(f, b, lo, hi)
  PROVE  /\ Recorded(f, b, s) => Cardinality(Written(f, b, s)) = 1
         /\ ~Recorded(f, b, s) => Cardinality(Written(f, b, s)) = 0
<1>1. ASSUME Recorded(f, b, s) PROVE Cardinality(Written(f, b, s)) = 1
  <2>1. PICK i \in b + 1..Len(f) : f[i].sample = s
    BY <1>1, Zenon DEF Recorded
  <2>2. Written(f, b, s) = {i}
    BY <2>1 DEF Written, Distinct
  <2>3. QED
    BY <2>2, FS_Singleton, Zenon
<1>2. ASSUME ~Recorded(f, b, s) PROVE Cardinality(Written(f, b, s)) = 0
  <2>1. Written(f, b, s) = {}
    BY <1>2 DEF Written, Recorded
  <2>2. QED
    BY <2>1, FS_EmptySet
<1>3. QED
  BY <1>1, <1>2

\* The queue entries of a sample when each sample is in at most one.
LEMMA HeldAtFacts ==
  ASSUME TypeInv, NEW lo \in Nat, NEW hi \in 0..NumLines, NEW s,
         Sorted(queues, lo, hi), Apart(queues)
  PROVE  /\ Queued(queues, s) => Cardinality(HeldAt(s)) = 1
         /\ ~Queued(queues, s) => Cardinality(HeldAt(s)) = 0
<1>1. queues \in [Servers -> Seq(Samples)] /\ \A v \in Servers : Len(queues[v]) \in Nat
  BY DEF TypeInv
<1>2. ASSUME NEW p \in HeldAt(s)
      PROVE  /\ p = <<p[1], p[2]>> /\ p[1] \in Servers /\ p[2] \in 1..Len(queues[p[1]])
             /\ queues[p[1]][p[2]] = s
  <2>1. /\ p \in Servers \X Samples /\ p[2] <= Len(queues[p[1]]) /\ queues[p[1]][p[2]] = s
    BY DEF HeldAt
  <2>2. p = <<p[1], p[2]>> /\ p[1] \in Servers /\ p[2] \in Samples
    BY <2>1
  <2>3. p[2] \in 1..Len(queues[p[1]])
    BY <1>1, <2>1, <2>2 DEF Samples
  <2>4. QED
    BY <2>1, <2>2, <2>3
<1>3. ASSUME Queued(queues, s) PROVE Cardinality(HeldAt(s)) = 1
  <2>1. PICK v \in Servers : \E i \in 1..Len(queues[v]) : queues[v][i] = s
    BY <1>3 DEF Queued
  <2>2. PICK i \in 1..Len(queues[v]) : queues[v][i] = s
    BY <2>1
  <2>3. i \in Samples
    <3>1. queues[v][i] \in lo + 1..hi /\ queues[v][i] >= i
      BY DEF Sorted
    <3>2. QED
      BY <1>1, <3>1, RegenAssumption DEF Samples
  <2>4. <<v, i>> \in HeldAt(s)
    <3>1. <<v, i>> \in Servers \X Samples
      BY <2>3
    <3>2. <<v, i>>[1] = v /\ <<v, i>>[2] = i /\ i <= Len(queues[v])
      BY <1>1
    <3>3. QED
      BY <2>2, <3>1, <3>2 DEF HeldAt
  <2>5. ASSUME NEW p \in HeldAt(s) PROVE p = <<v, i>>
    <3>1. p[1] = v
      BY <1>2, <2>2 DEF Apart
    <3>2. p[2] \in 1..Len(queues[v]) /\ queues[v][p[2]] = queues[v][i]
      BY <1>2, <2>2, <3>1
    <3>3. \A m, n \in 1..Len(queues[v]) :
            queues[v][m] \in Samples /\ (m < n => queues[v][m] < queues[v][n])
      BY <1>1 DEF Sorted
    <3>4. ~(p[2] < i) /\ ~(i < p[2])
      BY <3>2, <3>3 DEF Samples
    <3>5. p[2] = i
      BY <3>2, <3>4
    <3>6. QED
      BY <1>2, <3>1, <3>5
  <2>6. HeldAt(s) = {<<v, i>>}
    BY <2>4, <2>5
  <2>7. QED
    BY <2>6, FS_Singleton, Zenon
<1>4. ASSUME ~Queued(queues, s) PROVE Cardinality(HeldAt(s)) = 0
  <2>1. HeldAt(s) = {}
    BY <1>2, <1>4, SMTT(30) DEF Queued
  <2>2. QED
    BY <2>1, FS_EmptySet
<1>5. QED
  BY <1>3, <1>4

\* The invariant of a launch gives every sample exactly one place.
LEMMA IInvImpliesOnce == IInv => EachResultOnce
<1> SUFFICES ASSUME IInv, phase \in {"submit", "drain", "done"},
                    NEW s \in skipLines + 1..nextLine - 1
             PROVE  Cardinality(HeldAt(s))
                      + Cardinality(Written(outputFile, base.out, s))
                      + Cardinality(Written(errorFile, base.err, s)) = 1
  BY DEF EachResultOnce
<1>1. Places(queues, outputFile, base.out, errorFile, base.err, skipLines, nextLine - 1)
  BY DEF IInv, LaunchInv
<1>2. skipLines \in Nat /\ nextLine - 1 \in 0..NumLines
  BY RegenAssumption DEF IInv, TypeInv
<1>3. /\ Queued(queues, s) => Cardinality(HeldAt(s)) = 1
      /\ ~Queued(queues, s) => Cardinality(HeldAt(s)) = 0
  <2>1. Sorted(queues, skipLines, nextLine - 1) /\ Apart(queues)
    BY <1>1 DEF Places
  <2>2. QED
    BY <1>2, <2>1, HeldAtFacts, SMTT(30) DEF IInv
<1>4. /\ Distinct(outputFile, base.out, skipLines, nextLine - 1)
      /\ Distinct(errorFile, base.err, skipLines, nextLine - 1)
  BY <1>1, Zenon DEF Places
<1>5. /\ Recorded(outputFile, base.out, s) => Cardinality(Written(outputFile, base.out, s)) = 1
      /\ ~Recorded(outputFile, base.out, s) => Cardinality(Written(outputFile, base.out, s)) = 0
  BY <1>4, WrittenFacts, Zenon
<1>6. /\ Recorded(errorFile, base.err, s) => Cardinality(Written(errorFile, base.err, s)) = 1
      /\ ~Recorded(errorFile, base.err, s) => Cardinality(Written(errorFile, base.err, s)) = 0
  BY <1>4, WrittenFacts, Zenon
<1>7. Queued(queues, s) \/ Recorded(outputFile, base.out, s) \/ Recorded(errorFile, base.err, s)
  BY <1>1 DEF Places
<1>8. ~(Recorded(outputFile, base.out, s) /\ Recorded(errorFile, base.err, s))
  BY <1>1, Zenon DEF Places, Disjoint, Recorded
<1>9. ~(Queued(queues, s) /\ Recorded(outputFile, base.out, s))
  <2>1. NotQueued(queues, outputFile, base.out)
    BY <1>1, Zenon DEF Places
  <2>2. QED
    BY <2>1, Zenon DEF NotQueued, Recorded, Queued
<1>10. ~(Queued(queues, s) /\ Recorded(errorFile, base.err, s))
  <2>1. NotQueued(queues, errorFile, base.err)
    BY <1>1, Zenon DEF Places
  <2>2. QED
    BY <2>1, Zenon DEF NotQueued, Recorded, Queued
<1>11. QED
  BY <1>3, <1>5, <1>6, <1>7, <1>8, <1>9, <1>10, SMTT(30)

\* In a file of whole records every sample has a line of its own.
LEMMA ReadableFacts ==
  ASSUME NEW f \in Seq(Record), AllWhole(f), NEW t
  PROVE  t \in Readable(f) <=> Recorded(f, 0, t)
<1>1. \A j \in 1..Len(f) : f[j].whole /\ (j = 1 \/ f[j - 1].whole)
  <2>1. \A j \in 1..Len(f) : j = 1 \/ j - 1 \in 1..Len(f)
    OBVIOUS
  <2>2. QED
    BY <2>1 DEF AllWhole
<1>2. {j \in 1..Len(f) : f[j].whole /\ (j = 1 \/ f[j - 1].whole)} = 1..Len(f)
  BY <1>1
<1>3. Readable(f) = {f[i].sample : i \in 1..Len(f)}
  BY <1>2 DEF Readable
<1>4. 0 + 1..Len(f) = 1..Len(f)
  OBVIOUS
<1>5. QED
  BY <1>3, <1>4 DEF Recorded

\* The invariant of all launches makes the line count the last sample written.
LEMMA IInvImpliesResume == IInv => ResumeContinues
<1> SUFFICES ASSUME IInv, kills = 0, phase \in {"down", "done", "all_processed"}
             PROVE  Readable(outputFile) \cup Readable(errorFile) = 1..CountLines
  BY DEF ResumeContinues
<1>1. outputFile \in Seq(Record) /\ errorFile \in Seq(Record)
  BY DEF IInv, TypeInv
<1>2. /\ AllWhole(outputFile) /\ AllWhole(errorFile)
      /\ Places(EmptyQueues, outputFile, 0, errorFile, 0, 0, nextLine - 1)
  BY DEF IInv, CleanInv, LaunchInv
<1>3. CountLines = nextLine - 1
  BY CountIsNext DEF IInv
<1>4. \A t : t \in Readable(outputFile) \cup Readable(errorFile)
               <=> Recorded(outputFile, 0, t) \/ Recorded(errorFile, 0, t)
  BY <1>1, <1>2, ReadableFacts
<1>5. ASSUME NEW t
      PROVE  Recorded(outputFile, 0, t) \/ Recorded(errorFile, 0, t) <=> t \in 1..nextLine - 1
  <2>1. Recorded(outputFile, 0, t) => t \in 0 + 1..nextLine - 1
    BY <1>2, SMTT(30) DEF Places, Distinct, Recorded
  <2>2. Recorded(errorFile, 0, t) => t \in 0 + 1..nextLine - 1
    BY <1>2 DEF Places, Distinct, Recorded
  <2>3. ~Queued(EmptyQueues, t)
    BY DEF Queued, EmptyQueues
  <2>4. t \in 0 + 1..nextLine - 1 => Recorded(outputFile, 0, t) \/ Recorded(errorFile, 0, t)
    BY <1>2, <2>3 DEF Places
  <2>5. 0 + 1..nextLine - 1 = 1..nextLine - 1
    OBVIOUS
  <2>6. QED
    BY <2>1, <2>2, <2>4, <2>5, SMTT(30)
<1>6. QED
  BY <1>3, <1>4, <1>5

\* The invariant holds throughout, whatever is killed and started again.
LEMMA IInvAlways == Spec => []IInv
<1>1. QED
  BY InitIInv, NextIInv, PTL DEF Spec

\* No launch loses a result or writes one twice: each sample it submitted is
\* in one queue or was written once, to one file, for any number of servers,
\* any concurrency and any order in which the requests return.
THEOREM ResultsWrittenOnce == Spec => []EachResultOnce
<1>1. QED
  BY IInvAlways, IInvImpliesOnce, PTL

\* After launches of which none was killed, the files hold exactly the first
\* CountLines samples: skipping CountLines lines is the right way to resume.
THEOREM ResumeAlwaysContinues == Spec => []ResumeContinues
<1>1. QED
  BY IInvAlways, IInvImpliesResume, PTL
=============================================================================
