---------------------------- MODULE CacheProofs -----------------------------
(***************************************************************************)
(* Two caches hold what their readers take them to hold.                   *)
(*                                                                         *)
(* The shared line index is right for any number of processes, files and   *)
(* rewrites (JsonlIndex).  The invariant: an entry of the cache directory  *)
(* is whole, and if its key is the file's present modification time it is  *)
(* the index of the present file; the same holds of what each process has  *)
(* in memory.  An entry whose scan overlapped a rewrite may be wrong, but  *)
(* its key is older than the file, so nobody looks for it again.           *)
(*                                                                         *)
(* The draft KV of the server: the layers of the drafter read what they    *)
(* were trained to read, for every size and over any sequence of prefills, *)
(* rounds, acceptances and rematches (LatentServe).                        *)
(***************************************************************************)
EXTENDS JsonlIndex, LatentServe, TLAPS

\* x is a whole index, and the right one of file f if m is its present version t.
Good(t, f, m, x) ==
  /\ x \notin {None, Torn}
  /\ m = t => x = LineStarts(Lines[f][m])

\* Process p has the index of file f.
Has(p, f) ==
  \/ pc[p] = "ready"
  \/ f < idx[p]
  \/ f = idx[p] /\ pc[p] \in {"dump", "sync", "replace"}

\* What an index file or a slot of line_starts_per_file may hold.
Index == {None, Torn} \cup {LineStarts(Lines[f][m]) : f \in File, m \in Version}

TypeInv ==
  /\ mtime \in [File -> Version]
  /\ pc \in [Proc -> {"down", "stat", "look", "load", "open", "scan", "dump", "sync",
                      "replace", "ready", "empty", "raised"}]
  /\ idx \in [Proc -> File]
  /\ key \in [Proc -> [File -> Version]]
  /\ opened \in [Proc -> Version]
  /\ starts \in [Proc -> [File -> Index]]
  /\ cache \in [Key -> Index]
  /\ tmp \in [Key \X Proc -> Index]

ProcInv(p) ==
  /\ \A f \in File : key[p][f] <= mtime[f]
  /\ \A f \in File : Has(p, f) => Good(mtime[f], f, key[p][f], starts[p][f])
  /\ pc[p] = "scan" => key[p][idx[p]] <= opened[p] /\ opened[p] <= mtime[idx[p]]
  /\ pc[p] = "load" => cache[file_key(idx[p], key[p][idx[p]])] # None
  /\ pc[p] = "replace" => tmp[tmp_path(p, idx[p])] = starts[p][idx[p]]
  /\ pc[p] # "raised"

CacheInv ==
  \A f \in File, m \in Version :
    cache[<<f, m>>] # None => m <= mtime[f] /\ Good(mtime[f], f, m, cache[<<f, m>>])

IndexIInv == TypeInv /\ CacheInv /\ \A p \in Proc : ProcInv(p)

\* Whole numbers up to a bound.
LEMMA Numbers ==
  /\ File \subseteq Nat /\ Version \subseteq Nat
  /\ None \in Index /\ Torn \in Index
  /\ 1 \in File /\ 1 \in Version /\ NumFiles \in File
  /\ \A f \in File, m \in Version : /\ <<f, m>> \in Key
                                   /\ LineStarts(Lines[f][m]) \in Index \ {None, Torn}
  BY JsonlAssumption DEF File, Version, Key, Index

\* A step that leaves a process's memory and temporary files alone, and removes no
\* index file, keeps the invariant of that process.
LEMMA Unaffected ==
  ASSUME NEW p \in Proc, TypeInv, ProcInv(p), mtime' = mtime,
         pc'[p] = pc[p], idx'[p] = idx[p], key'[p] = key[p], opened'[p] = opened[p],
         starts'[p] = starts[p],
         \A k \in Key : cache[k] # None => cache'[k] # None,
         \A k \in Key : tmp'[<<k, p>>] = tmp[<<k, p>>]
  PROVE  ProcInv(p)'
<1>1. idx[p] \in File /\ key[p] \in [File -> Version] /\ key[p][idx[p]] \in Version
  BY DEF TypeInv
<1>2. <<idx[p], key[p][idx[p]]>> \in Key
  BY <1>1 DEF Key
<1> QED
  BY <1>1, <1>2 DEF ProcInv, Has, Good, file_key, tmp_path

\* TypeInv
LEMMA TypePreserved ==
  ASSUME TypeInv, [IndexNext]_indexVars
  PROVE  TypeInv'
<1> USE Numbers
<1>1. ASSUME NEW p \in Proc, ProcNext(p) PROVE TypeInv'
  <2>0. idx[p] \in File /\ key[p] \in [File -> Version] /\ starts[p] \in [File -> Index]
    BY DEF TypeInv
  <2>n. idx[p] # NumFiles => idx[p] + 1 \in File
    BY <2>0, JsonlAssumption DEF File
  <2>1. CASE Start(p)
    BY <2>1 DEF Start, TypeInv
  <2>2. CASE Stat(p)
    <3>1. [key[p] EXCEPT ![idx[p]] = mtime[idx[p]]] \in [File -> Version]
      BY <2>0, Zenon DEF TypeInv
    <3> QED BY <2>2, <3>1 DEF Stat, TypeInv
  <2>3. CASE Look(p)
    BY <2>3 DEF Look, TypeInv
  <2>4. CASE Load(p)
    <3>1. cache[file_key(idx[p], key[p][idx[p]])] \in Index
      BY <2>0, Zenon DEF TypeInv, file_key
    <3>2. [starts[p] EXCEPT ![idx[p]] = cache[file_key(idx[p], key[p][idx[p]])]]
            \in [File -> Index]
      BY <2>0, <3>1
    <3>3. CASE cache[file_key(idx[p], key[p][idx[p]])] = Torn
      BY <2>4, <3>3 DEF Load, TypeInv
    <3>4. CASE cache[file_key(idx[p], key[p][idx[p]])] # Torn
      <4>1. starts' \in [Proc -> [File -> Index]]
        BY <2>4, <3>2, <3>4, Zenon DEF Load, TypeInv
      <4>2. NextFile(p) /\ UNCHANGED <<mtime, key, opened, cache, tmp>>
        BY <2>4, <3>4 DEF Load
      <4> QED BY <2>0, <2>n, <4>1, <4>2 DEF NextFile, TypeInv
    <3> QED BY <3>3, <3>4
  <2>5. CASE Open(p)
    BY <2>0, <2>5, Zenon DEF Open, TypeInv
  <2>6. CASE Scan(p)
    <3>1. PICK v \in opened[p]..mtime[idx[p]] :
            starts' = [starts EXCEPT ![p] =
                         [starts[p] EXCEPT ![idx[p]] = LineStarts(Lines[idx[p]][v])]]
      BY <2>6, Zenon DEF Scan
    <3>2. opened[p] \in Version /\ mtime[idx[p]] \in Version
      BY <2>0, Zenon DEF TypeInv
    <3>3. v \in Version
      BY <3>1, <3>2, JsonlAssumption DEF Version
    <3>4. [starts[p] EXCEPT ![idx[p]] = LineStarts(Lines[idx[p]][v])] \in [File -> Index]
      BY <2>0, <3>3, Zenon
    <3> QED BY <2>6, <3>1, <3>4 DEF Scan, TypeInv
  <2>7. CASE Dump(p)
    BY <2>7, Zenon DEF Dump, TypeInv
  <2>8. CASE Sync(p)
    <3>1. starts[p][idx[p]] \in Index
      BY <2>0, Zenon
    <3> QED BY <2>8, <3>1, Zenon DEF Sync, TypeInv
  <2>9. CASE Replace(p)
    <3>1. tmp_path(p, idx[p]) \in Key \X Proc /\ tmp_path(p, idx[p])[1] \in Key
      BY <2>0, Zenon DEF tmp_path, file_key
    <3>2. tmp[tmp_path(p, idx[p])] \in Index
      BY <3>1, Zenon DEF TypeInv
    <3>3. None \in Index
      BY DEF Index
    <3> QED BY <2>0, <2>n, <2>9, <3>1, <3>2, <3>3 DEF Replace, NextFile, TypeInv
  <2>10. CASE Stop(p)
    <3>1. [f \in File |-> None] \in [File -> Index]
      BY DEF Index
    <3> QED BY <2>10, <3>1 DEF Stop, TypeInv
  <2> QED
    BY <1>1, <2>1, <2>2, <2>3, <2>4, <2>5, <2>6, <2>7, <2>8, <2>9, <2>10 DEF ProcNext
<1>2. ASSUME NEW f \in File, Modify(f) PROVE TypeInv'
  <2>1. mtime[f] \in Version /\ mtime[f] + 1 \in Version
    BY <1>2, JsonlAssumption DEF TypeInv, Modify, Version
  <2> QED
    BY <1>2, <2>1 DEF Modify, TypeInv
<1>3. CASE UNCHANGED indexVars
  BY <1>3 DEF indexVars, TypeInv
<1> QED
  BY <1>1, <1>2, <1>3, Zenon DEF IndexNext

\* A step of one process does not disturb another.
LEMMA OthersKeep ==
  ASSUME NEW q \in Proc, NEW p \in Proc, p # q, TypeInv, CacheInv, ProcInv(p), ProcInv(q),
         ProcNext(q)
  PROVE  ProcInv(p)'
<1> USE DEF ProcNext
<1>1. mtime' = mtime
  BY DEF Start, Stat, Look, Load, Open, Scan, Dump, Sync, Replace, Stop
<1>2. pc'[p] = pc[p] /\ idx'[p] = idx[p]
  BY DEF TypeInv, Start, Stat, Look, Load, Open, Scan, Dump, Sync, Replace, Stop, NextFile
<1>3. key'[p] = key[p] /\ opened'[p] = opened[p] /\ starts'[p] = starts[p]
  BY DEF TypeInv, Start, Stat, Look, Load, Open, Scan, Dump, Sync, Replace, Stop
<1>4. \A k \in Key : tmp'[<<k, p>>] = tmp[<<k, p>>]
  <2> SUFFICES ASSUME NEW k \in Key PROVE tmp'[<<k, p>>] = tmp[<<k, p>>]
    OBVIOUS
  <2>1. <<k, p>> # tmp_path(q, idx[q]) /\ <<k, p>> \in Key \X Proc
    BY DEF tmp_path
  <2> QED
    BY <2>1 DEF TypeInv, Start, Stat, Look, Load, Open, Scan, Dump, Sync, Replace, Stop
<1>5. \A k \in Key : cache[k] # None => cache'[k] # None
  <2>1. CASE Replace(q)
    <3>1. idx[q] \in File
      BY DEF TypeInv
    <3>2. tmp[tmp_path(q, idx[q])] # None
      BY <2>1, <3>1 DEF Replace, ProcInv, Has, Good
    <3> QED
      BY <2>1, <3>2 DEF Replace, TypeInv
  <2>2. CASE ~Replace(q)
    BY <2>2 DEF Start, Stat, Look, Load, Open, Scan, Dump, Sync, Stop
  <2> QED
    BY <2>1, <2>2
<1> HIDE DEF ProcNext
<1> QED
  BY <1>1, <1>2, <1>3, <1>4, <1>5, Unaffected

\* A step of a process keeps the index files right: only Replace writes one, and
\* it writes what the process scanned.
LEMMA CacheKeeps ==
  ASSUME NEW q \in Proc, TypeInv, CacheInv, ProcInv(q), ProcNext(q)
  PROVE  CacheInv'
<1> USE Numbers
<1>1. mtime' = mtime
  BY DEF ProcNext, Start, Stat, Look, Load, Open, Scan, Dump, Sync, Replace, Stop
<1>2. CASE Replace(q)
  <2> DEFINE g == idx[q]
             n == key[q][g]
  <2>1. g \in File /\ n \in Version
    BY Zenon DEF TypeInv
  <2>2. tmp[tmp_path(q, g)] = starts[q][g] /\ tmp_path(q, g)[1] = <<g, n>>
    BY <1>2 DEF Replace, ProcInv, tmp_path, file_key
  <2>3. n <= mtime[g] /\ Good(mtime[g], g, n, starts[q][g])
    BY <1>2, <2>1 DEF Replace, ProcInv, Has
  <2>4. cache' = [cache EXCEPT ![<<g, n>>] = starts[q][g]]
    BY <1>2, <2>2 DEF Replace
  <2> HIDE DEF g, n
  <2> SUFFICES ASSUME NEW f \in File, NEW m \in Version, cache'[<<f, m>>] # None
               PROVE  m <= mtime[f] /\ Good(mtime[f], f, m, cache'[<<f, m>>])
    BY <1>1 DEF CacheInv
  <2>5. <<f, m>> \in Key /\ cache \in [Key -> Index]
    BY Zenon DEF TypeInv
  <2>6. CASE f = g /\ m = n
    BY <2>3, <2>4, <2>5, <2>6
  <2>7. CASE ~(f = g /\ m = n)
    <3>1. cache'[<<f, m>>] = cache[<<f, m>>]
      BY <2>4, <2>5, <2>7
    <3> QED
      BY <3>1 DEF CacheInv
  <2> QED
    BY <2>6, <2>7
<1>3. CASE ~Replace(q)
  <2>1. cache' = cache
    BY <1>3 DEF ProcNext, Start, Stat, Look, Load, Open, Scan, Dump, Sync, Stop
  <2> QED
    BY <1>1, <2>1, Zenon DEF CacheInv
<1> QED
  BY <1>2, <1>3, SMTT(30)

\* Going on to the next file adds at most the file just finished.
LEMMA NextHas ==
  ASSUME NEW q \in Proc, TypeInv, NextFile(q), NEW f \in File, Has(q, f)'
  PROVE  Has(q, f) \/ f = idx[q]
<1>1. idx[q] \in File /\ idx[q] \in Nat /\ f \in Nat /\ f <= NumFiles /\ idx[q] <= NumFiles
  BY JsonlAssumption DEF TypeInv, File
<1>2. CASE idx[q] = NumFiles
  BY <1>1, <1>2 DEF Has
<1>3. CASE idx[q] # NumFiles
  <2>1. pc'[q] = "stat" /\ idx'[q] = idx[q] + 1
    BY <1>3 DEF NextFile, TypeInv
  <2> QED
    BY <1>1, <2>1 DEF Has
<1> QED
  BY <1>2, <1>3

\* A step of a process keeps its own part of the invariant.
LEMMA OwnStep ==
  ASSUME NEW q \in Proc, TypeInv, TypeInv', CacheInv, ProcInv(q), ProcNext(q)
  PROVE  ProcInv(q)'
<1> USE Numbers
<1> DEFINE g == idx[q]
           n == key[q][g]
<1>1. mtime' = mtime
  BY DEF ProcNext, Start, Stat, Look, Load, Open, Scan, Dump, Sync, Replace, Stop
<1>2. /\ g \in File /\ n \in Version /\ key[q] \in [File -> Version]
      /\ \A f \in File : mtime[f] \in Version /\ mtime[f] \in Nat
      /\ starts[q] \in [File -> Index] /\ cache \in [Key -> Index]
  BY Zenon DEF TypeInv
<1>3. CASE Start(q)
  <2>1. /\ pc[q] = "down" /\ pc'[q] = "stat"
        /\ UNCHANGED <<idx, key, opened, starts, cache, tmp>>
    BY <1>3 DEF Start, TypeInv
  <2>2. \A f \in File : Has(q, f)' => Has(q, f)
    BY <2>1 DEF Has
  <2> QED
    BY <1>1, <2>1, <2>2 DEF ProcInv
<1>4. CASE Stat(q)
  <2>1. /\ pc[q] = "stat" /\ pc'[q] = "look"
        /\ key'[q] = [key[q] EXCEPT ![g] = mtime[g]]
        /\ UNCHANGED <<idx, opened, starts, cache, tmp>>
    BY <1>4 DEF Stat, TypeInv
  <2>2. \A f \in File : Has(q, f)' => Has(q, f) /\ f # g
    BY <1>2, <2>1 DEF Has
  <2>3. \A f \in File : key'[q][f] = IF f = g THEN mtime[f] ELSE key[q][f]
    BY <1>2, <2>1
  <2>4. \A f \in File : key'[q][f] <= mtime[f]
    BY <1>2, <2>3, SMTT(30) DEF ProcInv
  <2>5. \A f \in File : Has(q, f)' => Good(mtime[f], f, key'[q][f], starts[q][f])
    BY <2>2, <2>3, Zenon DEF ProcInv
  <2> QED
    BY <1>1, <2>1, <2>4, <2>5 DEF ProcInv
<1>5. CASE Look(q)
  <2>1. /\ pc[q] = "look"
        /\ pc'[q] = IF cache[<<g, n>>] = None THEN "open" ELSE "load"
        /\ UNCHANGED <<idx, key, opened, starts, cache, tmp>>
    BY <1>5 DEF Look, TypeInv, file_key
  <2>2. \A f \in File : Has(q, f)' => Has(q, f)
    BY <2>1, SMTT(30) DEF Has
  <2> QED
    BY <1>1, <2>1, <2>2, Zenon DEF ProcInv, file_key
<1>6. CASE Load(q)
  <2>1. cache[<<g, n>>] # None /\ <<g, n>> = file_key(g, n)
    BY <1>6, SMTT(30) DEF Load, ProcInv, file_key
  <2>2. Good(mtime[g], g, n, cache[<<g, n>>])
    BY <1>2, <2>1, Zenon DEF CacheInv
  <2>3. cache[<<g, n>>] # Torn
    BY <2>2 DEF Good
  <2>4. /\ starts'[q] = [starts[q] EXCEPT ![g] = cache[<<g, n>>]] /\ NextFile(q)
        /\ UNCHANGED <<key, opened, cache, tmp>>
    <3>1. cache[file_key(g, n)] # Torn
      BY <2>1, <2>3
    <3>2. /\ starts' = [starts EXCEPT ![q] = [starts[q] EXCEPT ![g] = cache[file_key(g, n)]]]
          /\ NextFile(q)
          /\ UNCHANGED <<key, opened, cache, tmp>>
      BY <1>6, <3>1, Zenon DEF Load
    <3>3. DOMAIN starts = Proc
      BY DEF TypeInv
    <3> QED
      BY <2>1, <3>2, <3>3, Zenon
  <2>5. pc'[q] \in {"ready", "stat"}
    BY <2>4 DEF NextFile, TypeInv
  <2>6. \A f \in File : Has(q, f)' => Has(q, f) \/ f = g
    BY <1>2, <2>4, NextHas, Zenon
  <2>7. \A f \in File : Has(q, f)' => Good(mtime[f], f, key[q][f], starts'[q][f])
    BY <1>2, <2>2, <2>4, <2>6 DEF ProcInv
  <2> QED
    BY <1>1, <2>4, <2>5, <2>7 DEF ProcInv
<1>7. CASE Open(q)
  <2>1. /\ pc[q] = "open" /\ pc'[q] \in {"empty", "scan"} /\ opened'[q] = mtime[g]
        /\ UNCHANGED <<idx, key, starts, cache, tmp>>
    BY <1>7 DEF Open, TypeInv
  <2>2. \A f \in File : Has(q, f)' => Has(q, f)
    BY <2>1 DEF Has
  <2>3. key[q][g] <= opened'[q] /\ opened'[q] <= mtime[g]
    <3>1. key[q][g] <= mtime[g] /\ mtime[g] \in Nat
      BY <1>2, Zenon DEF ProcInv
    <3> HIDE DEF g
    <3> QED
      BY <2>1, <3>1
  <2> QED
    BY <1>1, <2>1, <2>2, <2>3 DEF ProcInv
<1>8. CASE Scan(q)
  <2>1. PICK v \in opened[q]..mtime[g] :
          starts' = [starts EXCEPT ![q] = [starts[q] EXCEPT ![g] = LineStarts(Lines[g][v])]]
    BY <1>8, Zenon DEF Scan
  <2>2. /\ pc[q] = "scan" /\ pc'[q] = "dump"
        /\ starts'[q] = [starts[q] EXCEPT ![g] = LineStarts(Lines[g][v])]
        /\ UNCHANGED <<idx, key, cache, tmp>>
    BY <1>8, <2>1, Zenon DEF Scan, TypeInv
  <2>3. n <= opened[q] /\ opened[q] <= mtime[g] /\ opened[q] \in Version
    BY <2>2 DEF ProcInv, TypeInv
  <2>4. v \in Version /\ (n = mtime[g] => v = n)
    <3>1. n \in Nat /\ opened[q] \in 1..MaxVersion /\ mtime[g] \in 1..MaxVersion
      BY <1>2, <2>3, Zenon DEF Version
    <3>2. v \in opened[q]..mtime[g] /\ MaxVersion \in Nat
      BY <2>1, JsonlAssumption
    <3> HIDE DEF g, n
    <3>3. v \in 1..MaxVersion /\ (n = mtime[g] => v = n)
      BY <2>3, <3>1, <3>2
    <3> QED
      BY <3>3 DEF Version
  <2>5. Good(mtime[g], g, n, LineStarts(Lines[g][v]))
    BY <1>2, <2>4, Zenon DEF Good
  <2>6. \A f \in File : Has(q, f)' => Has(q, f) \/ f = g
    BY <2>2, SMTT(30) DEF Has
  <2>7. \A f \in File : Has(q, f)' => Good(mtime[f], f, key[q][f], starts'[q][f])
    BY <1>2, <2>2, <2>5, <2>6, SMTT(30) DEF ProcInv
  <2> QED
    BY <1>1, <2>2, <2>7 DEF ProcInv
<1>9. CASE Dump(q)
  <2>1. /\ pc[q] = "dump" /\ pc'[q] = "sync"
        /\ UNCHANGED <<idx, key, opened, starts, cache>>
    BY <1>9 DEF Dump, TypeInv
  <2>2. \A f \in File : Has(q, f)' => Has(q, f)
    BY <2>1, SMTT(30) DEF Has
  <2> QED
    BY <1>1, <2>1, <2>2 DEF ProcInv
<1>10. CASE Sync(q)
  <2>1. /\ pc[q] = "sync" /\ pc'[q] = "replace"
        /\ UNCHANGED <<idx, key, opened, starts, cache>>
    BY <1>10 DEF Sync, TypeInv
  <2>2. \A f \in File : Has(q, f)' => Has(q, f)
    BY <2>1 DEF Has
  <2>3. tmp_path(q, g) \in Key \X Proc /\ tmp_path(q, g)' = tmp_path(q, g)
    BY <1>2, <2>1, Zenon DEF tmp_path, file_key
  <2>4. tmp'[tmp_path(q, g)] = starts[q][g]
    BY <1>10, <2>3 DEF Sync, TypeInv
  <2> QED
    BY <1>1, <2>1, <2>2, <2>3, <2>4, Zenon DEF ProcInv
<1>11. CASE Replace(q)
  <2>1. pc[q] = "replace" /\ NextFile(q) /\ UNCHANGED <<key, opened, starts>>
    BY <1>11 DEF Replace
  <2>2. pc'[q] \in {"ready", "stat"}
    BY <2>1 DEF NextFile, TypeInv
  <2>3. \A f \in File : Has(q, f)' => Has(q, f)
    BY <1>2, <2>1, NextHas, Zenon DEF Has
  <2> QED
    BY <1>1, <2>1, <2>2, <2>3, Zenon DEF ProcInv
<1>12. CASE Stop(q)
  <2>1. pc'[q] = "down" /\ idx'[q] = 1 /\ key'[q] = [f \in File |-> 1]
    BY <1>12 DEF Stop, TypeInv
  <2>2. \A f \in File : ~Has(q, f)'
    BY <2>1, SMTT(30) DEF Has, File
  <2>3. \A f \in File : key'[q][f] <= mtime[f]
    BY <1>2, <2>1, JsonlAssumption DEF Version
  <2> QED
    BY <1>1, <2>1, <2>2, <2>3 DEF ProcInv
<1> QED
  BY <1>3, <1>4, <1>5, <1>6, <1>7, <1>8, <1>9, <1>10, <1>11, <1>12 DEF ProcNext

\* The invariant holds initially and over every step of every process and every
\* rewrite of a file.
THEOREM IndexInductive == IndexSpec => []IndexIInv
<1> USE Numbers
<1>1. IndexInit => IndexIInv
  <2> SUFFICES ASSUME IndexInit PROVE IndexIInv
    OBVIOUS
  <2>1. TypeInv
    BY DEF IndexInit, TypeInv, Index
  <2>2. CacheInv
    BY DEF IndexInit, CacheInv
  <2>3. \A p \in Proc : ProcInv(p)
    <3> TAKE p \in Proc
    <3>1. \A f \in File : ~Has(p, f)
      BY DEF IndexInit, Has, File
    <3> QED
      BY <3>1 DEF IndexInit, ProcInv
  <2> QED
    BY <2>1, <2>2, <2>3 DEF IndexIInv
<1>2. IndexIInv /\ [IndexNext]_indexVars => IndexIInv'
  <2> SUFFICES ASSUME IndexIInv, [IndexNext]_indexVars PROVE IndexIInv'
    OBVIOUS
  <2>1. TypeInv /\ CacheInv /\ (\A p \in Proc : ProcInv(p))
    BY DEF IndexIInv
  <2>2. TypeInv'
    BY <2>1, TypePreserved
  <2>3. ASSUME NEW q \in Proc, ProcNext(q) PROVE CacheInv' /\ \A p \in Proc : ProcInv(p)'
    BY <2>1, <2>2, <2>3, OthersKeep, OwnStep, CacheKeeps
  <2>4. ASSUME NEW g \in File, Modify(g) PROVE CacheInv' /\ \A p \in Proc : ProcInv(p)'
    <3>1. /\ mtime' = [mtime EXCEPT ![g] = mtime[g] + 1]
          /\ UNCHANGED <<pc, idx, key, opened, starts, cache, tmp>>
      BY <2>4 DEF Modify
    <3>2. \A f \in File : mtime[f] \in Nat /\ mtime'[f] \in Nat /\ mtime[f] <= mtime'[f]
                          /\ (mtime'[f] # mtime[f] => mtime[f] < mtime'[f])
      BY <2>1, <3>1, JsonlAssumption DEF TypeInv, Version
    <3>3. ASSUME NEW f \in File, NEW m \in Version, NEW x, m <= mtime[f], Good(mtime[f], f, m, x)
          PROVE  Good(mtime'[f], f, m, x)
      BY <3>2, <3>3, JsonlAssumption, SMTT(30) DEF Good, Version
    <3>4. CacheInv'
      <4> SUFFICES ASSUME NEW f \in File, NEW m \in Version, cache[<<f, m>>] # None
                   PROVE  m <= mtime'[f] /\ Good(mtime'[f], f, m, cache[<<f, m>>])
        BY <3>1 DEF CacheInv
      <4>1. m <= mtime[f] /\ Good(mtime[f], f, m, cache[<<f, m>>])
        BY <2>1, Zenon DEF CacheInv
      <4>2. m <= mtime'[f]
        BY <3>2, <4>1, JsonlAssumption, SMTT(30) DEF Version
      <4> QED
        BY <3>3, <4>1, <4>2, Zenon
    <3>5. ASSUME NEW p \in Proc PROVE ProcInv(p)'
      <4>1. /\ key[p] \in [File -> Version] /\ idx[p] \in File /\ opened[p] \in Version
            /\ ProcInv(p)
        BY <2>1 DEF TypeInv
      <4>2. \A f \in File : Has(p, f)' <=> Has(p, f)
        BY <3>1 DEF Has
      <4>3. \A f \in File : key[p][f] <= mtime'[f]
        BY <3>2, <4>1 DEF ProcInv, Version
      <4>4. ASSUME NEW f \in File, Has(p, f) PROVE Good(mtime'[f], f, key[p][f], starts[p][f])
        <5>1. Good(mtime[f], f, key[p][f], starts[p][f])
              /\ key[p][f] <= mtime[f] /\ key[p][f] \in Version
          BY <4>1, <4>4, Zenon DEF ProcInv
        <5> QED
          BY <3>3, <5>1, Zenon
      <4>5. opened[p] <= mtime[idx[p]] => opened[p] <= mtime'[idx[p]]
        <5>1. opened[p] \in Nat /\ mtime[idx[p]] \in Nat /\ mtime'[idx[p]] \in Nat
              /\ mtime[idx[p]] <= mtime'[idx[p]]
          BY <3>2, <4>1, Zenon
        <5> QED BY <5>1
      <4>6. \A f \in File : key'[p][f] <= mtime'[f]
        BY <3>1, <4>3
      <4>7. \A f \in File : Has(p, f)' => Good(mtime'[f], f, key'[p][f], starts'[p][f])
        BY <3>1, <4>2, <4>4, Zenon
      <4>8. /\ pc'[p] = "scan" => key'[p][idx'[p]] <= opened'[p] /\ opened'[p] <= mtime'[idx'[p]]
            /\ pc'[p] # "raised"
        BY <3>1, <4>1, <4>5 DEF ProcInv
      <4>9. /\ pc'[p] = "load" => cache'[file_key(idx'[p], key'[p][idx'[p]])] # None
            /\ pc'[p] = "replace" => tmp'[tmp_path(p, idx[p])'] = starts'[p][idx'[p]]
        BY <3>1, <4>1 DEF ProcInv, file_key, tmp_path
      <4> QED
        BY <4>6, <4>7, <4>8, <4>9 DEF ProcInv
    <3> QED
      BY <3>4, <3>5
  <2>5. CASE UNCHANGED indexVars
    <3>1. CacheInv'
      BY <2>1, <2>5, Zenon DEF indexVars, CacheInv
    <3>2. \A p \in Proc : ProcInv(p)'
      BY <2>1, <2>5, Unaffected DEF indexVars
    <3> QED
      BY <2>2, <3>1, <3>2 DEF IndexIInv
  <2> QED
    BY <2>2, <2>3, <2>4, <2>5 DEF IndexNext, IndexIInv
<1> QED
  BY <1>1, <1>2, PTL DEF IndexSpec

\* For any number of processes, files and rewrites, a process whose dataset is
\* ready has the present index of every file that was not written since the
\* process looked at it.
THEOREM IndexAlwaysCurrent == IndexSpec => []IndexIsCurrent
<1>1. IndexIInv => IndexIsCurrent
  BY DEF IndexIInv, ProcInv, Has, Good, IndexIsCurrent
<1> QED
  BY <1>1, IndexInductive, PTL

\* No process ever finds a torn index file, although processes are killed while
\* they write: what _atomic_pickle_dump renames is complete.
THEOREM IndexNeverTorn == IndexSpec => [](\A p \in Proc : pc[p] # "raised")
<1>1. IndexIInv => \A p \in Proc : pc[p] # "raised"
  BY DEF IndexIInv, ProcInv
<1> QED
  BY <1>1, IndexInductive, PTL

-----------------------------------------------------------------------------
(* The draft KV cache of the server. *)

\* What _append_target_hidden_to_draft_kv_by_loc leaves in a slot: the new
\* context inside the rows it is given, the old entry elsewhere.
LEMMA MaterializeSlot ==
  ASSUME NEW from \in Int, NEW n \in Int, NEW r, NEW k \in Layers, NEW p \in Slots
  PROVE  Materialize(from, n, r)[k][p] =
           IF from <= p /\ p < from + n THEN Context(r, p) ELSE kv[k][p]
BY DEF Materialize

\* The strengthened invariant holds initially and is preserved by every step of
\* the worker.
THEOREM LatentInductive == Spec => []IInv
<1> USE LayoutAssumption
<1>1. Init => IInv
  BY DEF Init, IInv
<1>2. IInv /\ [Next]_vars => IInv'
  <2> SUFFICES ASSUME IInv, [Next]_vars PROVE IInv'
    OBVIOUS
  <2>1. ASSUME NEW n \in 1..RowLength, Extend(n) PROVE IInv'
    <3>1. /\ stage' = "extend" /\ commit' = 0 /\ commit = 0 /\ layer' = layer
          /\ seqLen \in Nat /\ seqLen' = seqLen + n /\ seqLen' \in 0..RowLength
          /\ round' \in Nat
      BY <2>1 DEF Extend, IInv
    <3>2. ASSUME NEW k \in Layers, NEW p \in 0..seqLen' - 1
          PROVE  kv'[k][p] = Context(origin'[p], p)
      <4>1. p \in Slots
        BY <3>1 DEF Slots
      <4>2. kv'[k][p] = IF seqLen <= p /\ p < seqLen + n
                        THEN Context(round + 1, p) ELSE kv[k][p]
        BY <2>1, <3>1, <4>1, MaterializeSlot DEF Extend
      <4>3. origin'[p] = IF seqLen <= p /\ p < seqLen + n THEN round + 1 ELSE origin[p]
        BY <2>1, <4>1 DEF Extend
      <4>4. p < seqLen => kv[k][p] = Context(origin[p], p)
        BY <3>1, <4>1 DEF IInv, Slots
      <4> QED
        BY <3>1, <4>1, <4>2, <4>3, <4>4 DEF Slots
    <3> QED
      BY <3>1, <3>2 DEF IInv
  <2>2. ASSUME NEW n \in 0..RowLength, Rematch(n) PROVE IInv'
    BY <2>2 DEF Rematch, IInv
  <2>3. CASE StartDraft
    BY <2>3 DEF StartDraft, IInv, verify_size
  <2>4. CASE RunLatentLayer
    BY <2>4 DEF RunLatentLayer, IInv
  <2>5. CASE WriteLatentKV
    <3>1. /\ stage' = "proposal" /\ commit' = 0 /\ commit = 0 /\ layer' = layer
          /\ seqLen' = seqLen /\ seqLen \in Nat /\ round' = round /\ origin' = origin
          /\ seqLen + num_latent_tokens <= RowLength
          /\ layer \in Layers
      BY <2>5 DEF WriteLatentKV, IInv, verify_size, Layers
    <3>2. ASSUME NEW k \in Layers, NEW p \in Slots
          PROVE  kv'[k][p] = IF k = layer /\ seqLen <= p /\ p < seqLen + num_latent_tokens
                             THEN Latent(round + 1, p) ELSE kv[k][p]
      BY <2>5 DEF WriteLatentKV
    <3>3. ASSUME NEW k \in Layers, NEW p \in 0..seqLen - 1
          PROVE  kv'[k][p] = Context(origin[p], p)
      <4>1. p \in Slots /\ ~(seqLen <= p)
        BY <3>1 DEF Slots
      <4>2. kv[k][p] = Context(origin[p], p)
        BY <3>1 DEF IInv
      <4> QED
        BY <3>2, <4>1, <4>2
    <3>4. ASSUME NEW p \in seqLen..seqLen + num_latent_tokens - 1
          PROVE  kv'[layer][p] = Latent(round + 1, p)
      <4>1. p \in Slots /\ seqLen <= p /\ p < seqLen + num_latent_tokens
        BY <3>1 DEF Slots
      <4> QED
        BY <3>1, <3>2, <4>1
    <3>5. /\ layer \in num_latent_layers + 1..num_latent_layers + num_proposal_layers
          /\ seqLen + verify_size <= RowLength /\ seqLen \in 0..RowLength /\ round \in Nat
      BY <2>5 DEF WriteLatentKV, IInv
    <3> QED
      BY <3>1, <3>3, <3>4, <3>5 DEF IInv, verify_size
  <2>6. CASE RunProposalLayer
    BY <2>6 DEF RunProposalLayer, IInv
  <2>7. ASSUME NEW n \in 1..verify_size, Verify(n) PROVE IInv'
    <3>1. /\ stage' = "append" /\ commit' = n /\ commit = 0 /\ layer' = layer
          /\ seqLen \in Nat /\ seqLen' = seqLen + n /\ n \in Nat
          /\ seqLen' \in 0..RowLength /\ commit' \in 0..seqLen'
          /\ round \in Nat /\ round' = round + 1 /\ kv' = kv
      BY <2>7 DEF Verify, IInv, verify_size
    <3>2. ASSUME NEW p \in seqLen..seqLen + n - 1 PROVE origin'[p] = round + 1
      BY <2>7, <3>1 DEF Verify, Slots
    <3>3. ASSUME NEW k \in Layers, NEW p \in 0..seqLen - 1
          PROVE  kv'[k][p] = Context(origin'[p], p)
      <4>1. p \in Slots /\ ~(seqLen <= p)
        BY <3>1 DEF Slots
      <4>2. origin'[p] = origin[p]
        BY <2>7, <4>1 DEF Verify
      <4>3. kv[k][p] = Context(origin[p], p)
        BY <3>1 DEF IInv
      <4> QED
        BY <3>1, <4>2, <4>3
    <3>4. seqLen' - commit' = seqLen
      BY <3>1
    <3> QED
      BY <3>1, <3>2, <3>3, <3>4 DEF IInv
  <2>8. CASE AppendTargetHidden
    <3>1. /\ stage' = "decode" /\ commit' = 0 /\ commit \in 0..seqLen /\ layer' = layer
          /\ seqLen \in 0..RowLength /\ seqLen' = seqLen
          /\ round \in Nat /\ round' = round /\ origin' = origin
      BY <2>8 DEF AppendTargetHidden, IInv
    <3>2. ASSUME NEW k \in Layers, NEW p \in 0..seqLen - 1
          PROVE  kv'[k][p] = Context(origin[p], p)
      <4>1. p \in Slots
        BY <3>1 DEF Slots
      <4>2. kv'[k][p] = IF seqLen - commit <= p /\ p < (seqLen - commit) + commit
                        THEN Context(round, p) ELSE kv[k][p]
        BY <2>8, <3>1, <4>1, MaterializeSlot DEF AppendTargetHidden
      <4>3. CASE p < seqLen - commit
        <5>1. kv[k][p] = Context(origin[p], p)
          BY <3>1, <4>3 DEF IInv
        <5> QED
          BY <3>1, <4>1, <4>2, <4>3, <5>1 DEF Slots
      <4>4. CASE seqLen - commit <= p
        <5>1. origin[p] = round
          BY <2>8, <3>1, <4>4 DEF IInv, AppendTargetHidden
        <5> QED
          BY <3>1, <4>1, <4>2, <4>4, <5>1 DEF Slots
      <4> QED
        BY <3>1, <4>1, <4>3, <4>4 DEF Slots
    <3> QED
      BY <3>1, <3>2 DEF IInv
  <2>9. CASE UNCHANGED vars
    BY <2>9 DEF vars, IInv
  <2> QED
    BY <2>1, <2>2, <2>3, <2>4, <2>5, <2>6, <2>7, <2>8, <2>9 DEF Next
<1> QED
  BY <1>1, <1>2, PTL DEF Spec

\* For every layout of the checkpoint: whenever a layer of either stage runs, the
\* cached keys it reads are the context of the committed tokens and, in a proposal
\* layer, the latent keys of this very draft.
THEOREM LatentStagesExact == Spec => []AttendsAsTrained
<1> USE LayoutAssumption
<1>1. IInv => AttendsAsTrained
  <2> SUFFICES ASSUME IInv, stage \in {"latent", "proposal"} PROVE Attended = Trained
    BY DEF AttendsAsTrained
  <2>1. seqLen \in Nat /\ commit = 0 /\ layer \in Layers
    BY DEF IInv, Layers
  <2>2. \A p \in 0..seqLen - 1 : kv[layer][p] = Context(origin[p], p)
    BY <2>1 DEF IInv
  <2>3. CASE stage = "latent"
    BY <2>1, <2>2, <2>3 DEF Attended, Trained, PrefixLen
  <2>4. CASE stage = "proposal"
    <3>1. \A p \in seqLen..seqLen + num_latent_tokens - 1 : kv[layer][p] = Latent(round + 1, p)
      BY <2>4 DEF IInv
    <3>2. \A p \in 0..seqLen + num_latent_tokens - 1 :
            kv[layer][p] = IF p < seqLen THEN Context(origin[p], p) ELSE Latent(round + 1, p)
      BY <2>1, <2>2, <3>1
    <3>3. Attended = [p \in 0..seqLen + num_latent_tokens - 1 |-> kv[layer][p]]
      <4>1. PrefixLen = seqLen + num_latent_tokens
        BY <2>4 DEF PrefixLen
      <4> QED
        BY <2>1, <4>1 DEF Attended
    <3>4. Trained = [p \in 0..seqLen + num_latent_tokens - 1 |->
                       IF p < seqLen THEN Context(origin[p], p) ELSE Latent(round + 1, p)]
      BY <2>4, Zenon DEF Trained
    <3> QED
      BY <3>2, <3>3, <3>4, Zenon
  <2> QED
    BY <2>3, <2>4
<1> QED
  BY <1>1, LatentInductive, PTL

=============================================================================
