----------------------------- MODULE JsonlIndex -----------------------------
(***************************************************************************)
(* JsonLineDataset: processes that open the same JSONL files build an      *)
(* index of the line starts of each file, or take it from a cache          *)
(* directory they share, where it is kept under the file's path and        *)
(* modification time.  Processes die at any step and leave temporary files *)
(* behind; the files may be rewritten at any time.  A file is the sequence *)
(* of the lengths of its lines, a line is <<file, version, number>>.       *)
(***************************************************************************)
EXTENDS Integers, Sequences, FiniteSets

CONSTANTS
  Proc,         \* processes; a process that starts again has its old pid
  NumFiles,     \* len(data_paths)
  MaxVersion,   \* bound: how often a file is written
  Lines,        \* Lines[f][m]: the file after its m-th write
  None, Torn    \* no file; a file whose writing was cut short

File == 1..NumFiles

Version == 1..MaxVersion

VARIABLES
  mtime,    \* the version of each file
  pc,       \* of each process
  idx,      \* the file it is at in _build_all_line_starts
  key,      \* the modification times it saw
  opened,   \* the version its scan began with, during the scan
  starts,   \* line_starts_per_file
  cache,    \* the index files, by key
  tmp       \* the temporary files, by key and pid

indexVars == <<mtime, pc, idx, key, opened, starts, cache, tmp>>

-----------------------------------------------------------------------------
\* The index of a file: the position of each line.  The scan's last position, the
\* end of the file, is popped.
LineStarts(lines) ==
  LET pos[i \in 0..Len(lines)] == IF i = 0 THEN 0 ELSE pos[i - 1] + lines[i]
  IN [i \in 1..Len(lines) |-> pos[i - 1]]

ASSUME JsonlAssumption ==
  /\ NumFiles \in Nat \ {0} /\ MaxVersion \in Nat \ {0} /\ None # Torn
  /\ \A f \in File, m \in Version : LineStarts(Lines[f][m]) \notin {None, Torn}

\* Mutant: the key is the path alone.
KeyByPath(f, m) == <<f, 1>>

\* _file_key and _cache_path_from_key
file_key(f, m) == <<f, m>>

Key == File \X Version

\* tmp-<pid>
tmp_path(p, f) == <<file_key(f, key[p][f]), p>>

-----------------------------------------------------------------------------
IndexInit ==
  /\ mtime = [f \in File |-> 1]
  /\ pc = [p \in Proc |-> "down"]
  /\ idx = [p \in Proc |-> 1]
  /\ key = [p \in Proc |-> [f \in File |-> 1]]
  /\ opened = [p \in Proc |-> 1]
  /\ starts = [p \in Proc |-> [f \in File |-> None]]
  /\ cache = [k \in Key |-> None]
  /\ tmp = [t \in Key \X Proc |-> None]

\* The process goes on with the next file, or its dataset is ready.
NextFile(p) ==
  /\ pc' = [pc EXCEPT ![p] = IF idx[p] = NumFiles THEN "ready" ELSE "stat"]
  /\ idx' = [idx EXCEPT ![p] = IF idx[p] = NumFiles THEN 1 ELSE idx[p] + 1]

Start(p) ==
  /\ pc[p] = "down"
  /\ pc' = [pc EXCEPT ![p] = "stat"]
  /\ UNCHANGED <<mtime, idx, key, opened, starts, cache, tmp>>

\* _file_key: os.stat
Stat(p) ==
  /\ pc[p] = "stat"
  /\ key' = [key EXCEPT ![p] = [key[p] EXCEPT ![idx[p]] = mtime[idx[p]]]]
  /\ pc' = [pc EXCEPT ![p] = "look"]
  /\ UNCHANGED <<mtime, idx, opened, starts, cache, tmp>>

\* os.path.exists(cache_path)
Look(p) ==
  /\ pc[p] = "look"
  /\ pc' = [pc EXCEPT ![p] =
              IF cache[file_key(idx[p], key[p][idx[p]])] = None THEN "open" ELSE "load"]
  /\ UNCHANGED <<mtime, idx, key, opened, starts, cache, tmp>>

\* pickle.load: the entry is taken; of a torn file it raises.
Load(p) ==
  LET f == idx[p]
      entry == cache[file_key(f, key[p][f])]
  IN
  /\ pc[p] = "load"
  /\ IF entry = Torn
     THEN pc' = [pc EXCEPT ![p] = "raised"] /\ UNCHANGED <<idx, starts>>
     ELSE starts' = [starts EXCEPT ![p] = [starts[p] EXCEPT ![f] = entry]] /\ NextFile(p)
  /\ UNCHANGED <<mtime, key, opened, cache, tmp>>

\* open and mmap, which refuses an empty file.
Open(p) ==
  LET f == idx[p] IN
  /\ pc[p] = "open"
  /\ opened' = [opened EXCEPT ![p] = mtime[f]]
  /\ pc' = [pc EXCEPT ![p] = IF Lines[f][mtime[f]] = <<>> THEN "empty" ELSE "scan"]
  /\ UNCHANGED <<mtime, idx, key, starts, cache, tmp>>

\* The loop over mm.readline; a file rewritten meanwhile is seen in any of its
\* versions.
Scan(p) ==
  LET f == idx[p] IN
  /\ pc[p] = "scan"
  /\ \E v \in opened[p]..mtime[f] :
       starts' = [starts EXCEPT ![p] = [starts[p] EXCEPT ![f] = LineStarts(Lines[f][v])]]
  /\ pc' = [pc EXCEPT ![p] = "dump"]
  /\ opened' = [opened EXCEPT ![p] = 1]
  /\ UNCHANGED <<mtime, idx, key, cache, tmp>>

\* _atomic_pickle_dump: the temporary file is opened for writing, ...
Dump(p) ==
  /\ pc[p] = "dump"
  /\ tmp' = [tmp EXCEPT ![tmp_path(p, idx[p])] = Torn]
  /\ pc' = [pc EXCEPT ![p] = "sync"]
  /\ UNCHANGED <<mtime, idx, key, opened, starts, cache>>

\* ... written and synced, ...
Sync(p) ==
  /\ pc[p] = "sync"
  /\ tmp' = [tmp EXCEPT ![tmp_path(p, idx[p])] = starts[p][idx[p]]]
  /\ pc' = [pc EXCEPT ![p] = "replace"]
  /\ UNCHANGED <<mtime, idx, key, opened, starts, cache>>

\* ... and renamed over the index file.
Replace(p) ==
  LET t == tmp_path(p, idx[p]) IN
  /\ pc[p] = "replace"
  /\ cache' = [cache EXCEPT ![t[1]] = tmp[t]]
  /\ tmp' = [tmp EXCEPT ![t] = None]
  /\ NextFile(p)
  /\ UNCHANGED <<mtime, key, opened, starts>>

\* A process ends or is killed; only what it wrote stays.
Stop(p) ==
  /\ pc[p] # "down"
  /\ pc' = [pc EXCEPT ![p] = "down"]
  /\ idx' = [idx EXCEPT ![p] = 1]
  /\ key' = [key EXCEPT ![p] = [f \in File |-> 1]]
  /\ opened' = [opened EXCEPT ![p] = 1]
  /\ starts' = [starts EXCEPT ![p] = [f \in File |-> None]]
  /\ UNCHANGED <<mtime, cache, tmp>>

\* Someone writes a data file, which gets a new modification time.
Modify(f) ==
  /\ mtime[f] < MaxVersion
  /\ mtime' = [mtime EXCEPT ![f] = mtime[f] + 1]
  /\ UNCHANGED <<pc, idx, key, opened, starts, cache, tmp>>

ProcNext(p) ==
  \/ Start(p) \/ Stat(p) \/ Look(p) \/ Load(p) \/ Open(p) \/ Scan(p)
  \/ Dump(p) \/ Sync(p) \/ Replace(p) \/ Stop(p)

IndexNext == (\E p \in Proc : ProcNext(p)) \/ (\E f \in File : Modify(f))

IndexSpec == IndexInit /\ [][IndexNext]_indexVars

-----------------------------------------------------------------------------
\* Reading

\* cum_counts, of the files before each file and of all.
CumCounts(p) ==
  LET c[j \in 0..NumFiles] == IF j = 0 THEN 0 ELSE c[j - 1] + Len(starts[p][j])
  IN [j \in 1..(NumFiles + 1) |-> c[j - 1]]

\* bisect_right over cum_counts (files from 1, lines from 0).
map_global_to_local(p, i) ==
  LET cum == CumCounts(p)
      f == Cardinality({j \in DOMAIN cum : cum[j] <= i})
  IN <<f, i - cum[f]>>

\* __getitem__: a line of the file as it is now, if a line starts at that position.
getitem(p, i) ==
  LET at == map_global_to_local(p, i)
      pos == starts[p][at[1]][at[2] + 1]
      now == LineStarts(Lines[at[1]][mtime[at[1]]])
  IN {<<at[1], mtime[at[1]], n>> : n \in {n \in DOMAIN now : now[n] = pos}}

\* The index of every file that has not been written since is the file's own.
IndexIsCurrent ==
  \A p \in Proc : pc[p] = "ready" =>
    \A f \in File : key[p][f] = mtime[f] => starts[p][f] = LineStarts(Lines[f][mtime[f]])

\* A dataset whose files have not been written since its process looked at them
\* yields every line of every file once and in order, whoever built the index, were
\* it while the files were being rewritten or killed half-way; and no process
\* meets a torn index.
ReadsItsLines ==
  \A p \in Proc :
    /\ pc[p] # "raised"
    /\ pc[p] = "ready" /\ key[p] = mtime =>
         LET all == UNION {{f} \X (1..Len(Lines[f][mtime[f]])) : f \in File}
             total == CumCounts(p)[NumFiles + 1]
         IN /\ total = Cardinality(all)
            /\ \A i \in 0..(total - 1) :
                 \E a \in all :
                   /\ getitem(p, i) = {<<a[1], mtime[a[1]], a[2]>>}
                   /\ i = Cardinality({b \in all : b[1] < a[1] \/ (b[1] = a[1] /\ b[2] < a[2])})

=============================================================================
