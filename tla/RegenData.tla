------------------------------ MODULE RegenData ------------------------------
(***************************************************************************)
(* scripts/data/generate_train_data.py: every line of the input file is    *)
(* sent to one of several inference servers; answers go to the output      *)
(* file, failures to the error file, in the order in which they are ready. *)
(* A launch with --resume skips as many input lines as both files have.    *)
(*                                                                         *)
(* A sample is its line number.  An output file is a sequence of records:  *)
(* a whole record ends its line, a torn one is what a killed process left  *)
(* of its last record, and what is appended later stands on the same line. *)
(* Files are buffered: a kill loses any suffix of what a launch wrote.     *)
(***************************************************************************)
EXTENDS Integers, Sequences, FiniteSets

CONSTANTS
    NumLines,     \* lines of the input file
    NumServers,   \* args.server_address
    Concurrency,  \* args.concurrency
    NumSamples,   \* args.num_samples; NumLines stands for None
    MaxLaunches,  \* bound on the number of launches
    MaxKills      \* bound on the number of kills

ASSUME RegenAssumption ==
    /\ NumLines \in Nat \ {0} /\ NumServers \in Nat \ {0} /\ Concurrency \in Nat \ {0}
    /\ NumSamples \in Nat \ {0} /\ MaxLaunches \in Nat /\ MaxKills \in Nat

VARIABLES
    phase,       \* "down", "submit", "drain", "done" or "all_processed"
    outputFile,  \* the records of output_path
    errorFile,   \* the records of error_path
    base,        \* how many records of each this launch found
    skipLines,   \* skip_lines
    nextLine,    \* the line input_handle is at
    queues,      \* queues: the samples in flight at each server, in order
    status,      \* what became of each future
    valid,       \* valid_servers
    nextServer,  \* next_server_index + 1
    launches,    \* launches so far
    kills        \* kills so far

vars == <<phase, outputFile, errorFile, base, skipLines, nextLine, queues, status,
          valid, nextServer, launches, kills>>

Samples == 1..NumLines
Servers == 1..NumServers
NoFutures == [s \in Samples |-> "none"]
EmptyQueues == [v \in Servers |-> <<>>]

\* count_lines: a torn last record is a line of its own.
LinesOf(file) ==
    LET ends == {i \in 1..Len(file) : file[i].whole}
    IN  Cardinality(ends) + IF file # <<>> /\ ~file[Len(file)].whole THEN 1 ELSE 0
CountLines == LinesOf(outputFile) + LinesOf(errorFile)

\* handle.write(json.dumps(sample) + "\n")
WriteLine(file, s) == Append(file, [sample |-> s, whole |-> TRUE])

\* Mutant: failures are not written anywhere.
WriteOnlySuccess(s) ==
    IF status[s] = "error"
    THEN UNCHANGED <<outputFile, errorFile>>
    ELSE outputFile' = WriteLine(outputFile, s) /\ UNCHANGED errorFile

\* write_finished_result
WriteFinishedResult(s) ==
    IF status[s] = "error"
    THEN errorFile' = WriteLine(errorFile, s) /\ UNCHANGED outputFile
    ELSE outputFile' = WriteLine(outputFile, s) /\ UNCHANGED errorFile

Init ==
    /\ phase = "down"
    /\ outputFile = <<>> /\ errorFile = <<>>
    /\ base = [out |-> 0, err |-> 0]
    /\ skipLines = 0 /\ nextLine = 1
    /\ queues = EmptyQueues
    /\ status = NoFutures
    /\ valid = <<>> /\ nextServer = 1
    /\ launches = 0 /\ kills = 0

-----------------------------------------------------------------------------
(* The main thread. *)

\* Mutant: failures are not counted, so that a resumed run retries them.
SuccessOnlyOffset(resume) == IF resume THEN LinesOf(outputFile) ELSE 0

\* find_resume_offset, called when --resume is given.
FindResumeOffset(resume) == IF resume THEN CountLines ELSE 0

\* validate_servers: the servers that answer, in the order of the arguments.
InOrder(up) ==
    {s \in [1..Cardinality(up) -> up] : \A i, j \in 1..Cardinality(up) : i < j => s[i] < s[j]}

\* main up to the opening of the files: the early return when nothing is left,
\* the validation of the servers, which raises when none answers, and the file
\* mode, "w" unless lines are skipped.
Launch(resume, up) ==
    LET skip == FindResumeOffset(resume)
        keep == resume /\ skip > 0
    IN  /\ phase \in {"down", "done", "all_processed"}
        /\ launches < MaxLaunches
        /\ launches' = launches + 1
        /\ UNCHANGED kills
        /\ IF skip >= NumLines
           THEN /\ phase' = "all_processed"
                /\ UNCHANGED <<outputFile, errorFile, base, skipLines, nextLine, queues,
                               status, valid, nextServer>>
           ELSE IF up = {}
           THEN /\ phase' = "down"
                /\ UNCHANGED <<outputFile, errorFile, base, skipLines, nextLine, queues,
                               status, valid, nextServer>>
           ELSE /\ phase' = "submit"
                /\ outputFile' = IF keep THEN outputFile ELSE <<>>
                /\ errorFile' = IF keep THEN errorFile ELSE <<>>
                /\ base' = [out |-> Len(outputFile'), err |-> Len(errorFile')]
                /\ skipLines' = skip
                /\ nextLine' = skip + 1
                /\ queues' = EmptyQueues
                /\ status' = NoFutures
                /\ valid' \in InOrder(up)
                /\ nextServer' = 1

\* The for loop still has a line to submit.
MoreToSubmit == nextLine <= NumLines /\ nextLine - skipLines <= NumSamples

CurrentServer == valid[nextServer]

QueueFull == Len(queues[CurrentServer]) >= Concurrency

\* queues[server_address].remove(future): the entry at i goes.
Without(queue, i) ==
    [j \in 1..Len(queue) - 1 |-> IF j < i THEN queue[j] ELSE queue[j + 1]]

\* Mutant: a failed request is sent again instead of being written.
RetryFailed ==
    /\ phase = "submit" /\ MoreToSubmit /\ QueueFull
    /\ \E i \in 1..Len(queues[CurrentServer]) :
          LET s == queues[CurrentServer][i]
          IN  \/ /\ status[s] = "success"
                 /\ WriteFinishedResult(s)
                 /\ queues' = [queues EXCEPT ![CurrentServer] = Without(@, i)]
                 /\ UNCHANGED status
              \/ /\ status[s] = "error"
                 /\ status' = [status EXCEPT ![s] = "running"]
                 /\ UNCHANGED <<outputFile, errorFile, queues>>
    /\ UNCHANGED <<phase, base, skipLines, nextLine, valid, nextServer, launches, kills>>

\* The inner while loop: the server's queue is full, so a finished future of it
\* is written; a future that finishes during the scan may be passed over.
WriteReady ==
    /\ phase = "submit" /\ MoreToSubmit /\ QueueFull
    /\ \E i \in 1..Len(queues[CurrentServer]) :
          LET s == queues[CurrentServer][i]
          IN  /\ status[s] \in {"success", "error"}
              /\ WriteFinishedResult(s)
              /\ queues' = [queues EXCEPT ![CurrentServer] = Without(@, i)]
    /\ UNCHANGED <<phase, base, skipLines, nextLine, status, valid, nextServer, launches, kills>>

\* executor.submit: the next line goes to the next server in turn.
Submit ==
    /\ phase = "submit" /\ MoreToSubmit /\ ~QueueFull
    /\ queues' = [queues EXCEPT ![CurrentServer] = Append(@, nextLine)]
    /\ status' = [status EXCEPT ![nextLine] = "running"]
    /\ nextLine' = nextLine + 1
    /\ nextServer' = (nextServer % Len(valid)) + 1
    /\ UNCHANGED <<phase, outputFile, errorFile, base, skipLines, valid, launches, kills>>

EndOfInput ==
    /\ phase = "submit" /\ ~MoreToSubmit
    /\ phase' = "drain"
    /\ UNCHANGED <<outputFile, errorFile, base, skipLines, nextLine, queues, status, valid,
                   nextServer, launches, kills>>

\* The final loop: server after server, in the order of submission, waiting for
\* each future.
Drain ==
    /\ phase = "drain"
    /\ \E v \in 1..Len(valid) :
          /\ \A u \in 1..v - 1 : queues[valid[u]] = <<>>
          /\ queues[valid[v]] # <<>>
          /\ LET s == Head(queues[valid[v]])
             IN  /\ status[s] \in {"success", "error"}
                 /\ WriteFinishedResult(s)
                 /\ queues' = [queues EXCEPT ![valid[v]] = Tail(@)]
    /\ UNCHANGED <<phase, base, skipLines, nextLine, status, valid, nextServer, launches, kills>>

\* Leaving the with block closes, and so flushes, both files.
Complete ==
    /\ phase = "drain" /\ queues = EmptyQueues
    /\ phase' = "done"
    /\ UNCHANGED <<outputFile, errorFile, base, skipLines, nextLine, queues, status, valid,
                   nextServer, launches, kills>>

-----------------------------------------------------------------------------
(* The worker threads, and the end of a process. *)

\* call_sglang returns: an answer, or an error sample when the request fails.
CallSglang(s) ==
    /\ phase \in {"submit", "drain"}
    /\ status[s] = "running"
    /\ \E r \in {"success", "error"} : status' = [status EXCEPT ![s] = r]
    /\ UNCHANGED <<phase, outputFile, errorFile, base, skipLines, nextLine, queues, valid,
                   nextServer, launches, kills>>

\* What a kill may leave of a file of which a launch found n records.
Remains(file, n) ==
    {SubSeq(file, 1, k) : k \in n..Len(file)} \cup
    {Append(SubSeq(file, 1, k), [file[k + 1] EXCEPT !.whole = FALSE]) : k \in n..Len(file) - 1}

\* The process is killed, or an exception ends it: futures are lost, and so is
\* what was not flushed.
Kill ==
    /\ phase \in {"submit", "drain"}
    /\ kills < MaxKills
    /\ kills' = kills + 1
    /\ phase' = "down"
    /\ outputFile' \in Remains(outputFile, base.out)
    /\ errorFile' \in Remains(errorFile, base.err)
    /\ queues' = EmptyQueues
    /\ status' = NoFutures
    /\ UNCHANGED <<base, skipLines, nextLine, valid, nextServer, launches>>

MainThread == WriteReady \/ Submit \/ EndOfInput \/ Drain \/ Complete

LaunchAny == \E resume \in BOOLEAN, up \in SUBSET Servers : Launch(resume, up)

WorkerThread == \E s \in Samples : CallSglang(s)

\* Nobody starts the script again.
Idle == phase \in {"down", "done", "all_processed"} /\ UNCHANGED vars

Next == LaunchAny \/ MainThread \/ WorkerThread \/ Kill \/ Idle

\* The main thread runs or sleeps for 0.05 s, and every request returns or
\* fails; nobody is obliged to start the script or to kill it.
Fairness == WF_vars(MainThread) /\ \A s \in Samples : WF_vars(CallSglang(s))

Spec == Init /\ [][Next]_vars /\ Fairness

-----------------------------------------------------------------------------
(* Properties. *)

\* The places where a launch keeps sample s: the records it wrote, the queues.
Written(file, from, s) == {i \in from + 1..Len(file) : file[i].sample = s}
HeldAt(s) ==
    {p \in Servers \X Samples : p[2] <= Len(queues[p[1]]) /\ queues[p[1]][p[2]] = s}

\* No result is lost or written twice by a launch: every sample it submitted
\* is either in exactly one queue or written exactly once to exactly one file,
\* however the requests overtake each other (write_finished_result, called
\* from the full-queue loop and from the final loop).
EachResultOnce ==
    phase \in {"submit", "drain", "done"} =>
        \A s \in skipLines + 1..nextLine - 1 :
            Cardinality(HeldAt(s))
              + Cardinality(Written(outputFile, base.out, s))
              + Cardinality(Written(errorFile, base.err, s)) = 1

\* The samples that have a line of their own.
Readable(file) ==
    {file[i].sample : i \in {j \in 1..Len(file) : file[j].whole /\ (j = 1 \/ file[j - 1].whole)}}

\* A launch that completes, and every resumed launch after it, continues where
\* the last one stopped: as long as no launch was killed, the files hold
\* exactly the samples up to the last one submitted, so that skipping as many
\* lines as they have skips exactly those samples.
ResumeContinues ==
    kills = 0 /\ phase \in {"down", "done", "all_processed"} =>
        Readable(outputFile) \cup Readable(errorFile) = 1..CountLines

\* A launch that is not killed completes: a full queue never blocks the main
\* thread for good.
LaunchCompletes == phase = "submit" ~> phase \in {"done", "down"}

\* What the early return of main prints, "All ... samples are already
\* processed.", is true: the result of every input line was written.
AllProcessed ==
    phase = "all_processed" =>
        Samples \subseteq {outputFile[i].sample : i \in 1..Len(outputFile)} \cup
                          {errorFile[i].sample : i \in 1..Len(errorFile)}

=============================================================================
