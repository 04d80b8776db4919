----------------------------- MODULE BenchTracks -----------------------------
(***************************************************************************)
(* What benchmark.py measures while its model is up (main, 2980-3007, the  *)
(* step Tracks of BenchBatch): the performance part with the context       *)
(* stress test, the three tracks, HumanEval+, and the score.               *)
(*                                                                         *)
(* A request is one step here, with the outcomes that ChatCall has for its *)
(* caller: an answer or an exception.  Once the server is gone, no request *)
(* is answered.  Prompts and answers are left out; what the run of an      *)
(* answer's code yields is chosen.                                         *)
(***************************************************************************)
EXTENDS Integers, Sequences, SequencesExt

CONSTANTS
    Problems,    \* of each track, in order: group, language and number of tests
    Cases,       \* the runs: what is asked for, the runtimes that are there, what the
                 \* model reports as its context length (0 for nothing), is_reasoning
    Repeats,     \* samples, and timed requests, of the performance part
    BaseLevels,  \* the levels of the context stress test
    HugeContext, \* from here on the ceiling itself is not tested
    MaxExtra,    \* bound on the lines PASS that generated code prints by itself
    EvalTasks    \* HumanEval tasks times samples

Sections == <<"perf", "track1", "track2", "track3", "evalplus">>
Graded == {"track1", "track2", "track3"}
Groups == {"python", "node", "go", "refactor"}
Optional == {"node", "go"}      \* runtimes that may be missing

ASSUME SizesAssumption ==
    /\ Repeats \in Nat /\ HugeContext \in Nat /\ MaxExtra \in Nat /\ EvalTasks \in Nat \ {0}
    /\ BaseLevels \subseteq Nat \ {0}
    /\ Cases \subseteq (SUBSET Range(Sections)) \X (SUBSET Optional) \X Nat \X BOOLEAN
    /\ Problems \in [Graded -> Seq([group : Groups, lang : {"python"} \cup Optional, n : Nat])]
    /\ \A k \in DOMAIN Problems["track3"] : Problems["track3"][k].n = 1

VARIABLES
    plan, runtimes, ceiling, reasoning,  \* one of the cases
    goneIn,      \* the section in which the server ended, "none" while it is up
    section,     \* where the run is, "score" and "end" after the last one
    step,        \* within the section
    i,           \* the problem or sample whose turn it is
    sums,        \* of each group in this track: passes and total
    lost,        \* tests of the problems whose request failed, per track
    kept,        \* requests of the performance part that gave a measurement
    levels,      \* results of the context stress test so far
    file,        \* HumanEval samples on the disk: of earlier runs, of this one
    cache,       \* the evaluation that lies beside them: of nothing, "old" or "new"
    record,      \* per section, what is in the record; <<>> for nothing
    outcome      \* how the try block ended

options == <<plan, runtimes, ceiling, reasoning>>
disk == <<file, cache>>
vars == <<options, goneIn, section, step, i, sums, lost, kept, levels, disk, record, outcome>>

Up == goneIn = "none"
Ended == section = "end"
NoSums == [g \in Groups |-> [passed |-> 0, total |-> 0]]

\* The next section that is asked for.
After(s) ==
    LET later == {k \in DOMAIN Sections :
                    /\ Sections[k] \in plan
                    /\ \A j \in DOMAIN Sections : Sections[j] = s => j < k}
    IN  IF later = {} THEN "score" ELSE Sections[Min(later)]

Init ==
    /\ \E case \in Cases :
         plan = case[1] /\ runtimes = case[2] /\ ceiling = case[3] /\ reasoning = case[4]
    /\ goneIn = "none"
    /\ section = After("none") /\ step = "first" /\ i = 1
    /\ sums = NoSums /\ lost = [s \in Graded |-> 0]
    /\ kept = [ttft |-> 0, throughput |-> 0] /\ levels = <<>>
    /\ file \in {[old |-> k, new |-> 0] : k \in 0..(IF "evalplus" \in plan THEN EvalTasks ELSE 0)}
    /\ cache \in {"none", "old"} /\ (cache = "old" => file.old > 0)
    /\ record = [s \in Range(Sections) \cup {"score"} |-> <<>>]
    /\ outcome = "running"

------------------------------------------------------------------------------
(* Ends *)

\* An exception that leaves its section: the except clauses of main.  What is in
\* the record stays there; the section's own results are lost.
Raise(how) ==
    /\ section' = "end" /\ outcome' = how
    /\ UNCHANGED <<options, goneIn, step, i, sums, lost, kept, levels, disk, record>>

\* A section's result is put into the record, and the next section begins.
Store(result) ==
    /\ record' = [record EXCEPT ![section] = result]
    /\ section' = After(section) /\ step' = "first" /\ i' = 1
    /\ sums' = NoSums /\ levels' = <<>>
    /\ UNCHANGED <<options, goneIn, lost, kept, disk, outcome>>

\* Ctrl-C.
Interrupted == ~Ended /\ Raise("interrupted")

\* The container ends.  Nobody starts it again.
ServerGone ==
    /\ ~Ended /\ Up /\ goneIn' = section
    /\ UNCHANGED <<options, section, step, i, sums, lost, kept, levels, disk, record, outcome>>

------------------------------------------------------------------------------
(* The tracks *)

Problem == Problems[section][i]
Count == Len(Problems[section])
Available == Problem.lang \in runtimes \cup {"python"}

Add(p, t) ==
    sums' = [sums EXCEPT ![Problem.group] = [passed |-> @.passed + p, total |-> @.total + t]]

Proceed ==
    /\ i' = i + 1
    /\ UNCHANGED <<options, goneIn, section, step, kept, levels, disk, record, outcome>>

\* What a run of the tests counts: the lines that are PASS, those of the generated
\* code among them; none when it takes too long or does not compile.
TestRun(n) == 0..(n + MaxExtra)

\* A filled gap is one test, and passes when the whole output is as expected.
FillRun == {0, 1}

\* The code of an answer is run against the tests of the problem.  What its output
\* makes _run raise, if it is no text, is caught nowhere before main.
Tested ==
    /\ Available /\ Up
    /\ \/ /\ \E p \in TestRun(Problem.n) : Add(p, Problem.n)
          /\ Proceed /\ UNCHANGED lost
       \/ Raise("error")

\* A request that timed out or failed leaves a row with its error and counts
\* neither in the passes nor in the total.
RequestFailed ==
    /\ Available
    /\ lost' = [lost EXCEPT ![section] = @ + Problem.n]
    /\ Proceed /\ UNCHANGED sums

\* Without the runtime the problem is failed, with no request.
Skipped ==
    /\ ~Available
    /\ Add(0, Problem.n)
    /\ Proceed /\ UNCHANGED lost

Coding == Tested \/ RequestFailed \/ Skipped

Track1 == section = "track1" /\ i <= Count /\ Coding
Track2 == section = "track2" /\ i <= Count /\ Problem.group # "refactor" /\ Coding
Refactoring == section = "track2" /\ i <= Count /\ Problem.group = "refactor" /\ Coding

\* Mutant: a failed request is taken for a gap filled wrong.
Track3Tolerant ==
    /\ section = "track3" /\ i <= Count
    /\ \/ /\ Available /\ Up
          /\ \E p \in FillRun : Add(p, 1)
          /\ Proceed /\ UNCHANGED lost
       \/ Available /\ Add(0, 1) /\ Proceed /\ UNCHANGED lost
       \/ Skipped

\* Track 3 catches nothing: a request that fails ends the run.
Track3 ==
    /\ section = "track3" /\ i <= Count
    /\ \/ /\ Available /\ Up
          /\ \E p \in FillRun : Add(p, 1)
          /\ Proceed /\ UNCHANGED lost
       \/ Available /\ Raise("error")
       \/ Skipped

\* Mutant: the refactorings are left out of the total.
TotalWithoutRefactoring ==
    [passed |-> SumFunction([g \in Groups |-> sums[g].passed]),
     total |-> SumFunction([g \in Groups |-> IF g = "refactor" THEN 0 ELSE sums[g].total])]

\* The overall result of a track.
Total ==
    [passed |-> SumFunction([g \in Groups |-> sums[g].passed]),
     total |-> SumFunction([g \in Groups |-> sums[g].total])]

TrackDone == section \in Graded /\ i > Count /\ Store(Total)

------------------------------------------------------------------------------
(* run_performance *)

Goto(a, b) == step = a /\ step' = b /\ i' = 1

\* One of the streamed requests: a measurement, or an exception that is logged.  An
\* answer without content and one with an error status are measurements, too.
Ttft ==
    /\ section = "perf" /\ step = "first" /\ i <= Repeats
    /\ \/ Up /\ kept' = [kept EXCEPT !.ttft = @ + 1]
       \/ UNCHANGED kept
    /\ i' = i + 1
    /\ UNCHANGED <<options, goneIn, section, step, sums, lost, levels, disk, record, outcome>>

\* One of the timed requests; exceptions are dropped.
Timed ==
    /\ section = "perf" /\ step = "timed" /\ i <= Repeats
    /\ \/ Up /\ kept' = [kept EXCEPT !.throughput = @ + 1]
       \/ UNCHANGED kept
    /\ i' = i + 1
    /\ UNCHANGED <<options, goneIn, section, step, sums, lost, levels, disk, record, outcome>>

\* The samples are taken.
Sampled ==
    /\ section = "perf" /\ i > Repeats
    /\ Goto("first", "timed") \/ Goto("timed", "metrics")
    /\ UNCHANGED <<options, goneIn, section, sums, lost, kept, levels, disk, record, outcome>>

\* Mutant: what it raises ends the section only.
MetricsDropped ==
    /\ section = "perf" /\ step = "metrics"
    /\ section' = After("perf") /\ step' = "first" /\ i' = 1
    /\ UNCHANGED <<options, goneIn, sums, lost, kept, levels, disk, record, outcome>>

\* get_vllm_metrics; what it raises is caught nowhere before main.
Metrics ==
    /\ section = "perf"
    /\ \/ /\ Up /\ Goto("metrics", "context")
          /\ UNCHANGED <<options, goneIn, section, sums, lost, kept, levels, disk, record, outcome>>
       \/ step = "metrics" /\ Raise("error")

\* The levels that fit, with the ceiling itself if it is not huge.
TestLevels ==
    {l \in BaseLevels : ceiling = 0 \/ l <= ceiling}
    \cup (IF ceiling > 0 /\ ceiling < HugeContext THEN {ceiling} ELSE {})

Untested == TestLevels \ {levels[k].level : k \in DOMAIN levels}

\* The next level: READY and not much else is a pass; any exception is a result, too.
Level ==
    /\ section = "perf" /\ step = "context" /\ Untested # {}
    /\ \E status \in (IF Up THEN {"pass", "incoherent"} ELSE {}) \cup {"timeout", "error"} :
            levels' = Append(levels, [level |-> Min(Untested), status |-> status])
    /\ UNCHANGED <<options, goneIn, section, step, i, sums, lost, kept, disk, record, outcome>>

PerfDone ==
    /\ section = "perf" /\ step = "context" /\ Untested = {}
    /\ Store([ttft |-> kept.ttft, throughput |-> kept.throughput, levels |-> levels])

------------------------------------------------------------------------------
(* run_evalplus *)

\* It is not installed.
EvalMissing == section = "evalplus" /\ step = "first" /\ Store([scores |-> "error"])

Generated(f) ==
    /\ file' = f /\ step' = "evaluate"
    /\ UNCHANGED <<options, goneIn, section, i, sums, lost, kept, levels, cache, record, outcome>>

\* A reasoning model's samples come from the Python API, with resume=False.
CodegenApi ==
    /\ section = "evalplus" /\ step = "first" /\ reasoning
    /\ \/ Up /\ Generated([old |-> 0, new |-> EvalTasks])
       \/ Store([scores |-> "error"])

\* Nothing has the expected name after the command: of the others that begin with the
\* model's name the last is taken, whatever run and temperature it is of, cut short or
\* not, with its own evaluation beside it.
Fallback ==
    /\ file.old = 0 /\ step' = "evaluate"
    /\ file' \in {f \in [{"old", "new"} -> 0..EvalTasks] : f.old + f.new <= EvalTasks}
    /\ cache' \in {"none", "old"} /\ (cache' = "old" => file'.old > 0)
    /\ UNCHANGED <<options, goneIn, section, i, sums, lost, kept, levels, record, outcome>>

\* Another model's from the command, which adds what an earlier run left to do.  It
\* fails, or is cut off after two hours.
CodegenCli ==
    /\ section = "evalplus" /\ step = "first" /\ ~reasoning
    /\ \/ Up /\ Generated([file EXCEPT !.new = EvalTasks - file.old])
       \/ file.old = EvalTasks /\ Generated(file)
       \/ Fallback
       \/ Store([scores |-> "error"])
       \/ Raise("error")

\* What the samples are from.
Origin == CASE cache # "none" -> cache
            [] cache = "none" /\ file.old = 0 -> "new"
            [] cache = "none" /\ file.new = 0 -> "old"
            [] OTHER -> "mixed"

\* evalplus.evaluate takes the evaluation it finds beside the samples, or makes one.
\* Its return code is not looked at: no scores are no error.
Evaluate ==
    /\ section = "evalplus" /\ step = "evaluate"
    /\ \/ Store([scores |-> Origin, samples |-> file])
       \/ Store([scores |-> "none", samples |-> file])
       \/ Raise("error")

------------------------------------------------------------------------------
\* compute_weighted_score, if all three tracks were asked for.
Score ==
    /\ section = "score" /\ section' = "end" /\ outcome' = "ok"
    /\ record' = [record EXCEPT !["score"] =
            IF Graded \subseteq plan THEN [t \in Graded |-> record[t]] ELSE <<>>]
    /\ UNCHANGED <<options, goneIn, step, i, sums, lost, kept, levels, disk>>

Next ==
    \/ Track1 \/ Track2 \/ Refactoring \/ Track3 \/ TrackDone
    \/ Ttft \/ Timed \/ Sampled \/ Metrics \/ Level \/ PerfDone
    \/ EvalMissing \/ CodegenApi \/ CodegenCli \/ Evaluate
    \/ Score \/ Interrupted \/ ServerGone

Spec == Init /\ [][Next]_vars

------------------------------------------------------------------------------
(* Properties *)

Tests(t, n) == SumFunction([k \in 1..n |-> Problems[t][k].n])

\* Every variable keeps its type: the place in the tracks, the tallies and the record.
TypeOK ==
    /\ options \in Cases /\ goneIn \in {"none", "score"} \cup Range(Sections)
    /\ section \in {"score", "end"} \cup Range(Sections)
    /\ step \in {"first", "timed", "metrics", "context", "evaluate"} /\ i \in Nat
    /\ \A g \in Groups : sums[g].passed \in Nat /\ sums[g].total \in Nat
    /\ lost \in [Graded -> Nat] /\ kept \in [{"ttft", "throughput"} -> 0..Repeats]
    /\ levels \in Seq([level : Nat, status : {"pass", "incoherent", "timeout", "error"}])
    /\ file \in [{"old", "new"} -> 0..EvalTasks] /\ cache \in {"none", "old"}
    /\ outcome \in {"running", "ok", "error", "interrupted"}

\* Every problem counts once with all its tests, in the group sums of the track and
\* in its total, also when its runtime is missing; only those whose request failed
\* are left out, and the rows show which (2146-2148, 2183, 2316, 2476).
TestsAddUp ==
    \A t \in Graded :
        /\ section = t => Total.total + lost[t] = Tests(t, i - 1)
        /\ record[t] # <<>> => record[t].total + lost[t] = Tests(t, Len(Problems[t]))

\* Tracks 1 and 2 go on without a server and leave out every problem, so their rates
\* stay what they were.  It is track 3 that keeps such a run from ending well, and so
\* from being scored: one that was asked for it and ended well had the server up until
\* then (2452, 2992-3001).
DeadNeverScored ==
    outcome = "ok" /\ "track3" \in plan /\ (\E k \in DOMAIN Problems["track3"] : Problems["track3"][k].lang = "python")
        => goneIn \notin {"perf", "track1", "track2"}

\* Whatever ends a run, an exception, Ctrl-C or the server, the record holds whole
\* sections, those that came first (3009-3015).  A run that ends well has all that was
\* asked for, and a score if and only if that includes the three tracks.
RecordWhole ==
    /\ \A j, k \in DOMAIN Sections :
        j < k /\ Sections[j] \in plan /\ record[Sections[k]] # <<>> => record[Sections[j]] # <<>>
    /\ outcome = "ok" => \A s \in plan : record[s] # <<>>
    /\ record["score"] # <<>> <=> outcome = "ok" /\ Graded \subseteq plan

\* benchmark.py:2733 "prior runs produced truncated results; always regenerate": the
\* scores of a reasoning model are those of the samples it made in this run.
ScoresAreNew ==
    LET e == record["evalplus"]
    IN  e # <<>> /\ reasoning => e.scores \in {"error", "none", "new"}
==============================================================================
