# A verification of the programs of drewburr-documentation

The repository documents a home lab and keeps the programs that run it. Most of
its files are declarations (Helm values, manifests, dashboards) and prose; the
logic is in a handful of Python and shell programs that each drive other
systems: the Kubernetes API, Plex, ArgoCD, vLLM, a chat model. They have no
tests. They are short, and what is hard about them is not in any one line: it is
what happens when one of their many remote calls fails half way, when they are
run a second time, or when what they read is no longer true when they act on it.
These modules model them, TLC checks them on small instances, and TLAPS proves
the most important results for every value of the constants.

## Inventory

| Component | Source | State it keeps | Operations | What is hard |
|-|-|-|-|-|
| Storage move scripts | `storage server/move-2026/scale-down.sh`, `scale-up.sh` | `state/replicas.txt` (the ledger), the controller's replicas, the saved sync policy; the cluster's replicas, pods, CronJobs | one kubectl call after the other; scale to zero in order, restore in reverse | a failed call at any point, reruns in any order; controllers (ApplicationSet, selfHeal, prometheus-operator) that undo what the script did |
| Tool-call hook | `servers/ai-runner/litellm/fix_tool_messages.py` | none: it rereads the message history in each request | repair of the history, parsing of tool calls from text, the guard against repeated calls, in a streaming and a non-streaming form | the guard's count is of what the client sends back; two forms of one function that must agree; a hand-written scanner |
| Benchmark batch | `servers/ai-runner/poc/benchmark.py`, `run_all_benchmarks.sh` | GPU containers and production services of a host, result records | stop services, start a container, wait, run the tracks, clean up, restart services; the same for every model of a list | a failure or an interrupt anywhere, what is up afterwards, exit codes and counts of successes; timeouts around blocking calls |
| Missing-media CronJob | `k8s/plex/plex/templates/missing-cleanup-script.yaml`, `missing-cleanup-cronjob.yaml` | the Plex library | walk it, find media whose files are gone, a circuit breaker, delete | the mount that is gone or comes back between the check and the deletion; multi-part media; failed deletes and the pod that is started again |
| Unavailable-media script | `k8s/plex/_scripts/cleanup-unavailable.sh` | the Plex library | the same by hand, over HTTP, with no breaker | an HTTP error that counts as success; one deletion for each missing part of a version |
| Series reconciler | `k8s/plex/bookshelf/files/series_reconciler.py` | books and authors of Bookshelf | monitor, then search, every wanted book of a series | a failure between the two calls; what the next run then believes |
| Seeding guard | `k8s/plex/maintainerr/templates/seeding-guard-script.yaml` | labels of Plex items | label what is still seeding, unlabel what is not; Maintainerr deletes unlabelled items | a label set written from an old read; link counts that change before the deletion |
| etcd backup | `k8s/etcd-backup/cronjob.yaml` | copies of snapshots | copy what is new, expire what is old | an interrupted copy that is never repaired; expiry when nothing new arrives |
| glibc shim | `docker/plex/isoc23_shim.c` | none | `getentropy`, `arc4random` and its kin, conversions | short reads, interrupts, modulo bias at 2^32 |
| Connection-limit probe | `k8s/plex/iptv-poc/conn_limit.py` | sockets, threads | open n streams, see whether they flow | timing of threads against the samples |

Components interact through the systems they drive, not with each other: the
missing-media cleanup and Maintainerr act on the same Plex library, the seeding
guard only exists to hold Maintainerr back, the benchmark takes the GPU from the
services the tool-call hook is part of.

What makes each correct: the move scripts lose no size and restore all of it
after any failures; the hook stops repeated calls and nothing else; a cleanup
never deletes more than its breaker allows and nothing that is there; the
reconciler searches every new volume, once; the seeding guard's label is on every
item with a link; a backup always holds a recent whole snapshot; the benchmark
measures the model it names and gives the host back as it should.

## Plan

The modules are written in the order of what is at stake: first the scripts that
can leave a cluster down, then those that delete media, then the rest.

| # | Module | Status | Composition |
|-|-|-|-|
| 1 | `ScaleMove` | done | implements the abstract `WriteAheadLog` |
| 2 | `AgentLoop`, `RepeatGuard`, `ToolProxy`, `ToolExtract` | done | `RepeatGuard` and `ToolProxy` extend the agent of `AgentLoop`; `ToolProxy` implements `RepeatGuard`; `ToolExtract` is what it takes as the embedded calls of an answer |
| 3 | `MissingCleanup` | done | the library and the mount with everyone who changes them |
| 4 | `SeriesReconciler` | done | Bookshelf, its users and calibre-web around the runs |
| 5 | `BenchBatch`, `BenchTracks`, `ChatCall` | done | one inside the other: `BenchTracks` is the step `Tracks` of `BenchBatch`, `ChatCall` a request of `BenchTracks` |
| 6 | `CleanupUnavailable` | done | the library and the mount of `MissingCleanup`, without a breaker |
| 7 | `SeedingGuard` | done | the guard's passes, torrents, users' labels, and Maintainerr deleting between any two steps |

The plan is done. Every safety property the runs check is proved for every value of
the constants; of the liveness properties, which TLC alone checks, the half that needs
no fairness is proved too (`NoneOverlooked`, `UnlinkedFreed`, the second part of
`CalmSafe`, `CleanEnd`, `RestoredAfterUp`). `BenchBatch` has all of `BenchTracks` in one
step, `Tracks`, taken when track 3 has its answers: it ends well only if the model is up
then. That it may be taken so is what `DeadNeverScored` says of `BenchTracks`: the
batch asks for every track, and a run whose server went before track 3 does not end well.

## The modules

Every model has one action for each call that changes something or can fail,
because between two of them anybody else may act and at each of them the program
may end.  Identifiers are those of the source where TLA+ allows it.

### The storage01 move: `ScaleMove`, `WriteAheadLog`

State: `spec` (replicas), `alive` (pods), `suspended` and `job` (CronJobs),
`appset` and `ctl` (the ApplicationSet controller and its pod), `policy` (the sync
policy of prometheus), and the three files of `state/`: `ledger`, `asFile`,
`polFile`.  The scripts are `pc` and the line `at` of the list they read.  Both
run under `set -euo pipefail`: `Abort` ends the script at any call, and the
operator may run either again (`> prometheus.syncPolicy`, line 24, empties the file before
kubectl has an answer, so it may be blank then).  The cluster acts at any time: the controller
re-adds the sync policy while it runs, selfHeal puts replicas back while the
policy is there, prometheus-operator puts its StatefulSet back while its pod
lives, pods and Jobs start and stop some time later.  `WriteAheadLog` is what the
scripts promise: a size is logged before its workload leaves it, workloads are put
back from the log only, and the log is forgotten only when all are back.

### The tool-call hook: `AgentLoop`, `RepeatGuard`, `ToolProxy`, `ToolExtract`

`ToolProxy` is a client, the three hooks of `fix_tool_messages.py` and a model:
`Shim` is the repair of the history (the pre-call hook), `Count` the walk back
through the messages, `Gaps` the places of a history where an answer is put in and
`MovedTo` where a message is after that, `SuccessHook` and `StreamingHook` the two forms of the
post-call hook, `Request` a whole round.  Calls are values with a signature (name
and canonical arguments); what the scanner finds in a text is the answer's
`embedded`.  `ToolExtract` is that scanner: the four searches of
`_extract_tool_calls` one after the other (`ToolCallTags`, `ToolsTags`,
`FindFences`, `BareDone`), and `_balanced_object_spans` one character per step
(`SkipEscaped`, `InString`, `OpenString`, `OpenBrace`, `CloseBrace`).  A text is a
sequence of tokens; the JSON parser and the regular expressions are operators
(`IsCall`, `TagMatches`), and the properties compare the scanner with a definition of a
balanced object that does not scan (`IsBalanced`). What that definition finds can
overlap where the scanner cannot look twice: in `{c"{"c}"c}` the object `{c"{"c}` begins
at the first brace and `{"c}"c}`, read from the brace in its string, is one too, and only the first is
found. `AllFound` and `CallNotMissed` therefore speak of texts whose outermost objects
are disjoint (`PlainProse`). `RepeatGuard` is the guard
alone, over the messages since the last user message. Both extend `AgentLoop`, the
agent behind the proxy: what it has still `todo`, and the history variables `row` (what
was executed in a row) and `par` (an answer with several calls took part). The mapping
from `ToolProxy` takes the messages after the last user message for `tail`
(`SinceUser`) and keeps the agent as it is.

### The missing-media CronJob: `MissingCleanup`

State: Plex's `library`, the files `there`, whether the mount answers; of the
script `toList`, `listed`, `total`, `missing`, `left`.  `StartPod`, `ListSection`,
`Examine`, `Judge`, `WouldDelete`, `Delete` and its failures are the script,
`JobFails` the backoff limit of the CronJob.  `Change` is what others do: files
that go or come, the mount, new and dropped entries.

### The series reconciler: `SeriesReconciler`

A run copies the authors (`copies`), marks the tagged ones (`PutAuthor` writes the
copy back), lists their books, asks for histories, and then monitors and searches
with two calls.  `Start` reads the names of the tags (64) and the authors (67) in one
step.  Each call may fail before or after it took effect.  `stage` is
where a book is in its life, `searches` and `offs` count what the properties are
about; `intent` is what users last chose as tags, and `raced` whether that was
during a run; `waiting` is what was wanted since the run began.

### The unavailable-media script: `CleanupUnavailable`

The same library seen by cleanup-unavailable.sh: libraries, their items, the
versions of an item, the parts of a version.  `Start`, `ListItems`, `ReadItem`,
`HeadPart`, `WouldDelete`, `Delete`, `DeleteNothing`, `DeleteUnanswered`, `ItemDone`
and `LibraryDone` are its requests and loops; `RequestFails` is what the script sees
of a failing request, which is an empty answer, or a 404 for a file that is there when the
request was for a part.  `Interrupt` is Ctrl-C, and a run may
follow another.  `still` and `clean` remember whether anything changed, or a
request failed, since the item was read, and since the run began.

### The seeding guard: `SeedingGuard`

`labels` and `linked` are Plex's labels and the link counts; the pass lists a section
(`List`), looks at one file after the other (`Look`: at none of an item that was seen
linked), decides and writes (`Write`, with `Wanted`, `Decide` and `SetLabels`), section by
section.  The two listings of a show section are one step.  `Fails` ends a pod at any
call, with the label set, not set, or still to be set: Plex may deal with a PUT after the
60 seconds its pod gave it (`late`, `Lands`), when the next pod of the Job or a later pass is
under way.  `Deleted` is Maintainerr at any time, `UserLabels`, `LinkChanges` and
`MountChanges` everybody else.  `steady` remembers which files were linked ever since the
pass began, the mount there and no late PUT for their item; `free` which items had no
link since then.  `steady` is about files and not about items for a reason: see the
observations below.

### The benchmark batch: `BenchBatch`, `BenchTracks`, `ChatCall`

`pc` goes through `main` of `benchmark.py`, and `m` through the list of
`run_all_benchmarks.sh`.  `Remote` is `_remote`: the command takes effect, or is
lost and nobody notices.  `Start` is the exception: `podman run` is checked.  Over ssh
it may outlive its client (`CutOff`, `adrift`), and make its container when the finally
block has already looked for it (`LateRun`); the other commands, which only take things
away or start units, are not modelled so.
`Interrupted` is Ctrl-C in the try block (caught; the process ends with 0 and the
shell goes on), `Killed` Ctrl-C elsewhere.  The host has the two units, the
container, the vLLM of `vllm-1` that systemd restarts (`vllm-setup.md`), litellm that
brings `vllm-1` up when it is started or restarted (`SystemctlStart`, `LiteRestarts`; its
unit has `Wants=vllm-1.service`), and possibly a container started by hand; only one of them can hold the GPUs and the
port (`Server`).  `KillNamed` does over ssh what the words do that arrive there.

`BenchTracks` is the try block while the model is up: the performance part with its
streamed and timed requests, the metrics and the context stress test, the three
tracks problem by problem, HumanEval+, the score.  A request is answered or raises;
after `ServerGone` none is answered.  What the code of an answer prints is chosen
(`TestRun`), so a program may print PASS more often than it has tests; output that is
no UTF-8 raises in `_run` and ends the track.  `record` is
what is saved whatever happens, `disk` what earlier runs of evalplus left; `Fallback` is
the other file of samples that is taken when the expected one is missing (2773-2783).

`ChatCall` is one such request: the worker thread goes through connecting, sending,
the head and the parts of the body, and may fall silent at each of them; the main
thread waits for the future up to `cap` and then leaves the pool, which waits for
the worker.  Time is counted in ticks of 30 seconds.  It is the client's side alone: what
vLLM does with a request that was given up is not in it.

## What is checked

| Run | Shows |
|-|-|
| `scale_move` | apps go down before their databases in partial runs too (`DownInOrder`), nothing comes back by itself while the cluster is held down (`HeldDown`), what was saved beside the ledger stays as it was (`SavedKept`), a good end is a full restore (`RestoredAfterUp`), the scripts implement the log, so no size is lost (`ImplementsLog`), and a ledger is replayed in the end (`LedgerReplayed`) |
| `repeat_guard` | a call is executed at most Threshold times in a row, answers with several calls apart (`RowBounded`) |
| `tool_proxy` | the hook implements the guard (`ImplementsGuard`), blocks only repetitions (`OnlyRepeatsBlocked`), alike in both forms (`PathsAgree`), and repairs the history: all of its messages in order, an answer in each gap, nothing else (`ShimRepairs`) |
| `missing_cleanup` | the deletions of a pod stay within the breaker (`LossBounded`), a pod that saw no file deletes nothing (`OutageHarmless`), in a quiet library exactly the entries without files go (`CalmSafe`), and later jobs make up for failed ones (`Converges`) |
| `series` | a book is searched once, whatever fails (`SearchedOnce`), a user's tags are lost to no run but one under way (`TagsKept`), a run overlooks nothing that was wanted all the time (`NoneOverlooked`), every new volume is monitored in the end (`NewVolumeMonitored`) |
| `bench` | a record never holds another candidate's answers (`OfItsOwn`), and while nothing went wrong production and benchmark never have the GPUs together (`NeverBoth`), the model measured is the one started (`MeasuresIt`), and production returns after a batch (`ProductionReturns`) |
| `tool_extract` | what the scanner yields are whole objects, and what the searches yield whole calls, each once and in order (`FoundSound`); in a bare text the calls are exactly the outermost objects that are one (`AllFound`); broken wrappings hide none, and a text without calls is left alone (`CallNotMissed`) |
| `chat_call` | no call times out before the wait that is due (`TimeoutEarned`), none is kept past its limit for longer than the parts still to come may take (`Overtime`), and every call and every worker ends (`CallEnds`) |
| `bench_tracks` | tests are counted once (`TestsAddUp`), a record has whole sections without gaps whatever ends the run, and a score if and only if it ended well with all three tracks (`RecordWhole`), a run whose server ended before track 3 does not end well, and so has no score (`DeadNeverScored`) |
| `cleanup_unavailable` | a version that goes misses a part at that moment, unless something changed, or a 404 was not about the file, since its item was read (`MissingWhenDeleted`); the summary of a quiet library is right (`SummaryRight`); a quiet run makes up for whatever earlier ones left (`CleanRunCleans`) |
| `seeding_guard` | what has a file linked for a whole pass, the mount there, is labelled after it (`SeedingLabelled`) and not unlabelled but by a PUT that arrives late (`NotTakenWhileLinked`), what has no link for a whole pass is freed (`UnlinkedFreed`), other labels survive (`UsersLabelsKept`), and labels follow the links in the end (`LabelsFollow`) |

The type invariants, and `WriteAhead`, `LedgerFaithful`, `NothingStartsWhileHeld`
(`ScaleMove`), `HandledLeftAlone` (`SeriesReconciler`), `CleanEnd` (`BenchBatch`),
and `AnswerTaken` (`ChatCall`) held in the same runs before
they were proved, and are not repeated there: see "What is proved".

One run looks for what the repository says and the code does not do. `bench_fresh`:
benchmark.py:2733 says "prior runs produced truncated results; always regenerate",
but only the samples are: the scores are read from the evaluation an earlier run left
beside them (`ScoresAreNew`).

The models show some more, for which no run is kept:

- A scale-down.sh that stops after line 20 and before its first recorded workload, run
  again, saves 0 as the controller's size (line 19), and scale-up.sh:27 restores 0,
  where scale-up.sh:2 says "Restore everything scale-down.sh scaled to zero".
  `SavedKept` therefore begins with the first line of the ledger.
- scale-up.sh refuses ("nothing to restore") while the controller, CronJobs or
  sync policy are off, after a scale-down.sh that ended before its first ledger
  line; scale-down.sh exits 0 with pods still there; prometheus-operator may put
  its StatefulSet back just after it was scaled to zero; scale-up.sh orders its
  requests, but does not wait for the database's pod (README.md:62 of the repository).
- An answer that holds the same call several times passes the guard, which compares
  the first call of an answer only (fix_tool_messages.py:261; 18-20 says "for the
  (N+1)-th time in a row"). An apostrophe or a stray "}" in the prose before a bare
  call hides it from the scanner, hence `PlainProse`; calls in fences and bare calls
  drop all prose around them.
- The CronJob deletes on what the walk saw: a file that came back since is there when
  Plex is told to delete its entry (missing-cleanup-script.yaml:93; 19-21 says "the file
  is already gone, so nothing is removed from disk"). Its breaker counts entries where
  its description (15-17) speaks of parts; `OutageHarmless` needs `FewParts` for this
  reason.
- cleanup-unavailable.sh counts a refused deletion as deleted (273), and asks for the
  deletion of a version once for each of its missing parts (324), with which the parts
  that are there go, too. It has no breaker: while the mount is away it deletes every
  version, and takes the 404 of a proxy for the file's. empty_trash (344) is never called.
- A run of the series reconciler that ends between monitoring (99) and searching (100)
  leaves books monitored that no later run searches (86; 12-16 says "is monitored and
  searched"). Line 80 writes the whole author back as line 67 read it: a tag set in
  between is undone.
- The seeding guard cannot take an item's only label: the request (53-59) then names
  no label and changes nothing, where 14-15 says "the label is removed once no file of
  the item is hardlinked anymore". `LabelsFollow` says so. It looks at the episodes of a
  show one by one (43-52, 82-85): a show whose link goes from an episode it has not seen yet
  to one it has seen is linked all the time, and yet is not labelled, or loses the label,
  until the next pass. A PUT that Plex deals with after its pod timed out undoes what the
  second pod decided, until the next pass too.
- Ctrl-C, or the end of the connection, while podman run is under way over ssh
  (benchmark.py:1935) ends the client only: the container may appear after the finally
  block has looked for it, beside production, and stays until the next stop. litellm that
  crashes between the two stops (1863-1865) brings `vllm-1` back (vllm-setup.md:222).
- Over ssh the command that is to stop every vLLM container (benchmark.py:1879) stops
  none: ssh joins the words with blanks, and "bash -c podman" is what runs as root. A
  container left there is measured in place of the candidate.
- A socket that is silent for LLM_TIMEOUT raises TimeoutError, the class of the
  future's own timeout, and vLLM sends nothing before an answer is finished: a request
  is cut at 90 seconds and reported as "timed out after 180s" (1713), as in
  results/qwq-32b.json. Nothing closes its connection (1649-1655), so the next request may
  be measured while vLLM still works on this one.
- When the samples of a model are not under the expected name, others of it are evaluated
  (2773-2783), of another temperature or cut short, and nothing in the record says so but
  the path of the file.
- A problem of track 1 or 2 whose request failed counts in neither passes nor total
  (2147), where coding-models-evaluation.md:26 says "pass / fail per problem. Final score
  = % passed."; generated code that prints PASS itself may pass more tests than there
  are. measure_ttft takes an answer without content, or with an error status, for a
  measurement (1737 says "seconds to first non-empty content token"). A run that fails
  after the tracks, in evalplus, has no score (3000-3007).
- run_all_benchmarks.sh:88 counts as "succeeded" every benchmark whose process
  ended with 0, which those that failed or were interrupted do; with
  `--restart-prod` production comes back after every model, not "after last
  model" (line 11).

## Bounds

- `ScaleMove`: five workloads are one of each kind (the operator, the StatefulSet
  it owns, one idle already, an app, its database), two CronJobs; two failed calls,
  so that a failure during the recovery from a failure is seen; two rounds of the
  wait loop instead of sixty. The proofs have no bounds but constants.
- `RepeatGuard`: Threshold 3 and ten messages after a user message: enough for the
  bound, a broken row and a row again. `ToolProxy`: Threshold 2 and nine messages.
- `MissingCleanup`: an entry with two files, one with a file of its two outside the
  library, two episodes. The breaker is at 40 %: of the five files checked, two
  entries are at the limit and three trip it, and every smaller library is an initial
  state too. Two changes by others and one failing call.
- `SeriesReconciler`: two authors with a volume each of different series; one act
  of a user and one failing call at any point.
- `BenchBatch`: two candidates and two batches, so that something can be left over
  by a candidate and by a batch; two things that go wrong (the two stops between two
  containers, a podman run cut off and a stop lost), one Ctrl-C.
- `ToolExtract`: every text of up to six characters, which holds an escaped quote in a
  string in an object, or an object in another beside a third; every text of four
  segments (calls, tags, fences, prose); and the text whose calls overlap.
- `ChatCall`: the limits in their proportion, 90, 180 and 240 seconds in ticks of 30,
  and answers in up to two parts, so that a call may outlast its limit.
- `BenchTracks`: every group of problems in every track, one problem with two tests;
  two samples; three levels with ceilings below, at, between and above them; the
  combinations of sections and runtimes in which a section has something to see.
- `CleanupUnavailable`: a film in two versions, one with two parts, an episode, an
  album of a library that is skipped; any files there at first; one change by others
  and one failing request in any number of runs.
- `SeedingGuard`: a movie and a show of two episodes, one user's label; two changes of
  links, so that a link can move from one episode to the other, one of labels, one of the
  mount, which is there or away at first, two failing calls: both pods of a Job.

Deadlock is checked except where the system does stop: `ToolProxy` (its history ends
at `MaxLen`), `BenchBatch` (the operator starts no more batches), `ToolExtract` (the
text ends), `ChatCall` (the process may be gone) and `BenchTracks` (the run ends).

## Fairness

`ScaleMove`: a running script goes on, the controller's pod exits, the operator
runs scale-up.sh as long as there is a ledger. Failures are bounded, not unfair.
`MissingCleanup`: the schedule starts jobs and a pod goes on; a broken mount is
repaired. `SeriesReconciler`: the hourly CronJob runs, and goes on.
`BenchBatch`: the script goes on, since ssh's TCP keepalive, the sockets' timeouts
and the deadline of `wait_for_ready` end every wait; systemd restarts `vllm-1`.
A model need not ever load. `ChatCall`: time passes, and the two threads do what is
due; the server owes nothing. `SeedingGuard`: the daily Job runs, and goes on.
`BenchTracks` and `ToolExtract` have safety properties only, and so has
`CleanupUnavailable`: its curl has no timeout, so a run may hang for ever. Nothing is
assumed of users, of other programs or
of failures.

## What is proved

TLAPS proves, for every value of the constants, with TLC's runs as the first check
of each invariant:

- `ScaleMoveProofs`: all safety properties of `scale_move` and the refinement of
  the log. The inductive invariant says where the loop stands (`DownPos`, `UpPos`),
  that the ledger is the list's beginning in order with original sizes
  (`LedgerShape`), that it covers every workload off its size (`Covered`), and that
  no controller that could undo the script's work is alive once the loop runs
  (`Undisturbed`). `SavedKept` follows from the same invariant, which says at which
  lines there is no ledger yet. None of the properties is inductive alone: that a restored size
  is right needs the ledger's content, and that in turn that no run records a
  workload already scaled down.
- `RepeatGuardProofs`: the bound on repetitions, and the hooks. The invariant of
  the guard ties the row that was executed to the messages (`Counted`) and to what is still to
  execute (`Executed`); lemmas say what appending a message does to the walk back. The
  hooks of `ToolProxy` are folds over the history: `StepsExist` and `StepsUnique` say that
  such a fold is the one function given by its first value and its step, and from that
  come what `Count` counts for every history (`CountsAgree`: the size of the guard's
  `Run`) and what `Shim` yields (`ShimOfAll`, message by message). They give
  `PathsAgree`, `ShimRepairs` (a message more moves no earlier one, and adds a gap exactly
  where the user follows a tool result: `NewGap`, `GapsGrow`), `OnlyRepeatsBlocked` with the invariant `Earned` (the
  identical calls at the end of a history were executed in a row, or are about to be), and that every step of
  `ToolProxy` is one of `RepeatGuard` or leaves its state alone.
  For `ToolExtract`, all its properties for texts of every length. `Outside` and
  `TagMatches` are recursive from the end of the text: `BackExists` gives them their
  equations, `BackInduct` what holds of every place. The invariant says that the scanner
  has the object it is in right (`ObjectRight`): at each of its characters depth, quote
  and escape are what the definition says of the text from `start` to any later end
  (`At`). An end has to be any, since whether a literal is closed depends on what follows. An object
  that is closed is then balanced (`Closing`), which gives `FoundSound`. Conversely, in
  plain prose the scanner is inside an object exactly where one is, and has found those
  that end before it (`InBare`); `Searches` says that until calls are found the answer is
  as it was written, whichever searches are over. These give `AllFound` and
  `CallNotMissed`.
- `MissingCleanupProofs`: the bound on losses, the harmless outage and the quiet
  library, from what the walk has seen (`Walked`, `Evidence`), the judgement
  (`Judged`), what is cleared (`Cleared`), and what is still to come: an entry without a
  file is in a section, in the listing, or among the missing (`Covered`). The cardinality lemmas hold for any
  finite library.
- `SeriesReconcilerProofs`: at most one search for each book and each time it was
  switched off. The invariant balances searches against monitoring (`Paid`,
  `Unpaid`) and says that what was handled stays so (`StillHandled`). `TagsKept` needs
  that the run's copies have the tags of Bookshelf, but for authors who were tagged
  since the run began (`Fresh`); `NoneOverlooked`, that a volume wanted all the time is
  found from its author's turn on, until it is monitored (`Sought`).
- `BenchBatchProofs`: `Own` ties the container to the candidate from its start to
  its first answer and gives `OfItsOwn`; `Calm`, which holds while nothing went
  wrong (so that no podman run is adrift), says at which steps production is off (`Off`), the container gone (`Gone`),
  the services back (`Back`) and nobody else there (`Alone`), and gives `NeverBoth`,
  `MeasuresIt` and `CleanEnd`.
- `BenchTracksProofs`: the tracks, and a call of theirs. For `BenchTracks`, all its
  safety properties the run checks for any list of problems: the tests add up in every track, the record is
  whole, a run without its server does not end well. The lemmas on
  sums (`SumTaking`, `SumGrows`) say what the fold of the community modules computes on
  any finite set, those on `After` that it yields the next section of the plan. The
  invariant `TInv` adds where the run stands in its plan (`Ahead`: nothing of a later
  section is in the record or lost; `Behind`: everything before it is there), that a
  server that went before track 3 has seen no problem in Python there (`DeadStops`), and that there are no more
  measurements than requests (`Measured`). None of the properties is inductive alone:
  that a track's total is right when it is stored needs the tallies on the way, and that
  these begin at nothing needs that no test was lost before.
  For `ChatCall`: no timeout without a wait
  (`TimeoutEarned`), an answer in time is taken (`AnswerTaken`), and how far a call may
  pass its limit (`Overtime`). The invariant says which states of the two threads go
  together (`Threads`), when their clocks have run out (`Clocks`), and that each
  operation on the socket that is over took at most `Idle` (`Paced`), which is what
  bounds a call whose pool waits for a worker that gets its answer in parts.
- `SeedingGuardProofs`: what had a file linked for a whole pass is labelled and not
  unlabelled but by a late PUT, what had none is freed of the label, and users' labels
  survive. The invariant says that a section begins with
  nothing left of the one before (`Fresh`), that the listing tells the guard's own label
  of every item still to decide (`Mirror`), and what a pass has seen and done so far about
  items with a file linked all the time (`Seen`) and about those never linked (`Unseen`). A file belongs to one item (`ItemsAssumption`).
- `CleanupUnavailableProofs`: a version that goes misses a part, an undisturbed run
  leaves none that does, and its summary counts what was missing (`Counted` balances
  what is counted against what is still ahead). The invariant says where the three loops stand (`Loops`), that
  a part on the list is not there while nothing changed (`Evidence`), and that a version
  with a missing part is still to come in an undisturbed run: its library, its item, or
  the part itself (`Pending`).

The assumptions are those named `...Assumption` in the modules; TLC evaluates them
in the runs. Where a proof needs induction over data (over a history, over a finite
set), it is stated for sets: `Induct` and `InductSets` say that a set closed under the
step holds everything, from the well-founded order of finite sets, since theorems with
an operator as parameter cannot be used by the provers here. Only checked by TLC: all
liveness properties (`LedgerReplayed`, `Converges`, `NewVolumeMonitored`,
`ProductionReturns`, `CallEnds`, `LabelsFollow`), which are out of the prover's reach.

## What is not modelled

- The benchmark's problems and prompts (data), how code is cut out of an answer
  (benchmark.py:1456-1494), the GPU readings, the printed report.
- The etcd backup (two shell commands that keep nothing between them), the glibc shim
  (it forwards symbols, and implements `getentropy` and the `arc4random` functions, two
  loops without a state between calls), the connection probe (its result is wall-clock time). Their
  hazards are listed with the reason no property covers them.
- Of the modelled programs: kubectl's, Plex's and Bookshelf's own workings beyond what
  the scripts rely on; the page size of the history query; DRY_RUN of the reconciler,
  which the deployment does not set; options and reports of cleanup-unavailable.sh.
- Straight-line host scripts (`first-boot.sh`, `build.sh`, `movebak-refresh.sh`,
  `video_to_image.py`), manifests, Helm values, dashboards and documentation have no
  state machine of their own.
