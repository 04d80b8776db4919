------------------------------ MODULE ScaleMove ------------------------------
(***************************************************************************)
(* The storage01 move: scale-down.sh takes every workload with a volume on *)
(* storage01 to zero replicas, scale-up.sh puts them back from the ledger  *)
(* state/replicas.txt.  Both run with "set -euo pipefail", so any failed   *)
(* kubectl call ends the script where it stands (Abort); the operator then *)
(* runs one of the scripts again.                                          *)
(*                                                                         *)
(* Around the scripts the cluster goes on by itself: the ApplicationSet    *)
(* controller re-adds the sync policy of the prometheus Application, its   *)
(* selfHeal re-applies the replicas of its Deployments, prometheus-operator*)
(* reconciles the StatefulSet it owns, pods start and stop some time after *)
(* their replicas change, CronJobs spawn Jobs.                             *)
(*                                                                         *)
(* A workload is its line number in workloads.txt, a CronJob its line      *)
(* number in cronjobs.txt.                                                 *)
(***************************************************************************)
EXTENDS Naturals, Sequences

CONSTANTS
    NW,          \* workloads in workloads.txt
    NC,          \* CronJobs in cronjobs.txt
    Orig,        \* replicas of each workload before the move
    Operator,    \* the line of the prometheus-operator Deployment
    Owned,       \* the line of the StatefulSet prometheus-operator reconciles
    SelfHealed,  \* workloads whose replicas the prometheus Application manages
    MaxPoll,     \* rounds of the wait loop (60 in the script)
    MaxFail      \* bound on the kubectl calls that fail in one behaviour

Workloads == 1..NW
Crons == 1..NC

ASSUME SizesAssumption == NW \in Nat \ {0} /\ NC \in Nat /\ MaxPoll \in Nat \ {0} /\ MaxFail \in Nat
ASSUME OrigAssumption == Orig \in [Workloads -> Nat]
\* workloads.txt:3 "operator before its StatefulSet, apps before their databases"
ASSUME OrderAssumption ==
    /\ Operator \in Workloads /\ Owned \in Workloads /\ Operator < Owned
    /\ SelfHealed \subseteq Workloads \ {Owned}

NoFile == "absent"

VARIABLES
    spec,       \* spec.replicas of each workload
    alive,      \* has the workload a pod?
    suspended,  \* spec.suspend of each CronJob
    job,        \* has the CronJob a running Job pod?
    appset,     \* spec.replicas of the applicationset controller
    ctl,        \* is a pod of the applicationset controller running?
    policy,     \* syncPolicy.automated of the prometheus Application
    ledger,     \* lines of state/replicas.txt
    asFile,     \* state/applicationset-controller-replicas.txt, as a set of numbers
    polFile,    \* state/prometheus-syncpolicy.json
    pc,         \* next call of the running script, "idle" when none runs
    at,         \* line of the file the script's loop is reading
    r,          \* the replicas scale-down.sh has just read
    left,       \* has this round of the wait loop seen a pod?
    polls,      \* rounds of the wait loop so far
    result,     \* how the last script ended
    fails       \* failed kubectl calls so far

cluster == <<spec, alive, suspended, job, appset, ctl, policy>>
state == <<ledger, asFile, polFile>>
local == <<at, r, left, polls>>
vars == <<cluster, state, pc, local, result, fails>>

Entry == [w : Workloads, r : Nat]
DownPCs == {"readAppset", "stopAppset", "rollout", "savePolicy", "removePolicy", "suspend",
            "get", "record", "zero", "scan"}
UpPCs == {"restore", "resume", "addPolicy", "startAppset", "archive"}
Results == {"none", "down", "downRefused", "up", "upRefused", "aborted"}

\* Every variable keeps its type: the cluster, the files of state/ and the scripts' place.
TypeOK ==
    /\ spec \in [Workloads -> Nat]
    /\ alive \in [Workloads -> BOOLEAN]
    /\ suspended \in [Crons -> BOOLEAN]
    /\ job \in [Crons -> BOOLEAN]
    /\ appset \in {0, 1}
    /\ ctl \in BOOLEAN
    /\ policy \in {"auto", "bare", "removed"}
    /\ ledger \in Seq(Entry)
    /\ asFile \in SUBSET {0, 1}
    /\ polFile \in {NoFile, "auto", "bare", "blank"}
    /\ pc \in {"idle"} \cup DownPCs \cup UpPCs
    /\ at \in Nat
    /\ r \in Nat
    /\ left \in BOOLEAN
    /\ polls \in 0..MaxPoll
    /\ result \in Results
    /\ fails \in 0..MaxFail

\* The cluster runs, ArgoCD syncs, and state/ holds nothing yet.
Init ==
    /\ spec = Orig
    /\ alive = [w \in Workloads |-> Orig[w] # 0]
    /\ suspended = [c \in Crons |-> FALSE]
    /\ job = [c \in Crons |-> FALSE]
    /\ appset = 1 /\ ctl = TRUE
    /\ policy = "auto"
    /\ ledger = <<>> /\ asFile = {} /\ polFile = NoFile
    /\ pc = "idle" /\ at = 0 /\ r = 0 /\ left = FALSE /\ polls = 0
    /\ result = "none" /\ fails = 0

------------------------------------------------------------------------------
\* A script ends and takes its shell variables with it.
Exit(res) ==
    /\ pc' = "idle" /\ result' = res
    /\ at' = 0 /\ r' = 0 /\ left' = FALSE /\ polls' = 0

(* scale-down.sh *)

DownRefused ==
    /\ pc = "idle" /\ ledger # <<>>
    /\ result' = "downRefused"
    /\ UNCHANGED <<cluster, state, pc, local, fails>>

\* Mutant: a rerun is not refused.
DownStartAnyway ==
    /\ pc = "idle"
    /\ pc' = "readAppset" /\ result' = "none"
    /\ UNCHANGED <<cluster, state, local, fails>>

DownStart ==
    /\ pc = "idle" /\ ledger = <<>>
    /\ pc' = "readAppset" /\ result' = "none"
    /\ UNCHANGED <<cluster, state, local, fails>>

ReadAppset ==
    /\ pc = "readAppset"
    /\ asFile' = {appset}
    /\ pc' = "stopAppset"
    /\ UNCHANGED <<cluster, ledger, polFile, local, result, fails>>

StopAppset ==
    /\ pc = "stopAppset"
    /\ appset' = 0
    /\ pc' = "rollout"
    /\ UNCHANGED <<spec, alive, suspended, job, ctl, policy, state, local, result, fails>>

\* Mutant: the controller's pods are not waited for.
RolloutUnwaited ==
    /\ pc = "rollout"
    /\ pc' = "savePolicy"
    /\ UNCHANGED <<cluster, state, local, result, fails>>

\* "rollout status --timeout=60s" returns once the controller's pods are gone;
\* its timeout is an Abort.
Rollout ==
    /\ pc = "rollout"
    /\ ~ctl
    /\ pc' = "savePolicy"
    /\ UNCHANGED <<cluster, state, local, result, fails>>

SavePolicy ==
    /\ pc = "savePolicy"
    /\ polFile' = IF policy = "removed" THEN "blank" ELSE policy
    /\ pc' = "removePolicy"
    /\ UNCHANGED <<cluster, ledger, asFile, local, result, fails>>

\* The next loop, or the wait, once the loop over a file of n lines is done.
Advance(n, here, next) ==
    IF at < n THEN at' = at + 1 /\ pc' = here ELSE at' = 1 /\ pc' = next

RemovePolicy ==
    /\ pc = "removePolicy" /\ policy # "removed"
    /\ policy' = "removed"
    /\ at' = 1
    /\ pc' = IF NC = 0 THEN "get" ELSE "suspend"
    /\ UNCHANGED <<spec, alive, suspended, job, appset, ctl, state, r, left, polls, result, fails>>

\* A JSON patch "remove" of a path that does not exist is an error.
RemoveMissingPolicy ==
    /\ pc = "removePolicy" /\ policy = "removed"
    /\ Exit("aborted")
    /\ UNCHANGED <<cluster, state, fails>>

SuspendCron ==
    /\ pc = "suspend"
    /\ suspended' = [suspended EXCEPT ![at] = TRUE]
    /\ Advance(NC, "suspend", "get")
    /\ UNCHANGED <<spec, alive, job, appset, ctl, policy, state, r, left, polls, result, fails>>

GetReplicas ==
    /\ pc = "get"
    /\ r' = spec[at]
    /\ pc' = "record"
    /\ UNCHANGED <<cluster, state, at, left, polls, result, fails>>

NextWorkload ==
    /\ Advance(NW, "get", "scan")
    /\ left' = FALSE /\ polls' = 0

\* The line is written before the workload is touched; one that is at zero is skipped.
Record ==
    /\ pc = "record"
    /\ ledger' = Append(ledger, [w |-> at, r |-> r])
    /\ IF r = 0 THEN NextWorkload ELSE pc' = "zero" /\ UNCHANGED <<at, left, polls>>
    /\ UNCHANGED <<cluster, asFile, polFile, r, result, fails>>

ScaleToZero ==
    /\ pc = "zero"
    /\ spec' = [spec EXCEPT ![at] = 0]
    /\ NextWorkload
    /\ UNCHANGED <<alive, suspended, job, appset, ctl, policy, state, r, result, fails>>

\* One workload of a round of the wait loop.  A failed query counts no pods
\* ("2>/dev/null || true").  A round that saw none, or the last one, ends the script.
Scan ==
    /\ pc = "scan"
    /\ \E seen \in BOOLEAN :
         /\ seen => alive[at]
         /\ alive[at] /\ ~seen => fails < MaxFail
         /\ fails' = IF alive[at] /\ ~seen THEN fails + 1 ELSE fails
         /\ IF at < NW
              THEN /\ at' = at + 1 /\ left' = (left \/ seen)
                   /\ UNCHANGED <<pc, r, polls, result>>
              ELSE IF (left \/ seen) /\ polls + 1 < MaxPoll
                     THEN /\ at' = 1 /\ left' = FALSE /\ polls' = polls + 1
                          /\ UNCHANGED <<pc, r, result>>
                     ELSE Exit("down")
    /\ UNCHANGED <<cluster, state>>

------------------------------------------------------------------------------
(* scale-up.sh *)

UpRefused ==
    /\ pc = "idle" /\ ledger = <<>>
    /\ result' = "upRefused"
    /\ UNCHANGED <<cluster, state, pc, local, fails>>

\* Mutant: the replay starts one line short of the last.
UpStartShort ==
    /\ pc = "idle" /\ ledger # <<>>
    /\ pc' = "restore" /\ at' = (IF Len(ledger) = 1 THEN 1 ELSE Len(ledger) - 1) /\ result' = "none"
    /\ UNCHANGED <<cluster, state, r, left, polls, fails>>

UpStart ==
    /\ pc = "idle" /\ ledger # <<>>
    /\ pc' = "restore" /\ at' = Len(ledger) /\ result' = "none"
    /\ UNCHANGED <<cluster, state, r, left, polls, fails>>

\* Mutant: the replay without tac.
RestoreInFileOrder ==
    /\ pc = "restore"
    /\ LET e == ledger[Len(ledger) + 1 - at]
       IN  spec' = IF e.r = 0 THEN spec ELSE [spec EXCEPT ![e.w] = e.r]
    /\ IF at > 1 THEN at' = at - 1 /\ pc' = "restore"
                 ELSE at' = 1 /\ pc' = IF NC = 0 THEN "addPolicy" ELSE "resume"
    /\ UNCHANGED <<alive, suspended, job, appset, ctl, policy, state, r, left, polls, result, fails>>

\* tac: the ledger's lines from the last to the first; a recorded 0 is skipped.
RestoreWorkload ==
    /\ pc = "restore"
    /\ spec' = IF ledger[at].r = 0 THEN spec ELSE [spec EXCEPT ![ledger[at].w] = ledger[at].r]
    /\ IF at > 1 THEN at' = at - 1 /\ pc' = "restore"
                 ELSE at' = 1 /\ pc' = IF NC = 0 THEN "addPolicy" ELSE "resume"
    /\ UNCHANGED <<alive, suspended, job, appset, ctl, policy, state, r, left, polls, result, fails>>

ResumeCron ==
    /\ pc = "resume"
    /\ suspended' = [suspended EXCEPT ![at] = FALSE]
    /\ Advance(NC, "resume", "addPolicy")
    /\ UNCHANGED <<spec, alive, job, appset, ctl, policy, state, r, left, polls, result, fails>>

\* An empty file stands for the bare policy '{}', which has no selfHeal.
AddPolicy ==
    /\ pc = "addPolicy" /\ polFile # NoFile
    /\ policy' = IF polFile = "blank" THEN "bare" ELSE polFile
    /\ pc' = "startAppset"
    /\ UNCHANGED <<spec, alive, suspended, job, appset, ctl, state, local, result, fails>>

StartAppset ==
    /\ pc = "startAppset"
    /\ \E n \in asFile : appset' = n
    /\ pc' = "archive"
    /\ UNCHANGED <<spec, alive, suspended, job, ctl, policy, state, local, result, fails>>

\* Mutant: the ledger stays where it is.
ArchiveKept ==
    /\ pc = "archive"
    /\ Exit("up")
    /\ UNCHANGED <<cluster, state, fails>>

Archive ==
    /\ pc = "archive"
    /\ ledger' = <<>>
    /\ Exit("up")
    /\ UNCHANGED <<cluster, asFile, polFile, fails>>

------------------------------------------------------------------------------
(* A kubectl call fails, a rollout times out, or the terminal is lost.  The *)
(* calls of the wait loop are the exception: their failures are swallowed.  *)
(* A redirection empties its file before its command runs.                  *)

\* Mutant: an exit trap removes the ledger of a run that failed.
AbortAndClean ==
    /\ pc # "idle" /\ fails < MaxFail
    /\ fails' = fails + 1
    /\ Exit("aborted") /\ ledger' = <<>>
    /\ polFile' \in {polFile} \cup (IF pc = "savePolicy" THEN {"blank"} ELSE {})
    /\ UNCHANGED <<cluster, asFile>>

Abort ==
    /\ pc # "idle" /\ fails < MaxFail
    /\ fails' = fails + 1
    /\ Exit("aborted")
    /\ polFile' \in {polFile} \cup (IF pc = "savePolicy" THEN {"blank"} ELSE {})
    /\ UNCHANGED <<cluster, ledger, asFile>>

------------------------------------------------------------------------------
(* The cluster's own controllers. *)

ControllerExits ==
    /\ ctl /\ appset = 0
    /\ ctl' = FALSE
    /\ UNCHANGED <<spec, alive, suspended, job, appset, policy, state, pc, local, result, fails>>

ControllerStarts ==
    /\ ~ctl /\ appset # 0
    /\ ctl' = TRUE
    /\ UNCHANGED <<spec, alive, suspended, job, appset, policy, state, pc, local, result, fails>>

\* The ApplicationSet controller writes the Application it generates again.
AppsetReconcile ==
    /\ ctl
    /\ policy' = "auto"
    /\ UNCHANGED <<spec, alive, suspended, job, appset, ctl, state, pc, local, result, fails>>

SelfHeal(w) ==
    /\ policy = "auto"
    /\ spec' = [spec EXCEPT ![w] = Orig[w]]
    /\ UNCHANGED <<alive, suspended, job, appset, ctl, policy, state, pc, local, result, fails>>

OperatorReconcile ==
    /\ alive[Operator]
    /\ spec' = [spec EXCEPT ![Owned] = Orig[Owned]]
    /\ UNCHANGED <<alive, suspended, job, appset, ctl, policy, state, pc, local, result, fails>>

PodStarts(w) ==
    /\ spec[w] # 0 /\ ~alive[w]
    /\ alive' = [alive EXCEPT ![w] = TRUE]
    /\ UNCHANGED <<spec, suspended, job, appset, ctl, policy, state, pc, local, result, fails>>

PodExits(w) ==
    /\ spec[w] = 0 /\ alive[w]
    /\ alive' = [alive EXCEPT ![w] = FALSE]
    /\ UNCHANGED <<spec, suspended, job, appset, ctl, policy, state, pc, local, result, fails>>

JobStarts(c) ==
    /\ ~suspended[c] /\ ~job[c]
    /\ job' = [job EXCEPT ![c] = TRUE]
    /\ UNCHANGED <<spec, alive, suspended, appset, ctl, policy, state, pc, local, result, fails>>

JobEnds(c) ==
    /\ job[c]
    /\ job' = [job EXCEPT ![c] = FALSE]
    /\ UNCHANGED <<spec, alive, suspended, appset, ctl, policy, state, pc, local, result, fails>>

------------------------------------------------------------------------------
DownStep ==
    \/ ReadAppset \/ StopAppset \/ Rollout \/ SavePolicy \/ RemovePolicy \/ RemoveMissingPolicy
    \/ SuspendCron \/ GetReplicas \/ Record \/ ScaleToZero \/ Scan
UpStep == RestoreWorkload \/ ResumeCron \/ AddPolicy \/ StartAppset \/ Archive
Script == DownStep \/ UpStep
Run == DownRefused \/ DownStart \/ UpRefused \/ UpStart
Controllers ==
    \/ ControllerExits \/ ControllerStarts \/ AppsetReconcile \/ OperatorReconcile
    \/ \E w \in SelfHealed : SelfHeal(w)
    \/ \E w \in Workloads : PodStarts(w) \/ PodExits(w)
    \/ \E c \in Crons : JobStarts(c) \/ JobEnds(c)

Next == Run \/ Script \/ Abort \/ Controllers

Spec == Init /\ [][Next]_vars

(* A kubectl call returns or fails; a controller scaled to zero ends; the   *)
(* runbook's "Bringing it back" runs scale-up.sh as long as a ledger is left.*)
Fairness == WF_vars(Script) /\ WF_vars(ControllerExits) /\ WF_vars(UpStart)
FairSpec == Spec /\ Fairness
------------------------------------------------------------------------------
(* Properties *)

Restored == \A w \in Workloads : spec[w] = Orig[w]

\* Write-ahead: whatever fails and whichever script runs next, a workload that is
\* not at its original size has its original size in the ledger scale-up.sh
\* replays (scale-down.sh:37-40 records before it scales).
WriteAhead ==
    \A w \in Workloads : spec[w] # Orig[w] => \E k \in DOMAIN ledger : ledger[k] = [w |-> w, r |-> Orig[w]]

\* No line of the ledger ever holds a value read after the workload was scaled
\* down: the ledger is only moved away (scale-up.sh:29) when every line of it has
\* been replayed, and scale-down.sh starts only when there is none.
LedgerFaithful == \A k \in DOMAIN ledger : ledger[k].r = Orig[ledger[k].w]

\* Is a finished scale-down waiting for its scale-up, or waiting for the pods?
Holding == pc = "scan" \/ (pc = "idle" /\ result = "down")

\* While the cluster is held down, nothing scales a workload back up by itself:
\* the sync policy stays removed because its controller was stopped, and seen to
\* be gone, before (scale-down.sh:14-26).  The StatefulSet of prometheus-operator
\* is not covered: it reconciles that one back until its own pod is gone.
HeldDown ==
    Holding => /\ \A w \in Workloads \ {Owned} : spec[w] = 0
               /\ policy = "removed" /\ ~ctl

\* Until scale-up.sh runs, no pod of a scaled-down workload and no Job of a
\* suspended CronJob starts again on storage01's volumes ("so the pools are
\* quiescent", scale-down.sh:2); again the StatefulSet of the operator apart.
NothingStartsWhileHeld ==
    [][Holding => /\ \A w \in Workloads \ {Owned} : alive'[w] => alive[w]
                  /\ \A c \in Crons : job'[c] => job[c]]_vars

\* A workload is only ever down while every workload above it in workloads.txt is
\* down too (apps above their databases, workloads.txt:3), in partial runs of
\* either script as well.
DownInOrder ==
    \A a, b \in Workloads : a < b /\ a # Owned /\ spec[b] # Orig[b] => spec[a] = 0

\* After a scale-up.sh that ended well, and until the next scale-down.sh, every
\* workload, CronJob and the sync policy are what they were before the move, even
\* if either script had failed any number of times before.
RestoredAfterUp ==
    pc = "idle" /\ result = "up" =>
        Restored /\ policy = "auto" /\ \A c \in Crons : ~suspended[c]

\* The detailed scripts implement the write-ahead log: the cluster's replicas are
\* the live sizes and the lines of the ledger are the log.
WAL == INSTANCE WriteAheadLog
         WITH Items <- Workloads, Size <- Orig, live <- spec,
              log <- {ledger[k] : k \in DOMAIN ledger}
ImplementsLog == WAL!LogSpec

\* With failures that end, a ledger that was started is eventually replayed in
\* full: no sequence of failures leaves a recorded workload down for good.
LedgerReplayed == ledger # <<>> ~> (ledger = <<>> /\ Restored)

\* Once the ledger has a line, the controller's size and the sync policy that were
\* saved before it stay as they were saved, whatever fails and whichever script is
\* run again: reruns read them from a cluster that is half way down only as long as
\* there is nothing to restore (scale-down.sh:9, 19, 25; scale-up.sh:29).
SavedKept == [][ledger # <<>> => asFile' = asFile /\ polFile' = polFile]_vars

==============================================================================
