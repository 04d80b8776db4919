------------------------------ MODULE BenchBatch ------------------------------
(***************************************************************************)
(* run_all_benchmarks.sh runs benchmark.py for one model after the other.  *)
(* Each benchmark takes the GPUs of the host from the production services, *)
(* starts a vLLM container, waits until something answers on port 8001,    *)
(* measures it, and cleans up.  Every command to the host goes through     *)
(* _remote (line 1848), which ignores failures unless told otherwise.      *)
(*                                                                         *)
(* The host goes on by itself: systemd restarts the vLLM of vllm-1 as long *)
(* as the unit is active (Restart=always), litellm that is restarted       *)
(* brings it up (Wants=), containers load, crash, or end because the GPUs  *)
(* and the port are taken.  When an ssh ends early, by Ctrl-C or by itself,*)
(* its podman run may still come true.  No other command is modelled so:   *)
(* podman run creates what the steps after it looked for and did not find. *)
(*                                                                         *)
(* A candidate is its place in the list MODELS; two more servers may       *)
(* answer: the production vLLM and a container somebody started by hand.   *)
(***************************************************************************)
EXTENDS Naturals

CONSTANTS
    NM,        \* candidates in MODELS
    MaxFail,   \* bound on what goes wrong: commands that fail, are lost or cut off
               \* from their client, restarts of litellm
    MaxStop,   \* bound on the operator's Ctrl-C
    MaxRuns    \* bound on the batches that are started

Candidates == 1..NM
Nobody == 0
Production == NM + 1
ByHand == NM + 2
Services == {"vllm-1", "litellm"}

ASSUME BoundsAssumption ==
    /\ NM \in Nat \ {0} /\ MaxFail \in Nat /\ MaxStop \in Nat /\ MaxRuns \in Nat \ {0}

VARIABLES
    pc,        \* next step of the batch, "done" and "killed" between batches
    m,         \* the candidate being benchmarked
    ssh,       \* --ssh-host is not empty
    restart,   \* --restart-prod
    outcome,   \* how the try block ended
    reported,  \* the model that answered wait_for_ready
    rec,       \* results/<model>.json
    failed,    \* FAILED of the batch; the others are in PASSED
    unit,      \* which systemd units are active
    prod,      \* does the vLLM of vllm-1 serve?
    squat,     \* does a container started by hand serve?
    cont,      \* the container vllm-bench
    contOf,    \* the model it was started with
    adrift,    \* candidates whose podman run lost its client and may come true yet
    fails, stops, runs

run == <<m, ssh, restart, outcome, reported, rec, failed>>
host == <<unit, prod, squat, cont, contOf>>
vars == <<pc, run, host, adrift, fails, stops, runs>>

Running == cont \in {"starting", "serving"}
\* Who answers on port 8001: only one can hold the port and the GPUs.
Server ==
    CASE cont = "serving" -> contOf
      [] cont # "serving" /\ prod -> Production
      [] cont # "serving" /\ ~prod /\ squat -> ByHand
      [] OTHER -> Nobody

Init ==
    /\ pc = "next" /\ m = 0
    /\ ssh \in BOOLEAN /\ restart \in BOOLEAN
    /\ outcome = "none" /\ reported = Nobody
    /\ rec = [k \in Candidates |-> [st |-> "none", by |-> Nobody]] /\ failed = {}
    /\ unit \in [Services -> BOOLEAN] /\ prod = FALSE
    /\ squat \in BOOLEAN
    /\ cont = "none" /\ contOf = Nobody /\ adrift = {}
    /\ fails = 0 /\ stops = 0 /\ runs = 1

------------------------------------------------------------------------------
(* Commands to the host *)

Lose == fails < MaxFail /\ fails' = fails + 1

\* A command whose return code is ignored: it takes effect, or nobody notices.
Remote(effect) == (effect /\ UNCHANGED fails) \/ (Lose /\ UNCHANGED host)

SystemctlStop(s) ==
    /\ unit' = [unit EXCEPT ![s] = FALSE]
    /\ prod' = (prod /\ s # "vllm-1")
    /\ UNCHANGED <<squat, cont, contOf>>

\* litellm.service has Wants=vllm-1.service.
SystemctlStart(s) ==
    /\ unit' = [x \in Services |-> unit[x] \/ x = s \/ (s = "litellm" /\ x = "vllm-1")]
    /\ UNCHANGED <<prod, squat, cont, contOf>>

PodmanStop ==
    /\ cont' = IF Running THEN "exited" ELSE cont
    /\ UNCHANGED <<unit, prod, squat, contOf>>

\* podman rm refuses a container that runs.
PodmanRm ==
    /\ cont' = IF cont = "exited" THEN "none" ELSE cont
    /\ UNCHANGED <<unit, prod, squat, contOf>>

\* Mutant: the command takes effect nowhere.
KillNamedNot == UNCHANGED host
\* bash -c of a pipeline that stops and removes every container named *vllm*.
\* ssh joins its arguments with blanks and the login shell of the host splits
\* them again: what root runs there is "bash -c podman", and the rest of the
\* pipeline sees the containers of the login user, of whom there are none.
KillNamed ==
    IF ssh THEN UNCHANGED host
    ELSE /\ prod' = FALSE /\ squat' = FALSE /\ cont' = "none"
         /\ UNCHANGED <<unit, contOf>>

------------------------------------------------------------------------------
(* benchmark.py, main: the try block *)

\* The next candidate, or the end of the batch.
NextModel ==
    /\ pc = "next"
    /\ IF m = NM
         THEN pc' = "done" /\ UNCHANGED <<m, outcome, reported>>
         ELSE /\ m' = m + 1 /\ pc' = "stopVllm"
              /\ outcome' = "error" /\ reported' = Nobody
    /\ UNCHANGED <<ssh, restart, rec, failed, host, adrift, fails, stops, runs>>

Goto(a, b) == pc = a /\ pc' = b /\ UNCHANGED <<run, adrift, stops, runs>>

StopVllm == Goto("stopVllm", "stopLite") /\ Remote(SystemctlStop("vllm-1"))
StopLite == Goto("stopLite", "kill") /\ Remote(SystemctlStop("litellm"))
Kill == Goto("kill", "preStop") /\ Remote(KillNamed)
PreStop == Goto("preStop", "preRm") /\ Remote(PodmanStop)
PreRm == Goto("preRm", "start") /\ Remote(PodmanRm)

\* Mutant: the return code of podman run is not looked at.
StartUnchecked ==
    /\ pc = "start" /\ pc' = "wait"
    /\ \/ /\ cont = "none" /\ cont' = "starting" /\ contOf' = m
          /\ UNCHANGED <<unit, prod, squat, fails>>
       \/ cont # "none" /\ UNCHANGED <<host, fails>>
       \/ Lose /\ UNCHANGED host
    /\ UNCHANGED <<run, adrift, stops, runs>>

\* The podman run of this candidate has lost its client.
CutOff == ssh /\ Lose /\ adrift' = adrift \cup {m}

\* podman run, with check=True.  It refuses a name that is in use; a failure
\* (the image's pull included) may come before or after the container started, and
\* over ssh before it starts.
Start ==
    /\ pc = "start"
    /\ \/ /\ cont = "none" /\ cont' = "starting" /\ contOf' = m /\ UNCHANGED adrift
          /\ \/ pc' = "wait" /\ UNCHANGED fails
             \/ pc' = "finStop" /\ Lose
       \/ /\ pc' = "finStop" /\ UNCHANGED <<cont, contOf>>
          /\ \/ cont # "none" /\ UNCHANGED <<adrift, fails>>
             \/ Lose /\ UNCHANGED adrift
             \/ CutOff
    /\ UNCHANGED <<run, unit, prod, squat, stops, runs>>

\* Mutant: no deadline while the container is there.
WaitForever ==
    /\ pc = "wait"
    /\ \/ Server # Nobody /\ pc' = "tracks" /\ reported' = Server /\ UNCHANGED outcome
       \/ Server = Nobody /\ ~Running /\ pc' = "finStop" /\ UNCHANGED <<outcome, reported>>
    /\ UNCHANGED <<m, ssh, restart, rec, failed, host, adrift, fails, stops, runs>>

\* wait_for_ready takes whatever model answers for the one it started.  Else a
\* container that is not running, or in the end the deadline, raises TimeoutError.
WaitForReady ==
    /\ pc = "wait"
    /\ \/ Server # Nobody /\ pc' = "tracks" /\ reported' = Server
       \/ Server = Nobody /\ pc' = "finStop" /\ UNCHANGED reported
    /\ UNCHANGED <<m, ssh, restart, outcome, rec, failed, host, adrift, fails, stops, runs>>

\* The tracks name the reported model in each request and track 3 needs all its
\* answers, so they end well only while that model serves; an exception of any
\* of them ends the try block.
Tracks ==
    /\ pc = "tracks" /\ pc' = "finStop"
    /\ \/ Server = reported /\ outcome' = "ok"
       \/ UNCHANGED outcome
    /\ UNCHANGED <<m, ssh, restart, reported, rec, failed, host, adrift, fails, stops, runs>>

------------------------------------------------------------------------------
(* the finally block, and how the batch takes its end *)

\* Mutant: the container is removed without being stopped.
FinStopNot == Goto("finStop", "finRm") /\ UNCHANGED <<host, fails>>
FinStop == Goto("finStop", "finRm") /\ Remote(PodmanStop)
FinRm == Goto("finRm", IF restart THEN "startLite" ELSE "write") /\ Remote(PodmanRm)
StartLite == Goto("startLite", "startVllm") /\ Remote(SystemctlStart("litellm"))
StartVllm == Goto("startVllm", "write") /\ Remote(SystemctlStart("vllm-1"))

\* The record is written and the exit code is 0, however the try block ended;
\* only a record that cannot be written makes it 1.
Write ==
    /\ pc = "write" /\ pc' = "next"
    /\ \/ /\ rec' = [rec EXCEPT ![m] = [st |-> outcome, by |-> reported]]
          /\ UNCHANGED <<failed, fails>>
       \/ failed' = failed \cup {m} /\ Lose /\ UNCHANGED rec
    /\ UNCHANGED <<m, ssh, restart, outcome, reported, host, adrift, stops, runs>>

Trying == pc \in {"stopVllm", "stopLite", "kill", "preStop", "preRm", "start", "wait", "tracks"}
Cleaning == pc \in {"finStop", "finRm", "startLite", "startVllm", "write"}

\* Ctrl-C in the try block is caught: the process exits with 0 and the shell, whose
\* child did not die of the signal, goes on to the next candidate.  A podman run under
\* way over ssh is not at its end with that.
Interrupted ==
    /\ Trying /\ stops < MaxStop
    /\ pc' = "finStop" /\ outcome' = "interrupted" /\ stops' = stops + 1
    /\ \/ UNCHANGED <<adrift, fails>>
       \/ pc = "start" /\ CutOff
    /\ UNCHANGED <<m, ssh, restart, reported, rec, failed, host, runs>>

\* Anywhere else it ends the process, and with it the batch.
Killed ==
    /\ (Cleaning \/ pc = "next") /\ stops < MaxStop
    /\ pc' = "killed" /\ stops' = stops + 1
    /\ UNCHANGED <<run, host, adrift, fails, runs>>

\* The operator starts a batch again.
Rerun ==
    /\ pc \in {"done", "killed"} /\ runs < MaxRuns
    /\ pc' = "next" /\ m' = 0 /\ runs' = runs + 1
    /\ ssh' \in BOOLEAN /\ restart' \in BOOLEAN
    /\ outcome' = "none" /\ reported' = Nobody /\ failed' = {}
    /\ UNCHANGED <<rec, host, adrift, fails, stops>>

------------------------------------------------------------------------------
(* The host *)

Free == Server = Nobody

\* A podman run that nobody waits for starts its container, or is refused its name.
LateRun ==
    /\ \E k \in adrift :
         /\ adrift' = adrift \ {k}
         /\ IF cont = "none" THEN cont' = "starting" /\ contOf' = k ELSE UNCHANGED <<cont, contOf>>
    /\ UNCHANGED <<pc, run, unit, prod, squat, fails, stops, runs>>

\* litellm crashes while vllm-1 is stopped, and systemd starts both (Restart=always).
LiteRestarts ==
    /\ unit["litellm"] /\ ~unit["vllm-1"]
    /\ SystemctlStart("litellm") /\ Lose
    /\ UNCHANGED <<pc, run, adrift, stops, runs>>

ProdLoads ==
    /\ unit["vllm-1"] /\ ~prod /\ Free
    /\ prod' = TRUE
    /\ UNCHANGED <<pc, run, unit, squat, cont, contOf, adrift, fails, stops, runs>>

BenchLoads ==
    /\ cont = "starting" /\ Free
    /\ cont' = "serving"
    /\ UNCHANGED <<pc, run, unit, prod, squat, contOf, adrift, fails, stops, runs>>

\* The container ends: no memory, no port, a model vLLM cannot load, a crash.
BenchExits ==
    /\ Running
    /\ cont' = "exited"
    /\ UNCHANGED <<pc, run, unit, prod, squat, contOf, adrift, fails, stops, runs>>

Script ==
    \/ NextModel \/ StopVllm \/ StopLite \/ Kill \/ PreStop \/ PreRm \/ Start
    \/ WaitForReady \/ Tracks \/ FinStop \/ FinRm \/ StartLite \/ StartVllm \/ Write

Next ==
    \/ Script \/ Interrupted \/ Killed \/ Rerun
    \/ LateRun \/ LiteRestarts \/ ProdLoads \/ BenchLoads \/ BenchExits

Spec == Init /\ [][Next]_vars

\* Every command and every request of the script ends, and systemd restarts
\* vllm-1 for as long as it takes.  A model need not load in finite time.
FairSpec == Spec /\ WF_vars(Script) /\ WF_vars(ProdLoads)

------------------------------------------------------------------------------
(* Properties *)

\* Every variable keeps its type: the host, the place in the batch and the records.
TypeOK ==
    /\ pc \in {"next", "stopVllm", "stopLite", "kill", "preStop", "preRm", "start", "wait",
               "tracks", "finStop", "finRm", "startLite", "startVllm", "write", "done", "killed"}
    /\ m \in 0..NM /\ ssh \in BOOLEAN /\ restart \in BOOLEAN
    /\ outcome \in {"none", "ok", "error", "interrupted"}
    /\ reported \in 0..NM + 2
    /\ rec \in [Candidates -> [st : {"none", "ok", "error", "interrupted"}, by : 0..NM + 2]]
    /\ failed \subseteq Candidates
    /\ unit \in [Services -> BOOLEAN] /\ prod \in BOOLEAN /\ squat \in BOOLEAN
    /\ cont \in {"none", "starting", "serving", "exited"} /\ contOf \in 0..NM
    /\ adrift \subseteq Candidates
    /\ fails \in 0..MaxFail /\ stops \in 0..MaxStop /\ runs \in 1..MaxRuns

\* Whatever is lost, interrupted or late, a candidate's record never holds what another
\* candidate answered: a container left over from the one before makes podman run
\* fail on its name, and that return code is looked at (benchmark.py:1935).
OfItsOwn == \A k \in Candidates : rec[k].by \in {Nobody, k, Production, ByHand}

\* While nothing went wrong, production's vLLM and the benchmark's container are never
\* up together (1861-1872, 3017-3026), in any batch, after any Ctrl-C but one that cuts
\* off podman run over ssh.
NeverBoth == fails = 0 => ~(unit["vllm-1"] /\ Running)

\* While nothing went wrong, what is measured is the model that was started,
\* unless a container started by hand is there and the host is reached over ssh.
MeasuresIt == pc = "tracks" /\ fails = 0 /\ (squat => ~ssh) => reported = m

\* A batch that ends by itself leaves no container behind, and with --restart-prod
\* the services up, if nothing went wrong: also after Ctrl-C (but one that cuts off podman
\* run over ssh), failed candidates and batches that were killed (3009-3031).
CleanEnd ==
    pc = "done" /\ fails = 0 => cont = "none" /\ (restart => \A s \in Services : unit[s])

\* A batch ends, and with --restart-prod production serves again, unless the batch was
\* killed, a command was lost or cut off, litellm crashed in between, or a container
\* started by hand has the GPUs.
ProductionReturns ==
    <>[](/\ pc \in {"done", "killed"}
         /\ prod \/ ~restart \/ pc = "killed" \/ fails > 0 \/ squat)
==============================================================================
