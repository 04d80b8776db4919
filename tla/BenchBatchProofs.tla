--------------------------- MODULE BenchBatchProofs ---------------------------
(***************************************************************************)
(* Proofs about BenchBatch for any list of candidates and any number of    *)
(* lost commands, interrupts and batches.                                  *)
(***************************************************************************)
EXTENDS BenchBatch, TLAPS

Busy == Trying \/ Cleaning

RunOK ==
    /\ m \in 0..NM /\ (Busy => m # 0)
    /\ ssh \in BOOLEAN /\ restart \in BOOLEAN
    /\ outcome \in {"none", "ok", "error", "interrupted"}
    /\ reported \in 0..NM + 2
    /\ rec \in [Candidates -> [st : {"none", "ok", "error", "interrupted"}, by : 0..NM + 2]]
    /\ failed \subseteq Candidates

HostOK ==
    /\ unit \in [Services -> BOOLEAN] /\ prod \in BOOLEAN /\ squat \in BOOLEAN
    /\ cont \in {"none", "starting", "serving", "exited"} /\ contOf \in 0..NM

AdriftOK == adrift \subseteq Candidates

CountersOK == fails \in 0..MaxFail /\ stops \in 0..MaxStop /\ runs \in 1..MaxRuns

PcOK == pc \in {"next", "done", "killed"} \/ Busy

\* What a command leaves of the host is a state of a host.
LEMMA StopKeeps == ASSUME HostOK, NEW s \in Services, SystemctlStop(s) PROVE HostOK'
  <1>1. unit' \in [Services -> BOOLEAN]
    BY DEF HostOK, SystemctlStop
  <1>2. prod' \in BOOLEAN
    BY Zenon DEF SystemctlStop
  <1>. QED BY <1>1, <1>2 DEF HostOK, SystemctlStop

LEMMA StartKeeps == ASSUME HostOK, NEW s \in Services, SystemctlStart(s) PROVE HostOK'
  <1>1. unit' \in [Services -> BOOLEAN]
    BY Zenon DEF SystemctlStart
  <1>. QED BY <1>1 DEF HostOK, SystemctlStart

LEMMA PodmanKeeps == ASSUME HostOK, PodmanStop \/ PodmanRm PROVE HostOK'
  BY DEF HostOK, PodmanStop, PodmanRm

LEMMA KillKeeps == ASSUME HostOK, KillNamed PROVE HostOK'
  BY DEF HostOK, KillNamed, host

LEMMA NothingKeeps == ASSUME HostOK, UNCHANGED host PROVE HostOK'
  BY DEF HostOK, host

LEMMA ServerType == ASSUME HostOK PROVE Server \in 0..NM + 2
  BY BoundsAssumption DEF HostOK, Server, Production, ByHand, Nobody

LEMMA LoseCounts == ASSUME CountersOK, Lose PROVE fails' \in 0..MaxFail /\ fails' # 0
  BY BoundsAssumption DEF CountersOK, Lose

\* A podman run is cut off from a candidate's client.
LEMMA AdriftKept == ASSUME RunOK, AdriftOK, [Next]_vars PROVE AdriftOK'
<1>1. pc = "start" => m \in Candidates
  BY BoundsAssumption DEF RunOK, Busy, Trying, Candidates
<1>2. adrift' \subseteq adrift \/ (pc = "start" /\ adrift' = adrift \cup {m})
  BY DEF Next, Script, NextModel, StopVllm, StopLite, Kill, PreStop, PreRm, Start, CutOff, WaitForReady,
         Tracks, FinStop, FinRm, StartLite, StartVllm, Write, Interrupted, Killed, Rerun,
         LateRun, LiteRestarts, ProdLoads, BenchLoads, BenchExits, vars, Goto
<1>. QED BY <1>1, <1>2 DEF AdriftOK

\* The strengthened type invariant: between two candidates m may be 0, within one not.
THEOREM TypesHold == Spec => [](PcOK /\ RunOK /\ HostOK /\ AdriftOK /\ CountersOK)
<1>. DEFINE T == PcOK /\ RunOK /\ HostOK /\ CountersOK
<1>. USE BoundsAssumption
<1>1. Init => T
  <2>. SUFFICES ASSUME Init PROVE T
    OBVIOUS
  <2>1. PcOK /\ CountersOK
    BY DEF Init, PcOK, CountersOK
  <2>2. RunOK
    BY DEF Init, RunOK, Busy, Trying, Cleaning, Candidates, Nobody
  <2>3. 0 \in 0..NM
    OBVIOUS
  <2>4. HostOK
    BY <2>3, Zenon DEF Init, HostOK, Nobody
  <2>. QED BY <2>1, <2>2, <2>4
<1>2. T /\ AdriftOK /\ [Next]_vars => T'
  <2>. SUFFICES ASSUME T, AdriftOK, [Next]_vars PROVE T'
    OBVIOUS
  <2>1. ASSUME UNCHANGED <<run, stops, runs>>, Busy, Busy', HostOK', fails' \in 0..MaxFail PROVE T'
    <3>1. PcOK' /\ CountersOK'
      BY <2>1 DEF PcOK, CountersOK
    <3>2. RunOK'
      BY <2>1 DEF RunOK, run
    <3>. QED BY <2>1, <3>1, <3>2
  <2>2. fails \in 0..MaxFail
    BY DEF CountersOK
  <2>3. CASE StopVllm
    <3>1. (SystemctlStop("vllm-1") /\ UNCHANGED fails) \/ (Lose /\ UNCHANGED host)
      BY <2>3 DEF StopVllm, Remote
    <3>2. HostOK' /\ fails' \in 0..MaxFail
      BY <3>1, <2>2, StopKeeps, NothingKeeps, LoseCounts DEF Services
    <3>3. UNCHANGED <<run, stops, runs>> /\ Busy /\ Busy'
      BY <2>3 DEF StopVllm, Goto, Busy, Trying, Cleaning
    <3>. QED BY <2>1, <3>2, <3>3
  <2>4. CASE StopLite
    <3>1. (SystemctlStop("litellm") /\ UNCHANGED fails) \/ (Lose /\ UNCHANGED host)
      BY <2>4 DEF StopLite, Remote
    <3>2. HostOK' /\ fails' \in 0..MaxFail
      BY <3>1, <2>2, StopKeeps, NothingKeeps, LoseCounts DEF Services
    <3>3. UNCHANGED <<run, stops, runs>> /\ Busy /\ Busy'
      BY <2>4 DEF StopLite, Goto, Busy, Trying, Cleaning
    <3>. QED BY <2>1, <3>2, <3>3
  <2>5. CASE Kill
    <3>1. (KillNamed /\ UNCHANGED fails) \/ (Lose /\ UNCHANGED host)
      BY <2>5 DEF Kill, Remote
    <3>2. HostOK' /\ fails' \in 0..MaxFail
      BY <3>1, <2>2, KillKeeps, NothingKeeps, LoseCounts DEF Services
    <3>3. UNCHANGED <<run, stops, runs>> /\ Busy /\ Busy'
      BY <2>5 DEF Kill, Goto, Busy, Trying, Cleaning
    <3>. QED BY <2>1, <3>2, <3>3
  <2>6. CASE PreStop
    <3>1. (PodmanStop /\ UNCHANGED fails) \/ (Lose /\ UNCHANGED host)
      BY <2>6 DEF PreStop, Remote
    <3>2. HostOK' /\ fails' \in 0..MaxFail
      BY <3>1, <2>2, PodmanKeeps, NothingKeeps, LoseCounts DEF Services
    <3>3. UNCHANGED <<run, stops, runs>> /\ Busy /\ Busy'
      BY <2>6 DEF PreStop, Goto, Busy, Trying, Cleaning
    <3>. QED BY <2>1, <3>2, <3>3
  <2>7. CASE PreRm
    <3>1. (PodmanRm /\ UNCHANGED fails) \/ (Lose /\ UNCHANGED host)
      BY <2>7 DEF PreRm, Remote
    <3>2. HostOK' /\ fails' \in 0..MaxFail
      BY <3>1, <2>2, PodmanKeeps, NothingKeeps, LoseCounts DEF Services
    <3>3. UNCHANGED <<run, stops, runs>> /\ Busy /\ Busy'
      BY <2>7 DEF PreRm, Goto, Busy, Trying, Cleaning
    <3>. QED BY <2>1, <3>2, <3>3
  <2>8. CASE FinStop
    <3>1. (PodmanStop /\ UNCHANGED fails) \/ (Lose /\ UNCHANGED host)
      BY <2>8 DEF FinStop, Remote
    <3>2. HostOK' /\ fails' \in 0..MaxFail
      BY <3>1, <2>2, PodmanKeeps, NothingKeeps, LoseCounts DEF Services
    <3>3. UNCHANGED <<run, stops, runs>> /\ Busy /\ Busy'
      BY <2>8 DEF FinStop, Goto, Busy, Trying, Cleaning
    <3>. QED BY <2>1, <3>2, <3>3
  <2>9. CASE FinRm
    <3>1. (PodmanRm /\ UNCHANGED fails) \/ (Lose /\ UNCHANGED host)
      BY <2>9 DEF FinRm, Remote
    <3>2. HostOK' /\ fails' \in 0..MaxFail
      BY <3>1, <2>2, PodmanKeeps, NothingKeeps, LoseCounts DEF Services
    <3>3. UNCHANGED <<run, stops, runs>> /\ Busy /\ Busy'
      BY <2>9 DEF FinRm, Goto, Busy, Trying, Cleaning
    <3>. QED BY <2>1, <3>2, <3>3
  <2>10. CASE StartLite
    <3>1. (SystemctlStart("litellm") /\ UNCHANGED fails) \/ (Lose /\ UNCHANGED host)
      BY <2>10 DEF StartLite, Remote
    <3>2. HostOK' /\ fails' \in 0..MaxFail
      BY <3>1, <2>2, StartKeeps, NothingKeeps, LoseCounts DEF Services
    <3>3. UNCHANGED <<run, stops, runs>> /\ Busy /\ Busy'
      BY <2>10 DEF StartLite, Goto, Busy, Trying, Cleaning
    <3>. QED BY <2>1, <3>2, <3>3
  <2>11. CASE StartVllm
    <3>1. (SystemctlStart("vllm-1") /\ UNCHANGED fails) \/ (Lose /\ UNCHANGED host)
      BY <2>11 DEF StartVllm, Remote
    <3>2. HostOK' /\ fails' \in 0..MaxFail
      BY <3>1, <2>2, StartKeeps, NothingKeeps, LoseCounts DEF Services
    <3>3. UNCHANGED <<run, stops, runs>> /\ Busy /\ Busy'
      BY <2>11 DEF StartVllm, Goto, Busy, Trying, Cleaning
    <3>. QED BY <2>1, <3>2, <3>3
  <2>12. CASE UNCHANGED vars
    <3>1. HostOK'
      BY <2>12, NothingKeeps DEF vars
    <3>2. PcOK' /\ CountersOK'
      BY <2>12 DEF vars, PcOK, CountersOK, Busy, Trying, Cleaning
    <3>3. RunOK'
      BY <2>12 DEF vars, run, RunOK, Busy, Trying, Cleaning
    <3>. QED BY <3>1, <3>2, <3>3
  <2>13. CASE NextModel
    <3>1. HostOK'
      BY <2>13, NothingKeeps DEF NextModel, Nobody
    <3>2. PcOK'
      BY <2>13 DEF NextModel, Nobody, PcOK, Busy, Trying, Cleaning
    <3>3. CountersOK'
      BY <2>13 DEF NextModel, Nobody, CountersOK
    <3>4. RunOK'
      BY <2>13 DEF NextModel, Nobody, RunOK, Busy, Trying, Cleaning
    <3>. QED BY <3>1, <3>2, <3>3, <3>4
  <2>14. CASE Start
    <3>1. HostOK' /\ fails' \in 0..MaxFail
      <4>1. m \in 0..NM /\ cont' \in {"none", "starting", "serving", "exited"} /\ contOf' \in 0..NM
        BY <2>14 DEF Start, RunOK, HostOK
      <4>. QED BY <2>14, <2>2, <4>1, LoseCounts DEF Start, CutOff, HostOK
    <3>2. UNCHANGED <<run, stops, runs>> /\ Busy /\ Busy'
      BY <2>14 DEF Start, Busy, Trying, Cleaning
    <3>. QED BY <2>1, <3>1, <3>2
  <2>15. CASE WaitForReady
    <3>1. HostOK'
      BY <2>15, NothingKeeps DEF WaitForReady
    <3>2. PcOK'
      BY <2>15 DEF WaitForReady, PcOK, Busy, Trying, Cleaning
    <3>3. CountersOK'
      BY <2>15 DEF WaitForReady, CountersOK
    <3>4. RunOK'
      BY <2>15, ServerType DEF WaitForReady, RunOK, Busy, Trying, Cleaning
    <3>. QED BY <3>1, <3>2, <3>3, <3>4
  <2>16. CASE Tracks
    <3>1. HostOK'
      BY <2>16, NothingKeeps DEF Tracks
    <3>2. PcOK'
      BY <2>16 DEF Tracks, PcOK, Busy, Trying, Cleaning
    <3>3. CountersOK'
      BY <2>16 DEF Tracks, CountersOK
    <3>4. RunOK'
      BY <2>16 DEF Tracks, RunOK, Busy, Trying, Cleaning
    <3>. QED BY <3>1, <3>2, <3>3, <3>4
  <2>17. CASE Write
    <3>1. HostOK'
      BY <2>17, NothingKeeps DEF Write
    <3>2. PcOK'
      BY <2>17 DEF Write, PcOK
    <3>3. CountersOK'
      BY <2>17, <2>2, LoseCounts DEF Write, CountersOK
    <3>4. m \in Candidates
      BY <2>17 DEF Write, RunOK, Busy, Cleaning, Candidates
    <3>5. rec' \in [Candidates -> [st : {"none", "ok", "error", "interrupted"}, by : 0..NM + 2]]
      BY <2>17, <3>4 DEF Write, RunOK
    <3>6. failed' \subseteq Candidates
      BY <2>17, <3>4 DEF Write, RunOK
    <3>7. RunOK'
      BY <2>17, <3>5, <3>6 DEF Write, RunOK, Busy, Trying, Cleaning
    <3>. QED BY <3>1, <3>2, <3>3, <3>7
  <2>18. CASE Interrupted
    <3>1. HostOK'
      BY <2>18, NothingKeeps DEF Interrupted
    <3>2. PcOK'
      BY <2>18 DEF Interrupted, PcOK, Busy, Trying, Cleaning
    <3>3. CountersOK'
      BY <2>18, LoseCounts DEF Interrupted, CutOff, CountersOK
    <3>4. RunOK'
      BY <2>18 DEF Interrupted, RunOK, Busy, Trying, Cleaning
    <3>. QED BY <3>1, <3>2, <3>3, <3>4
  <2>19. CASE Killed
    <3>1. HostOK'
      BY <2>19, NothingKeeps DEF Killed, run
    <3>2. PcOK'
      BY <2>19 DEF Killed, run, PcOK, Busy, Trying, Cleaning
    <3>3. CountersOK'
      BY <2>19 DEF Killed, run, CountersOK
    <3>4. RunOK'
      BY <2>19 DEF Killed, run, RunOK, Busy, Trying, Cleaning
    <3>. QED BY <3>1, <3>2, <3>3, <3>4
  <2>20. CASE Rerun
    <3>1. HostOK'
      BY <2>20, NothingKeeps DEF Rerun, Nobody
    <3>2. PcOK'
      BY <2>20 DEF Rerun, Nobody, PcOK, Busy, Trying, Cleaning
    <3>3. CountersOK'
      BY <2>20 DEF Rerun, Nobody, CountersOK
    <3>4. RunOK'
      BY <2>20 DEF Rerun, Nobody, RunOK, Busy, Trying, Cleaning
    <3>. QED BY <3>1, <3>2, <3>3, <3>4
  <2>21. CASE ProdLoads \/ BenchLoads \/ BenchExits
    <3>1. HostOK'
      BY <2>21 DEF ProdLoads, BenchLoads, BenchExits, HostOK
    <3>2. PcOK' /\ CountersOK'
      BY <2>21 DEF ProdLoads, BenchLoads, BenchExits, PcOK, CountersOK, Busy, Trying, Cleaning
    <3>3. RunOK'
      BY <2>21 DEF ProdLoads, BenchLoads, BenchExits, run, RunOK, Busy, Trying, Cleaning
    <3>. QED BY <3>1, <3>2, <3>3
  <2>22. CASE LateRun
    <3>1. CountersOK' /\ PcOK'
      BY <2>22 DEF LateRun, CountersOK, PcOK, Busy, Trying, Cleaning
    <3>2. RunOK'
      BY <2>22 DEF LateRun, run, RunOK, Busy, Trying, Cleaning
    <3>3. contOf' \in 0..NM /\ cont' \in {"none", "starting", "serving", "exited"}
      BY <2>22 DEF LateRun, HostOK, AdriftOK, Candidates
    <3>4. HostOK'
      BY <2>22, <3>3 DEF LateRun, HostOK
    <3>. QED BY <3>1, <3>2, <3>4
  <2>23. CASE LiteRestarts
    <3>1. HostOK'
      BY <2>23, StartKeeps DEF LiteRestarts, Services
    <3>2. CountersOK' /\ PcOK'
      BY <2>23, LoseCounts DEF LiteRestarts, CountersOK, PcOK, Busy, Trying, Cleaning
    <3>3. RunOK'
      BY <2>23 DEF LiteRestarts, run, RunOK, Busy, Trying, Cleaning
    <3>. QED BY <3>1, <3>2, <3>3
  <2>. QED
    BY <2>3, <2>4, <2>5, <2>6, <2>7, <2>8, <2>9, <2>10, <2>11, <2>12, <2>13, <2>14, <2>15, <2>16, <2>17, <2>18, <2>19, <2>20, <2>21,
       <2>22, <2>23
       DEF Next, Script
<1>3. Init => AdriftOK
  BY DEF Init, AdriftOK
<1>. QED BY <1>1, <1>2, <1>3, AdriftKept, PTL DEF Spec

\* The variables keep their types for any number of candidates and any bounds.
THEOREM TypeCorrect == Spec => []TypeOK
<1>1. PcOK /\ RunOK /\ HostOK /\ AdriftOK /\ CountersOK => TypeOK
  BY DEF PcOK, RunOK, HostOK, AdriftOK, CountersOK, TypeOK, Busy, Trying, Cleaning
<1>. QED BY <1>1, TypesHold, PTL

------------------------------------------------------------------------------
(* Whose answers a record holds *)

\* From its start to the first answer the container is the candidate's.
Own ==
    /\ pc = "wait" => cont # "none" /\ contOf = m
    /\ Busy => reported \in {Nobody, m, Production, ByHand}
    /\ OfItsOwn

\* What a record needs holds from the start of its container on.
THEOREM OwnHolds == Spec => []Own
<1>1. Init => Own
  BY DEF Init, Own, Busy, Trying, Cleaning, OfItsOwn, Nobody
<1>2. RunOK /\ Own /\ [Next]_vars => Own'
  <2>. SUFFICES ASSUME RunOK, Own, [Next]_vars PROVE Own'
    OBVIOUS
  <2>. USE DEF Own, OfItsOwn, Busy, Trying, Cleaning
  <2>1. ASSUME UNCHANGED run, pc' # "wait", Busy PROVE Own'
    BY <2>1 DEF run
  <2>2. CASE UNCHANGED vars
    BY <2>2 DEF vars, run, host
  <2>3. CASE StopVllm \/ StopLite \/ Kill \/ PreStop \/ PreRm \/ FinStop \/ FinRm \/ StartLite \/ StartVllm
    BY <2>1, <2>3 DEF StopVllm, StopLite, Kill, PreStop, PreRm, FinStop, FinRm, StartLite, StartVllm, Goto
  <2>4. CASE NextModel
    BY <2>4 DEF NextModel
  <2>5. CASE Start
    BY <2>5 DEF Start, run
  <2>6. CASE WaitForReady
    <3>1. Server \in {Nobody, contOf, Production, ByHand}
      BY DEF Server
    <3>. QED BY <2>6, <3>1 DEF WaitForReady
  <2>7. CASE Tracks \/ Interrupted
    BY <2>7 DEF Tracks, Interrupted
  <2>8. CASE Write
    <3>1. \A k \in Candidates : rec'[k].by \in {Nobody, k, Production, ByHand}
      BY <2>8 DEF Write, RunOK
    <3>. QED BY <2>8, <3>1 DEF Write
  <2>9. CASE Killed
    BY <2>9 DEF Killed, run
  <2>10. CASE Rerun
    BY <2>10 DEF Rerun
  <2>11. CASE LateRun \/ LiteRestarts
    BY <2>11 DEF LateRun, LiteRestarts, SystemctlStart, run
  <2>12. CASE ProdLoads \/ BenchLoads \/ BenchExits
    BY <2>12 DEF ProdLoads, BenchLoads, BenchExits, run
  <2>. QED BY <2>2, <2>3, <2>4, <2>5, <2>6, <2>7, <2>8, <2>9, <2>10, <2>11, <2>12 DEF Next, Script
<1>. QED BY <1>1, <1>2, TypesHold, PTL DEF Spec

\* Whatever is lost, interrupted or late, no record holds the answers of another
\* candidate: podman run refuses to start beside a container left over.
THEOREM RecordsAreOwn == Spec => []OfItsOwn
<1>1. Own => OfItsOwn
  BY DEF Own
<1>. QED BY <1>1, OwnHolds, PTL

------------------------------------------------------------------------------
(* What holds while nothing went wrong *)

\* After the services were stopped and until they are started, production is off.
Off == pc \in {"stopLite", "kill", "preStop", "preRm", "start", "wait", "tracks"} => ~unit["vllm-1"]

\* Once the container was stopped it stays down, once it was removed it is gone.
Gone ==
    /\ pc \in {"finRm", "startLite", "startVllm"} => ~Running
    /\ pc \in {"startLite", "startVllm", "write", "done"} \/ (pc = "next" /\ m # 0) => cont = "none"

\* What --restart-prod started stays up until the next candidate.
Back ==
    /\ restart /\ pc = "startVllm" => unit["litellm"]
    /\ restart /\ (pc \in {"write", "done"} \/ (pc = "next" /\ m # 0)) => \A s \in Services : unit[s]
    /\ pc \in {"startLite", "startVllm"} => restart

\* Nobody else answers where the container is started.
Alone == pc \in {"preStop", "preRm", "start", "wait", "tracks"} /\ ~ssh => ~squat

\* production's vLLM never outlives its unit.
UnitOfProd == prod => unit["vllm-1"]
\* The inductive invariant of a host where nothing went wrong: no podman run is adrift.
Calm == Off /\ Gone /\ Back /\ Alone /\ ~(unit["vllm-1"] /\ Running) /\ MeasuresIt /\ adrift = {}

LEMMA CalmStep ==
  ASSUME RunOK, HostOK, CountersOK, UnitOfProd, Own, fails = 0, fails' = 0, Calm, Script PROVE Calm'
<1>. USE DEF Calm, Off, Gone, Back, Alone, MeasuresIt, Running
<1>1. ~Lose
  BY DEF Lose
<1>2. "vllm-1" \in Services /\ "litellm" \in Services /\ Services = {"vllm-1", "litellm"}
  BY DEF Services
<1>3. DOMAIN unit = Services
  BY DEF HostOK
<1>4. CASE StopVllm
  BY <1>4, <1>1, <1>2, <1>3 DEF StopVllm, Goto, Remote, SystemctlStop, run, host, HostOK
<1>5. CASE StopLite
  BY <1>5, <1>1, <1>2, <1>3 DEF StopLite, Goto, Remote, SystemctlStop, run, host, HostOK
<1>6. CASE Kill
  BY <1>6, <1>1, <1>2, <1>3 DEF Kill, Goto, Remote, KillNamed, run, host, HostOK
<1>7. CASE PreStop
  BY <1>7, <1>1, <1>2, <1>3 DEF PreStop, Goto, Remote, PodmanStop, run, host, HostOK
<1>8. CASE PreRm
  BY <1>8, <1>1, <1>2, <1>3 DEF PreRm, Goto, Remote, PodmanRm, run, host, HostOK
<1>9. CASE FinStop
  BY <1>9, <1>1, <1>2, <1>3 DEF FinStop, Goto, Remote, PodmanStop, run, host, HostOK
<1>10. CASE FinRm
  BY <1>10, <1>1, <1>2, <1>3 DEF FinRm, Goto, Remote, PodmanRm, run, host, HostOK
<1>11. CASE StartLite
  BY <1>11, <1>1, <1>2, <1>3 DEF StartLite, Goto, Remote, SystemctlStart, run, host, HostOK
<1>12. CASE StartVllm
  BY <1>12, <1>1, <1>2, <1>3 DEF StartVllm, Goto, Remote, SystemctlStart, run, host, HostOK
<1>13. CASE NextModel
  BY <1>13, BoundsAssumption DEF NextModel, host
<1>14. CASE Start
  BY <1>14, <1>1 DEF Start, CutOff, run
<1>15. CASE WaitForReady
  <2>1. Server # Nobody /\ (squat => ~ssh) => Server = contOf
    BY <1>15 DEF WaitForReady, Server, UnitOfProd
  <2>. QED BY <1>15, <2>1 DEF WaitForReady, host, Own
<1>16. CASE Tracks
  BY <1>16 DEF Tracks, host
<1>17. CASE Write
  BY <1>17 DEF Write, host
<1>. QED BY <1>4, <1>5, <1>6, <1>7, <1>8, <1>9, <1>10, <1>11, <1>12, <1>13, <1>14, <1>15, <1>16, <1>17 DEF Script

\* Production's vLLM goes when its unit is stopped.
THEOREM ProdHasItsUnit == Spec => []UnitOfProd
<1>1. Init => UnitOfProd
  BY DEF Init, UnitOfProd
<1>2. HostOK /\ UnitOfProd /\ [Next]_vars => UnitOfProd'
  <2>. SUFFICES ASSUME HostOK, UnitOfProd, [Next]_vars PROVE UnitOfProd'
    OBVIOUS
  <2>. USE DEF UnitOfProd, host
  <2>1. ASSUME NEW s \in Services, Remote(SystemctlStop(s)) PROVE UnitOfProd'
    <3>1. CASE UNCHANGED host
      BY <3>1
    <3>2. CASE SystemctlStop(s)
      BY <3>2 DEF SystemctlStop, HostOK, Services
    <3>. QED BY <2>1, <3>1, <3>2 DEF Remote
  <2>2. ASSUME NEW s \in Services, SystemctlStart(s) PROVE UnitOfProd'
    <3>1. unit["vllm-1"] => unit'["vllm-1"]
      BY <2>2, Zenon DEF SystemctlStart, Services
    <3>. QED BY <2>2, <3>1 DEF SystemctlStart
  <2>3. CASE StopVllm \/ StopLite
    BY <2>1, <2>3 DEF StopVllm, StopLite, Services
  <2>4. CASE StartLite \/ StartVllm \/ LiteRestarts
    BY <2>2, <2>4 DEF StartLite, StartVllm, LiteRestarts, Services, Remote
  <2>5. CASE Kill \/ PreStop \/ PreRm \/ FinStop \/ FinRm
    BY <2>5 DEF Kill, PreStop, PreRm, FinStop, FinRm, Remote, KillNamed, PodmanStop, PodmanRm
  <2>6. CASE NextModel \/ Start \/ WaitForReady \/ Tracks \/ Write \/ Interrupted \/ Killed \/ Rerun
    BY <2>6 DEF NextModel, Start, WaitForReady, Tracks, Write, Interrupted, Killed, Rerun
  <2>7. CASE LateRun \/ ProdLoads \/ BenchLoads \/ BenchExits \/ UNCHANGED vars
    BY <2>7 DEF LateRun, ProdLoads, BenchLoads, BenchExits, vars
  <2>. QED BY <2>3, <2>4, <2>5, <2>6, <2>7 DEF Next, Script
<1>. QED BY <1>1, <1>2, TypesHold, PTL DEF Spec

\* As long as nothing went wrong, the host is calm.
THEOREM UndisturbedHolds == Spec => [](fails = 0 => Calm)
<1>1. Init => (fails = 0 => Calm)
  BY DEF Init, Calm, Off, Gone, Back, Alone, MeasuresIt, Running
<1>2. RunOK /\ HostOK /\ CountersOK /\ UnitOfProd /\ Own /\ (fails = 0 => Calm) /\ [Next]_vars
        => (fails = 0 => Calm)'
  <2>. SUFFICES ASSUME RunOK, HostOK, CountersOK, UnitOfProd, Own, fails = 0 => Calm, [Next]_vars, fails' = 0
                PROVE Calm'
    OBVIOUS
  <2>1. fails = 0
    <3>1. fails' = fails \/ fails' = fails + 1
      BY DEF Next, Script, NextModel, StopVllm, StopLite, Kill, PreStop, PreRm, Start, WaitForReady,
             Tracks, FinStop, FinRm, StartLite, StartVllm, Write, Interrupted, CutOff, Killed, Rerun,
             LateRun, LiteRestarts, ProdLoads, BenchLoads, BenchExits, vars, Remote, Lose
    <3>. QED BY <3>1 DEF CountersOK
  <2>2. CASE Script
    BY <2>1, <2>2, CalmStep
  <2>. USE <2>1 DEF Calm, Off, Gone, Back, Alone, MeasuresIt, Running
  <2>3. CASE UNCHANGED vars
    BY <2>3 DEF vars, run, host
  <2>4. CASE Interrupted \/ Killed
    BY <2>1, <2>4 DEF Interrupted, CutOff, Lose, Killed, Trying, Cleaning, run, host
  <2>5. CASE Rerun
    BY <2>5 DEF Rerun, host
  <2>6. CASE ProdLoads
    BY <2>6 DEF ProdLoads, run
  <2>7. CASE BenchLoads \/ BenchExits
    BY <2>7 DEF BenchLoads, BenchExits, run
  <2>8. CASE LateRun \/ LiteRestarts
    BY <2>1, <2>8 DEF LateRun, LiteRestarts, Lose
  <2>. QED BY <2>2, <2>3, <2>4, <2>5, <2>6, <2>7, <2>8 DEF Next
<1>. QED BY <1>1, <1>2, OwnHolds, TypesHold, ProdHasItsUnit, PTL DEF Spec

\* While nothing went wrong, no podman run cut off among it, production's vLLM and the
\* benchmark's container are never up together, after any other Ctrl-C (1861-1872, 3009-3026).
THEOREM NeverBothUp == Spec => []NeverBoth
<1>1. (fails = 0 => Calm) => NeverBoth
  BY DEF Calm, NeverBoth
<1>. QED BY <1>1, UndisturbedHolds, PTL

\* While nothing went wrong, the model that is measured is the one that was
\* started, a container started by hand and seen over ssh apart.
THEOREM MeasuresTheCandidate == Spec => []MeasuresIt
<1>1. (fails = 0 => Calm) => MeasuresIt
  BY DEF Calm, MeasuresIt
<1>. QED BY <1>1, UndisturbedHolds, PTL

\* A batch that ends by itself cleans up, after any Ctrl-C but one that cuts off podman run
\* over ssh, if nothing else went wrong (3017-3026).
THEOREM EndsClean == Spec => []CleanEnd
<1>1. (fails = 0 => Calm) => CleanEnd
  BY DEF Calm, CleanEnd, Gone, Back
<1>. QED BY <1>1, UndisturbedHolds, PTL

==============================================================================
