--------------------------- MODULE ScaleMoveProofs ---------------------------
(***************************************************************************)
(* Proofs about ScaleMove, for every workloads.txt, every cronjobs.txt and *)
(* any number of failures.                                                 *)
(*                                                                         *)
(* The argument: the ledger always is a prefix of workloads.txt with the   *)
(* original sizes (LedgerShape), only the lines of that prefix can be down *)
(* (Covered), and nothing that could interfere runs while something is     *)
(* down (Undisturbed).  DownPos and UpPos say how far the running script   *)
(* has come.                                                               *)
(***************************************************************************)
EXTENDS ScaleMove, TLAPS

LedgerShape ==
    /\ Len(ledger) <= NW
    /\ \A k \in 1..Len(ledger) : ledger[k] = [w |-> k, r |-> Orig[k]]

Covered == \A w \in Workloads : spec[w] # Orig[w] => spec[w] = 0 /\ w <= Len(ledger)

\* Nobody but the scripts and the operator acts on a cluster that is partly down.
Undisturbed ==
    /\ ctl \/ appset # 0 \/ policy # "removed" => Restored
    /\ policy # "bare"

Below(n) == \A a \in Workloads : a < n /\ a # Owned => spec[a] = 0

DownPos ==
    /\ pc \in {"readAppset", "stopAppset", "rollout", "savePolicy", "removePolicy", "suspend"} => ledger = <<>>
    /\ pc = "rollout" => appset = 0
    /\ pc \in {"savePolicy", "removePolicy", "suspend", "get", "record", "zero", "scan"} => appset = 0 /\ ~ctl
    /\ pc = "removePolicy" => polFile = IF policy = "removed" THEN "blank" ELSE policy
    /\ pc \in {"suspend", "get", "record", "zero", "scan"} => policy = "removed" /\ polFile = "auto"
    /\ pc = "suspend" => at \in Crons /\ \A c \in Crons : c < at => suspended[c]
    /\ pc \in {"get", "record", "zero"} \/ Holding => \A c \in Crons : suspended[c]
    /\ Holding => appset = 0
    /\ pc \in {"get", "record"} => at \in Workloads /\ Len(ledger) = at - 1
    /\ pc = "zero" => at \in Workloads /\ Len(ledger) = at
    /\ pc \in {"record", "zero"} => r = Orig[at]
    /\ pc \in {"get", "record", "zero"} => Below(at)
    /\ pc = "scan" => at \in Workloads /\ Len(ledger) = NW
    /\ ledger # <<>> => polFile = "auto"

UpPos ==
    /\ pc \in UpPCs => ledger # <<>>
    /\ pc = "restore" =>
         at \in 1..Len(ledger) /\ \A w \in Workloads : w > at => spec[w] = Orig[w]
    /\ pc \in {"resume", "addPolicy", "startAppset", "archive"} => Restored
    /\ pc = "resume" => at \in Crons /\ \A c \in Crons : c < at => ~suspended[c]
    /\ pc \in {"addPolicy", "startAppset", "archive"} => \A c \in Crons : ~suspended[c]
    /\ pc \in {"startAppset", "archive"} => policy = "auto"

IInv ==
    /\ TypeOK /\ LedgerShape /\ Covered /\ Undisturbed /\ DownInOrder
    /\ DownPos /\ UpPos /\ HeldDown /\ RestoredAfterUp

\* Appending the next line of workloads.txt keeps the ledger a prefix of it.
LEMMA AppendLine ==
    ASSUME NEW s \in Seq(Entry), NEW e \in Entry
    PROVE  /\ Append(s, e) \in Seq(Entry)
           /\ Len(Append(s, e)) = Len(s) + 1
           /\ \A k \in 1..Len(s) : Append(s, e)[k] = s[k]
           /\ Append(s, e)[Len(s) + 1] = e
           /\ Append(s, e) # <<>>
  OBVIOUS

LEMMA InitInv == Init => IInv
<1> SUFFICES ASSUME Init PROVE IInv
  OBVIOUS
<1> USE OrigAssumption, SizesAssumption, OrderAssumption DEF Init
<1>1. TypeOK
  <2>1. /\ alive \in [Workloads -> BOOLEAN]
        /\ suspended \in [Crons -> BOOLEAN] /\ job \in [Crons -> BOOLEAN]
    BY Zenon
  <2>2. ctl \in BOOLEAN /\ left \in BOOLEAN
    OBVIOUS
  <2>3. ledger \in Seq(Entry) /\ asFile \in SUBSET {0, 1}
    OBVIOUS
  <2>4. /\ spec \in [Workloads -> Nat] /\ appset \in {0, 1} /\ at \in Nat /\ r \in Nat
        /\ polls \in 0..MaxPoll /\ fails \in 0..MaxFail
    OBVIOUS
  <2> QED
    BY <2>1, <2>2, <2>3, <2>4 DEF TypeOK, Results, NoFile
<1>2. LedgerShape /\ Covered /\ Undisturbed /\ DownInOrder
  BY DEF LedgerShape, Covered, Undisturbed, Restored, DownInOrder, Workloads
<1>3. DownPos /\ UpPos
  BY DEF DownPos, UpPos, UpPCs, Holding
<1>4. HeldDown /\ RestoredAfterUp
  BY DEF HeldDown, Holding, RestoredAfterUp
<1> QED
  BY <1>1, <1>2, <1>3, <1>4 DEF IInv

\* What every step keeps of the invariant besides the types.
Rest == LedgerShape /\ Covered /\ Undisturbed /\ DownInOrder /\ DownPos /\ UpPos /\ HeldDown /\ RestoredAfterUp

LEMMA RunInv == IInv /\ Run => Rest'
<1> SUFFICES ASSUME IInv, Run PROVE Rest'
  OBVIOUS
<1> USE OrigAssumption, SizesAssumption, OrderAssumption
    DEF IInv, Rest, TypeOK, LedgerShape, Covered, Undisturbed, Restored, DownInOrder, DownPos, UpPos, Below,
        HeldDown, Holding, RestoredAfterUp, cluster, state, local, Workloads, Crons, Entry, UpPCs
<1>1. CASE DownRefused
  BY <1>1 DEF DownRefused
<1>2. CASE DownStart
  BY <1>2 DEF DownStart
<1>3. CASE UpRefused
  BY <1>3 DEF UpRefused
<1>4. CASE UpStart
  BY <1>4, SMTT(30) DEF UpStart
<1> QED
  BY <1>1, <1>2, <1>3, <1>4 DEF Run

LEMMA DownStepInv == IInv /\ DownStep => Rest'
<1> SUFFICES ASSUME IInv, DownStep PROVE Rest'
  OBVIOUS
<1> USE OrigAssumption, SizesAssumption, OrderAssumption
    DEF IInv, Rest, TypeOK, LedgerShape, Covered, Undisturbed, Restored, DownInOrder, DownPos, UpPos, Below,
        HeldDown, Holding, RestoredAfterUp, cluster, state, local, Workloads, Crons, Entry, UpPCs
<1>1. CASE ReadAppset
  BY <1>1 DEF ReadAppset
<1>2. CASE StopAppset
  BY <1>2 DEF StopAppset
<1>3. CASE Rollout
  BY <1>3 DEF Rollout
<1>4. CASE SavePolicy
  BY <1>4 DEF SavePolicy
<1>5. CASE RemovePolicy
  BY <1>5 DEF RemovePolicy
<1>6. CASE RemoveMissingPolicy
  BY <1>6 DEF RemoveMissingPolicy, Exit
<1>7. CASE SuspendCron
  BY <1>7 DEF SuspendCron, Advance
<1>8. CASE GetReplicas
  BY <1>8 DEF GetReplicas
<1>9. CASE Record
  <2> USE <1>9 DEF Record, Advance, NextWorkload, Exit
  <2>1. LedgerShape' /\ Covered'
    BY SMTT(30)
  <2>2. Undisturbed'
    OBVIOUS
  <2>3. DownInOrder'
    OBVIOUS
  <2>4. DownPos'
    <3>1. Len(ledger') = at /\ ledger' # <<>>
      <4>1. ledger' = Append(ledger, [w |-> at, r |-> r]) /\ ledger \in Seq(Entry) /\ Len(ledger) = at - 1
        OBVIOUS
      <4>2. [w |-> at, r |-> r] \in Entry /\ at \in Nat
        OBVIOUS
      <4> HIDE DEF Entry, IInv, Record
      <4> QED
        BY <4>1, <4>2, AppendLine
    <3>2. r = 0 => spec[at] = 0
      OBVIOUS
    <3>3. CASE r # 0
      BY <3>1, <3>3
    <3>4. CASE r = 0 /\ at < NW
      BY <3>1, <3>2, <3>4
    <3>5. CASE r = 0 /\ at = NW
      <4>1. pc' = "scan" /\ at' = 1 /\ Len(ledger') = NW /\ 1 \in Workloads
        BY <3>1, <3>5
      <4>2. \A a \in Workloads \ {Owned} : spec'[a] = 0
        BY <3>2, <3>5
      <4> QED
        BY <4>1, <4>2, <3>1
    <3> QED
      BY <3>3, <3>4, <3>5
  <2>5. UpPos'
    OBVIOUS
  <2>6. HeldDown' /\ RestoredAfterUp'
    OBVIOUS
  <2> QED
    BY <2>1, <2>2, <2>3, <2>4, <2>5, <2>6
<1>10. CASE ScaleToZero
  <2> USE <1>10 DEF ScaleToZero, Advance, NextWorkload, Exit
  <2>1. LedgerShape' /\ Covered'
    OBVIOUS
  <2>2. Undisturbed'
    OBVIOUS
  <2>3. DownInOrder'
    <3>1. DownInOrder /\ Below(at) /\ at \in Workloads /\ NW \in Nat
      OBVIOUS
    <3>2. spec' = [spec EXCEPT ![at] = 0] /\ DOMAIN spec = Workloads
      OBVIOUS
    <3> HIDE <1>10 DEF IInv, ScaleToZero
    <3> QED
      BY <3>1, <3>2
  <2>4. DownPos'
    <3>1. \A w \in Workloads : spec'[w] = IF w = at THEN 0 ELSE spec[w]
      OBVIOUS
    <3>2. CASE at < NW
      BY <3>1, <3>2
    <3>3. CASE at = NW
      BY <3>1, <3>3
    <3> QED
      BY <3>2, <3>3
  <2>5. UpPos'
    OBVIOUS
  <2>6. HeldDown' /\ RestoredAfterUp'
    <3>1. Below(at) /\ at \in Workloads /\ NW \in Nat /\ policy' = "removed" /\ ~ctl'
      OBVIOUS
    <3>2. spec' = [spec EXCEPT ![at] = 0] /\ DOMAIN spec = Workloads
      OBVIOUS
    <3>3. pc' = "get" \/ (pc' = "scan" /\ at >= NW)
      OBVIOUS
    <3> HIDE <1>10 DEF IInv, ScaleToZero
    <3> QED
      BY <3>1, <3>2, <3>3
  <2> QED
    BY <2>1, <2>2, <2>3, <2>4, <2>5, <2>6
<1>11. CASE Scan
  <2> USE <1>11 DEF Scan, Advance, NextWorkload, Exit
  <2>1. LedgerShape' /\ Covered'
    OBVIOUS
  <2>2. Undisturbed'
    OBVIOUS
  <2>3. DownInOrder'
    OBVIOUS
  <2>4. DownPos'
    <3>1. CASE pc' = "scan"
      <4>1. at' \in 1..NW
        <5>1. NW \in Nat /\ at \in 1..NW
          OBVIOUS
        <5>2. at' = 1 \/ (at' = at + 1 /\ at < NW)
          BY <3>1
        <5> HIDE <1>11 DEF IInv, Scan
        <5> QED
          BY <5>1, <5>2
      <4>2. UNCHANGED <<spec, ledger, policy, polFile, appset, ctl, suspended, pc>>
        BY <3>1
      <4>3. DownPos /\ Workloads' = Workloads /\ Crons' = Crons /\ pc = "scan"
        OBVIOUS
      <4> HIDE <1>11 DEF IInv
      <4> QED
        BY <4>1, <4>2, <4>3, <3>1
    <3>2. CASE pc' = "idle"
      BY <3>2
    <3> QED
      BY <3>1, <3>2
  <2>5. UpPos'
    OBVIOUS
  <2>6. HeldDown' /\ RestoredAfterUp'
    OBVIOUS
  <2> QED
    BY <2>1, <2>2, <2>3, <2>4, <2>5, <2>6
<1> QED
  BY <1>1, <1>2, <1>3, <1>4, <1>5, <1>6, <1>7, <1>8, <1>9, <1>10, <1>11 DEF DownStep

LEMMA UpStepInv == IInv /\ UpStep => Rest'
<1> SUFFICES ASSUME IInv, UpStep PROVE Rest'
  OBVIOUS
<1> USE OrigAssumption, SizesAssumption, OrderAssumption
    DEF IInv, Rest, TypeOK, LedgerShape, Covered, Undisturbed, Restored, DownInOrder, DownPos, UpPos, Below,
        HeldDown, Holding, RestoredAfterUp, cluster, state, local, Workloads, Crons, Entry, UpPCs
<1>1. CASE RestoreWorkload
  <2> USE <1>1 DEF RestoreWorkload
  <2>0. at \in Workloads /\ \A w \in Workloads : w > at => spec[w] = Orig[w]
    OBVIOUS
  <2>1. at \in Workloads /\ ledger[at].w = at /\ ledger[at].r = Orig[at]
    <3>1. at \in 1..Len(ledger) /\ Len(ledger) \in Nat /\ Len(ledger) <= NW
      OBVIOUS
    <3>2. ledger[at] = [w |-> at, r |-> Orig[at]]
      BY <3>1
    <3> QED
      BY <3>1, <3>2
  <2>2. \A w \in Workloads : spec'[w] = IF w = at THEN Orig[w] ELSE spec[w]
    <3>1. ~(ledger[at].r = 0) => spec' = [spec EXCEPT ![at] = Orig[at]]
      BY <2>1
    <3>2. ledger[at].r = 0 => spec' = spec /\ Orig[at] = 0
      BY <2>1
    <3>3. Orig[at] = 0 => spec[at] = 0
      BY <2>1
    <3>4. spec \in [Workloads -> Nat]
      OBVIOUS
    <3> HIDE <1>1 DEF IInv
    <3> QED
      BY <2>1, <3>1, <3>2, <3>3, <3>4
  <2>3. LedgerShape' /\ Covered'
    <3>1. UNCHANGED ledger
      OBVIOUS
    <3>2. Covered
      BY SMTT(30)
    <3>3. LedgerShape'
      BY <3>1
    <3> HIDE <1>1 DEF IInv
    <3>4. Covered'
      BY <2>2, <3>1, <3>2
    <3> QED
      BY <3>3, <3>4
  <2>4. Undisturbed'
    BY <2>2
  <2>5. DownInOrder'
    <3>1. \A b \in Workloads : spec'[b] # Orig[b] => b < at /\ spec[b] # Orig[b]
      <4> HIDE <1>1 DEF IInv
      <4> QED
        BY <2>0, <2>1, <2>2, SMTT(30)
    <3>2. \A a, b \in Workloads : a < b /\ b < at => spec'[a] = spec[a]
      BY <2>1, <2>2
    <3> QED
      BY <3>1, <3>2
  <2>6. DownPos'
    OBVIOUS
  <2>7. UpPos'
    <3>1. CASE at > 1
      <4>1. \A w \in Workloads : w > at - 1 => spec'[w] = Orig[w]
        <5> HIDE <1>1 DEF IInv
        <5> QED
          BY <2>0, <2>1, <2>2
      <4>2. pc' = "restore" /\ at' = at - 1 /\ at' \in 1..Len(ledger') /\ ledger' # <<>>
        BY <3>1
      <4> HIDE <1>1 DEF IInv
      <4> QED
        BY <4>1, <4>2
    <3>2. CASE at = 1
      <4>1. Restored'
        <5> HIDE <1>1 DEF IInv
        <5> QED
          BY <2>0, <2>2, <3>2
      <4>2. pc' = (IF NC = 0 THEN "addPolicy" ELSE "resume") /\ at' = 1 /\ ledger' # <<>>
        BY <3>2
      <4>3. NC = 0 => Crons = {}
        OBVIOUS
      <4>4. NC # 0 => 1 \in Crons
        OBVIOUS
      <4> HIDE <1>1 DEF IInv
      <4> QED
        BY <4>1, <4>2, <4>3, <4>4
    <3> QED
      BY <3>1, <3>2, <2>1
  <2>8. HeldDown' /\ RestoredAfterUp'
    OBVIOUS
  <2> QED
    BY <2>3, <2>4, <2>5, <2>6, <2>7, <2>8
<1>2. CASE ResumeCron
  <2> USE <1>2 DEF ResumeCron
  <2>1. /\ UNCHANGED <<spec, alive, job, appset, ctl, policy, state, r, left, polls, result, fails>>
        /\ suspended' = [suspended EXCEPT ![at] = FALSE]
    OBVIOUS
  <2>2. at \in Crons /\ suspended' \in [Crons -> BOOLEAN] /\ \A c \in Crons : c <= at => ~suspended'[c]
    OBVIOUS
  <2>3. \/ at < NC /\ pc' = "resume" /\ at' = at + 1
        \/ at = NC /\ pc' = "addPolicy" /\ at' = 1
    BY DEF Advance
  <2>4. LedgerShape' /\ Covered' /\ Undisturbed' /\ DownInOrder'
    BY <2>1, <2>3
  <2>5. DownPos'
    BY <2>1, <2>3
  <2>6. UpPos'
    <3>1. Restored' /\ ledger' # <<>>
      BY <2>1
    <3>2. pc' = "resume" => at' \in Crons /\ \A c \in Crons : c < at' => ~suspended'[c]
      BY <2>2, <2>3
    <3>3. pc' = "addPolicy" => \A c \in Crons : ~suspended'[c]
      BY <2>2, <2>3
    <3> HIDE <1>2 DEF IInv
    <3> QED
      BY <2>3, <3>1, <3>2, <3>3
  <2>7. HeldDown' /\ RestoredAfterUp'
    BY <2>1, <2>3
  <2> QED
    BY <2>1, <2>2, <2>3, <2>4, <2>5, <2>6, <2>7
<1>3. CASE AddPolicy
  BY <1>3 DEF AddPolicy
<1>4. CASE StartAppset
  BY <1>4 DEF StartAppset
<1>5. CASE Archive
  BY <1>5 DEF Archive, Exit
<1> QED
  BY <1>1, <1>2, <1>3, <1>4, <1>5 DEF UpStep

\* Pods and Jobs come and go, and a size that is right is set again.
LEMMA QuietInv ==
    ASSUME IInv, UNCHANGED <<spec, suspended, appset, ctl, policy, state, pc, local, result>>
    PROVE  Rest'
<1>1. LedgerShape /\ Covered /\ Undisturbed /\ DownInOrder /\ DownPos /\ UpPos /\ HeldDown /\ RestoredAfterUp
  BY DEF IInv
<1>2. UNCHANGED <<spec, suspended, appset, ctl, policy, ledger, asFile, polFile, pc, at, r, left, polls, result>>
  BY DEF state, local
<1>3. LedgerShape' /\ Covered' /\ DownInOrder'
  BY <1>1, <1>2 DEF LedgerShape, Covered, DownInOrder
<1>4. Undisturbed'
  BY <1>1, <1>2 DEF Undisturbed, Restored
<1>5. DownPos'
  BY <1>1, <1>2 DEF DownPos, Holding, Below
<1>6. UpPos'
  BY <1>1, <1>2 DEF UpPos, Restored
<1>7. HeldDown' /\ RestoredAfterUp'
  BY <1>1, <1>2 DEF HeldDown, Holding, RestoredAfterUp, Restored
<1> QED
  BY <1>3, <1>4, <1>5, <1>6, <1>7 DEF Rest

LEMMA ControllersInv == IInv /\ Controllers => Rest'
<1> SUFFICES ASSUME IInv, Controllers PROVE Rest'
  OBVIOUS
<1> USE OrigAssumption, SizesAssumption, OrderAssumption
    DEF IInv, Rest, TypeOK, LedgerShape, Covered, Undisturbed, Restored, DownInOrder, DownPos, UpPos, Below,
        HeldDown, Holding, RestoredAfterUp, cluster, state, local, Workloads, Crons, Entry, UpPCs
<1>1. CASE ControllerExits
  BY <1>1 DEF ControllerExits
<1>2. CASE ControllerStarts
  BY <1>2 DEF ControllerStarts
<1>3. CASE AppsetReconcile
  BY <1>3 DEF AppsetReconcile
<1>4. CASE OperatorReconcile
  <2> USE <1>4 DEF OperatorReconcile
  <2>1. \A w \in Workloads : spec'[w] = IF w = Owned THEN Orig[w] ELSE spec[w]
    OBVIOUS
  <2>2. LedgerShape' /\ Covered' /\ Undisturbed' /\ DownInOrder'
    <3>1. LedgerShape' /\ Covered'
      BY <2>1
    <3>2. Undisturbed'
      BY <2>1
    <3>3. DownInOrder'
      BY <2>1
    <3> QED
      BY <3>1, <3>2, <3>3
  <2>3. DownPos'
    BY <2>1
  <2>4. UpPos'
    BY <2>1, SMTT(30)
  <2>5. HeldDown' /\ RestoredAfterUp'
    BY <2>1
  <2> QED
    BY <2>2, <2>3, <2>4, <2>5
<1>5. CASE \E w \in SelfHealed : SelfHeal(w)
  <2>1. PICK w \in SelfHealed : SelfHeal(w)
    BY <1>5, Zenon
  <2>2. UNCHANGED <<suspended, appset, ctl, policy, state, pc, local, result>> /\ policy = "auto"
    BY <2>1 DEF SelfHeal
  <2>3. w \in Workloads /\ spec[w] = Orig[w] /\ spec \in [Workloads -> Nat]
    BY <2>2
  <2>4. spec' = spec
    BY <2>1, <2>3 DEF SelfHeal
  <2> QED
    BY <2>2, <2>4, QuietInv
<1>6. CASE \E w \in Workloads : PodStarts(w) \/ PodExits(w)
  <2>1. UNCHANGED <<spec, suspended, appset, ctl, policy, state, pc, local, result>>
    BY <1>6 DEF PodStarts, PodExits
  <2> QED
    BY <2>1, QuietInv
<1>7. CASE \E c \in Crons : JobStarts(c) \/ JobEnds(c)
  <2>1. UNCHANGED <<spec, suspended, appset, ctl, policy, state, pc, local, result>>
    BY <1>7 DEF JobStarts, JobEnds
  <2> QED
    BY <2>1, QuietInv
<1> QED
  BY <1>1, <1>2, <1>3, <1>4, <1>5, <1>6, <1>7 DEF Controllers

\* The shell variables of a script that ends.
LEMMA ExitType ==
    ASSUME NEW res \in Results, Exit(res)
    PROVE  /\ at' \in Nat /\ r' \in Nat /\ polls' \in 0..MaxPoll
           /\ left' \in BOOLEAN
           /\ pc' \in {"idle"} \cup DownPCs \cup UpPCs
           /\ result' \in Results
<1>1. left' \in BOOLEAN
  BY Zenon DEF Exit
<1>2. at' \in Nat /\ r' \in Nat /\ polls' \in 0..MaxPoll /\ pc' = "idle" /\ result' = res
  BY SizesAssumption DEF Exit
<1> QED
  BY <1>1, <1>2

LEMMA TypeStep == IInv /\ [Next]_vars => TypeOK'
<1> SUFFICES ASSUME IInv, [Next]_vars PROVE TypeOK'
  OBVIOUS
<1> USE OrigAssumption, SizesAssumption, OrderAssumption
    DEF TypeOK, cluster, state, local, Workloads, Crons, DownPCs, UpPCs, Results, NoFile
<1>0. TypeOK
  BY DEF IInv
<1>c. /\ pc \in {"suspend", "resume"} => at \in Crons
      /\ pc \in {"get", "record", "zero", "scan"} => at \in Workloads
      /\ pc = "restore" => at \in 1..Len(ledger) /\ Len(ledger) <= NW
      /\ pc = "restore" => ledger[at] = [w |-> at, r |-> Orig[at]]
  BY DEF IInv, DownPos, UpPos, LedgerShape
<1> HIDE DEF IInv
<1>1. CASE DownRefused
  BY <1>0, <1>1 DEF DownRefused
<1>2. CASE DownStart
  BY <1>0, <1>2 DEF DownStart
<1>3. CASE UpRefused
  BY <1>0, <1>3 DEF UpRefused
<1>4. CASE UpStart
  BY <1>0, <1>4 DEF UpStart
<1>5. CASE ReadAppset
  BY <1>0, <1>5 DEF ReadAppset
<1>6. CASE StopAppset
  BY <1>0, <1>6 DEF StopAppset
<1>7. CASE Rollout
  BY <1>0, <1>7 DEF Rollout
<1>8. CASE SavePolicy
  BY <1>0, <1>8 DEF SavePolicy
<1>9. CASE RemovePolicy
  BY <1>0, <1>9 DEF RemovePolicy
<1>10. CASE RemoveMissingPolicy
  <2>1. Exit("aborted") /\ "aborted" \in Results
    BY <1>10 DEF RemoveMissingPolicy
  <2>2. UNCHANGED cluster /\ fails' \in 0..MaxFail /\ ledger' \in Seq(Entry) /\ UNCHANGED <<asFile, polFile>>
    BY <1>0, <1>10 DEF RemoveMissingPolicy
  <2> QED
    BY <1>0, <2>1, <2>2, ExitType
<1>11. CASE SuspendCron
  BY <1>0, <1>c, <1>11 DEF SuspendCron, Advance
<1>12. CASE GetReplicas
  BY <1>0, <1>c, <1>12 DEF GetReplicas
<1>13. CASE Record
  <2>1. spec' \in [Workloads -> Nat] /\ ledger' \in Seq(Entry)
    BY <1>0, <1>c, <1>13 DEF Record, Entry
  <2>2. left' \in BOOLEAN
    BY <1>0, <1>c, <1>13, Zenon DEF Record, NextWorkload
  <2>3. /\ at' \in Nat /\ polls' \in 0..MaxPoll /\ pc' \in DownPCs
        /\ UNCHANGED <<alive, suspended, job, appset, ctl, policy, asFile, polFile, r, result, fails>>
    <3>1. CASE UNCHANGED <<at, left, polls>>
      BY <1>0, <1>c, <1>13, <3>1 DEF Record, NextWorkload, Advance
    <3>2. CASE NextWorkload
      BY <1>0, <1>c, <1>13, <3>2 DEF Record, NextWorkload, Advance
    <3> QED
      BY <1>13, <3>1, <3>2 DEF Record
  <2> QED
    BY <1>0, <2>1, <2>2, <2>3
<1>14. CASE ScaleToZero
  <2>1. spec' \in [Workloads -> Nat] /\ ledger' \in Seq(Entry)
    BY <1>0, <1>c, <1>14 DEF ScaleToZero, Entry
  <2>2. left' \in BOOLEAN
    BY <1>0, <1>c, <1>14, Zenon DEF ScaleToZero, NextWorkload
  <2>3. /\ at' \in Nat /\ polls' \in 0..MaxPoll /\ pc' \in DownPCs
        /\ UNCHANGED <<alive, suspended, job, appset, ctl, policy, asFile, polFile, r, result, fails>>
    <3>1. CASE UNCHANGED <<at, left, polls>>
      BY <1>0, <1>c, <1>14, <3>1 DEF ScaleToZero, NextWorkload, Advance
    <3>2. CASE NextWorkload
      BY <1>0, <1>c, <1>14, <3>2 DEF ScaleToZero, NextWorkload, Advance
    <3> QED
      BY <1>14, <3>1, <3>2 DEF ScaleToZero
  <2> QED
    BY <1>0, <2>1, <2>2, <2>3
<1>15. CASE Scan
  <2>1. PICK seen \in BOOLEAN : Scan!2!(seen)
    BY <1>15 DEF Scan
  <2>2. UNCHANGED <<cluster, state>> /\ fails' \in 0..MaxFail
    BY <1>0, <1>c, <1>15, <2>1 DEF Scan
  <2>3. CASE pc' = "idle"
    <3>1. Exit("down") /\ "down" \in Results
      BY <1>0, <1>c, <1>15, <2>1, <2>3 DEF Scan
    <3> QED
      BY <1>0, <2>2, <3>1, ExitType
  <2>4. CASE pc' # "idle"
    <3>0. at' \in Nat /\ UNCHANGED <<pc, r, result>>
      BY <1>0, <1>c, <1>15, <2>1, <2>4 DEF Scan, Exit
    <3>1. polls' \in 0..MaxPoll
      BY <1>0, <1>c, <1>15, <2>1, <2>4 DEF Scan, Exit
    <3>2. left' \in BOOLEAN
      BY <1>0, <1>c, <1>15, <2>1, <2>4, Zenon DEF Scan, Exit
    <3> QED
      BY <1>0, <2>2, <3>0, <3>1, <3>2
  <2> QED
    BY <2>3, <2>4
<1>16. CASE RestoreWorkload
  <2>1. spec' \in [Workloads -> Nat] /\ at' \in Nat
    <3>1. ledger[at].r = Orig[at] /\ ledger[at].w = at /\ at \in Workloads
      BY <1>0, <1>c, <1>16 DEF RestoreWorkload
    <3>2. spec' = spec \/ spec' = [spec EXCEPT ![at] = Orig[at]]
      BY <1>16, <3>1 DEF RestoreWorkload
    <3>3. Orig[at] \in Nat
      BY <3>1
    <3>4. spec' \in [Workloads -> Nat]
      BY <1>0, <3>2, <3>3
    <3>5. at' = (IF at > 1 THEN at - 1 ELSE 1)
      BY <1>16 DEF RestoreWorkload
    <3> QED
      BY <3>1, <3>4, <3>5
  <2>2. /\ pc' \in UpPCs
        /\ UNCHANGED <<alive, suspended, job, appset, ctl, policy, state, r, left, polls, result, fails>>
    BY <1>16 DEF RestoreWorkload
  <2> QED
    BY <1>0, <2>1, <2>2
<1>17. CASE ResumeCron
  BY <1>0, <1>c, <1>17 DEF ResumeCron, Advance
<1>18. CASE AddPolicy
  BY <1>0, <1>18 DEF AddPolicy
<1>19. CASE StartAppset
  BY <1>0, <1>19 DEF StartAppset
<1>20. CASE Archive
  <2>1. Exit("up") /\ "up" \in Results
    BY <1>20 DEF Archive
  <2>2. UNCHANGED cluster /\ fails' \in 0..MaxFail /\ ledger' \in Seq(Entry) /\ UNCHANGED <<asFile, polFile>>
    BY <1>0, <1>20 DEF Archive
  <2> QED
    BY <1>0, <2>1, <2>2, ExitType
<1>21. CASE Abort
  <2>1. Exit("aborted") /\ "aborted" \in Results
    BY <1>21 DEF Abort
  <2>2. UNCHANGED cluster /\ fails' \in 0..MaxFail /\ ledger' \in Seq(Entry) /\ UNCHANGED asFile
    BY <1>0, <1>21 DEF Abort
  <2>3. polFile' \in {NoFile, "auto", "bare", "blank"}
    BY <1>0, <1>21 DEF Abort
  <2> QED
    BY <1>0, <2>1, <2>2, <2>3, ExitType
<1>22. CASE ControllerExits
  <2>1. ctl' \in BOOLEAN
    BY <1>22, Zenon DEF ControllerExits
  <2>2. UNCHANGED <<spec, alive, suspended, job, appset, policy, state, pc, local, result, fails>>
    BY <1>22 DEF ControllerExits
  <2> QED
    BY <1>0, <2>1, <2>2
<1>23. CASE ControllerStarts
  BY <1>0, <1>23 DEF ControllerStarts
<1>24. CASE AppsetReconcile
  BY <1>0, <1>24 DEF AppsetReconcile
<1>25. CASE OperatorReconcile
  BY <1>0, <1>25 DEF OperatorReconcile
<1>26. CASE \E w \in SelfHealed : SelfHeal(w)
  BY <1>0, <1>26 DEF SelfHeal
<1>27. CASE \E w \in Workloads : PodStarts(w) \/ PodExits(w)
  <2>1. alive' \in [Workloads -> BOOLEAN]
    BY <1>0, <1>27, Zenon DEF PodStarts, PodExits
  <2>2. UNCHANGED <<spec, suspended, job, appset, ctl, policy, state, pc, local, result, fails>>
    BY <1>27 DEF PodStarts, PodExits
  <2> QED
    BY <1>0, <2>1, <2>2
<1>28. CASE \E c \in Crons : JobStarts(c) \/ JobEnds(c)
  <2>1. job' \in [Crons -> BOOLEAN]
    <3>1. PICK c \in Crons : JobStarts(c) \/ JobEnds(c)
      BY <1>28
    <3>2. job' = [job EXCEPT ![c] = TRUE] \/ job' = [job EXCEPT ![c] = FALSE]
      BY <3>1 DEF JobStarts, JobEnds
    <3> QED
      BY <1>0, <3>2, Zenon
  <2>2. UNCHANGED <<spec, alive, suspended, appset, ctl, policy, state, pc, local, result, fails>>
    BY <1>28 DEF JobStarts, JobEnds
  <2> QED
    BY <1>0, <2>1, <2>2
<1>29. CASE UNCHANGED vars
  BY <1>0, <1>29 DEF vars
<1> QED
  BY <1>1, <1>2, <1>3, <1>4, <1>5, <1>6, <1>7, <1>8, <1>9, <1>10, <1>11, <1>12, <1>13, <1>14, <1>15, <1>16, <1>17, <1>18, <1>19, <1>20, <1>21, <1>22, <1>23, <1>24, <1>25, <1>26, <1>27, <1>28, <1>29 DEF Next, Run, Script, DownStep, UpStep, Controllers

LEMMA AbortInv == IInv /\ Abort => Rest'
<1> SUFFICES ASSUME IInv, Abort PROVE Rest'
  OBVIOUS
<1>1. UNCHANGED <<cluster, ledger, asFile>> /\ pc' = "idle" /\ result' = "aborted"
  BY DEF Abort, Exit
<1>2. IInv /\ (ledger # <<>> => polFile' = polFile)
  BY DEF IInv, DownPos, Abort
<1> QED
  BY <1>1, <1>2
     DEF IInv, Rest, LedgerShape, Covered, Undisturbed, Restored, DownInOrder, DownPos, UpPos, Below,
         HeldDown, Holding, RestoredAfterUp, cluster, state, UpPCs

LEMMA StepInv == IInv /\ [Next]_vars => IInv'
<1> SUFFICES ASSUME IInv, [Next]_vars PROVE IInv'
  OBVIOUS
<1>1. TypeOK'
  BY TypeStep
<1>2. Run => Rest'
  BY RunInv
<1>3. DownStep => Rest'
  BY DownStepInv
<1>4. UpStep => Rest'
  BY UpStepInv
<1>5. Abort => Rest'
  BY AbortInv
<1>6. Controllers => Rest'
  BY ControllersInv
<1>7. UNCHANGED vars => Rest'
  BY DEF vars, cluster, state, local, IInv, Rest, LedgerShape, Covered, Undisturbed, Restored,
              DownInOrder, DownPos, UpPos, Below, HeldDown, Holding, RestoredAfterUp
<1>8. Rest'
  BY <1>2, <1>3, <1>4, <1>5, <1>6, <1>7 DEF Next, Script
<1> QED
  BY <1>1, <1>8 DEF IInv, Rest

\* The invariant the other theorems are read off from.
THEOREM Invariant == Spec => []IInv
  BY InitInv, StepInv, PTL DEF Spec

\* The variables stay in their types, for any lists and any number of failures.
THEOREM TypeCorrect == Spec => []TypeOK
<1>1. IInv => TypeOK
  BY DEF IInv
<1> QED
  BY <1>1, Invariant, PTL

\* A workload that is not at its original size has that size in the ledger
\* (scale-down.sh:37-40).
THEOREM WriteAheadSafe == Spec => []WriteAhead
<1>1. IInv => WriteAhead
  <2> SUFFICES ASSUME IInv, NEW w \in Workloads, spec[w] # Orig[w]
               PROVE  \E k \in DOMAIN ledger : ledger[k] = [w |-> w, r |-> Orig[w]]
    BY DEF WriteAhead
  <2>1. ledger \in Seq(Entry) /\ w \in 1..Len(ledger)
    BY SizesAssumption DEF IInv, TypeOK, Covered, Workloads
  <2>2. ledger[w] = [w |-> w, r |-> Orig[w]] /\ w \in DOMAIN ledger
    BY <2>1 DEF IInv, LedgerShape
  <2> QED
    BY <2>2
<1> QED
  BY <1>1, Invariant, PTL

\* Every line of the ledger holds an original size (scale-up.sh:9-29).
THEOREM LedgerIsFaithful == Spec => []LedgerFaithful
<1>1. IInv => LedgerFaithful
  <2> SUFFICES ASSUME IInv, NEW k \in DOMAIN ledger
               PROVE  ledger[k].r = Orig[ledger[k].w]
    BY DEF LedgerFaithful
  <2>1. ledger \in Seq(Entry)
    BY DEF IInv, TypeOK
  <2>2. k \in 1..Len(ledger)
    BY <2>1
  <2>3. ledger[k] = [w |-> k, r |-> Orig[k]]
    BY <2>2 DEF IInv, LedgerShape
  <2> QED
    BY <2>3
<1> QED
  BY <1>1, Invariant, PTL

\* While the cluster is held down no controller brings a workload back, the
\* operator's StatefulSet apart (scale-down.sh:14-26).
THEOREM HeldDownSafe == Spec => []HeldDown
<1>1. IInv => HeldDown
  BY DEF IInv
<1> QED
  BY <1>1, Invariant, PTL

\* Workloads are down from the top of workloads.txt (workloads.txt:3, scale-up.sh:9).
THEOREM InOrder == Spec => []DownInOrder
<1>1. IInv => DownInOrder
  BY DEF IInv
<1> QED
  BY <1>1, Invariant, PTL

\* A scale-up.sh that ends well has restored every workload, CronJob and the sync
\* policy, whatever failed before.
THEOREM RestoresAll == Spec => []RestoredAfterUp
<1>1. IInv => RestoredAfterUp
  BY DEF IInv
<1> QED
  BY <1>1, Invariant, PTL

\* No pod of a scaled-down workload and no Job starts before scale-up.sh runs
\* (scale-down.sh:2).
THEOREM NothingStarts == Spec => NothingStartsWhileHeld
<1> DEFINE Quiet == /\ \A w \in Workloads \ {Owned} : alive'[w] => alive[w]
                    /\ \A c \in Crons : job'[c] => job[c]
<1>1. IInv /\ [Next]_vars => [Holding => Quiet]_vars
  <2> SUFFICES ASSUME IInv, Next, Holding PROVE Quiet
    OBVIOUS
  <2>1. /\ \A w \in Workloads \ {Owned} : spec[w] = 0
        /\ \A c \in Crons : suspended[c]
        /\ alive \in [Workloads -> BOOLEAN] /\ job \in [Crons -> BOOLEAN]
    BY DEF IInv, TypeOK, HeldDown, DownPos
  <2> HIDE DEF IInv
  <2>2. UNCHANGED <<alive, job>> => Quiet
    OBVIOUS
  <2>3. ASSUME NEW v \in Workloads, PodStarts(v) PROVE Quiet
    <3>1. v = Owned /\ alive' = [alive EXCEPT ![v] = TRUE] /\ UNCHANGED job
      BY <2>1, <2>3 DEF PodStarts
    <3> QED
      BY <2>1, <3>1
  <2>4. ASSUME NEW v \in Workloads, PodExits(v) PROVE Quiet
    <3>1. alive' = [alive EXCEPT ![v] = FALSE] /\ UNCHANGED job
      BY <2>4 DEF PodExits
    <3> QED
      BY <2>1, <3>1
  <2>5. ASSUME NEW d \in Crons, JobStarts(d) PROVE Quiet
    BY <2>1, <2>5 DEF JobStarts
  <2>6. ASSUME NEW d \in Crons, JobEnds(d) PROVE Quiet
    <3>1. job' = [job EXCEPT ![d] = FALSE] /\ UNCHANGED alive
      BY <2>6 DEF JobEnds
    <3> QED
      BY <2>1, <3>1
  <2>7. Run \/ Abort => UNCHANGED <<alive, job>>
    BY DEF Run, Abort, DownRefused, DownStart, UpRefused, UpStart, cluster
  <2>8. DownStep => UNCHANGED <<alive, job>>
    BY DEF DownStep, ReadAppset, StopAppset, Rollout, SavePolicy, RemovePolicy, RemoveMissingPolicy,
           SuspendCron, GetReplicas, Record, ScaleToZero, Scan, cluster
  <2>9. UpStep => UNCHANGED <<alive, job>>
    BY DEF UpStep, RestoreWorkload, ResumeCron, AddPolicy, StartAppset, Archive, cluster
  <2>10. ASSUME Controllers PROVE Quiet
    BY <2>2, <2>3, <2>4, <2>5, <2>6, <2>10
       DEF Controllers, ControllerExits, ControllerStarts, AppsetReconcile, OperatorReconcile, SelfHeal
  <2> QED
    BY <2>2, <2>7, <2>8, <2>9, <2>10 DEF Next, Script
<1> QED
  BY <1>1, Invariant, PTL DEF Spec, NothingStartsWhileHeld

\* What was saved before the first line of the ledger is not overwritten while the
\* ledger has lines (scale-down.sh:9).
THEOREM SavedIsKept == Spec => SavedKept
<1> DEFINE Kept == asFile' = asFile /\ polFile' = polFile
<1>1. IInv /\ [Next]_vars => [ledger # <<>> => Kept]_vars
  <2> SUFFICES ASSUME IInv, Next, ledger # <<>> PROVE Kept
    OBVIOUS
  <2>1. pc \notin {"readAppset", "savePolicy"}
    BY DEF IInv, DownPos
  <2> HIDE DEF IInv
  <2>2. Run => Kept
    BY DEF Run, DownRefused, DownStart, UpRefused, UpStart, state
  <2>3. DownStep => Kept
    BY <2>1 DEF DownStep, ReadAppset, StopAppset, Rollout, SavePolicy, RemovePolicy, RemoveMissingPolicy,
                SuspendCron, GetReplicas, Record, ScaleToZero, Scan, state
  <2>4. UpStep => Kept
    BY DEF UpStep, RestoreWorkload, ResumeCron, AddPolicy, StartAppset, Archive, state
  <2>5. Abort => Kept
    BY <2>1 DEF Abort
  <2>6. Controllers => Kept
    BY DEF Controllers, ControllerExits, ControllerStarts, AppsetReconcile, OperatorReconcile, SelfHeal,
           PodStarts, PodExits, JobStarts, JobEnds, state
  <2> QED
    BY <2>2, <2>3, <2>4, <2>5, <2>6 DEF Next, Script
<1> QED
  BY <1>1, Invariant, PTL DEF Spec, SavedKept

------------------------------------------------------------------------------
(* The refinement. *)

Log == {ledger[k] : k \in DOMAIN ledger}

\* A ledger that is a prefix of workloads.txt, seen as the set of its lines.
LEMMA PrefixSet ==
    ASSUME NEW s \in Seq(Entry), \A k \in 1..Len(s) : s[k] = [w |-> k, r |-> Orig[k]]
    PROVE  {s[k] : k \in DOMAIN s} = {[w |-> k, r |-> Orig[k]] : k \in 1..Len(s)}
<1>1. DOMAIN s = 1..Len(s)
  OBVIOUS
<1> QED
  BY <1>1

LEMMA RecordLogs == ASSUME IInv, IInv', Record PROVE \E i \in Workloads : WAL!LogItem(i)
<1>1. /\ at \in Workloads /\ Len(ledger) = at - 1 /\ r = Orig[at] /\ spec[at] = Orig[at]
      /\ Len(ledger') = at
  <2>1. at \in Workloads /\ Len(ledger) = at - 1 /\ r = Orig[at]
    BY DEF IInv, DownPos, Record
  <2>2. spec[at] = Orig[at]
    BY <2>1 DEF IInv, Covered, Workloads
  <2>3. ledger \in Seq(Entry) /\ [w |-> at, r |-> r] \in Entry
    BY <2>1, OrigAssumption DEF IInv, TypeOK, Entry
  <2>4. Len(ledger') = Len(ledger) + 1
    BY <2>3, AppendLine DEF Record
  <2> QED
    BY <2>1, <2>2, <2>4 DEF Workloads
<1>2. Log = {[w |-> k, r |-> Orig[k]] : k \in 1..(at - 1)}
  BY <1>1, PrefixSet DEF Log, IInv, TypeOK, LedgerShape
<1>3. Log' = {[w |-> k, r |-> Orig[k]] : k \in 1..at}
  BY <1>1, PrefixSet DEF Log, IInv, TypeOK, LedgerShape
<1>4. UNCHANGED spec
  BY DEF Record, cluster
<1>5. Log' = Log \cup {[w |-> at, r |-> spec[at]]}
  BY <1>1, <1>2, <1>3 DEF Workloads
<1>6. \A e \in Log : e.w # at
  BY <1>1, <1>2 DEF Workloads
<1> QED
  BY <1>1, <1>4, <1>5, <1>6 DEF WAL!LogItem, Log

LEMMA ZeroTakesDown == ASSUME IInv, ScaleToZero PROVE WAL!TakeDown(at)
<1>1. at \in Workloads /\ at = Len(ledger) /\ ledger \in Seq(Entry)
  BY DEF IInv, TypeOK, DownPos, ScaleToZero
<1>2. at \in DOMAIN ledger /\ ledger[at].w = at
  <2>1. at \in 1..Len(ledger) /\ at \in DOMAIN ledger
    BY <1>1, SizesAssumption DEF Workloads
  <2>2. ledger[at] = [w |-> at, r |-> Orig[at]]
    BY <2>1 DEF IInv, LedgerShape
  <2> QED
    BY <2>1, <2>2
<1>3. spec' = [spec EXCEPT ![at] = 0] /\ UNCHANGED ledger
  BY DEF ScaleToZero, state
<1> QED
  BY <1>2, <1>3 DEF WAL!TakeDown

\* Putting a workload of the ledger back to its original size.
LEMMA PutBackLine ==
    ASSUME IInv, NEW v \in 1..Len(ledger), spec' = [spec EXCEPT ![v] = Orig[v]], UNCHANGED ledger
    PROVE  WAL!PutBack(v)
<1>1. ledger \in Seq(Entry) /\ ledger[v] = [w |-> v, r |-> Orig[v]]
  BY DEF IInv, TypeOK, LedgerShape
<1>2. v \in DOMAIN ledger /\ ledger[v].w = v /\ ledger[v].r = Orig[v]
  BY <1>1
<1> QED
  BY <1>2 DEF WAL!PutBack

LEMMA RestorePutsBack == ASSUME IInv, RestoreWorkload PROVE at \in Workloads /\ WAL!PutBack(at)
<1>1. at \in 1..Len(ledger) /\ at \in Workloads
  BY SizesAssumption DEF IInv, TypeOK, UpPos, RestoreWorkload, LedgerShape, Workloads
<1>2. ledger[at].w = at /\ ledger[at].r = Orig[at]
  <2>1. ledger[at] = [w |-> at, r |-> Orig[at]]
    BY <1>1 DEF IInv, LedgerShape
  <2> QED
    BY <2>1
<1>3. Orig[at] = 0 => spec[at] = 0
  BY <1>1 DEF IInv, Covered
<1>4. spec \in [Workloads -> Nat]
  BY DEF IInv, TypeOK
<1>5. spec' = [spec EXCEPT ![at] = Orig[at]]
  <2>1. CASE Orig[at] = 0
    BY <1>1, <1>2, <1>3, <1>4, <2>1 DEF RestoreWorkload
  <2>2. CASE Orig[at] # 0
    BY <1>2, <2>2 DEF RestoreWorkload
  <2> QED
    BY <2>1, <2>2
<1>6. UNCHANGED ledger
  BY DEF RestoreWorkload, state
<1> QED
  BY <1>1, <1>5, <1>6, PutBackLine

LEMMA ArchiveForgets == ASSUME IInv, Archive PROVE WAL!Forget
<1>1. /\ ledger \in Seq(Entry) /\ ledger' = <<>> /\ UNCHANGED spec
      /\ \A k \in 1..Len(ledger) : ledger[k] = [w |-> k, r |-> Orig[k]] /\ k \in Workloads
      /\ Restored
  BY SizesAssumption DEF IInv, TypeOK, LedgerShape, UpPos, Archive, cluster, Workloads
<1>2. \A k \in DOMAIN ledger : spec[ledger[k].w] = ledger[k].r
  <2> SUFFICES ASSUME NEW k \in DOMAIN ledger PROVE spec[ledger[k].w] = ledger[k].r
    OBVIOUS
  <2>1. k \in 1..Len(ledger)
    BY <1>1
  <2>2. ledger[k] = [w |-> k, r |-> Orig[k]] /\ spec[k] = Orig[k]
    BY <1>1, <2>1 DEF Restored
  <2> QED
    BY <2>2
<1>3. {ledger'[k] : k \in DOMAIN ledger'} = {}
  BY <1>1
<1> QED
  BY <1>1, <1>2, <1>3 DEF WAL!Forget

\* prometheus-operator's write is a replay of the line of its StatefulSet, or
\* changes nothing.
LEMMA OperatorPutsBack == ASSUME IInv, OperatorReconcile PROVE WAL!PutBack(Owned) \/ UNCHANGED <<spec, ledger>>
<1>1. Owned \in Workloads /\ spec \in [Workloads -> Nat] /\ Len(ledger) \in Nat
  BY OrderAssumption DEF IInv, TypeOK
<1>2. spec' = [spec EXCEPT ![Owned] = Orig[Owned]] /\ UNCHANGED ledger
  BY DEF OperatorReconcile, state
<1>3. CASE spec[Owned] = Orig[Owned]
  BY <1>1, <1>2, <1>3
<1>4. CASE spec[Owned] # Orig[Owned]
  <2>1. Owned \in 1..Len(ledger)
    BY <1>1, <1>4 DEF IInv, Covered, Workloads
  <2> QED
    BY <1>2, <2>1, PutBackLine
<1> QED
  BY <1>3, <1>4

\* selfHeal only ever runs on a cluster nothing is missing from.
LEMMA SelfHealStutters == ASSUME IInv, NEW w \in SelfHealed, SelfHeal(w) PROVE UNCHANGED <<spec, ledger>>
<1>1. spec' = [spec EXCEPT ![w] = Orig[w]] /\ UNCHANGED ledger
  BY DEF SelfHeal, state
<1>2. w \in Workloads /\ spec \in [Workloads -> Nat] /\ spec[w] = Orig[w]
  BY OrderAssumption DEF IInv, TypeOK, Undisturbed, Restored, SelfHeal
<1> QED
  BY <1>1, <1>2

\* The two scripts, in whatever way they fail, implement the write-ahead log.
THEOREM RefinesLog == Spec => ImplementsLog
<1>1. Init => WAL!LogInit
  BY DEF Init, WAL!LogInit
<1>2. IInv /\ IInv' /\ [Next]_vars => [WAL!LogNext]_<<spec, Log>>
  <2> SUFFICES ASSUME IInv, IInv', [Next]_vars
               PROVE  WAL!LogNext \/ UNCHANGED <<spec, ledger>>
    BY DEF Log
  <2>1. Record => WAL!LogNext
    BY RecordLogs DEF WAL!LogNext
  <2>2. ScaleToZero => WAL!LogNext
    BY ZeroTakesDown DEF WAL!LogNext, IInv, DownPos, ScaleToZero
  <2>3. RestoreWorkload => WAL!LogNext
    BY RestorePutsBack DEF WAL!LogNext
  <2>4. Archive => WAL!LogNext
    BY ArchiveForgets DEF WAL!LogNext
  <2>5. OperatorReconcile => WAL!LogNext \/ UNCHANGED <<spec, ledger>>
    BY OperatorPutsBack, OrderAssumption DEF WAL!LogNext
  <2>6. \A w \in SelfHealed : SelfHeal(w) => UNCHANGED <<spec, ledger>>
    BY SelfHealStutters
  <2>7. Run \/ Abort => UNCHANGED <<spec, ledger>>
    BY DEF Run, Abort, DownRefused, DownStart, UpRefused, UpStart, cluster, state
  <2>8. DownStep => Record \/ ScaleToZero \/ UNCHANGED <<spec, ledger>>
    BY DEF DownStep, ReadAppset, StopAppset, Rollout, SavePolicy, RemovePolicy, RemoveMissingPolicy,
           SuspendCron, GetReplicas, Scan, cluster, state
  <2>9. UpStep => RestoreWorkload \/ Archive \/ UNCHANGED <<spec, ledger>>
    BY DEF UpStep, ResumeCron, AddPolicy, StartAppset, cluster, state
  <2>10. Controllers => \/ OperatorReconcile \/ \E w \in SelfHealed : SelfHeal(w)
                        \/ UNCHANGED <<spec, ledger>>
    BY DEF Controllers, ControllerExits, ControllerStarts, AppsetReconcile, PodStarts, PodExits,
           JobStarts, JobEnds, state
  <2>11. UNCHANGED vars => UNCHANGED <<spec, ledger>>
    BY DEF vars, cluster, state
  <2> QED
    BY <2>1, <2>2, <2>3, <2>4, <2>5, <2>6, <2>7, <2>8, <2>9, <2>10, <2>11 DEF Next, Script
<1> QED
  BY <1>1, <1>2, Invariant, PTL DEF Spec, ImplementsLog, WAL!LogSpec, WAL!logVars, Log
====
