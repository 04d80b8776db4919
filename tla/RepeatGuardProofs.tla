-------------------------- MODULE RepeatGuardProofs --------------------------
(***************************************************************************)
(* How fix_tool_messages.py is proved, in four parts.                      *)
(*                                                                         *)
(* RepeatGuard: RowBounded for every threshold, every model and every      *)
(* length of session.  The count the guard makes (Run) is related to what  *)
(* the agent executed (row): while no answer with several calls is         *)
(* involved, the agent has never executed more than the guard can see.     *)
(*                                                                         *)
(* Recursive functions: what Count and FlattenSeq compute for every list   *)
(* of messages.  Induction here is over a set of numbers (Induct) or of    *)
(* lists (InductMessages), both from the well-foundedness of finite sets.  *)
(* A fact that a lemma needs of a function has a name of its own (Steps,   *)
(* Follows, Walks, ...), by which the provers find the instance.           *)
(*                                                                         *)
(* ToolProxy: the hook's walk over the repaired history counts what Run    *)
(* counts since the last user message (CountsAgree), so that the proxy     *)
(* implements the guard, and what is counted was executed (Earned).        *)
(*                                                                         *)
(* ToolExtract: at every step the scanner knows of the object it is in     *)
(* what the definition of a balanced object says of its text, however the  *)
(* text goes on (At), so that an object it closes is balanced; and of a    *)
(* bare text with plain prose it has found the objects that end before it  *)
(* and is inside of one exactly where one is (InBare).  What Outside and   *)
(* TagMatches compute is proved from the end of the text backwards         *)
(* (BackInduct).                                                           *)
(***************************************************************************)
EXTENDS RepeatGuard, ToolProxy, ToolExtract, FiniteSetTheorems, TLAPS

LEMMA AppendMessage ==
    ASSUME NEW T, NEW h \in Seq(T), NEW m \in T
    PROVE  /\ Append(h, m) \in Seq(T)
           /\ Len(Append(h, m)) = Len(h) + 1 /\ Len(h) \in Nat
           /\ \A i \in 1..Len(h) : Append(h, m)[i] = h[i]
           /\ Append(h, m)[Len(h) + 1] = m
  OBVIOUS

\* The guard's count is a number.
LEMMA RunFinite ==
    ASSUME NEW T, NEW h \in Seq(T), NEW s
    PROVE  IsFiniteSet(Run(h, s)) /\ Cardinality(Run(h, s)) \in Nat
<1>1. IsFiniteSet(1..Len(h))
  BY FS_Interval
<1>2. IsFiniteSet(Run(h, s))
  BY <1>1, FS_Subset DEF Run
<1> QED
  BY <1>2, FS_CardinalityType

LEMMA RunEmpty == ASSUME NEW s PROVE Cardinality(Run(<<>>, s)) = 0
<1>1. Run(<<>>, s) = {}
  BY DEF Run
<1> QED
  BY <1>1, FS_EmptySet

\* A tool result is skipped by the walk back (line 219).
LEMMA RunTool ==
    ASSUME NEW T, NEW h \in Seq(T), NEW m \in T, NEW s, m.role = "tool"
    PROVE  Run(Append(h, m), s) = Run(h, s)
<1> DEFINE g == Append(h, m)
<1>1. /\ Len(g) = Len(h) + 1 /\ Len(h) \in Nat
      /\ \A i \in 1..Len(h) : g[i] = h[i]
      /\ g[Len(h) + 1].role = "tool"
  BY AppendMessage
<1>2. ~Matches(g[Len(h) + 1], s)
  BY <1>1 DEF Matches
<1> HIDE DEF g
<1> QED
  BY <1>1, <1>2 DEF Run, g

\* The same call again is counted once more (line 238).
LEMMA RunSame ==
    ASSUME NEW T, NEW h \in Seq(T), NEW m \in T, NEW s, Matches(m, s)
    PROVE  Cardinality(Run(Append(h, m), s)) = Cardinality(Run(h, s)) + 1
<1> DEFINE g == Append(h, m)
<1>1. /\ Len(g) = Len(h) + 1 /\ Len(h) \in Nat
      /\ \A i \in 1..Len(h) : g[i] = h[i]
      /\ Matches(g[Len(h) + 1], s)
  BY AppendMessage
<1> HIDE DEF g
<1>2. Run(g, s) = Run(h, s) \cup {Len(h) + 1}
  BY <1>1 DEF Run
<1>3. Len(h) + 1 \notin Run(h, s)
  BY <1>1 DEF Run
<1> QED
  BY <1>2, <1>3, RunFinite, FS_AddElement DEF g

\* Any other turn ends the run (lines 221-237).
LEMMA RunOther ==
    ASSUME NEW T, NEW h \in Seq(T), NEW m \in T, NEW s, m.role # "tool", ~Matches(m, s)
    PROVE  Cardinality(Run(Append(h, m), s)) = 0
<1> DEFINE g == Append(h, m)
<1>1. /\ Len(g) = Len(h) + 1 /\ Len(h) \in Nat
      /\ g[Len(h) + 1] = m
  BY AppendMessage
<1> HIDE DEF g
<1>2. Run(g, s) = {}
  BY <1>1 DEF Run
<1> QED
  BY <1>2, FS_EmptySet DEF g

------------------------------------------------------------------------------
Seen(s) == Cardinality(Run(tail, s))

Counted == Threshold > 0 => \A s \in Sigs : Seen(s) <= Threshold

Executed ==
    ~par =>
      /\ todo # <<>> =>
           /\ Len(todo) = 1
           /\ row # <<>> => row[1] = Sig[todo[1]]
           /\ Len(row) + 1 <= Seen(Sig[todo[1]])
      /\ todo = <<>> /\ row # <<>> => Len(row) <= Seen(row[1])

IInv == GuardTypeOK /\ Counted /\ Executed /\ RowBounded

\* A session in which nothing was executed since the last text or user message.
LEMMA FreshInv ==
    ASSUME tail \in Seq(Messages), \A s \in Sigs : Seen(s) = 0, todo = <<>>, row = <<>>, par = FALSE
    PROVE  IInv
<1>1. par \in BOOLEAN
  BY Zenon
<1>2. todo \in Seq(Calls) /\ row \in Seq(Sigs) /\ Len(row) = 0
  OBVIOUS
<1>3. Counted /\ RowBounded
  BY <1>2, AgentAssumption DEF Counted, RowBounded
<1>4. Executed
  BY DEF Executed
<1> QED
  BY <1>1, <1>2, <1>3, <1>4 DEF IInv, GuardTypeOK

LEMMA InitInv == GuardInit => IInv
<1> SUFFICES ASSUME GuardInit PROVE IInv
  OBVIOUS
<1>1. tail = <<>> /\ todo = <<>> /\ row = <<>> /\ par = FALSE
  BY DEF GuardInit, Rest
<1>2. \A s \in Sigs : Seen(s) = 0
  BY <1>1, RunEmpty DEF Seen
<1>3. tail \in Seq(Messages)
  BY <1>1
<1> QED
  BY <1>1, <1>2, <1>3, FreshInv

LEMMA FreshInvNext ==
    ASSUME tail' \in Seq(Messages), \A s \in Sigs : Seen(s)' = 0, todo' = <<>>, row' = <<>>, par' = FALSE
    PROVE  IInv'
<1>1. par' \in BOOLEAN
  BY Zenon
<1>2. todo' \in Seq(Calls) /\ row' \in Seq(Sigs) /\ Len(row') = 0
  OBVIOUS
<1>3. Counted' /\ RowBounded'
  BY <1>2, AgentAssumption DEF Counted, RowBounded
<1>4. Executed'
  BY DEF Executed
<1> QED
  BY <1>1, <1>2, <1>3, <1>4 DEF IInv, GuardTypeOK

LEMMA UserMessageInv == ASSUME IInv, UserMessage PROVE IInv'
<1>1. tail' = <<>> /\ row' = <<>> /\ par' = FALSE /\ todo' = <<>>
  BY DEF UserMessage, Interject
<1>2. \A s \in Sigs : Seen(s)' = 0
  BY <1>1, RunEmpty DEF Seen
<1>3. tail' \in Seq(Messages)
  BY <1>1
<1> QED
  BY <1>1, <1>2, <1>3, FreshInvNext

LEMMA TextTurnInv == ASSUME IInv, TextTurn PROVE IInv'
<1>1. Assistant(<<>>) \in Messages /\ Assistant(<<>>).role # "tool" /\ tail \in Seq(Messages)
  BY DEF Assistant, Messages, IInv, GuardTypeOK
<1>2. tail' = Append(tail, Assistant(<<>>)) /\ row' = <<>> /\ par' = FALSE /\ todo' = <<>>
  <2>1. tail' = Append(tail, Assistant(<<>>)) /\ row' = <<>> /\ todo' = <<>>
    BY DEF TextTurn, Receive
  <2>2. par' = (Len(<<>>) > 1 \/ (par /\ row' # <<>>))
    BY DEF TextTurn, Receive
  <2>3. ~(Len(<<>>) > 1)
    OBVIOUS
  <2>4. par' = FALSE
    BY <2>1, <2>2, <2>3, Zenon
  <2> QED
    BY <2>1, <2>4
<1>3. tail' \in Seq(Messages)
  BY <1>1, <1>2, AppendMessage
<1>4. \A s \in Sigs : ~Matches(Assistant(<<>>), s)
  BY DEF Matches, Assistant
<1>5. \A s \in Sigs : Seen(s)' = 0
  BY <1>1, <1>2, <1>4, RunOther DEF Seen
<1> QED
  BY <1>2, <1>3, <1>5, FreshInvNext

LEMMA OneLeft == ASSUME NEW n \in Nat, n >= 1, ~(n > 1) PROVE n = 1
  OBVIOUS

LEMMA CallTurnInv == ASSUME IInv, NEW cs \in Turns, CallTurn(cs) PROVE IInv'
<1> DEFINE c == Sig[cs[1]]
           m == Assistant(cs)
<1>1. /\ cs \in Seq(Calls) /\ cs # <<>> /\ cs[1] \in Calls /\ c \in Sigs
      /\ Len(cs) \in Nat /\ Len(cs) >= 1
  BY GuardAssumption, AgentAssumption DEF CallTurn
<1>2. /\ m \in Messages /\ m.role = "assistant" /\ m.role # "tool" /\ m.calls = cs /\ tail \in Seq(Messages)
  BY <1>1 DEF Assistant, Messages, IInv, GuardTypeOK
<1>3. /\ tail' = Append(tail, m) /\ todo' = cs /\ ~Blocks(tail, cs) /\ todo = <<>>
      /\ row' = IF row # <<>> /\ row[1] = c THEN row ELSE <<>>
      /\ par' = (Len(cs) > 1 \/ (par /\ row' # <<>>))
  BY DEF CallTurn, Receive
<1>4. tail' \in Seq(Messages)
  BY <1>2, <1>3, AppendMessage
<1>5. \A s \in Sigs : Seen(s) \in Nat
  BY <1>2, RunFinite DEF Seen
<1>6. \A s \in Sigs : Matches(m, s) <=> Len(cs) = 1 /\ s = c
  BY <1>2 DEF Matches
<1> HIDE DEF m, c
<1>7. \A s \in Sigs : Seen(s)' = IF Len(cs) = 1 /\ s = c THEN Seen(s) + 1 ELSE 0
  BY <1>2, <1>3, <1>6, RunSame, RunOther DEF Seen
<1>8. Threshold > 0 => Seen(c) < Threshold
  BY <1>1, <1>3, <1>5, AgentAssumption DEF Blocks, Seen, c
<1>9. Counted'
  BY <1>1, <1>5, <1>7, <1>8, AgentAssumption DEF Counted
<1>10. row' \in Seq(Sigs) /\ par' \in BOOLEAN
  <2>1. par' \in BOOLEAN
    BY <1>3, Zenon
  <2>2. row' \in Seq(Sigs)
    BY <1>3 DEF IInv, GuardTypeOK
  <2> QED
    BY <2>1, <2>2
<1>11. Executed'
  <2> SUFFICES ASSUME ~par'
               PROVE  Len(cs) = 1 /\ (row' # <<>> => row'[1] = c) /\ Len(row') + 1 <= Seen(c)'
    BY <1>1, <1>3 DEF Executed, c
  <2>1. Len(cs) = 1
    <3>1. Len(cs) \in Nat /\ Len(cs) >= 1
      BY <1>1, Zenon
    <3>2. ~(Len(cs) > 1)
      BY <1>3
    <3> QED
      BY <3>1, <3>2, OneLeft, Zenon
  <2>2. Seen(c)' = Seen(c) + 1
    BY <1>1, <1>7, <2>1
  <2>3. row' # <<>> => ~par /\ row' = row /\ row[1] = c
    BY <1>3
  <2>4. Len(row') <= Seen(c)
    <3>1. CASE row' # <<>>
      BY <2>3, <3>1, <1>3 DEF IInv, Executed
    <3>2. CASE row' = <<>>
      BY <1>1, <1>5, <3>2
    <3> QED
      BY <3>1, <3>2
  <2> QED
    BY <1>1, <1>5, <1>10, <2>1, <2>2, <2>3, <2>4
<1>12. RowBounded'
  <2>1. CASE row' = <<>>
    BY <2>1, AgentAssumption DEF RowBounded
  <2>2. CASE row' # <<>>
    BY <1>3, <2>2 DEF IInv, RowBounded
  <2> QED
    BY <2>1, <2>2
<1> QED
  BY <1>1, <1>3, <1>4, <1>9, <1>10, <1>11, <1>12 DEF IInv, GuardTypeOK

LEMMA CallDoneInv == ASSUME IInv, CallDone PROVE IInv'
<1> DEFINE c == Sig[todo[1]]
<1>1. /\ todo \in Seq(Calls) /\ todo # <<>> /\ c \in Sigs /\ Head(todo) = todo[1]
      /\ Len(todo) \in Nat /\ Tail(todo) \in Seq(Calls) /\ Len(Tail(todo)) = Len(todo) - 1
  BY AgentAssumption DEF CallDone, Perform, IInv, GuardTypeOK
<1>2. /\ tail' = Append(tail, ToolResult) /\ todo' = Tail(todo) /\ par' = par
      /\ row' = IF row # <<>> /\ row[1] = c THEN Append(row, c) ELSE <<c>>
  BY <1>1 DEF CallDone, Perform
<1>3. tail \in Seq(Messages) /\ row \in Seq(Sigs) /\ par \in BOOLEAN /\ ToolResult \in Messages /\ ToolResult.role = "tool"
  BY DEF IInv, GuardTypeOK, ToolResult, Messages
<1>4. tail' \in Seq(Messages)
  BY <1>2, <1>3, AppendMessage
<1>5. \A s \in Sigs : Seen(s)' = Seen(s) /\ Seen(s) \in Nat
  BY <1>2, <1>3, RunTool, RunFinite DEF Seen
<1> HIDE DEF c
<1>6. /\ row' \in Seq(Sigs) /\ row' # <<>> /\ row'[1] = c
      /\ Len(row') = IF row # <<>> /\ row[1] = c THEN Len(row) + 1 ELSE 1
  <2>1. CASE row # <<>> /\ row[1] = c
    <3>1. row' = Append(row, c)
      BY <1>2, <2>1
    <3>2. /\ Append(row, c) \in Seq(Sigs) /\ Append(row, c) # <<>> /\ Append(row, c)[1] = c
          /\ Len(Append(row, c)) = Len(row) + 1
      BY <1>1, <1>3, <2>1
    <3> QED
      BY <3>1, <3>2, <2>1
  <2>2. CASE ~(row # <<>> /\ row[1] = c)
    BY <1>1, <1>2, <2>2
  <2> QED
    BY <2>1, <2>2
<1>7. Counted'
  BY <1>5 DEF IInv, Counted
<1>8. ~par => Len(todo) = 1 /\ Len(row') <= Seen(c)
  <2> SUFFICES ASSUME ~par PROVE Len(todo) = 1 /\ Len(row') <= Seen(c)
    OBVIOUS
  <2>1. Len(todo) = 1 /\ Len(row) + 1 <= Seen(c) /\ Len(row) \in Nat
    BY <1>1, <1>3 DEF IInv, Executed, c
  <2> QED
    BY <1>1, <1>5, <1>6, <2>1
<1>9. Executed'
  <2> SUFFICES ASSUME ~par' PROVE todo' = <<>> /\ Len(row') <= Seen(row[1])'
    BY DEF Executed
  <2>1. Len(todo) = 1 /\ Len(row') <= Seen(c)
    BY <1>2, <1>8
  <2>2. todo' = <<>>
    BY <1>1, <1>2, <2>1
  <2>3. Seen(row[1])' = Seen(c)
    BY <1>1, <1>5, <1>6
  <2> QED
    BY <2>1, <2>2, <2>3
<1>10. RowBounded'
  BY <1>1, <1>2, <1>5, <1>6, <1>8, AgentAssumption DEF RowBounded, IInv, Counted
<1> QED
  BY <1>1, <1>2, <1>3, <1>4, <1>6, <1>7, <1>9, <1>10 DEF IInv, GuardTypeOK

LEMMA StepInv == IInv /\ [GuardNext]_guardVars => IInv'
<1> SUFFICES ASSUME IInv, [GuardNext]_guardVars PROVE IInv'
  OBVIOUS
<1>1. CASE UserMessage
  BY <1>1, UserMessageInv
<1>2. CASE TextTurn
  BY <1>2, TextTurnInv
<1>3. CASE \E cs \in Turns : CallTurn(cs)
  BY <1>3, CallTurnInv
<1>4. CASE CallDone
  BY <1>4, CallDoneInv
<1>5. CASE UNCHANGED guardVars
  BY <1>5 DEF guardVars, IInv, GuardTypeOK, Counted, Executed, RowBounded, Seen
<1> QED
  BY <1>1, <1>2, <1>3, <1>4, <1>5 DEF GuardNext

\* The messages, the calls and the ghosts stay in their types.
THEOREM GuardTypeCorrect == GuardSpec => []GuardTypeOK
<1>1. IInv => GuardTypeOK
  BY DEF IInv
<1> QED
  BY <1>1, InitInv, StepInv, PTL DEF GuardSpec

\* No call is executed more than Threshold times in a row, answers with several
\* calls apart (fix_tool_messages.py:251-273).
THEOREM RunsAreBounded == GuardSpec => []RowBounded
<1>1. IInv => RowBounded
  BY DEF IInv
<1> QED
  BY <1>1, InitInv, StepInv, PTL DEF GuardSpec

------------------------------------------------------------------------------
(* Induction and functions defined by recursion. *)

\* A number is as good as the set of the numbers up to it: finite sets are well founded.
LEMMA LeastNumber ==
    ASSUME NEW T \in SUBSET Nat, T # {}
    PROVE  \E n \in T : \A m \in T : n <= m
<1> DEFINE F == {0..n : n \in T}
<1>1. F \subseteq FiniteSubsetsOf(Nat) /\ F # {}
  <2>1. \A n \in T : IsFiniteSet(0..n) /\ 0..n \subseteq Nat
    BY FS_Interval
  <2> QED
    BY <2>1 DEF FiniteSubsetsOf
<1>2. PICK x \in F : \A y \in F : <<y, x>> \notin StrictSubsetOrdering(Nat)
  <2> HIDE DEF F
  <2> QED
    BY <1>1, FS_StrictSubsetOrderingWellFounded, WFMin
<1>3. PICK n \in T : x = 0..n
  OBVIOUS
<1>4. ASSUME NEW m \in T, m < n PROVE FALSE
  <2>1. 0..m \subseteq 0..n /\ n \in 0..n /\ n \notin 0..m
    BY <1>4
  <2>2. <<0..m, 0..n>> \in StrictSubsetOrdering(Nat)
    BY <2>1 DEF StrictSubsetOrdering
  <2> QED
    BY <1>2, <1>3, <2>2
<1> QED
  BY <1>4

LEMMA Induct ==
    ASSUME NEW S, 0 \in S, \A n \in Nat : n \in S => n + 1 \in S
    PROVE  Nat \subseteq S
<1> SUFFICES ASSUME Nat \ S # {} PROVE FALSE
  OBVIOUS
<1>1. PICK n \in Nat \ S : \A m \in Nat \ S : n <= m
  BY LeastNumber
<1>2. n # 0 /\ n - 1 \in Nat /\ n - 1 \in S
  BY <1>1
<1> QED
  BY <1>2

\* A function on 0..n given by its value at 0 and by a step exists, and is the only one.
Steps(n, T) == [1..n -> [T -> T]]
Follows(f, b, n, T, G) == f \in [0..n -> T] /\ f[0] = b /\ \A i \in 1..n : f[i] = G[i][f[i - 1]]

LEMMA StepsExist ==
    ASSUME NEW T, NEW b \in T, NEW n \in Nat, NEW G \in Steps(n, T)
    PROVE  \E f : Follows(f, b, n, T, G)
<1> USE DEF Steps, Follows
<1> DEFINE Good(k, f) == f[0] = b /\ \A i \in 1..k : f[i] = G[i][f[i - 1]]
           S == {k \in Nat : k <= n => \E f \in [0..k -> T] : Good(k, f)}
<1>1. 0 \in S
  <2> DEFINE f == [i \in 0..0 |-> b]
  <2>1. f \in [0..0 -> T] /\ Good(0, f)
    OBVIOUS
  <2> QED
    BY <2>1
<1>2. ASSUME NEW k \in Nat, k \in S PROVE k + 1 \in S
  <2> SUFFICES ASSUME k + 1 <= n PROVE \E f \in [0..(k + 1) -> T] : Good(k + 1, f)
    OBVIOUS
  <2>1. PICK f \in [0..k -> T] : Good(k, f)
    BY <1>2
  <2> DEFINE g == [i \in 0..(k + 1) |-> IF i <= k THEN f[i] ELSE G[k + 1][f[k]]]
  <2>2. k + 1 \in 1..n /\ k \in 0..k /\ f[k] \in T
    OBVIOUS
  <2>3. G[k + 1][f[k]] \in T
    BY <2>2
  <2>4. g \in [0..(k + 1) -> T]
    BY <2>3
  <2>5. g[0] = b
    BY <2>1
  <2>6. ASSUME NEW i \in 1..(k + 1) PROVE g[i] = G[i][g[i - 1]]
    <3>1. i - 1 \in 0..k /\ g[i - 1] = f[i - 1]
      OBVIOUS
    <3>2. CASE i <= k
      BY <2>1, <3>1, <3>2
    <3>3. CASE ~(i <= k)
      <4>1. i = k + 1
        BY <3>3
      <4> QED
        BY <3>1, <4>1
    <3> QED
      BY <3>2, <3>3
  <2> QED
    BY <2>4, <2>5, <2>6
<1> HIDE DEF S
<1>3. Nat \subseteq S
  BY <1>1, <1>2, Induct
<1> QED
  BY <1>3 DEF S

Parallel(f, g, n) == f[0] = g[0] /\ \A i \in 1..n : f[i - 1] = g[i - 1] => f[i] = g[i]

LEMMA StepsUnique ==
    ASSUME NEW n \in Nat, NEW f, NEW g, Parallel(f, g, n)
    PROVE  \A i \in 0..n : f[i] = g[i]
<1> USE DEF Parallel
<1> DEFINE S == {k \in Nat : k <= n => f[k] = g[k]}
<1>1. 0 \in S
  OBVIOUS
<1>2. ASSUME NEW k \in Nat, k \in S PROVE k + 1 \in S
  BY <1>2
<1> HIDE DEF S
<1>3. Nat \subseteq S
  BY <1>1, <1>2, Induct
<1> QED
  BY <1>3 DEF S

Chain(f, a, n, T, G) == f \in [1..n -> T] /\ f[1] = a /\ \A i \in 2..n : f[i] = G[i][f[i - 1]]

LEMMA ChainExists ==
    ASSUME NEW T, NEW n \in Nat, n > 0, NEW a \in T, NEW G \in Steps(n, T)
    PROVE  \E f : Chain(f, a, n, T, G)
<1> SUFFICES ASSUME NEW H, H = [i \in 1..n |-> IF i = 1 THEN [x \in T |-> a] ELSE G[i]]
             PROVE  \E f : Chain(f, a, n, T, G)
  OBVIOUS
<1>1. H \in Steps(n, T)
  BY DEF Steps
<1>2. PICK h : Follows(h, a, n, T, H)
  BY <1>1, StepsExist
<1> USE DEF Follows
<1> DEFINE f == [i \in 1..n |-> h[i]]
<1>3. f \in [1..n -> T]
  BY <1>2
<1>4. f[1] = a
  BY <1>2
<1>5. \A i \in 2..n : f[i] = G[i][f[i - 1]]
  <2> SUFFICES ASSUME NEW i \in 2..n PROVE f[i] = G[i][f[i - 1]]
    OBVIOUS
  <2>1. i \in 1..n /\ i - 1 \in 1..n /\ i # 1
    OBVIOUS
  <2>2. h[i] = H[i][h[i - 1]] /\ H[i] = G[i]
    BY <1>2, <2>1
  <2> QED
    BY <2>1, <2>2
<1> QED
  BY <1>3, <1>4, <1>5 DEF Chain

\* FlattenSeq, the fold of the community modules, by its last piece.
Pieces(n, T) == [1..n -> Seq(T)]
Flattens(f, s, n, T) ==
    /\ f \in [1..n -> Seq(T)] /\ FlattenSeq(s) = f[n] /\ f[1] = s[1]
    /\ \A i \in 2..n : f[i] = f[i - 1] \o s[i]

LEMMA PiecesLen == ASSUME NEW T, NEW n \in Nat, NEW s \in Pieces(n, T) PROVE Len(s) = n
  BY DEF Pieces

LEMMA FlattenEquation ==
    ASSUME NEW T, NEW n \in Nat, n > 0, NEW s \in Pieces(n, T)
    PROVE  \E f : Flattens(f, s, n, T)
<1> SUFFICES ASSUME NEW Q, Q = Seq(T), NEW G, G = [i \in 1..n |-> [x \in Seq(T) |-> x \o s[i]]]
             PROVE  \E f : Flattens(f, s, n, T)
  OBVIOUS
<1> DEFINE Cat(x, i) == x \o s[i]
           Body(f) == [i \in 1..Len(s) |-> IF i = 1 THEN s[i] ELSE Cat(f[i - 1], i)]
           f == CHOOSE x : x = Body(x)
<1>1. \A i \in 1..n : s[i] \in Q
  BY DEF Pieces
<1>2. \A i \in 1..n, x \in Q : Cat(x, i) \in Q /\ G[i][x] = Cat(x, i)
  BY <1>1
<1>3. s[1] \in Q
  BY <1>1
<1>4. Len(s) = n
  BY PiecesLen
<1>5. FlattenSeq(s) = f[Len(s)]
  BY <1>4 DEF FlattenSeq
<1> HIDE DEF Cat, Body, f
<1>8. G \in Steps(n, Q)
  <2>1. \A i \in 1..n : [x \in Seq(T) |-> x \o s[i]] \in [Q -> Q]
    BY <1>1
  <2> QED
    BY <2>1 DEF Steps
<1>6. PICK e : Chain(e, s[1], n, Q, G)
  BY <1>3, <1>8, ChainExists
<1>7. e \in [1..n -> Q] /\ e[1] = s[1] /\ \A i \in 2..n : e[i] = G[i][e[i - 1]]
  BY <1>6 DEF Chain
<1>10. e = Body(e)
  <2>1. ASSUME NEW i \in 1..n, i # 1 PROVE e[i] = Cat(e[i - 1], i)
    <3>1. i - 1 \in 1..n /\ i \in 2..n
      BY <2>1
    <3> QED
      BY <1>2, <1>7, <3>1
  <2> QED
    BY <1>4, <1>7, <2>1 DEF Body
<1>11. f = Body(f)
  BY <1>10 DEF f
<1>12. f = [i \in 1..n |-> f[i]] /\ \A i \in 1..n : f[i] = Body(f)[i]
  BY <1>4, <1>11 DEF Body
<1>13. f[1] = s[1] /\ \A i \in 2..n : f[i] = Cat(f[i - 1], i)
  <2>1. ASSUME NEW i \in 1..n PROVE f[i] = IF i = 1 THEN s[i] ELSE Cat(f[i - 1], i)
    BY <1>4, <1>12 DEF Body
  <2>2. f[1] = s[1]
    BY <2>1
  <2>3. ASSUME NEW i \in 2..n PROVE f[i] = Cat(f[i - 1], i)
    <3>1. i \in 1..n /\ i # 1
      OBVIOUS
    <3> QED
      BY <2>1, <3>1
  <2> QED
    BY <2>2, <2>3
<1>14. \A i \in 0..n : i > 0 => f[i] \in Q
  <2> DEFINE S == {k \in Nat : k <= n /\ k > 0 => f[k] \in Q}
  <2>1. 0 \in S
    OBVIOUS
  <2>2. ASSUME NEW k \in Nat, k \in S PROVE k + 1 \in S
    <3> SUFFICES ASSUME k + 1 <= n PROVE f[k + 1] \in Q
      OBVIOUS
    <3>1. CASE k = 0
      BY <1>1, <1>13, <3>1
    <3>2. CASE k > 0
      <4>1. f[k] \in Q /\ k + 1 \in 2..n /\ k + 1 \in 1..n /\ (k + 1) - 1 = k
        BY <2>2, <3>2
      <4> QED
        BY <1>2, <1>13, <4>1
    <3> QED
      BY <3>1, <3>2
  <2> HIDE DEF S
  <2>3. Nat \subseteq S
    BY <2>1, <2>2, Induct
  <2> QED
    BY <2>3 DEF S
<1>15. f \in [1..n -> Q]
  <2>1. \A i \in 1..n : f[i] \in Q
    BY <1>14
  <2> QED
    BY <1>12, <2>1
<1> QED
  BY <1>4, <1>5, <1>13, <1>15 DEF Cat, Flattens

LEMMA FlattenType ==
    ASSUME NEW T, NEW n \in Nat, NEW s \in Pieces(n, T) PROVE FlattenSeq(s) \in Seq(T)
<1>1. CASE n = 0
  <2>1. Len(s) = 0 /\ s = <<>>
    BY <1>1, PiecesLen DEF Pieces
  <2>2. FlattenSeq(s) = <<>>
    BY <2>1 DEF FlattenSeq
  <2> QED
    BY <2>2
<1>2. CASE n > 0
  <2>1. PICK f : Flattens(f, s, n, T)
    BY <1>2, FlattenEquation
  <2> QED
    BY <1>2, <2>1 DEF Flattens
<1> QED
  BY <1>1, <1>2

LEMMA FlattenStep ==
    ASSUME NEW T, NEW n \in Nat, NEW s \in Pieces(n, T), NEW r \in Pieces(n + 1, T),
           \A i \in 1..n : r[i] = s[i]
    PROVE  FlattenSeq(r) = FlattenSeq(s) \o r[n + 1]
<1>1. PICK g : Flattens(g, r, n + 1, T)
  <2>1. n + 1 \in Nat /\ n + 1 > 0
    OBVIOUS
  <2> QED
    BY <2>1, FlattenEquation
<1>2. /\ FlattenSeq(r) = g[n + 1] /\ g[1] = r[1]
      /\ \A i \in 2..(n + 1) : g[i] = g[i - 1] \o r[i]
  BY <1>1 DEF Flattens
<1>3. CASE n = 0
  <2>1. Len(s) = 0 /\ s = <<>>
    BY <1>3, PiecesLen DEF Pieces
  <2>2. FlattenSeq(s) = <<>>
    BY <2>1 DEF FlattenSeq
  <2>3. r[1] \in Seq(T)
    BY <1>3 DEF Pieces
  <2>4. <<>> \o r[1] = r[1]
    BY <2>3
  <2>5. n + 1 = 1
    BY <1>3
  <2> QED
    BY <1>2, <2>2, <2>4, <2>5, Zenon
<1>4. CASE n > 0
  <2>1. PICK f : Flattens(f, s, n, T)
    BY <1>4, FlattenEquation
  <2>2. FlattenSeq(s) = f[n] /\ f[1] = s[1] /\ \A i \in 2..n : f[i] = f[i - 1] \o s[i]
    BY <2>1 DEF Flattens
  <2> DEFINE S == {k \in Nat : k > 0 /\ k <= n => f[k] = g[k]}
  <2>3. 0 \in S
    OBVIOUS
  <2>4. ASSUME NEW k \in Nat, k \in S PROVE k + 1 \in S
    <3> SUFFICES ASSUME k + 1 <= n PROVE f[k + 1] = g[k + 1]
      OBVIOUS
    <3>1. CASE k = 0
      <4>1. r[1] = s[1]
        BY <1>4
      <4> QED
        BY <1>2, <2>2, <3>1, <4>1
    <3>2. CASE k > 0
      <4>1. k + 1 \in 2..n /\ k + 1 \in 2..(n + 1) /\ (k + 1) - 1 = k /\ k + 1 \in 1..n
        BY <3>2
      <4>2. f[k] = g[k]
        BY <2>4, <3>2
      <4>3. f[k + 1] = f[(k + 1) - 1] \o s[k + 1]
        BY <2>2, <4>1, Zenon
      <4>4. g[k + 1] = g[(k + 1) - 1] \o r[k + 1]
        BY <1>2, <4>1, Zenon
      <4>5. r[k + 1] = s[k + 1]
        BY <4>1
      <4> QED
        BY <4>1, <4>2, <4>3, <4>4, <4>5, Zenon
    <3> QED
      BY <3>1, <3>2
  <2> HIDE DEF S
  <2>5. Nat \subseteq S
    BY <2>3, <2>4, Induct
  <2>6. n \in S
    BY <2>5
  <2>7. f[n] = g[n]
    BY <1>4, <2>6 DEF S
  <2>8. g[n + 1] = g[(n + 1) - 1] \o r[n + 1]
    <3>1. n + 1 \in 2..(n + 1)
      BY <1>4
    <3> QED
      BY <1>2, <3>1, Zenon
  <2>9. (n + 1) - 1 = n
    OBVIOUS
  <2> QED
    BY <1>2, <2>2, <2>7, <2>8, <2>9, Zenon
<1> QED
  BY <1>3, <1>4

------------------------------------------------------------------------------
(* The walk of the repeat guard. *)

\* The walk of Count, from the oldest message on.
Walks(f, msgs, n, s) ==
    /\ f \in [0..n -> Nat] /\ f[0] = 0 /\ Count(msgs, s) = f[n]
    /\ \A i \in 1..n : f[i] = IF msgs[i].role = "tool" THEN f[i - 1]
                              ELSE IF Identical(msgs[i], s) THEN 1 + f[i - 1] ELSE 0

LEMMA CountEquation ==
    ASSUME NEW msgs, NEW n \in Nat, n = Len(msgs), NEW s
    PROVE  \E f : Walks(f, msgs, n, s)
<1> DEFINE Value(x, i) == IF msgs[i].role = "tool" THEN x
                          ELSE IF Identical(msgs[i], s) THEN 1 + x ELSE 0
           Body(f) == [i \in 0..Len(msgs) |-> IF i = 0 THEN 0
                          ELSE IF msgs[i].role = "tool" THEN f[i - 1]
                          ELSE IF Identical(msgs[i], s) THEN 1 + f[i - 1]
                          ELSE 0]
           b == CHOOSE f : f = Body(f)
<1> SUFFICES ASSUME NEW G, G = [i \in 1..n |-> [x \in Nat |-> Value(x, i)]]
             PROVE  \E f : Walks(f, msgs, n, s)
  OBVIOUS
<1>1. Count(msgs, s) = b[n]
  BY DEF Count
<1>2. \A i \in 1..n, x \in Nat : Value(x, i) \in Nat
  OBVIOUS
<1>3. \A f : \A i \in 0..n : Body(f)[i] = IF i = 0 THEN 0 ELSE Value(f[i - 1], i)
  OBVIOUS
<1>4. \A f : Body(f) = [i \in 0..n |-> IF i = 0 THEN 0 ELSE Value(f[i - 1], i)]
  OBVIOUS
<1> HIDE DEF Value, Body, b
<1>5. G \in Steps(n, Nat)
  BY <1>2 DEF Steps
<1>6. PICK g : Follows(g, 0, n, Nat, G)
  BY <1>5, StepsExist
<1>7. g \in [0..n -> Nat] /\ g[0] = 0 /\ \A i \in 1..n : g[i] = Value(g[i - 1], i)
  <2>1. g \in [0..n -> Nat] /\ g[0] = 0 /\ \A i \in 1..n : g[i] = G[i][g[i - 1]]
    BY <1>6 DEF Follows
  <2>2. ASSUME NEW i \in 1..n PROVE g[i] = Value(g[i - 1], i)
    <3>1. i - 1 \in 0..n
      OBVIOUS
    <3>2. g[i - 1] \in Nat
      BY <2>1, <3>1
    <3>3. G[i][g[i - 1]] = Value(g[i - 1], i)
      BY <3>2
    <3> QED
      BY <2>1, <3>3
  <2> QED
    BY <2>1, <2>2
<1>8. g = Body(g)
  <2>1. \A i \in 0..n : i # 0 => g[i] = Value(g[i - 1], i)
    BY <1>7
  <2> QED
    BY <1>4, <1>7, <2>1
<1>9. b = Body(b)
  BY <1>8 DEF b
<1>10. b[0] = 0 /\ \A i \in 1..n : b[i] = Value(b[i - 1], i)
  <2>1. \A i \in 0..n : b[i] = IF i = 0 THEN 0 ELSE Value(b[i - 1], i)
    BY <1>3, <1>9
  <2> QED
    BY <2>1
<1>11. \A i \in 0..n : b[i] = g[i]
  <2>1. b[0] = g[0]
    BY <1>7, <1>10
  <2>2. \A i \in 1..n : b[i - 1] = g[i - 1] => b[i] = g[i]
    BY <1>7, <1>10
  <2>3. Parallel(b, g, n)
    BY <2>1, <2>2 DEF Parallel
  <2> QED
    BY <2>3, StepsUnique
<1>12. b \in [0..n -> Nat]
  <2>1. b = [i \in 0..n |-> b[i]]
    BY <1>4, <1>9
  <2>2. \A i \in 0..n : b[i] \in Nat
    BY <1>7, <1>11
  <2> QED
    BY <2>1, <2>2
<1> QED
  BY <1>1, <1>10, <1>12 DEF Walks, Value

LEMMA CountNat == ASSUME NEW msgs, Len(msgs) \in Nat, NEW s PROVE Count(msgs, s) \in Nat
<1>1. PICK f : Walks(f, msgs, Len(msgs), s)
  BY CountEquation
<1> QED
  BY <1>1 DEF Walks

\* One message more.
LEMMA CountStep ==
    ASSUME NEW msgs, NEW r, NEW n \in Nat, n = Len(msgs), Len(r) = n + 1,
           \A i \in 1..n : r[i] = msgs[i], NEW s
    PROVE  Count(r, s) = IF r[n + 1].role = "tool" THEN Count(msgs, s)
                         ELSE IF Identical(r[n + 1], s) THEN 1 + Count(msgs, s) ELSE 0
<1>1. PICK f : Walks(f, msgs, n, s)
  BY CountEquation
<1>2. PICK g : Walks(g, r, n + 1, s)
  <2>1. n + 1 \in Nat
    OBVIOUS
  <2> QED
    BY <2>1, CountEquation
<1>3. Parallel(f, g, n)
  <2>1. f[0] = 0 /\ g[0] = 0
    BY <1>1, <1>2 DEF Walks
  <2>2. ASSUME NEW i \in 1..n, f[i - 1] = g[i - 1] PROVE f[i] = g[i]
    <3>1. i \in 1..(n + 1) /\ r[i] = msgs[i]
      OBVIOUS
    <3>2. f[i] = IF msgs[i].role = "tool" THEN f[i - 1]
                 ELSE IF Identical(msgs[i], s) THEN 1 + f[i - 1] ELSE 0
      BY <1>1 DEF Walks
    <3>3. g[i] = IF r[i].role = "tool" THEN g[i - 1]
                 ELSE IF Identical(r[i], s) THEN 1 + g[i - 1] ELSE 0
      BY <1>2, <3>1 DEF Walks
    <3> QED
      BY <2>2, <3>1, <3>2, <3>3
  <2> QED
    BY <2>1, <2>2 DEF Parallel
<1>4. \A i \in 0..n : f[i] = g[i]
  BY <1>3, StepsUnique
<1>5. n + 1 \in 1..(n + 1) /\ (n + 1) - 1 = n /\ n \in 0..n
  OBVIOUS
<1>6. Count(msgs, s) = g[n]
  BY <1>1, <1>4, <1>5 DEF Walks
<1>7. g[n + 1] = IF r[n + 1].role = "tool" THEN g[(n + 1) - 1]
                 ELSE IF Identical(r[n + 1], s) THEN 1 + g[(n + 1) - 1] ELSE 0
  BY <1>2, <1>5 DEF Walks
<1>8. Count(r, s) = g[n + 1]
  BY <1>2 DEF Walks
<1> QED
  BY <1>5, <1>6, <1>7, <1>8

LEMMA CountEmpty == ASSUME NEW s PROVE Count(<<>>, s) = 0
<1>1. 0 \in Nat /\ 0 = Len(<<>>)
  OBVIOUS
<1>2. PICK f : Walks(f, <<>>, 0, s)
  BY <1>1, CountEquation
<1> QED
  BY <1>2 DEF Walks

------------------------------------------------------------------------------
Session == [role : {"user", "assistant", "tool"}, calls : Seq(Calls)]

ShimPieces(h) ==
    [i \in DOMAIN h |->
        IF h[i].role = "tool" /\ i + 1 <= Len(h) /\ h[i + 1].role = "user"
          THEN <<h[i], Assistant(<<>>)>> ELSE <<h[i]>>]

LEMMA SpokenMessages ==
    /\ User \in Session /\ ToolResult \in Session /\ Assistant(<<>>) \in Session
    /\ \A cs \in Seq(Calls) : Assistant(cs) \in Session
  BY DEF Session, User, ToolResult, Assistant

LEMMA ShimPiecesType ==
    ASSUME NEW h \in Seq(Session), NEW n \in Nat, n = Len(h)
    PROVE  ShimPieces(h) \in Pieces(n, Session)
<1>1. Assistant(<<>>) \in Session
  BY SpokenMessages
<1>2. \A i \in 1..n : h[i] \in Session
  OBVIOUS
<1>3. \A i \in 1..n : <<h[i], Assistant(<<>>)>> \in Seq(Session) /\ <<h[i]>> \in Seq(Session)
  BY <1>1, <1>2
<1> QED
  BY <1>3 DEF Pieces, ShimPieces

LEMMA ShimType ==
    ASSUME NEW h \in Seq(Session) PROVE Shim(h) \in Seq(Session)
<1>1. ShimPieces(h) \in Pieces(Len(h), Session) /\ Len(h) \in Nat
  BY ShimPiecesType
<1>2. FlattenSeq(ShimPieces(h)) \in Seq(Session)
  BY <1>1, FlattenType
<1> QED
  BY <1>2 DEF Shim, ShimPieces

LEMMA CatOne == ASSUME NEW T, NEW x \in Seq(T), NEW a \in T PROVE x \o <<a>> = Append(x, a)
  OBVIOUS

LEMMA CatTwo ==
    ASSUME NEW T, NEW x \in Seq(T), NEW a \in T, NEW b \in T
    PROVE  x \o <<a, b>> = Append(x \o <<a>>, b)
  OBVIOUS

\* A message that does not answer a tool result is added as it is.
LEMMA ShimPlain ==
    ASSUME NEW h \in Seq(Session), NEW m \in Session,
           ~(h # <<>> /\ h[Len(h)].role = "tool" /\ m.role = "user")
    PROVE  Shim(Append(h, m)) = Append(Shim(h), m)
<1> SUFFICES ASSUME NEW n \in Nat, n = Len(h), NEW g, g = Append(h, m)
             PROVE  Shim(g) = Append(Shim(h), m)
  <2>1. Len(h) \in Nat
    OBVIOUS
  <2> QED
    BY <2>1
<1>1. /\ g \in Seq(Session) /\ Len(g) = n + 1 /\ g[n + 1] = m
      /\ \A i \in 1..n : g[i] = h[i]
  OBVIOUS
<1> DEFINE p == ShimPieces(h)
           q == ShimPieces(g)
<1>2. p \in Pieces(n, Session)
  BY ShimPiecesType
<1>3. q \in Pieces(n + 1, Session)
  <2>1. n + 1 \in Nat
    OBVIOUS
  <2> QED
    BY <1>1, <2>1, ShimPiecesType
<1>4. ASSUME NEW i \in 1..n PROVE q[i] = p[i]
  <2>1. i \in DOMAIN h /\ i \in DOMAIN g /\ g[i] = h[i]
    BY <1>1
  <2>2. CASE i = n
    <3>1. ~(g[i].role = "tool" /\ i + 1 <= Len(g) /\ g[i + 1].role = "user")
      BY <1>1, <2>2
    <3>2. ~(i + 1 <= Len(h))
      BY <2>2
    <3> QED
      BY <2>1, <3>1, <3>2 DEF ShimPieces
  <2>3. CASE i # n
    <3>1. i + 1 \in 1..n /\ i + 1 <= Len(g) /\ i + 1 <= Len(h) /\ g[i + 1] = h[i + 1]
      BY <1>1, <2>3
    <3> QED
      BY <2>1, <3>1 DEF ShimPieces
  <2> QED
    BY <2>2, <2>3
<1>5. q[n + 1] = <<m>>
  <2>1. n + 1 \in DOMAIN g /\ ~((n + 1) + 1 <= Len(g))
    BY <1>1
  <2> QED
    BY <1>1, <2>1 DEF ShimPieces
<1> HIDE DEF p, q
<1>6. FlattenSeq(q) = FlattenSeq(p) \o q[n + 1]
  BY <1>2, <1>3, <1>4, FlattenStep
<1>7. Shim(h) = FlattenSeq(p) /\ Shim(g) = FlattenSeq(q)
  BY DEF p, q, Shim, ShimPieces
<1>8. Shim(h) \in Seq(Session)
  BY ShimType
<1> QED
  BY <1>5, <1>6, <1>7, <1>8, CatOne

\* A user message after a tool result is added with an empty answer before it.
LEMMA ShimGap ==
    ASSUME NEW h \in Seq(Session), NEW m \in Session,
           h # <<>>, h[Len(h)].role = "tool", m.role = "user"
    PROVE  Shim(Append(h, m)) = Append(Append(Shim(h), Assistant(<<>>)), m)
<1> SUFFICES ASSUME NEW k \in Nat, k + 1 = Len(h), NEW g, g = Append(h, m)
             PROVE  Shim(g) = Append(Append(Shim(h), Assistant(<<>>)), m)
  <2>1. Len(h) - 1 \in Nat /\ (Len(h) - 1) + 1 = Len(h)
    OBVIOUS
  <2> QED
    BY <2>1
<1>1. /\ g \in Seq(Session) /\ Len(g) = k + 2 /\ g[k + 2] = m
      /\ \A i \in 1..(k + 1) : g[i] = h[i]
      /\ h[k + 1] \in Session /\ Assistant(<<>>) \in Session
      /\ k + 1 \in Nat /\ k + 2 \in Nat /\ (k + 1) + 1 = k + 2
  BY SpokenMessages
<1> DEFINE p == ShimPieces(h)
           q == ShimPieces(g)
           p0 == [i \in 1..k |-> p[i]]
           q0 == [i \in 1..(k + 1) |-> q[i]]
<1>2. p \in Pieces(k + 1, Session) /\ p0 \in Pieces(k, Session)
  <2>1. p \in Pieces(k + 1, Session)
    BY <1>1, ShimPiecesType
  <2> QED
    BY <2>1 DEF Pieces
<1>3. q \in Pieces(k + 2, Session) /\ q0 \in Pieces(k + 1, Session)
  <2>1. q \in Pieces(k + 2, Session)
    BY <1>1, ShimPiecesType
  <2> QED
    BY <2>1 DEF Pieces
<1>4. ASSUME NEW i \in 1..k PROVE q0[i] = p0[i]
  <2>1. /\ i \in DOMAIN h /\ i \in DOMAIN g /\ g[i] = h[i] /\ g[i + 1] = h[i + 1]
        /\ i + 1 <= Len(g) /\ i + 1 <= Len(h) /\ i \in 1..(k + 1)
    BY <1>1
  <2>2. q[i] = p[i]
    BY <2>1 DEF ShimPieces
  <2> QED
    BY <2>1, <2>2
<1>5. p[k + 1] = <<h[k + 1]>>
  <2>1. k + 1 \in DOMAIN h /\ ~((k + 1) + 1 <= Len(h))
    BY <1>1
  <2> QED
    BY <2>1 DEF ShimPieces
<1>6. q[k + 1] = <<h[k + 1], Assistant(<<>>)>>
  <2>1. /\ k + 1 \in DOMAIN g /\ (k + 1) + 1 <= Len(g) /\ g[k + 1] = h[k + 1]
        /\ h[k + 1].role = "tool" /\ g[(k + 1) + 1].role = "user"
    BY <1>1
  <2> QED
    BY <2>1 DEF ShimPieces
<1>7. q[k + 2] = <<m>>
  <2>1. k + 2 \in DOMAIN g /\ ~((k + 2) + 1 <= Len(g))
    BY <1>1
  <2> QED
    BY <1>1, <2>1 DEF ShimPieces
<1>8. Shim(h) = FlattenSeq(p) /\ Shim(g) = FlattenSeq(q)
  BY DEF Shim, ShimPieces
<1>9. /\ \A i \in 1..k : p[i] = p0[i]
      /\ \A i \in 1..(k + 1) : q[i] = q0[i]
      /\ q0[k + 1] = q[k + 1]
  OBVIOUS
<1> HIDE DEF p, q, p0, q0
<1> DEFINE x == FlattenSeq(p0)
<1>10. x \in Seq(Session)
  BY <1>2, FlattenType
<1>11. FlattenSeq(p) = x \o <<h[k + 1]>>
  <2>1. FlattenSeq(p) = x \o p[k + 1]
    BY <1>2, <1>9, FlattenStep
  <2> QED
    BY <1>5, <2>1
<1>12. FlattenSeq(q0) = x \o <<h[k + 1], Assistant(<<>>)>>
  <2>1. FlattenSeq(q0) = x \o q0[k + 1]
    BY <1>2, <1>3, <1>4, FlattenStep
  <2> QED
    BY <1>6, <1>9, <2>1
<1>13. FlattenSeq(q) = FlattenSeq(q0) \o <<m>>
  <2>1. q \in Pieces((k + 1) + 1, Session) /\ q[(k + 1) + 1] = <<m>>
    BY <1>1, <1>3, <1>7
  <2>2. FlattenSeq(q) = FlattenSeq(q0) \o q[(k + 1) + 1]
    <3>1. k + 1 \in Nat /\ q0 \in Pieces(k + 1, Session) /\ \A i \in 1..(k + 1) : q[i] = q0[i]
      BY <1>1, <1>3, <1>9
    <3> QED
      BY <2>1, <3>1, FlattenStep, Zenon
  <2> QED
    BY <2>1, <2>2
<1>14. FlattenSeq(q0) \in Seq(Session)
  BY <1>1, <1>3, FlattenType
<1> HIDE DEF x
<1>15. FlattenSeq(q0) = Append(FlattenSeq(p), Assistant(<<>>))
  BY <1>1, <1>10, <1>11, <1>12, CatTwo
<1> QED
  BY <1>8, <1>13, <1>14, <1>15, CatOne

------------------------------------------------------------------------------
\* What holds of no message and stays so with every message holds of all lists.
LEMMA InductMessages ==
    ASSUME NEW T, NEW S, <<>> \in S, \A h \in Seq(T), m \in T : h \in S => Append(h, m) \in S
    PROVE  Seq(T) \subseteq S
<1> DEFINE N == {k \in Nat : \A h \in Seq(T) : Len(h) = k => h \in S}
<1>1. 0 \in N
  <2>1. \A h \in Seq(T) : Len(h) = 0 => h = <<>>
    OBVIOUS
  <2> QED
    BY <2>1
<1>2. ASSUME NEW k \in Nat, k \in N PROVE k + 1 \in N
  <2> SUFFICES ASSUME NEW h \in Seq(T), Len(h) = k + 1 PROVE h \in S
    OBVIOUS
  <2> DEFINE g == [i \in 1..k |-> h[i]]
  <2>1. g \in Seq(T) /\ Len(g) = k /\ h[k + 1] \in T
    OBVIOUS
  <2>2. Append(g, h[k + 1]) = h
    OBVIOUS
  <2> HIDE DEF g
  <2>3. g \in S
    BY <1>2, <2>1
  <2> QED
    BY <2>1, <2>2, <2>3
<1> HIDE DEF N
<1>3. Nat \subseteq N
  BY <1>1, <1>2, Induct
<1>4. ASSUME NEW h \in Seq(T) PROVE h \in S
  <2>1. Len(h) \in N
    BY <1>3
  <2> QED
    BY <2>1 DEF N
<1> QED
  BY <1>4

\* Every message of h is in g where it moved to, and an answer where one was missing.
Holds(h, g) ==
    /\ \A i \in 1..Len(h) : MovedTo(h, i) \in 1..Len(g) /\ g[MovedTo(h, i)] = h[i]
    /\ \A i \in Gaps(h) : MovedTo(h, i) + 1 \in 1..Len(g) /\ g[MovedTo(h, i) + 1] = Assistant(<<>>)

Repaired(h) ==
    LET msgs == Shim(h)
    IN  /\ \A i \in 1..(Len(msgs) - 1) : ~(msgs[i].role = "tool" /\ msgs[i + 1].role = "user")
        /\ Len(msgs) - Len(h) = Cardinality(Gaps(h))
        /\ Holds(h, msgs)

SameEnd(h, g) == IF h = <<>> THEN g = <<>> ELSE g # <<>> /\ g[Len(g)] = h[Len(h)]

\* A message more adds a gap where it is the user's and follows a tool result.
OneLonger(h, g) == Len(h) \in Nat /\ Len(g) = Len(h) + 1 /\ \A i \in 1..Len(h) : g[i] = h[i]
NewGap(h, m) == Len(h) # 0 /\ h[Len(h)].role = "tool" /\ m.role = "user"

LEMMA GapsGrow ==
    ASSUME NEW h, NEW g, NEW m, OneLonger(h, g), g[Len(g)] = m
    PROVE  /\ IsFiniteSet(Gaps(h)) /\ Gaps(h) \subseteq 1..(Len(h) - 1)
           /\ Gaps(g) = IF NewGap(h, m) THEN Gaps(h) \cup {Len(h)} ELSE Gaps(h)
<1> SUFFICES ASSUME NEW n \in Nat, n = Len(h), Len(g) = n + 1, \A i \in 1..n : g[i] = h[i]
             PROVE  /\ IsFiniteSet(Gaps(h)) /\ Gaps(h) \subseteq 1..(n - 1)
                    /\ Gaps(g) = IF NewGap(h, m) THEN Gaps(h) \cup {n} ELSE Gaps(h)
  BY DEF OneLonger
<1>1. IsFiniteSet(Gaps(h)) /\ Gaps(h) \subseteq 1..(n - 1)
  <2>0. 1 \in Int /\ n - 1 \in Int
    OBVIOUS
  <2>1. IsFiniteSet(1..(n - 1))
    BY <2>0, FS_Interval, Zenon
  <2>2. Gaps(h) \subseteq 1..(n - 1)
    BY DEF Gaps
  <2> QED
    BY <2>1, <2>2, FS_Subset
<1>2. ASSUME NEW i \in 1..n PROVE i \in Gaps(g) <=> i \in Gaps(h) \/ (i = n /\ NewGap(h, m))
  <2>1. i \in Gaps(g) <=> g[i].role = "tool" /\ g[i + 1].role = "user"
    BY DEF Gaps
  <2>2. i \in Gaps(h) <=> i # n /\ h[i].role = "tool" /\ h[i + 1].role = "user"
    BY DEF Gaps
  <2>3. g[i] = h[i] /\ (i # n => g[i + 1] = h[i + 1]) /\ (i = n => g[i + 1] = m)
    OBVIOUS
  <2> QED
    BY <2>1, <2>2, <2>3 DEF NewGap
<1>3. Gaps(g) \subseteq 1..n /\ Gaps(h) \subseteq 1..n /\ (n # 0 => n \in 1..n)
  BY DEF Gaps
<1>4. CASE NewGap(h, m)
  <2>1. n # 0
    BY <1>4 DEF NewGap
  <2>2. Gaps(g) = Gaps(h) \cup {n}
    BY <1>2, <1>3, <1>4, <2>1
  <2> QED
    BY <1>1, <1>4, <2>2
<1>5. CASE ~NewGap(h, m)
  <2>1. \A i \in 1..n : i \in Gaps(g) <=> i \in Gaps(h)
    BY <1>2, <1>5
  <2>2. Gaps(g) = Gaps(h)
    BY <1>3, <2>1, Zenon
  <2> QED
    BY <1>1, <1>5, <2>2
<1> QED
  BY <1>4, <1>5

LEMMA GapsAppend ==
    ASSUME NEW h \in Seq(Session), NEW m \in Session
    PROVE  /\ OneLonger(h, Append(h, m)) /\ Append(h, m)[Len(Append(h, m))] = m
           /\ Cardinality(Gaps(h)) \in Nat
           /\ Cardinality(Gaps(Append(h, m))) =
                IF NewGap(h, m) THEN Cardinality(Gaps(h)) + 1 ELSE Cardinality(Gaps(h))
<1> SUFFICES ASSUME NEW g, g = Append(h, m)
             PROVE  /\ OneLonger(h, g) /\ g[Len(g)] = m /\ Cardinality(Gaps(h)) \in Nat
                    /\ Cardinality(Gaps(g)) =
                         IF NewGap(h, m) THEN Cardinality(Gaps(h)) + 1 ELSE Cardinality(Gaps(h))
  OBVIOUS
<1>1. OneLonger(h, g) /\ g[Len(g)] = m /\ Len(h) \in Nat
  BY DEF OneLonger
<1>2. /\ IsFiniteSet(Gaps(h)) /\ Gaps(h) \subseteq 1..(Len(h) - 1)
      /\ Gaps(g) = IF NewGap(h, m) THEN Gaps(h) \cup {Len(h)} ELSE Gaps(h)
  BY <1>1, GapsGrow
<1>3. Len(h) \notin Gaps(h)
  BY <1>1, <1>2
<1>4. Cardinality(Gaps(h)) \in Nat /\ Cardinality(Gaps(h) \cup {Len(h)}) = Cardinality(Gaps(h)) + 1
  BY <1>2, <1>3, FS_CardinalityType, FS_AddElement
<1> QED
  BY <1>1, <1>2, <1>4, Zenon

\* What has moved to its place stays there when messages are added behind it.
AddedTo(h, m, a, b) ==
    /\ Len(a) \in Nat /\ \A i \in 1..Len(a) : b[i] = a[i]
    /\ b[Len(b)] = m
    /\ IF NewGap(h, m) THEN Len(b) = Len(a) + 2 /\ b[Len(a) + 1] = Assistant(<<>>) ELSE Len(b) = Len(a) + 1

LEMMA HoldsAppend ==
    ASSUME NEW h, NEW m, NEW g, NEW a, NEW b, OneLonger(h, g), g[Len(g)] = m,
           Holds(h, a), Len(a) - Len(h) = Cardinality(Gaps(h)), AddedTo(h, m, a, b)
    PROVE  Holds(g, b)
<1> DEFINE new == NewGap(h, m)
           Before(x, i) == {j \in Gaps(x) : j < i}
<1> SUFFICES ASSUME NEW n \in Nat, n = Len(h), NEW k \in Nat, k = Len(a), NEW e \in Nat, e = Len(b),
                    Len(g) = n + 1, \A i \in 1..n : g[i] = h[i], g[n + 1] = m,
                    \A i \in 1..k : b[i] = a[i], b[e] = m, e = IF new THEN k + 2 ELSE k + 1,
                    new => b[k + 1] = Assistant(<<>>)
             PROVE  Holds(g, b)
  BY DEF OneLonger, AddedTo
<1>1. /\ IsFiniteSet(Gaps(h)) /\ Gaps(h) \subseteq 1..(n - 1)
      /\ Gaps(g) = IF new THEN Gaps(h) \cup {n} ELSE Gaps(h)
  BY GapsGrow
<1> HIDE DEF new
<1>2. \A x, i : MovedTo(x, i) = i + Cardinality(Before(x, i))
  BY Zenon DEF MovedTo
<1>3. ASSUME NEW i \in 1..n PROVE MovedTo(g, i) = MovedTo(h, i)
  <2>1. Before(g, i) = Before(h, i)
    BY <1>1
  <2> HIDE DEF Before
  <2> QED
    BY <1>2, <2>1, Zenon
<1>4. Cardinality(Gaps(h)) = k - n /\ Cardinality(Gaps(h)) \in Nat /\ k - n \in Nat
  BY <1>1, FS_CardinalityType
<1>5. n # 0 => MovedTo(h, n) = k
  <2>1. Before(h, n) = Gaps(h)
    BY <1>1
  <2>2. MovedTo(h, n) = n + Cardinality(Gaps(h))
    <3> HIDE DEF Before
    <3> QED
      BY <1>2, <2>1, Zenon
  <2> QED
    BY <1>4, <2>2
<1>6. MovedTo(g, n + 1) = e
  <2>1. Before(g, n + 1) = Gaps(g)
    BY <1>1
  <2>2. n \notin Gaps(h)
    BY <1>1
  <2>3. Cardinality(Gaps(h) \cup {n}) = Cardinality(Gaps(h)) + 1
    BY <1>1, <2>2, FS_AddElement
  <2>4. Cardinality(Gaps(g)) = IF new THEN Cardinality(Gaps(h)) + 1 ELSE Cardinality(Gaps(h))
    BY <1>1, <2>3, Zenon
  <2>5. MovedTo(g, n + 1) = n + 1 + Cardinality(Gaps(g))
    <3> HIDE DEF Before
    <3> QED
      BY <1>2, <2>1, Zenon
  <2>6. CASE new
    BY <1>4, <2>4, <2>5, <2>6
  <2>7. CASE ~new
    BY <1>4, <2>4, <2>5, <2>7
  <2> QED
    BY <2>6, <2>7
<1>7. ASSUME NEW i \in 1..Len(g) PROVE MovedTo(g, i) \in 1..Len(b) /\ b[MovedTo(g, i)] = g[i]
  <2>1. CASE i = n + 1
    BY <1>6, <2>1
  <2>2. CASE i # n + 1
    <3>1. i \in 1..n
      BY <2>2
    <3>2. MovedTo(g, i) \in 1..k /\ a[MovedTo(g, i)] = h[i] /\ g[i] = h[i]
      BY <1>3, <3>1 DEF Holds
    <3>3. b[MovedTo(g, i)] = g[i]
      BY <3>2
    <3> QED
      BY <3>2, <3>3
  <2> QED
    BY <2>1, <2>2
<1>8. ASSUME NEW i \in Gaps(g) PROVE MovedTo(g, i) + 1 \in 1..Len(b) /\ b[MovedTo(g, i) + 1] = Assistant(<<>>)
  <2>1. CASE i \in Gaps(h)
    <3>1. i \in 1..n
      BY <1>1, <2>1
    <3>2. MovedTo(g, i) + 1 \in 1..k /\ a[MovedTo(g, i) + 1] = Assistant(<<>>)
      BY <1>3, <2>1, <3>1 DEF Holds
    <3>3. b[MovedTo(g, i) + 1] = Assistant(<<>>)
      BY <3>2
    <3> QED
      BY <3>2, <3>3
  <2>2. CASE i \notin Gaps(h)
    <3>1. new /\ i = n /\ n # 0
      BY <1>1, <2>2 DEF new, NewGap
    <3>2. MovedTo(g, i) = k
      BY <1>3, <1>5, <3>1
    <3> QED
      BY <3>1, <3>2
  <2> QED
    BY <2>1, <2>2
<1> QED
  BY <1>7, <1>8 DEF Holds

LEMMA AppendIs ==
    ASSUME NEW d \in Seq(Session), NEW m \in Session, NEW b, b = Append(d, m)
    PROVE  /\ Len(b) = Len(d) + 1 /\ b # <<>> /\ b[Len(d) + 1] = m
           /\ \A i \in 1..Len(d) : b[i] = d[i]
<1>1. Len(b) = Len(d) + 1 /\ Len(d) \in Nat
  OBVIOUS
<1>2. b[Len(d) + 1] = m
  OBVIOUS
<1>3. \A i \in 1..Len(d) : b[i] = d[i]
  OBVIOUS
<1>4. b # <<>>
  BY <1>1
<1> QED
  BY <1>1, <1>2, <1>3, <1>4

\* The pre-call hook repairs every list of messages, and keeps its last message.
LEMMA ShimOfAll ==
    ASSUME NEW h \in Seq(Session) PROVE Repaired(h) /\ SameEnd(h, Shim(h))
<1> DEFINE S == {x \in Seq(Session) : Repaired(x) /\ SameEnd(x, Shim(x))}
<1>1. <<>> \in S
  <2>1. ShimPieces(<<>>) = <<>>
    BY DEF ShimPieces
  <2>2. Shim(<<>>) = <<>>
    BY <2>1 DEF Shim, ShimPieces, FlattenSeq
  <2>3. Gaps(<<>>) = {}
    BY DEF Gaps
  <2>4. Len(<<>>) = 0 /\ <<>> \in Seq(Session)
    OBVIOUS
  <2>5. Cardinality(Gaps(<<>>)) = 0
    BY <2>3, FS_EmptySet
  <2>6. Repaired(<<>>)
    BY <2>2, <2>3, <2>4, <2>5 DEF Repaired, Holds
  <2> QED
    BY <2>2, <2>4, <2>6 DEF SameEnd
<1>2. ASSUME NEW x \in Seq(Session), NEW m \in Session, x \in S PROVE Append(x, m) \in S
  <2> SUFFICES ASSUME NEW a, a = Shim(x), NEW b, b = Shim(Append(x, m)), NEW g, g = Append(x, m)
               PROVE  Repaired(g) /\ SameEnd(g, b)
    <3>1. Append(x, m) \in Seq(Session)
      OBVIOUS
    <3> HIDE DEF S
    <3>2. Repaired(Append(x, m)) /\ SameEnd(Append(x, m), Shim(Append(x, m))) => Append(x, m) \in S
      BY <3>1 DEF S
    <3> QED
      BY <3>2, Zenon
  <2>1. a \in Seq(Session) /\ Len(a) \in Nat /\ Len(x) \in Nat /\ Len(g) = Len(x) + 1 /\ g # <<>> /\ g[Len(g)] = m
    BY ShimType
  <2>2. /\ \A i \in 1..(Len(a) - 1) : ~(a[i].role = "tool" /\ a[i + 1].role = "user")
        /\ Len(a) - Len(x) = Cardinality(Gaps(x)) /\ Holds(x, a)
        /\ IF x = <<>> THEN a = <<>> ELSE a # <<>> /\ a[Len(a)] = x[Len(x)]
    BY <1>2 DEF Repaired, SameEnd
  <2>0. OneLonger(x, g) /\ g[Len(g)] = m /\ (NewGap(x, m) <=> x # <<>> /\ x[Len(x)].role = "tool" /\ m.role = "user")
    <3>1. x # <<>> <=> Len(x) # 0
      OBVIOUS
    <3> QED
      BY <3>1, GapsAppend DEF NewGap
  <2>3. CASE x # <<>> /\ x[Len(x)].role = "tool" /\ m.role = "user"
    <3> SUFFICES ASSUME NEW c, c = Append(a, Assistant(<<>>))
                 PROVE  Repaired(g) /\ SameEnd(g, b)
      OBVIOUS
    <3>1. b = Append(c, m)
      BY <2>3, ShimGap
    <3>2. /\ c \in Seq(Session) /\ Len(c) = Len(a) + 1 /\ c[Len(a) + 1].role = "assistant"
          /\ \A i \in 1..Len(a) : c[i] = a[i]
      BY <2>1, SpokenMessages DEF Assistant
    <3>3. /\ Len(b) = Len(a) + 2 /\ b # <<>> /\ b[Len(b)] = m
          /\ b[Len(a) + 1].role = "assistant"
          /\ \A i \in 1..Len(a) : b[i] = a[i]
      <4>0. c \in Seq(Session) /\ b = Append(c, m)
        BY <3>1, <3>2
      <4>1. Len(b) = Len(c) + 1 /\ b # <<>> /\ b[Len(c) + 1] = m /\ \A i \in 1..Len(c) : b[i] = c[i]
        BY <4>0, AppendIs
      <4>2. Len(a) + 1 \in 1..Len(c) /\ \A i \in 1..Len(a) : i \in 1..Len(c)
        BY <2>1, <3>2
      <4>3. b[Len(a) + 1] = c[Len(a) + 1] /\ \A i \in 1..Len(a) : b[i] = c[i]
        BY <4>1, <4>2, Zenon
      <4> QED
        BY <2>1, <3>2, <4>1, <4>3
    <3>4. Cardinality(Gaps(g)) = Cardinality(Gaps(x)) + 1 /\ Cardinality(Gaps(x)) \in Nat
      BY <2>0, <2>3, GapsAppend
    <3>5. Len(b) - Len(g) = Cardinality(Gaps(g))
      BY <2>1, <2>2, <3>3, <3>4
    <3>6. ASSUME NEW i \in 1..(Len(b) - 1) PROVE ~(b[i].role = "tool" /\ b[i + 1].role = "user")
      <4>1. CASE i = Len(a) + 1
        BY <3>3, <4>1
      <4>2. CASE i = Len(a)
        BY <3>3, <4>2
      <4>3. CASE i < Len(a)
        <5>1. Len(a) \in Nat /\ i \in Int /\ i >= 1
          BY <2>1
        <5>2. i \in 1..(Len(a) - 1) /\ i \in 1..Len(a) /\ i + 1 \in 1..Len(a)
          BY <4>3, <5>1
        <5>3. b[i] = a[i] /\ b[i + 1] = a[i + 1]
          BY <3>3, <5>2, Zenon
        <5> QED
          BY <2>2, <5>2, <5>3, Zenon
      <4> QED
        BY <2>1, <3>3, <4>1, <4>2, <4>3
    <3>7. b[Len(a) + 1] = Assistant(<<>>)
      BY <2>1, <3>1, <3>2
    <3>8. AddedTo(x, m, a, b)
      BY <2>0, <2>1, <2>3, <3>3, <3>7 DEF AddedTo
    <3>9. Holds(g, b)
      BY <2>0, <2>2, <3>8, HoldsAppend
    <3> QED
      BY <2>1, <3>3, <3>5, <3>6, <3>9 DEF Repaired, SameEnd
  <2>4. CASE ~(x # <<>> /\ x[Len(x)].role = "tool" /\ m.role = "user")
    <3>1. b = Append(a, m)
      BY <2>4, ShimPlain
    <3>2. /\ Len(b) = Len(a) + 1 /\ b # <<>> /\ b[Len(b)] = m
          /\ \A i \in 1..Len(a) : b[i] = a[i]
      BY <2>1, <3>1
    <3>3. Cardinality(Gaps(g)) = Cardinality(Gaps(x)) /\ Cardinality(Gaps(x)) \in Nat
      BY <2>0, <2>4, GapsAppend
    <3>4. Len(b) - Len(g) = Cardinality(Gaps(g))
      BY <2>1, <2>2, <3>2, <3>3
    <3>5. ASSUME NEW i \in 1..(Len(b) - 1) PROVE ~(b[i].role = "tool" /\ b[i + 1].role = "user")
      <4>1. CASE i = Len(a)
        <5>1. a # <<>> /\ b[i] = a[Len(a)] /\ b[i + 1] = m
          BY <2>1, <3>2, <4>1
        <5> QED
          BY <2>2, <2>4, <5>1
      <4>2. CASE i < Len(a)
        <5>1. i \in 1..(Len(a) - 1) /\ b[i] = a[i] /\ b[i + 1] = a[i + 1]
          BY <2>1, <3>2, <4>2
        <5> QED
          BY <2>2, <5>1
      <4> QED
        BY <2>1, <3>2, <4>1, <4>2
    <3>6. AddedTo(x, m, a, b)
      BY <2>0, <2>1, <2>4, <3>2 DEF AddedTo
    <3>7. Holds(g, b)
      BY <2>0, <2>2, <3>6, HoldsAppend
    <3> QED
      BY <2>1, <3>2, <3>4, <3>5, <3>7 DEF Repaired, SameEnd
  <2> QED
    BY <2>3, <2>4
<1> HIDE DEF S
<1>3. Seq(Session) \subseteq S
  BY <1>1, <1>2, InductMessages
<1> QED
  BY <1>3 DEF S

------------------------------------------------------------------------------
(* The walk of the hook over the repaired history, and the abstract count.     *)

LEMMA CountAppend ==
    ASSUME NEW h \in Seq(Session), NEW m \in Session, NEW s
    PROVE  Count(Append(h, m), s) = IF m.role = "tool" THEN Count(h, s)
                                    ELSE IF Matches(m, s) THEN 1 + Count(h, s) ELSE 0
<1> SUFFICES ASSUME NEW n \in Nat, n = Len(h), NEW g, g = Append(h, m)
             PROVE  Count(g, s) = IF m.role = "tool" THEN Count(h, s)
                                  ELSE IF Matches(m, s) THEN 1 + Count(h, s) ELSE 0
  <2>1. Len(h) \in Nat
    OBVIOUS
  <2> QED
    BY <2>1
<1>1. /\ Len(g) = n + 1 /\ g[n + 1] = m
      /\ \A i \in 1..n : g[i] = h[i]
  OBVIOUS
<1>2. Identical(m, s) <=> Matches(m, s)
  BY DEF Identical, Matches
<1>3. Count(g, s) = IF g[n + 1].role = "tool" THEN Count(h, s)
                    ELSE IF Identical(g[n + 1], s) THEN 1 + Count(h, s) ELSE 0
  BY <1>1, CountStep
<1> QED
  BY <1>1, <1>2, <1>3, Zenon

UserAt(h) == {i \in 1..Len(h) : h[i].role = "user"}

LEMMA SinceUserAt ==
    ASSUME NEW h
    PROVE  SinceUser(h) = SubSeq(h, (IF UserAt(h) # {} THEN Max(UserAt(h)) ELSE 0) + 1, Len(h))
  BY DEF SinceUser, SelectLastInSeq, UserAt

LEMMA MaxIn ==
    ASSUME NEW n \in Nat, NEW I \in SUBSET (1..n), I # {}
    PROVE  Max(I) \in I
<1> DEFINE T == {n - i : i \in I}
<1>1. \A i \in I : n - i \in Nat /\ n - i \in T /\ i \in Nat
  OBVIOUS
<1>2. T \in SUBSET Nat /\ T # {}
  BY <1>1
<1>3. PICK d \in T : \A e \in T : d <= e
  <2> HIDE DEF T
  <2> QED
    BY <1>2, LeastNumber
<1>4. PICK k \in I : d = n - k
  OBVIOUS
<1> HIDE DEF T
<1>5. ASSUME NEW i \in I PROVE k >= i
  <2>1. n - k <= n - i
    BY <1>1, <1>3, <1>4
  <2> QED
    BY <1>1, <2>1
<1> QED
  BY <1>5 DEF Max

LEMMA SinceUserEmpty == SinceUser(<<>>) = <<>>
<1>1. UserAt(<<>>) = {}
  BY DEF UserAt
<1>2. SinceUser(<<>>) = SubSeq(<<>>, 0 + 1, Len(<<>>))
  BY <1>1, SinceUserAt
<1> QED
  BY <1>2

LEMMA SinceUserSaid ==
    ASSUME NEW h \in Seq(Session), NEW m \in Session, m.role = "user"
    PROVE  SinceUser(Append(h, m)) = <<>>
<1> SUFFICES ASSUME NEW n \in Nat, n = Len(h), NEW g, g = Append(h, m)
             PROVE  SinceUser(g) = <<>>
  <2>1. Len(h) \in Nat
    OBVIOUS
  <2> QED
    BY <2>1
<1>1. g \in Seq(Session) /\ Len(g) = n + 1 /\ g[n + 1] = m
  OBVIOUS
<1>2. n + 1 \in UserAt(g) /\ \A i \in UserAt(g) : i \in Nat /\ n + 1 >= i
  BY <1>1 DEF UserAt
<1>3. Max(UserAt(g)) = n + 1
  BY <1>2 DEF Max
<1>4. SinceUser(g) = SubSeq(g, (n + 1) + 1, n + 1)
  BY <1>1, <1>2, <1>3, SinceUserAt
<1> QED
  BY <1>1, <1>4

LEMMA SinceUserAppend ==
    ASSUME NEW h \in Seq(Session), NEW m \in Session, m.role # "user"
    PROVE  SinceUser(Append(h, m)) = Append(SinceUser(h), m)
<1> SUFFICES ASSUME NEW n \in Nat, n = Len(h), NEW g, g = Append(h, m)
             PROVE  SinceUser(g) = Append(SinceUser(h), m)
  <2>1. Len(h) \in Nat
    OBVIOUS
  <2> QED
    BY <2>1
<1>1. /\ g \in Seq(Session) /\ Len(g) = n + 1 /\ g[n + 1] = m
      /\ \A i \in 1..n : g[i] = h[i]
  OBVIOUS
<1>2. UserAt(g) = UserAt(h) /\ UserAt(h) \subseteq 1..n
  BY <1>1 DEF UserAt
<1> DEFINE k == IF UserAt(h) # {} THEN Max(UserAt(h)) ELSE 0
<1>3. k \in 0..n
  <2>1. CASE UserAt(h) = {}
    BY <2>1
  <2>2. CASE UserAt(h) # {}
    <3>1. UserAt(h) \in SUBSET (1..n)
      BY <1>2
    <3>2. Max(UserAt(h)) \in UserAt(h)
      BY <2>2, <3>1, MaxIn
    <3> QED
      BY <2>2, <3>1, <3>2
  <2> QED
    BY <2>1, <2>2
<1>4. SinceUser(h) = SubSeq(h, k + 1, n) /\ SinceUser(g) = SubSeq(g, k + 1, n + 1)
  BY <1>1, <1>2, SinceUserAt
<1> HIDE DEF k
<1>5. SubSeq(g, k + 1, n + 1) = Append(SubSeq(h, k + 1, n), m)
  <2> DEFINE a == SubSeq(g, k + 1, n + 1)
             b == SubSeq(h, k + 1, n)
  <2>1. a \in Seq(Session) /\ Len(a) = n + 1 - k /\ \A i \in 1..(n + 1 - k) : a[i] = g[i + k]
    BY <1>1, <1>3
  <2>2. b \in Seq(Session) /\ Len(b) = n - k /\ \A i \in 1..(n - k) : b[i] = h[i + k]
    BY <1>1, <1>3
  <2> HIDE DEF a, b
  <2>3. /\ Append(b, m) \in Seq(Session) /\ Len(Append(b, m)) = n - k + 1
        /\ \A i \in 1..(n - k) : Append(b, m)[i] = b[i]
        /\ Append(b, m)[n - k + 1] = m
    BY <1>3, <2>2
  <2>4. ASSUME NEW i \in 1..(n + 1 - k) PROVE a[i] = Append(b, m)[i]
    <3>1. CASE i = n - k + 1
      <4>1. i + k = n + 1
        BY <1>3, <3>1
      <4> QED
        BY <1>1, <2>1, <2>3, <3>1, <4>1
    <3>2. CASE i # n - k + 1
      <4>1. i + k \in 1..n /\ i \in 1..(n - k)
        BY <1>3, <3>2
      <4> QED
        BY <1>1, <2>1, <2>2, <2>3, <4>1
    <3> QED
      BY <3>1, <3>2
  <2>5. Len(a) = Len(Append(b, m)) /\ Len(a) = n + 1 - k
    BY <1>3, <2>1, <2>3
  <2>6. a = Append(b, m)
    BY <2>1, <2>3, <2>4, <2>5
  <2> QED
    BY <2>6 DEF a, b
<1> QED
  BY <1>4, <1>5

LEMMA SinceUserType ==
    ASSUME NEW h \in Seq(Session)
    PROVE  SinceUser(h) \in Seq(Messages) /\ Len(SinceUser(h)) <= Len(h)
<1> DEFINE S == {x \in Seq(Session) : SinceUser(x) \in Seq(Messages) /\ Len(SinceUser(x)) <= Len(x)}
<1>1. <<>> \in S
  <2>1. <<>> \in Seq(Session) /\ <<>> \in Seq(Messages) /\ Len(<<>>) <= Len(<<>>)
    OBVIOUS
  <2> QED
    BY <2>1, SinceUserEmpty
<1>2. ASSUME NEW x \in Seq(Session), NEW m \in Session, x \in S PROVE Append(x, m) \in S
  <2>1. Append(x, m) \in Seq(Session) /\ Len(x) \in Nat /\ Len(Append(x, m)) = Len(x) + 1
    OBVIOUS
  <2>2. CASE m.role = "user"
    <3>1. SinceUser(Append(x, m)) = <<>>
      BY <2>2, SinceUserSaid
    <3>2. <<>> \in Seq(Messages) /\ Len(<<>>) = 0
      OBVIOUS
    <3>3. SinceUser(Append(x, m)) \in Seq(Messages) /\ Len(SinceUser(Append(x, m))) <= Len(x) + 1
      BY <2>1, <3>1, <3>2
    <3> QED
      BY <2>1, <3>3
  <2>3. CASE m.role # "user"
    <3>1. SinceUser(Append(x, m)) = Append(SinceUser(x), m)
      BY <2>3, SinceUserAppend
    <3>2. m \in Messages
      BY <2>3 DEF Messages, Session
    <3>3. Append(SinceUser(x), m) \in Seq(Messages) /\ Len(Append(SinceUser(x), m)) <= Len(x) + 1
      BY <1>2, <2>1, <3>2
    <3> QED
      BY <2>1, <3>1, <3>3
  <2> QED
    BY <2>2, <2>3
<1> HIDE DEF S
<1>3. Seq(Session) \subseteq S
  BY <1>1, <1>2, InductMessages
<1> QED
  BY <1>3 DEF S

\* The hook counts in the repaired history what the abstract guard counts in
\* the messages since the last user message.
LEMMA CountsAgree ==
    ASSUME NEW h \in Seq(Session), NEW s
    PROVE  Count(Shim(h), s) = Cardinality(Run(SinceUser(h), s))
<1> DEFINE S == {x \in Seq(Session) : Count(Shim(x), s) = Cardinality(Run(SinceUser(x), s))}
<1>1. <<>> \in S
  <2>1. Shim(<<>>) = <<>>
    <3>1. <<>> \in Seq(Session)
      OBVIOUS
    <3> QED
      BY <3>1, ShimOfAll DEF SameEnd
  <2>2. Count(Shim(<<>>), s) = Cardinality(Run(SinceUser(<<>>), s))
    BY <2>1, CountEmpty, RunEmpty, SinceUserEmpty
  <2> QED
    BY <2>2
<1>2. ASSUME NEW x \in Seq(Session), NEW m \in Session, x \in S PROVE Append(x, m) \in S
  <2> SUFFICES Count(Shim(Append(x, m)), s) = Cardinality(Run(SinceUser(Append(x, m)), s))
    OBVIOUS
  <2>1. Shim(x) \in Seq(Session) /\ SinceUser(x) \in Seq(Messages)
    BY ShimType, SinceUserType
  <2>2. CASE m.role = "user"
    <3>1. ~Matches(m, s) /\ m.role # "tool"
      BY <2>2 DEF Matches
    <3>2. Count(Shim(Append(x, m)), s) = 0
      <4>1. PICK c \in Seq(Session) : Shim(Append(x, m)) = Append(c, m)
        <5>1. CASE x # <<>> /\ x[Len(x)].role = "tool"
          <6>1. Append(Shim(x), Assistant(<<>>)) \in Seq(Session)
            BY <2>1, SpokenMessages
          <6> QED
            BY <2>2, <5>1, <6>1, ShimGap
        <5>2. CASE ~(x # <<>> /\ x[Len(x)].role = "tool")
          BY <2>1, <5>2, ShimPlain
        <5> QED
          BY <5>1, <5>2
      <4> QED
        BY <3>1, <4>1, CountAppend
    <3>3. SinceUser(Append(x, m)) = <<>>
      BY <2>2, SinceUserSaid
    <3> QED
      BY <3>2, <3>3, RunEmpty
  <2>3. CASE m.role # "user"
    <3>1. Shim(Append(x, m)) = Append(Shim(x), m)
      BY <2>3, ShimPlain
    <3>2. SinceUser(Append(x, m)) = Append(SinceUser(x), m) /\ m \in Messages
      BY <2>3, SinceUserAppend DEF Messages, Session
    <3> DEFINE c == Count(Shim(x), s)
    <3>3. Count(Append(Shim(x), m), s) = IF m.role = "tool" THEN c ELSE IF Matches(m, s) THEN 1 + c ELSE 0
      BY <2>1, CountAppend
    <3>4. c = Cardinality(Run(SinceUser(x), s)) /\ c \in Nat
      BY <1>2, <2>1, RunFinite
    <3> HIDE DEF c
    <3>5. CASE m.role = "tool"
      BY <2>1, <3>1, <3>2, <3>3, <3>4, <3>5, RunTool
    <3>6. CASE m.role # "tool" /\ Matches(m, s)
      <4>1. Cardinality(Run(Append(SinceUser(x), m), s)) = c + 1
        BY <2>1, <3>2, <3>4, <3>6, RunSame
      <4> QED
        BY <3>1, <3>2, <3>3, <3>4, <3>6, <4>1
    <3>7. CASE m.role # "tool" /\ ~Matches(m, s)
      BY <2>1, <3>1, <3>2, <3>3, <3>7, RunOther
    <3> QED
      BY <3>5, <3>6, <3>7
  <2> QED
    BY <2>2, <2>3
<1> HIDE DEF S
<1>3. Seq(Session) \subseteq S
  BY <1>1, <1>2, InductMessages
<1> QED
  BY <1>3 DEF S

------------------------------------------------------------------------------
ProxyTypeOK ==
    /\ history \in Seq(Session) /\ todo \in Seq(Calls) /\ row \in Seq(Sigs) /\ par \in BOOLEAN

Recent(s) == Cardinality(Run(SinceUser(history), s))

\* What the hook counts was executed, or is about to be.
Earned ==
    \A s \in Sigs : Recent(s) > 0 =>
        /\ Recent(s) <= Len(row) + Len(todo)
        /\ row # <<>> => row[1] = s
        /\ todo # <<>> => Len(todo) = 1 /\ Sig[todo[1]] = s

ProxyInv == ProxyTypeOK /\ Earned

\* The calls that reach the agent are those of the answer, or none, and the
\* guard does not block them.
LEMMA HookCalls ==
    ASSUME NEW a \in Answers, NEW msgs, NEW cs, NEW streaming \in BOOLEAN,
           cs = IF streaming THEN StreamingHook(msgs, a) ELSE SuccessHook(msgs, a)
    PROVE  /\ cs \in Seq(Calls)
           /\ cs # <<>> => ~Blocked(msgs, cs) /\ (cs = a.native \/ cs = a.embedded)
<1>1. a.native \in Seq(Calls) /\ a.embedded \in Seq(Calls) /\ <<>> \in Seq(Calls)
  BY ProxyAssumption
<1>2. PICK d : (d = a.native \/ d = a.embedded) /\ cs = Guarded(msgs, d)
  BY DEF StreamingHook, SuccessHook
<1>3. cs = IF Blocked(msgs, d) THEN <<>> ELSE d
  BY <1>2 DEF Guarded
<1> QED
  BY <1>1, <1>2, <1>3

LEMMA RecentNat == ASSUME ProxyTypeOK, NEW s PROVE Recent(s) \in Nat
<1>1. SinceUser(history) \in Seq(Messages)
  BY SinceUserType DEF ProxyTypeOK
<1> QED
  BY <1>1, RunFinite DEF Recent

LEMMA ProxyInitInv == Init => ProxyInv
<1> SUFFICES ASSUME Init PROVE ProxyInv
  OBVIOUS
<1>1. history = <<>> /\ todo = <<>> /\ row = <<>> /\ par = FALSE
  BY DEF Init, Rest
<1>2. history \in Seq(Session) /\ todo \in Seq(Calls) /\ row \in Seq(Sigs)
  BY <1>1
<1>3. par \in BOOLEAN
  BY <1>1, Zenon
<1>4. \A s \in Sigs : Recent(s) = 0
  BY <1>1, SinceUserEmpty, RunEmpty DEF Recent
<1> QED
  BY <1>2, <1>3, <1>4 DEF ProxyInv, ProxyTypeOK, Earned

LEMMA SayInv == ASSUME ProxyInv, Say PROVE ProxyInv'
<1>1. /\ history \in Seq(Session) /\ todo \in Seq(Calls)
      /\ todo' = todo /\ row' = <<>> /\ par' = FALSE /\ history' = Append(history, User)
  BY DEF Say, Interject, ProxyInv, ProxyTypeOK
<1>2. User \in Session /\ User.role = "user"
  BY DEF User, Session
<1>3. history' \in Seq(Session) /\ row' \in Seq(Sigs)
  BY <1>1, <1>2
<1>4. par' \in BOOLEAN
  BY <1>1, Zenon
<1>5. \A s \in Sigs : Recent(s)' = 0
  BY <1>1, <1>2, SinceUserSaid, RunEmpty DEF Recent
<1> QED
  BY <1>1, <1>3, <1>4, <1>5 DEF ProxyInv, ProxyTypeOK, Earned

\* What a request does: the calls cs come through the hook.
LEMMA RequestStep ==
    ASSUME ProxyInv, NEW streaming \in BOOLEAN, NEW a \in Answers, Request(streaming, a)
    PROVE  \E cs \in Seq(Calls) :
              /\ Receive(cs) /\ history' = Append(history, Assistant(cs)) /\ Len(history) < MaxLen
              /\ cs # <<>> => ~Blocked(Shim(history), cs) /\ (cs = a.native \/ cs = a.embedded)
<1> DEFINE cs == IF streaming THEN StreamingHook(Shim(history), a) ELSE SuccessHook(Shim(history), a)
<1>1. Receive(cs) /\ history' = Append(history, Assistant(cs)) /\ Len(history) < MaxLen
  BY DEF Request
<1>2. /\ cs \in Seq(Calls)
      /\ cs # <<>> => ~Blocked(Shim(history), cs) /\ (cs = a.native \/ cs = a.embedded)
  BY HookCalls
<1> QED
  BY <1>1, <1>2

LEMMA ReceiveInv ==
    ASSUME ProxyInv, NEW cs \in Seq(Calls), Receive(cs), history' = Append(history, Assistant(cs))
    PROVE  ProxyInv'
<1> DEFINE m == Assistant(cs)
<1>1. /\ history \in Seq(Session) /\ row \in Seq(Sigs) /\ todo = <<>> /\ todo' = cs
      /\ row' = IF cs # <<>> /\ row # <<>> /\ row[1] = Sig[cs[1]] THEN row ELSE <<>>
      /\ par' = (Len(cs) > 1 \/ (par /\ row' # <<>>))
  BY DEF Receive, ProxyInv, ProxyTypeOK
<1>2. m \in Session /\ m.role = "assistant" /\ m.calls = cs
  BY SpokenMessages DEF Assistant
<1>3. m \in Messages /\ SinceUser(history) \in Seq(Messages)
  BY <1>1, <1>2, SinceUserType DEF Messages, Session
<1> HIDE DEF m
<1>4. history' = Append(history, m)
  BY DEF m
<1>5. SinceUser(history)' = Append(SinceUser(history), m)
  BY <1>1, <1>2, <1>4, SinceUserAppend
<1>6. \A s : Matches(m, s) <=> Len(cs) = 1 /\ Sig[cs[1]] = s
  BY <1>2 DEF Matches
<1>7. \A s \in Sigs : Recent(s)' = IF Len(cs) = 1 /\ Sig[cs[1]] = s THEN Recent(s) + 1 ELSE 0
  BY <1>2, <1>3, <1>5, <1>6, RunSame, RunOther DEF Recent
<1>8. \A s \in Sigs : Recent(s) \in Nat
  BY RecentNat DEF ProxyInv
<1>9. history' \in Seq(Session) /\ row' \in Seq(Sigs) /\ todo' \in Seq(Calls)
  BY <1>1, <1>2, <1>4
<1>10. par' \in BOOLEAN
  BY <1>1, Zenon
<1>11. Earned'
  <2> SUFFICES ASSUME NEW s \in Sigs, Recent(s)' > 0
               PROVE  /\ Recent(s)' <= Len(row') + Len(todo')
                      /\ row' # <<>> => row'[1] = s
                      /\ todo' # <<>> => Len(todo') = 1 /\ Sig[todo'[1]] = s
    BY DEF Earned
  <2>1. Len(cs) = 1 /\ Sig[cs[1]] = s /\ Recent(s)' = Recent(s) + 1 /\ cs # <<>>
    BY <1>7
  <2>2. CASE Recent(s) > 0
    <3>1. Recent(s) <= Len(row) + Len(todo) /\ (row # <<>> => row[1] = s)
      BY <2>2 DEF ProxyInv, Earned
    <3>2. Len(todo) = 0 /\ Len(row) \in Nat
      BY <1>1
    <3>3. row # <<>> /\ row[1] = s
      BY <1>1, <1>8, <2>2, <3>1, <3>2
    <3>4. row' = row
      BY <1>1, <2>1, <3>3
    <3> QED
      BY <1>1, <1>8, <2>1, <3>1, <3>2, <3>3, <3>4
  <2>3. CASE Recent(s) = 0
    <3>1. Len(row') \in Nat /\ (row' # <<>> => row'[1] = s)
      BY <1>1, <1>9, <2>1
    <3> QED
      BY <1>1, <2>1, <2>3, <3>1
  <2> QED
    BY <1>8, <2>2, <2>3
<1> QED
  BY <1>9, <1>10, <1>11 DEF ProxyInv, ProxyTypeOK

LEMMA ProxyExecuteInv == ASSUME ProxyInv, Execute PROVE ProxyInv'
<1> DEFINE c == Sig[todo[1]]
<1>1. /\ todo \in Seq(Calls) /\ todo # <<>> /\ Head(todo) = todo[1] /\ c \in Sigs
      /\ Len(todo) \in Nat /\ Tail(todo) \in Seq(Calls) /\ Len(Tail(todo)) = Len(todo) - 1
      /\ history \in Seq(Session) /\ row \in Seq(Sigs) /\ par \in BOOLEAN
  BY AgentAssumption DEF Execute, Perform, ProxyInv, ProxyTypeOK
<1>2. /\ history' = Append(history, ToolResult) /\ todo' = Tail(todo) /\ par' = par
      /\ row' = IF row # <<>> /\ row[1] = c THEN Append(row, c) ELSE <<c>>
  BY <1>1 DEF Execute, Perform
<1>3. ToolResult \in Session /\ ToolResult \in Messages /\ ToolResult.role = "tool"
  BY DEF ToolResult, Session, Messages
<1>4. SinceUser(history)' = Append(SinceUser(history), ToolResult) /\ SinceUser(history) \in Seq(Messages)
  BY <1>1, <1>2, <1>3, SinceUserAppend, SinceUserType
<1>5. \A s \in Sigs : Recent(s)' = Recent(s) /\ Recent(s) \in Nat
  BY <1>3, <1>4, RunTool, RunFinite DEF Recent
<1> HIDE DEF c
<1>6. /\ row' \in Seq(Sigs) /\ row' # <<>> /\ row'[1] = c
      /\ Len(row') = IF row # <<>> /\ row[1] = c THEN Len(row) + 1 ELSE 1
  <2>1. CASE row # <<>> /\ row[1] = c
    <3>1. row' = Append(row, c)
      BY <1>2, <2>1
    <3>2. /\ Append(row, c) \in Seq(Sigs) /\ Append(row, c) # <<>> /\ Append(row, c)[1] = c
          /\ Len(Append(row, c)) = Len(row) + 1
      BY <1>1, <2>1
    <3> QED
      BY <3>1, <3>2, <2>1
  <2>2. CASE ~(row # <<>> /\ row[1] = c)
    BY <1>1, <1>2, <2>2
  <2> QED
    BY <2>1, <2>2
<1>7. history' \in Seq(Session)
  BY <1>1, <1>2, <1>3
<1>8. Earned'
  <2> SUFFICES ASSUME NEW s \in Sigs, Recent(s)' > 0
               PROVE  /\ Recent(s)' <= Len(row') + Len(todo')
                      /\ row' # <<>> => row'[1] = s
                      /\ todo' # <<>> => Len(todo') = 1 /\ Sig[todo'[1]] = s
    BY DEF Earned
  <2>1. /\ Recent(s)' = Recent(s) /\ Recent(s) > 0 /\ Recent(s) \in Nat
        /\ Recent(s) <= Len(row) + Len(todo)
        /\ row # <<>> => row[1] = s
        /\ Len(todo) = 1 /\ c = s
    BY <1>1, <1>5 DEF ProxyInv, Earned, c
  <2>2. todo' = <<>> /\ Len(todo') = 0
    <3>1. todo' = Tail(todo) /\ todo \in Seq(Calls) /\ Len(todo) = 1
      BY <1>1, <1>2, <2>1
    <3> QED
      BY <3>1
  <2>3. Len(row') = Len(row) + 1 /\ Len(row) \in Nat
    BY <1>1, <1>6, <2>1
  <2> QED
    BY <1>6, <2>1, <2>2, <2>3
<1> QED
  BY <1>1, <1>2, <1>6, <1>7, <1>8 DEF ProxyInv, ProxyTypeOK

LEMMA ProxyStepInv == ProxyInv /\ [Next]_vars => ProxyInv'
<1> SUFFICES ASSUME ProxyInv, [Next]_vars PROVE ProxyInv'
  OBVIOUS
<1>1. CASE Say
  BY <1>1, SayInv
<1>2. CASE \E streaming \in BOOLEAN, a \in Answers : Request(streaming, a)
  BY <1>2, RequestStep, ReceiveInv
<1>3. CASE Execute
  BY <1>3, ProxyExecuteInv
<1>4. CASE UNCHANGED vars
  BY <1>4 DEF vars, ProxyInv, ProxyTypeOK, Earned, Recent
<1> QED
  BY <1>1, <1>2, <1>3, <1>4 DEF Next

\* An answer is dropped only when the last Threshold calls the agent executed
\* were all the one it starts with (fix_tool_messages.py:251-273).
THEOREM OnlyRepeats == Spec => []OnlyRepeatsBlocked
<1>1. ASSUME ProxyInv PROVE OnlyRepeatsBlocked
  <2> SUFFICES ASSUME NEW a \in Answers, todo = <<>>, a.native # <<>>,
                      SuccessHook(Shim(history), a) = <<>>
               PROVE  Len(row) >= Threshold /\ row[1] = Sig[a.native[1]]
    BY DEF OnlyRepeatsBlocked
  <2> DEFINE s == Sig[a.native[1]]
  <2>1. s \in Sigs
    BY ProxyAssumption, AgentAssumption
  <2>2. Blocked(Shim(history), a.native)
    BY DEF SuccessHook, Guarded
  <2>3. Threshold > 0 /\ Count(Shim(history), s) >= Threshold
    BY <2>2 DEF Blocked
  <2>4. Recent(s) = Count(Shim(history), s) /\ Recent(s) \in Nat
    BY <1>1, CountsAgree, RecentNat DEF Recent, ProxyInv, ProxyTypeOK
  <2> HIDE DEF s
  <2>5. Threshold \in Nat /\ row \in Seq(Sigs) /\ Len(todo) = 0
    BY <1>1, AgentAssumption DEF ProxyInv, ProxyTypeOK
  <2>6. Recent(s) > 0 /\ Recent(s) >= Threshold
    BY <2>3, <2>4, <2>5
  <2>7. Recent(s) <= Len(row) + Len(todo) /\ (row # <<>> => row[1] = s)
    BY <1>1, <2>1, <2>6 DEF ProxyInv, Earned
  <2>8. Len(row) >= Threshold /\ row # <<>>
    BY <2>4, <2>5, <2>6, <2>7
  <2> QED
    BY <2>7, <2>8 DEF s
<1> QED
  BY <1>1, ProxyInitInv, ProxyStepInv, PTL DEF Spec

\* The streaming and the plain hook hand on the same calls, unless the answer
\* has calls of both kinds (fix_tool_messages.py:296-480).
THEOREM HooksAgree == Spec => []PathsAgree
<1>1. PathsAgree
  BY DEF PathsAgree, SuccessHook, StreamingHook
<1> QED
  BY <1>1, PTL DEF Spec

\* The pre-call hook leaves no user message right after a tool result, keeps every message
\* in its order, and adds nothing but the answers that are missing
\* (fix_tool_messages.py:280-294).
THEOREM HistoriesRepaired == Spec => []ShimRepairs
<1>1. ASSUME ProxyInv PROVE ShimRepairs
  <2>1. Repaired(history)
    BY <1>1, ShimOfAll DEF ProxyInv, ProxyTypeOK
  <2> QED
    BY <2>1 DEF Repaired, Holds, ShimRepairs
<1> QED
  BY <1>1, ProxyInitInv, ProxyStepInv, PTL DEF Spec

------------------------------------------------------------------------------
LEMMA GuardBlocks ==
    ASSUME ProxyInv, NEW cs \in Seq(Calls), cs # <<>>, ~Blocked(Shim(history), cs)
    PROVE  ~Guard!Blocks(SinceUser(history), cs)
<1>1. Guard!Run(SinceUser(history), Sig[cs[1]]) = Run(SinceUser(history), Sig[cs[1]])
  BY DEF Guard!Run, Guard!Matches, Run, Matches
<1>2. Count(Shim(history), Sig[cs[1]]) = Cardinality(Run(SinceUser(history), Sig[cs[1]]))
  BY CountsAgree DEF ProxyInv, ProxyTypeOK
<1>3. Guard!Blocks(SinceUser(history), cs) <=>
        Threshold > 0 /\ cs # <<>> /\ Cardinality(Guard!Run(SinceUser(history), Sig[cs[1]])) >= Threshold
  <2>1. \A S : Guard!Cardinality(S) = Cardinality(S)
    BY Zenon DEF Guard!Cardinality, Cardinality
  <2> QED
    BY <2>1, Zenon DEF Guard!Blocks
<1>4. Blocked(Shim(history), cs) <=>
        Threshold > 0 /\ cs # <<>> /\ Count(Shim(history), Sig[cs[1]]) >= Threshold
  BY Zenon DEF Blocked
<1> QED
  BY <1>1, <1>2, <1>3, <1>4, Zenon

LEMMA GuardReceive ==
    ASSUME ProxyInv, NEW cs \in Seq(Calls), Receive(cs), Len(history) < MaxLen,
           history' = Append(history, Assistant(cs)),
           cs # <<>> => ~Blocked(Shim(history), cs)
    PROVE  IF cs = <<>> THEN Guard!TextTurn ELSE Guard!CallTurn(cs)
<1>1. history \in Seq(Session) /\ Len(history) \in Nat /\ Assistant(cs) \in Session /\ Assistant(cs).role # "user"
  BY SpokenMessages DEF ProxyInv, ProxyTypeOK, Assistant
<1>2. SinceUser(history)' = Append(SinceUser(history), Assistant(cs))
  BY <1>1, SinceUserAppend
<1>3. Len(SinceUser(history)) < MaxLen
  <2>1. SinceUser(history) \in Seq(Messages) /\ Len(SinceUser(history)) <= Len(history)
    BY <1>1, SinceUserType
  <2>2. Len(SinceUser(history)) \in Nat
    BY <2>1
  <2> QED
    BY <1>1, <2>1, <2>2, ProxyAssumption
<1>4. Guard!Receive(cs) /\ Guard!Assistant(cs) = Assistant(cs)
  BY DEF Guard!Receive, Receive, Guard!Assistant, Assistant
<1>5. CASE cs = <<>>
  BY <1>2, <1>3, <1>4, <1>5 DEF Guard!TextTurn
<1>6. CASE cs # <<>>
  BY <1>2, <1>3, <1>4, <1>6, GuardBlocks DEF Guard!CallTurn
<1> QED
  BY <1>5, <1>6

LEMMA GuardStep == ProxyInv /\ [Next]_vars => [Guard!GuardNext]_(Guard!guardVars)
<1> SUFFICES ASSUME ProxyInv, [Next]_vars PROVE [Guard!GuardNext]_(Guard!guardVars)
  OBVIOUS
<1>1. history \in Seq(Session)
  BY DEF ProxyInv, ProxyTypeOK
<1>2. CASE Say
  <2>1. User \in Session /\ User.role = "user"
    BY DEF User, Session
  <2>2. SinceUser(history)' = <<>>
    BY <1>1, <1>2, <2>1, SinceUserSaid DEF Say
  <2>3. Guard!Interject
    BY <1>2 DEF Say, Interject, Guard!Interject
  <2>4. Guard!UserMessage
    BY <2>2, <2>3 DEF Guard!UserMessage
  <2> QED
    BY <2>4 DEF Guard!GuardNext
<1>3. CASE \E streaming \in BOOLEAN, a \in Answers : Request(streaming, a)
  <2>1. PICK streaming \in BOOLEAN, a \in Answers : Request(streaming, a)
    BY <1>3
  <2>2. PICK cs \in Seq(Calls) :
          /\ Receive(cs) /\ history' = Append(history, Assistant(cs)) /\ Len(history) < MaxLen
          /\ cs # <<>> => ~Blocked(Shim(history), cs) /\ (cs = a.native \/ cs = a.embedded)
    BY <2>1, RequestStep
  <2>3. IF cs = <<>> THEN Guard!TextTurn ELSE Guard!CallTurn(cs)
    BY <2>2, GuardReceive
  <2>4. CASE cs = <<>>
    BY <2>3, <2>4 DEF Guard!GuardNext
  <2>5. CASE cs # <<>>
    <3>1. cs \in {x.native : x \in Answers} \cup {x.embedded : x \in Answers}
      BY <2>2, <2>5
    <3> QED
      BY <2>3, <2>5, <3>1 DEF Guard!GuardNext
  <2> QED
    BY <2>4, <2>5
<1>4. CASE Execute
  <2>1. ToolResult \in Session /\ ToolResult.role # "user"
    BY DEF ToolResult, Session
  <2>2. SinceUser(history)' = Append(SinceUser(history), ToolResult)
    BY <1>1, <1>4, <2>1, SinceUserAppend DEF Execute
  <2>3. Guard!Perform /\ Guard!ToolResult = ToolResult
    BY <1>4 DEF Execute, Perform, Guard!Perform, Guard!ToolResult, ToolResult
  <2>4. Guard!CallDone
    BY <2>2, <2>3 DEF Guard!CallDone
  <2> QED
    BY <2>4 DEF Guard!GuardNext
<1>5. CASE UNCHANGED vars
  BY <1>5 DEF vars, Guard!guardVars
<1> QED
  BY <1>2, <1>3, <1>4, <1>5 DEF Next

LEMMA GuardStart == Init => Guard!GuardInit
  BY SinceUserEmpty DEF Init, Rest, Guard!GuardInit, Guard!Rest

\* The hook, over repaired histories with user messages, both kinds of answers
\* and both paths, implements the repeat guard (fix_tool_messages.py:211-480).
THEOREM ProxyImplementsGuard == Spec => ImplementsGuard
<1> QED
  BY GuardStart, GuardStep, ProxyInitInv, ProxyStepInv, PTL DEF Spec, ImplementsGuard, Guard!GuardSpec

------------------------------------------------------------------------------
(* Functions defined by recursion from the end of a list. *)

Jumps(n, nxt) == nxt \in [1..n -> 1..(n + 1)] /\ \A i \in 1..n : nxt[i] > i

Back(f, b, n, T, nxt, G) ==
    f \in [1..(n + 1) -> T] /\ f[n + 1] = b /\ \A i \in 1..n : f[i] = G[i][f[nxt[i]]]

LEMMA BackExists ==
    ASSUME NEW T, NEW b \in T, NEW n \in Nat, NEW nxt, Jumps(n, nxt), NEW G \in Steps(n, T)
    PROVE  \E f : Back(f, b, n, T, nxt, G)
<1> DEFINE Good(k, f) == f[n + 1] = b /\ \A i \in 1..n : i > n - k => f[i] = G[i][f[nxt[i]]]
           S == {k \in Nat : k <= n => \E f \in [1..(n + 1) -> T] : Good(k, f)}
<1>1. 0 \in S
  <2> DEFINE f == [i \in 1..(n + 1) |-> b]
  <2>1. f \in [1..(n + 1) -> T] /\ Good(0, f)
    OBVIOUS
  <2> QED
    BY <2>1
<1>2. ASSUME NEW k \in Nat, k \in S PROVE k + 1 \in S
  <2>0. k + 1 \in Nat
    OBVIOUS
  <2> SUFFICES ASSUME k + 1 <= n PROVE \E f \in [1..(n + 1) -> T] : Good(k + 1, f)
    BY <2>0, Zenon
  <2>1. PICK f \in [1..(n + 1) -> T] : Good(k, f)
    BY <1>2
  <2> SUFFICES ASSUME NEW j, j = n - k PROVE \E g \in [1..(n + 1) -> T] : Good(k + 1, g)
    OBVIOUS
  <2>2. j \in 1..n /\ nxt[j] \in 1..(n + 1) /\ nxt[j] > j /\ f[nxt[j]] \in T
    BY DEF Jumps
  <2>3. G[j][f[nxt[j]]] \in T
    BY <2>2 DEF Steps
  <2> DEFINE g == [f EXCEPT ![j] = G[j][f[nxt[j]]]]
  <2>4. g \in [1..(n + 1) -> T]
    BY <2>3
  <2>5. g[n + 1] = b
    BY <2>1, <2>2
  <2>6. ASSUME NEW i \in 1..n, i > n - (k + 1) PROVE g[i] = G[i][g[nxt[i]]]
    <3>1. i >= j /\ nxt[i] \in 1..(n + 1) /\ nxt[i] > i
      BY <2>6 DEF Jumps
    <3>2. g[nxt[i]] = f[nxt[i]]
      BY <2>2, <3>1
    <3>3. CASE i = j
      BY <2>2, <3>2, <3>3
    <3>4. CASE i # j
      <4>1. i > n - k
        BY <3>1, <3>4
      <4> QED
        BY <2>1, <3>2, <3>4, <4>1
    <3> QED
      BY <3>3, <3>4
  <2> QED
    BY <2>4, <2>5, <2>6
<1> HIDE DEF S
<1>3. Nat \subseteq S
  BY <1>1, <1>2, Induct
<1>4. PICK f \in [1..(n + 1) -> T] : Good(n, f)
  <2>1. n \in S /\ n <= n
    BY <1>3
  <2> QED
    BY <2>1, Zenon DEF S
<1>5. \A i \in 1..n : i > n - n
  OBVIOUS
<1> QED
  BY <1>4, <1>5 DEF Back

\* What holds of the end, and of a place when it holds of all after it, holds everywhere.
LEMMA BackInduct ==
    ASSUME NEW n \in Nat, NEW S, n + 1 \in S,
           \A i \in 1..n : (\A j \in (i + 1)..(n + 1) : j \in S) => i \in S
    PROVE  1..(n + 1) \subseteq S
<1> DEFINE R == {k \in Nat : \A j \in 1..(n + 1) : j >= n + 1 - k => j \in S}
<1>1. 0 \in R
  OBVIOUS
<1>2. ASSUME NEW k \in Nat, k \in R PROVE k + 1 \in R
  <2> SUFFICES ASSUME NEW j \in 1..(n + 1), j >= n + 1 - (k + 1) PROVE j \in S
    OBVIOUS
  <2>1. CASE j >= n + 1 - k
    BY <1>2, <2>1
  <2>2. CASE ~(j >= n + 1 - k)
    <3>1. j = n - k /\ j \in 1..n
      BY <2>2
    <3>2. \A i \in (j + 1)..(n + 1) : i \in 1..(n + 1) /\ i >= n + 1 - k
      BY <3>1
    <3>3. \A i \in (j + 1)..(n + 1) : i \in S
      BY <1>2, <3>2
    <3> QED
      BY <3>1, <3>3
  <2> QED
    BY <2>1, <2>2
<1> HIDE DEF R
<1>3. Nat \subseteq R
  BY <1>1, <1>2, Induct
<1>4. n + 1 \in R
  BY <1>3
<1> QED
  BY <1>4 DEF R

------------------------------------------------------------------------------
(* The string literals of a text. *)

\* The next place after i that is not in a literal that begins at i.
After(t) ==
    [i \in 1..Len(t) |->
        IF t[i] \in Quotes /\ StringEnds(t, i) # {} THEN Min(StringEnds(t, i)) + 1 ELSE i + 1]

Lexes(f, t) ==
    /\ f \in [1..(Len(t) + 1) -> SUBSET Nat] /\ Outside(t) = f[1] /\ f[Len(t) + 1] = {}
    /\ \A i \in 1..Len(t) :
        f[i] = IF t[i] \notin Quotes THEN {i} \cup f[i + 1]
               ELSE IF StringEnds(t, i) = {} THEN {i}
               ELSE f[Min(StringEnds(t, i)) + 1]

LEMMA LeastIn ==
    ASSUME NEW T \in SUBSET Nat, T # {}
    PROVE  Min(T) \in T /\ \A m \in T : Min(T) <= m
<1>1. PICK n \in T : \A m \in T : n <= m
  BY LeastNumber
<1> QED
  BY <1>1 DEF Min

LEMMA StringEndsIn ==
    ASSUME NEW t, Len(t) \in Nat, NEW q \in Nat, StringEnds(t, q) # {}
    PROVE  /\ Min(StringEnds(t, q)) \in StringEnds(t, q)
           /\ Min(StringEnds(t, q)) \in (q + 1)..Len(t)
           /\ \A m \in StringEnds(t, q) : Min(StringEnds(t, q)) <= m
<1>1. StringEnds(t, q) \subseteq (q + 1)..Len(t)
  BY DEF StringEnds
<1>2. StringEnds(t, q) \in SUBSET Nat
  BY <1>1
<1> QED
  BY <1>1, <1>2, LeastIn

LEMMA OutsideEquation == ASSUME NEW t, Len(t) \in Nat PROVE \E f : Lexes(f, t)
<1> SUFFICES ASSUME NEW n \in Nat, n = Len(t), NEW Q, Q = SUBSET Nat PROVE \E f : Lexes(f, t)
  OBVIOUS
<1> DEFINE Ends(i) == StringEnds(t, i)
           Body(f) == [i \in 1..(Len(t) + 1) |->
                          IF i > Len(t) THEN {}
                          ELSE IF t[i] \notin Quotes THEN {i} \cup f[i + 1]
                          ELSE IF StringEnds(t, i) = {} THEN {i}
                          ELSE f[Min(StringEnds(t, i)) + 1]]
           f == CHOOSE x : x = Body(x)
<1>1. Outside(t) = f[1]
  BY DEF Outside
<1> SUFFICES ASSUME NEW nxt, nxt = After(t),
                    NEW G, G = [i \in 1..n |-> [x \in Q |->
                        IF t[i] \notin Quotes THEN {i} \cup x
                        ELSE IF StringEnds(t, i) = {} THEN {i} ELSE x]]
             PROVE  \E g : Lexes(g, t)
  OBVIOUS
<1>2. Jumps(n, nxt)
  <2> SUFFICES ASSUME NEW i \in 1..n PROVE nxt[i] \in 1..(n + 1) /\ nxt[i] > i
    BY DEF After, Jumps
  <2>1. CASE t[i] \in Quotes /\ StringEnds(t, i) # {}
    <3>1. Min(StringEnds(t, i)) \in (i + 1)..n
      BY <2>1, StringEndsIn
    <3>2. nxt[i] = Min(StringEnds(t, i)) + 1
      BY <2>1 DEF After
    <3> QED
      BY <3>1, <3>2
  <2>2. CASE ~(t[i] \in Quotes /\ StringEnds(t, i) # {})
    <3>1. nxt[i] = i + 1
      BY <2>2 DEF After
    <3> QED
      BY <3>1
  <2> QED
    BY <2>1, <2>2
<1>3. G \in Steps(n, Q)
  <2>1. \A i \in 1..n : {i} \in Q
    OBVIOUS
  <2> SUFFICES ASSUME NEW i \in 1..n PROVE G[i] \in [Q -> Q]
    BY DEF Steps
  <2>2. \A x \in Q : {i} \cup x \in Q
    BY <2>1
  <2> QED
    BY <2>1, <2>2
<1>4. {} \in Q
  OBVIOUS
<1> HIDE DEF Body, f
<1>5. PICK e : Back(e, {}, n, Q, nxt, G)
  BY <1>2, <1>3, <1>4, BackExists
<1>6. e \in [1..(n + 1) -> Q] /\ e[n + 1] = {} /\ \A i \in 1..n : e[i] = G[i][e[nxt[i]]]
  BY <1>5 DEF Back
<1>7. ASSUME NEW i \in 1..n
      PROVE  e[i] = IF t[i] \notin Quotes THEN {i} \cup e[i + 1]
                    ELSE IF StringEnds(t, i) = {} THEN {i}
                    ELSE e[Min(StringEnds(t, i)) + 1]
  <2>1. nxt[i] \in 1..(n + 1) /\ e[nxt[i]] \in Q
    BY <1>2, <1>6 DEF Jumps
  <2>2. e[i] = IF t[i] \notin Quotes THEN {i} \cup e[nxt[i]]
               ELSE IF StringEnds(t, i) = {} THEN {i} ELSE e[nxt[i]]
    BY <1>6, <2>1
  <2>3. nxt[i] = IF t[i] \in Quotes /\ StringEnds(t, i) # {} THEN Min(StringEnds(t, i)) + 1 ELSE i + 1
    BY DEF After
  <2> QED
    BY <2>2, <2>3, Zenon
<1>8. e = Body(e)
  <2> SUFFICES ASSUME NEW i \in 1..(n + 1)
               PROVE  e[i] = IF i > n THEN {}
                             ELSE IF t[i] \notin Quotes THEN {i} \cup e[i + 1]
                             ELSE IF StringEnds(t, i) = {} THEN {i}
                             ELSE e[Min(StringEnds(t, i)) + 1]
    BY <1>6 DEF Body
  <2>1. CASE i > n
    <3>1. i = n + 1
      BY <2>1
    <3> QED
      BY <1>6, <2>1, <3>1
  <2>2. CASE ~(i > n)
    <3>1. i \in 1..n
      BY <2>2
    <3> QED
      BY <1>7, <2>2, <3>1, Zenon
  <2> QED
    BY <2>1, <2>2
<1>9. f = Body(f)
  BY <1>8 DEF f
<1>10. \A i \in 1..(n + 1) :
          f[i] = IF i > n THEN {}
                 ELSE IF t[i] \notin Quotes THEN {i} \cup f[i + 1]
                 ELSE IF StringEnds(t, i) = {} THEN {i}
                 ELSE f[Min(StringEnds(t, i)) + 1]
  BY <1>9 DEF Body
<1>11. f[n + 1] = {}
  <2>1. n + 1 \in 1..(n + 1) /\ n + 1 > n
    OBVIOUS
  <2> QED
    BY <1>10, <2>1, Zenon
<1>12. ASSUME NEW i \in 1..n
       PROVE  f[i] = IF t[i] \notin Quotes THEN {i} \cup f[i + 1]
                     ELSE IF StringEnds(t, i) = {} THEN {i}
                     ELSE f[Min(StringEnds(t, i)) + 1]
  <2>1. i \in 1..(n + 1) /\ ~(i > n)
    OBVIOUS
  <2> QED
    BY <1>10, <2>1, Zenon
<1>13. ASSUME NEW i \in 1..(n + 1) PROVE f[i] \in Q
  <2> DEFINE S == {k \in 1..(n + 1) : f[k] \in Q}
  <2>1. n + 1 \in S
    BY <1>11
  <2>2. ASSUME NEW k \in 1..n, \A j \in (k + 1)..(n + 1) : j \in S PROVE k \in S
    <3>1. k + 1 \in (k + 1)..(n + 1) /\ f[k + 1] \in Q /\ {k} \in Q
      BY <2>2
    <3>2. StringEnds(t, k) # {} => f[Min(StringEnds(t, k)) + 1] \in Q
      <4> SUFFICES ASSUME StringEnds(t, k) # {} PROVE f[Min(StringEnds(t, k)) + 1] \in Q
        OBVIOUS
      <4>1. Min(StringEnds(t, k)) \in (k + 1)..n
        BY StringEndsIn
      <4>2. Min(StringEnds(t, k)) + 1 \in (k + 1)..(n + 1)
        BY <4>1
      <4> QED
        BY <2>2, <4>2
    <3>3. {k} \cup f[k + 1] \in Q
      BY <3>1
    <3>4. f[k] \in Q
      BY <1>12, <3>1, <3>2, <3>3, Zenon
    <3> QED
      BY <3>4
  <2> HIDE DEF S
  <2>3. 1..(n + 1) \subseteq S
    BY <2>1, <2>2, BackInduct
  <2> QED
    BY <2>3 DEF S
<1>14. f \in [1..(n + 1) -> Q]
  <2>1. f = [i \in 1..(n + 1) |-> f[i]]
    BY <1>9 DEF Body
  <2> QED
    BY <1>13, <2>1
<1>15. Lexes(f, t)
  BY <1>1, <1>11, <1>12, <1>14 DEF Lexes
<1> QED
  BY <1>15


\* The places outside of the literals before place p + 1, which is not in one.
Reach(t, p, S) == \E f : Lexes(f, t) /\ Outside(t) = S \cup f[p + 1]

LEMMA ReachStart == ASSUME NEW t, Len(t) \in Nat PROVE Reach(t, 0, {})
<1>1. PICK f : Lexes(f, t)
  BY OutsideEquation
<1>2. Outside(t) = {} \cup f[0 + 1]
  BY <1>1 DEF Lexes
<1> QED
  BY <1>1, <1>2 DEF Reach

LEMMA ReachPlain ==
    ASSUME NEW t, Len(t) \in Nat, NEW p \in Nat, p < Len(t), NEW S, Reach(t, p, S), t[p + 1] \notin Quotes
    PROVE  Reach(t, p + 1, S \cup {p + 1})
<1>1. PICK f : Lexes(f, t) /\ Outside(t) = S \cup f[p + 1]
  BY DEF Reach
<1>2. p + 1 \in 1..Len(t)
  OBVIOUS
<1>3. f[p + 1] = {p + 1} \cup f[(p + 1) + 1]
  BY <1>1, <1>2, Zenon DEF Lexes
<1>4. Outside(t) = (S \cup {p + 1}) \cup f[(p + 1) + 1]
  BY <1>1, <1>3
<1> QED
  BY <1>1, <1>4 DEF Reach

LEMMA ReachString ==
    ASSUME NEW t, Len(t) \in Nat, NEW a \in 1..Len(t), NEW S, Reach(t, a - 1, S), t[a] \in Quotes,
           StringEnds(t, a) # {}
    PROVE  Reach(t, Min(StringEnds(t, a)), S)
<1>1. PICK f : Lexes(f, t) /\ Outside(t) = S \cup f[(a - 1) + 1]
  BY DEF Reach
<1>2. (a - 1) + 1 = a
  OBVIOUS
<1>3. f[a] = f[Min(StringEnds(t, a)) + 1]
  BY <1>1, Zenon DEF Lexes
<1>4. Outside(t) = S \cup f[Min(StringEnds(t, a)) + 1]
  BY <1>1, <1>2, <1>3
<1> QED
  BY <1>1, <1>4 DEF Reach

\* A literal that is not closed.
LEMMA ReachOpen ==
    ASSUME NEW t, Len(t) \in Nat, NEW a \in 1..Len(t), NEW S, Reach(t, a - 1, S), t[a] \in Quotes,
           StringEnds(t, a) = {}
    PROVE  Outside(t) = S \cup {a}
<1>1. PICK f : Lexes(f, t) /\ Outside(t) = S \cup f[(a - 1) + 1]
  BY DEF Reach
<1>2. (a - 1) + 1 = a
  OBVIOUS
<1>3. f[a] = {a}
  BY <1>1, Zenon DEF Lexes
<1> QED
  BY <1>1, <1>2, <1>3

LEMMA ReachEnd ==
    ASSUME NEW t, Len(t) \in Nat, NEW S, Reach(t, Len(t), S)
    PROVE  Outside(t) = S
<1>1. PICK f : Lexes(f, t) /\ Outside(t) = S \cup f[Len(t) + 1]
  BY DEF Reach
<1>2. f[Len(t) + 1] = {}
  BY <1>1 DEF Lexes
<1> QED
  BY <1>1, <1>2

LEMMA LexesPast ==
    ASSUME NEW t, Len(t) \in Nat, NEW f, Lexes(f, t), NEW i \in 1..(Len(t) + 1)
    PROVE  f[i] \subseteq i..Len(t)
<1> DEFINE S == {k \in 1..(Len(t) + 1) : f[k] \subseteq k..Len(t)}
<1>1. Len(t) + 1 \in S
  BY DEF Lexes
<1>2. ASSUME NEW k \in 1..Len(t), \A j \in (k + 1)..(Len(t) + 1) : j \in S PROVE k \in S
  <2>1. f[k] = IF t[k] \notin Quotes THEN {k} \cup f[k + 1]
               ELSE IF StringEnds(t, k) = {} THEN {k}
               ELSE f[Min(StringEnds(t, k)) + 1]
    BY Zenon DEF Lexes
  <2>2. f[k + 1] \subseteq (k + 1)..Len(t)
    BY <1>2
  <2>3. ASSUME StringEnds(t, k) # {} PROVE f[Min(StringEnds(t, k)) + 1] \subseteq k..Len(t)
    <3>1. Min(StringEnds(t, k)) \in (k + 1)..Len(t)
      BY <2>3, StringEndsIn
    <3> SUFFICES ASSUME NEW m, m = Min(StringEnds(t, k)) PROVE f[m + 1] \subseteq k..Len(t)
      OBVIOUS
    <3>2. m + 1 \in (k + 1)..(Len(t) + 1)
      BY <3>1
    <3>3. f[m + 1] \subseteq (m + 1)..Len(t)
      BY <1>2, <3>2
    <3> QED
      BY <3>2, <3>3
  <2>4. {k} \cup f[k + 1] \subseteq k..Len(t)
    BY <2>2
  <2>5. {k} \subseteq k..Len(t)
    OBVIOUS
  <2>6. f[k] \subseteq k..Len(t)
    BY <2>1, <2>3, <2>4, <2>5, Zenon
  <2> QED
    BY <2>6
<1> HIDE DEF S
<1>3. 1..(Len(t) + 1) \subseteq S
  BY <1>1, <1>2, BackInduct
<1> QED
  BY <1>3 DEF S

LEMMA ReachPast ==
    ASSUME NEW t, Len(t) \in Nat, NEW p \in 0..Len(t), NEW S, Reach(t, p, S)
    PROVE  \E R : R \subseteq (p + 1)..Len(t) /\ Outside(t) = S \cup R
<1>1. PICK f : Lexes(f, t) /\ Outside(t) = S \cup f[p + 1]
  BY DEF Reach
<1>2. p + 1 \in 1..(Len(t) + 1)
  OBVIOUS
<1>3. f[p + 1] \subseteq (p + 1)..Len(t)
  BY <1>1, <1>2, LexesPast
<1> QED
  BY <1>1, <1>3

LEMMA SlashesFinite ==
    ASSUME NEW t, NEW a \in Nat, NEW k \in Nat
    PROVE  IsFiniteSet(Slashes(t, a, k)) /\ Cardinality(Slashes(t, a, k)) \in Nat
<1>1. IsFiniteSet((a + 1)..(k - 1)) /\ Slashes(t, a, k) \subseteq (a + 1)..(k - 1)
  BY FS_Interval DEF Slashes
<1> QED
  BY <1>1, FS_Subset, FS_CardinalityType

LEMMA SlashesMore ==
    ASSUME NEW t, NEW a \in Nat, NEW k \in Nat, a < k, t[k] = "backslash"
    PROVE  Cardinality(Slashes(t, a, k + 1)) = Cardinality(Slashes(t, a, k)) + 1
<1>1. Slashes(t, a, k + 1) = Slashes(t, a, k) \cup {k}
  BY DEF Slashes
<1>2. k \notin Slashes(t, a, k)
  BY DEF Slashes
<1> QED
  BY <1>1, <1>2, SlashesFinite, FS_AddElement

LEMMA SlashesNone ==
    ASSUME NEW t, NEW a \in Nat, NEW k \in Nat, a < k, t[k] # "backslash"
    PROVE  Cardinality(Slashes(t, a, k + 1)) = 0
<1>1. ASSUME NEW j \in Slashes(t, a, k + 1) PROVE FALSE
  BY <1>1 DEF Slashes
<1>2. Slashes(t, a, k + 1) = {}
  BY <1>1
<1> QED
  BY <1>2, FS_EmptySet

LEMMA SlashesFirst == ASSUME NEW t, NEW a \in Nat PROVE Cardinality(Slashes(t, a, a + 1)) = 0
<1>1. Slashes(t, a, a + 1) = {}
  BY DEF Slashes
<1> QED
  BY <1>1, FS_EmptySet

\* How deep the places S of a text go.
Those(t, S, i, u) == {k \in S : k <= i /\ t[k] = u}

LEMMA ThoseIn ==
    ASSUME NEW t, NEW S, NEW i, NEW u, NEW k
    PROVE  k \in Those(t, S, i, u) <=> k \in S /\ k <= i /\ t[k] = u
  BY Zenon DEF Those

LEMMA DepthOf ==
    ASSUME NEW t, NEW S, NEW i
    PROVE  DepthIn(t, S, i) = Cardinality(Those(t, S, i, "lbrace")) - Cardinality(Those(t, S, i, "rbrace"))
  BY DEF DepthIn, Those

LEMMA ThoseFinite ==
    ASSUME NEW t, NEW n \in Nat, NEW S \in SUBSET (1..n), NEW i, NEW u
    PROVE  IsFiniteSet(Those(t, S, i, u)) /\ Cardinality(Those(t, S, i, u)) \in Nat
<1>1. IsFiniteSet(1..n)
  BY FS_Interval
<1>2. Those(t, S, i, u) \subseteq 1..n
  BY DEF Those
<1> QED
  BY <1>1, <1>2, FS_Subset, FS_CardinalityType

LEMMA DepthInt ==
    ASSUME NEW t, NEW n \in Nat, NEW S \in SUBSET (1..n), NEW i
    PROVE  DepthIn(t, S, i) \in Int
<1>1. Cardinality(Those(t, S, i, "lbrace")) \in Nat /\ Cardinality(Those(t, S, i, "rbrace")) \in Nat
  BY ThoseFinite
<1> QED
  BY <1>1, DepthOf

\* A place after i is not counted at i.
LEMMA DepthSame ==
    ASSUME NEW t, NEW S, NEW R, NEW i \in Nat, S \subseteq Int, R \subseteq Int, \A k \in R : k > i
    PROVE  DepthIn(t, S \cup R, i) = DepthIn(t, S, i)
<1>1. ASSUME NEW u PROVE Those(t, S \cup R, i, u) = Those(t, S, i, u)
  <2>1. ASSUME NEW k PROVE k \in Those(t, S \cup R, i, u) <=> k \in Those(t, S, i, u)
    <3>1. k \in R => ~(k <= i)
      OBVIOUS
    <3> QED
      BY <3>1 DEF Those
  <2> QED
    BY <2>1
<1> QED
  BY <1>1, DepthOf

LEMMA DepthStays ==
    ASSUME NEW t, NEW p \in Nat, NEW S \in SUBSET (1..p), NEW i \in Nat, i >= p
    PROVE  DepthIn(t, S, i) = DepthIn(t, S, p)
<1>1. ASSUME NEW u PROVE Those(t, S, i, u) = Those(t, S, p, u)
  <2>1. ASSUME NEW k PROVE k \in Those(t, S, i, u) <=> k \in Those(t, S, p, u)
    <3>1. k \in S => k <= i /\ k <= p
      OBVIOUS
    <3> QED
      BY <3>1 DEF Those
  <2> QED
    BY <2>1
<1> QED
  BY <1>1, DepthOf

LEMMA DepthTake ==
    ASSUME NEW t, NEW p \in Nat, NEW S \in SUBSET (1..p)
    PROVE  DepthIn(t, S \cup {p + 1}, p + 1) =
             IF t[p + 1] = "lbrace" THEN DepthIn(t, S, p) + 1
             ELSE IF t[p + 1] = "rbrace" THEN DepthIn(t, S, p) - 1 ELSE DepthIn(t, S, p)
<1> SUFFICES ASSUME NEW R, R = S \cup {p + 1}
             PROVE  DepthIn(t, R, p + 1) =
                      IF t[p + 1] = "lbrace" THEN DepthIn(t, S, p) + 1
                      ELSE IF t[p + 1] = "rbrace" THEN DepthIn(t, S, p) - 1 ELSE DepthIn(t, S, p)
  OBVIOUS
<1>1. ASSUME NEW u
      PROVE  /\ Cardinality(Those(t, R, p + 1, u)) =
                  IF t[p + 1] = u THEN Cardinality(Those(t, S, p, u)) + 1
                  ELSE Cardinality(Those(t, S, p, u))
             /\ Cardinality(Those(t, S, p, u)) \in Nat
  <2>3. ASSUME NEW k
        PROVE  k \in Those(t, R, p + 1, u) <=> k \in Those(t, S, p, u) \/ (t[p + 1] = u /\ k = p + 1)
    <3>1. k \in S => k <= p /\ k <= p + 1
      OBVIOUS
    <3>2. k = p + 1 => k <= p + 1
      OBVIOUS
    <3>3. k \in R <=> k \in S \/ k = p + 1
      OBVIOUS
    <3>4. k \in Those(t, R, p + 1, u) <=> k \in R /\ k <= p + 1 /\ t[k] = u
      BY ThoseIn
    <3>5. k \in Those(t, S, p, u) <=> k \in S /\ k <= p /\ t[k] = u
      BY ThoseIn
    <3> QED
      BY <3>1, <3>2, <3>3, <3>4, <3>5, Zenon
  <2>1. /\ t[p + 1] = u => Those(t, R, p + 1, u) = Those(t, S, p, u) \cup {p + 1}
        /\ t[p + 1] # u => Those(t, R, p + 1, u) = Those(t, S, p, u)
    BY <2>3
  <2>2. p + 1 \notin Those(t, S, p, u)
    BY DEF Those
  <2> QED
    BY <2>1, <2>2, ThoseFinite, FS_AddElement
<1>2. /\ DepthIn(t, S, p) = Cardinality(Those(t, S, p, "lbrace")) - Cardinality(Those(t, S, p, "rbrace"))
      /\ DepthIn(t, R, p + 1) =
           Cardinality(Those(t, R, p + 1, "lbrace")) - Cardinality(Those(t, R, p + 1, "rbrace"))
  BY DepthOf
<1>3. /\ Cardinality(Those(t, S, p, "lbrace")) \in Nat /\ Cardinality(Those(t, S, p, "rbrace")) \in Nat
      /\ Cardinality(Those(t, R, p + 1, "lbrace")) =
           IF t[p + 1] = "lbrace" THEN Cardinality(Those(t, S, p, "lbrace")) + 1
           ELSE Cardinality(Those(t, S, p, "lbrace"))
      /\ Cardinality(Those(t, R, p + 1, "rbrace")) =
           IF t[p + 1] = "rbrace" THEN Cardinality(Those(t, S, p, "rbrace")) + 1
           ELSE Cardinality(Those(t, S, p, "rbrace"))
  BY <1>1
<1> QED
  BY <1>2, <1>3


\* The places S outside of the literals up to p, and the braces open there.
Deep(t, S, p, d) ==
    /\ S \in SUBSET (1..p) /\ d = DepthIn(t, S, p)
    /\ \A i \in 1..p : DepthIn(t, S, i) > 0
    /\ \A i \in S : t[i] \notin Quotes

\* The literal that began at a has not ended at p; e: a backslash is to escape p + 1.
InLiteral(t, a, p, e) ==
    /\ \A k \in (a + 1)..p : t[k] = t[a] => Cardinality(Slashes(t, a, k)) % 2 # 0
    /\ e \in BOOLEAN
    /\ IF e THEN Cardinality(Slashes(t, a, p + 1)) % 2 # 0
            ELSE Cardinality(Slashes(t, a, p + 1)) % 2 = 0

Bare(t, p, d) == \E S : Reach(t, p, S) /\ Deep(t, S, p, d)

Quoted(t, p, d, q, e) ==
    \E a \in 1..p : \E S \in SUBSET (1..(a - 1)) :
        Reach(t, a - 1, S) /\ Deep(t, S, p, d) /\ t[a] = q /\ InLiteral(t, a, p, e)

\* The scanner has read p characters of an object: braces open, quote and escape
\* are what the text has there.
At(t, p, d, q, e) ==
    /\ t \in Seq(Tokens) /\ p \in 1..Len(t) /\ t[1] = "lbrace"
    /\ \/ q = "none" /\ e = FALSE /\ Bare(t, p, d)
       \/ q \in Quotes /\ Quoted(t, p, d, q, e)

LEMMA AtDepth == ASSUME NEW t, NEW p, NEW d, NEW q, NEW e, At(t, p, d, q, e) PROVE d \in Int /\ d > 0
<1>1. PICK S : Deep(t, S, p, d)
  BY DEF At, Bare, Quoted
<1>2. p \in Nat /\ p \in 1..p /\ S \in SUBSET (1..p)
  BY <1>1 DEF At, Deep
<1>3. DepthIn(t, S, p) \in Int
  BY <1>2, DepthInt
<1> QED
  BY <1>1, <1>2, <1>3 DEF Deep

LEMMA NoneNoQuote == "none" \notin Quotes
  BY DEF Quotes

LEMMA BraceNoQuote == "lbrace" \notin Quotes /\ "rbrace" \notin Quotes /\ "backslash" \notin Quotes
  BY DEF Quotes

\* One more place outside of the literals.
LEMMA DeepTake ==
    ASSUME NEW t, Len(t) \in Nat, NEW p \in Nat, p < Len(t), NEW S, NEW d,
           Reach(t, p, S), Deep(t, S, p, d), t[p + 1] \notin Quotes,
           NEW c, c = (IF t[p + 1] = "lbrace" THEN d + 1 ELSE IF t[p + 1] = "rbrace" THEN d - 1 ELSE d),
           c > 0
    PROVE  Bare(t, p + 1, c)
<1> SUFFICES ASSUME NEW R, R = S \cup {p + 1} PROVE Bare(t, p + 1, c)
  OBVIOUS
<1>1. Reach(t, p + 1, R)
  BY ReachPlain
<1>2. /\ S \in SUBSET (1..p) /\ d = DepthIn(t, S, p) /\ \A i \in S : t[i] \notin Quotes
      /\ \A i \in 1..p : DepthIn(t, S, i) > 0
  BY DEF Deep
<1>3. DepthIn(t, R, p + 1) = c
  BY <1>2, DepthTake
<1>4. ASSUME NEW i \in 1..(p + 1) PROVE DepthIn(t, R, i) > 0
  <2>1. CASE i = p + 1
    BY <1>3, <2>1
  <2>2. CASE i # p + 1
    <3>1. i \in Nat /\ i \in 1..p /\ S \subseteq Int /\ {p + 1} \subseteq Int /\ \A k \in {p + 1} : k > i
      BY <1>2, <2>2
    <3>2. DepthIn(t, R, i) = DepthIn(t, S, i)
      BY <3>1, DepthSame
    <3> QED
      BY <1>2, <3>1, <3>2
  <2> QED
    BY <2>1, <2>2
<1>5. R \in SUBSET (1..(p + 1)) /\ \A i \in R : t[i] \notin Quotes
  BY <1>2
<1>6. Deep(t, R, p + 1, c)
  BY <1>3, <1>4, <1>5 DEF Deep
<1> QED
  BY <1>1, <1>6 DEF Bare

LEMMA AtFirst ==
    ASSUME NEW t \in Seq(Tokens), Len(t) > 0, t[1] = "lbrace"
    PROVE  At(t, 1, 1, "none", FALSE)
<1>1. Len(t) \in Nat /\ 0 \in Nat /\ 0 < Len(t) /\ 0 + 1 = 1 /\ 1 \in 1..Len(t)
  OBVIOUS
<1>2. Reach(t, 0, {})
  BY <1>1, ReachStart
<1>3. DepthIn(t, {}, 0) = 0
  <2>1. Those(t, {}, 0, "lbrace") = {} /\ Those(t, {}, 0, "rbrace") = {}
    BY DEF Those
  <2>2. Cardinality({}) = 0
    BY FS_EmptySet
  <2>3. DepthIn(t, {}, 0) = Cardinality({}) - Cardinality({})
    BY <2>1, DepthOf, Zenon
  <2> QED
    BY <2>2, <2>3
<1>4. Deep(t, {}, 0, 0)
  BY <1>3 DEF Deep
<1>5. Bare(t, 0 + 1, 1)
  <2>1. 1 = IF t[0 + 1] = "lbrace" THEN 0 + 1 ELSE IF t[0 + 1] = "rbrace" THEN 0 - 1 ELSE 0
    BY <1>1
  <2>2. t[0 + 1] \notin Quotes
    BY <1>1, BraceNoQuote
  <2> QED
    BY <1>1, <1>2, <1>4, <2>1, <2>2, DeepTake
<1> QED
  BY <1>1, <1>5 DEF At

\* Outside of a string.
LEMMA AtOutside ==
    ASSUME NEW t, NEW p, NEW d, NEW e, At(t, p, d, "none", e), p < Len(t), t[p + 1] \notin Quotes,
           NEW c, c = (IF t[p + 1] = "lbrace" THEN d + 1 ELSE IF t[p + 1] = "rbrace" THEN d - 1 ELSE d),
           c > 0
    PROVE  At(t, p + 1, c, "none", FALSE)
<1>1. /\ t \in Seq(Tokens) /\ p \in 1..Len(t) /\ t[1] = "lbrace"
      /\ Len(t) \in Nat /\ p \in Nat /\ p + 1 \in 1..Len(t)
  BY DEF At
<1>2. PICK S : Reach(t, p, S) /\ Deep(t, S, p, d)
  BY NoneNoQuote DEF At, Bare
<1>3. Bare(t, p + 1, c)
  BY <1>1, <1>2, DeepTake
<1> QED
  BY <1>1, <1>3 DEF At

LEMMA DeepStays ==
    ASSUME NEW t, NEW p \in Nat, NEW a \in 1..(p + 1), NEW S \in SUBSET (1..(a - 1)), NEW d, Deep(t, S, p, d), p > 0
    PROVE  Deep(t, S, p + 1, d)
<1>1. S \in SUBSET (1..p) /\ d = DepthIn(t, S, p) /\ S \in SUBSET (1..(p + 1))
  BY DEF Deep
<1>2. DepthIn(t, S, p + 1) = DepthIn(t, S, p)
  BY <1>1, DepthStays
<1>3. \A i \in 1..p : DepthIn(t, S, i) > 0
  BY DEF Deep
<1>4. \A i \in 1..(p + 1) : i = p + 1 \/ i \in 1..p
  OBVIOUS
<1>5. p \in 1..p
  OBVIOUS
<1>6. \A i \in 1..(p + 1) : DepthIn(t, S, i) > 0
  BY <1>2, <1>3, <1>4, <1>5
<1> QED
  BY <1>1, <1>2, <1>6 DEF Deep

LEMMA AtQuote ==
    ASSUME NEW t, NEW p, NEW d, NEW e, At(t, p, d, "none", e), p < Len(t), t[p + 1] \in Quotes
    PROVE  At(t, p + 1, d, t[p + 1], FALSE)
<1>1. /\ t \in Seq(Tokens) /\ p \in 1..Len(t) /\ t[1] = "lbrace"
      /\ Len(t) \in Nat /\ p \in Nat /\ p + 1 \in 1..Len(t) /\ p > 0
  BY DEF At
<1>2. PICK S : Reach(t, p, S) /\ Deep(t, S, p, d)
  BY NoneNoQuote DEF At, Bare
<1> SUFFICES ASSUME NEW a, a = p + 1 PROVE At(t, p + 1, d, t[a], FALSE)
  OBVIOUS
<1>3. a \in 1..(p + 1) /\ a - 1 = p /\ S \in SUBSET (1..(a - 1)) /\ a \in Nat
  BY <1>1, <1>2 DEF Deep
<1>4. Deep(t, S, p + 1, d)
  BY <1>1, <1>2, <1>3, DeepStays
<1>5. InLiteral(t, a, p + 1, FALSE)
  <2>1. Cardinality(Slashes(t, a, a + 1)) = 0
    BY <1>3, SlashesFirst
  <2>2. \A k \in (a + 1)..(p + 1) : FALSE
    BY <1>1
  <2> QED
    BY <2>1, <2>2 DEF InLiteral
<1>6. Quoted(t, p + 1, d, t[a], FALSE)
  BY <1>2, <1>3, <1>4, <1>5 DEF Quoted
<1> QED
  BY <1>1, <1>6 DEF At

\* In a string: the next character is escaped.
LEMMA AtEscaped ==
    ASSUME NEW t, NEW p, NEW d, NEW q, At(t, p, d, q, TRUE), p < Len(t)
    PROVE  q \in Quotes /\ At(t, p + 1, d, q, FALSE)
<1>1. /\ t \in Seq(Tokens) /\ p \in 1..Len(t) /\ t[1] = "lbrace" /\ q \in Quotes
      /\ Len(t) \in Nat /\ p \in Nat /\ p + 1 \in 1..Len(t) /\ p > 0
  <2>1. t \in Seq(Tokens) /\ p \in 1..Len(t) /\ t[1] = "lbrace"
    BY DEF At
  <2>2. q \in Quotes
    BY Zenon DEF At
  <2> QED
    BY <2>1, <2>2
<1>0. PICK a \in 1..p : \E S \in SUBSET (1..(a - 1)) :
        Reach(t, a - 1, S) /\ Deep(t, S, p, d) /\ t[a] = q /\ InLiteral(t, a, p, TRUE)
  BY DEF At, Quoted
<1>2. PICK S \in SUBSET (1..(a - 1)) :
        Reach(t, a - 1, S) /\ Deep(t, S, p, d) /\ t[a] = q /\ InLiteral(t, a, p, TRUE)
  BY <1>0
<1>3. a \in 1..(p + 1) /\ a \in Nat /\ a < p + 1
  BY <1>1
<1>4. Deep(t, S, p + 1, d)
  BY <1>1, <1>2, <1>3, DeepStays
<1> SUFFICES ASSUME NEW n, n = Cardinality(Slashes(t, a, p + 1)),
                    NEW m, m = Cardinality(Slashes(t, a, (p + 1) + 1))
             PROVE  At(t, p + 1, d, q, FALSE)
  BY <1>1
<1>5. n % 2 # 0 /\ \A k \in (a + 1)..p : t[k] = t[a] => Cardinality(Slashes(t, a, k)) % 2 # 0
  BY <1>2 DEF InLiteral
<1>6. n \in Nat
  BY <1>1, <1>3, SlashesFinite
<1>7. m % 2 = 0
  <2>1. CASE t[p + 1] = "backslash"
    <3>1. m = n + 1
      BY <1>1, <1>3, <2>1, SlashesMore
    <3> QED
      BY <1>5, <1>6, <3>1
  <2>2. CASE t[p + 1] # "backslash"
    <3>1. m = 0
      BY <1>1, <1>3, <2>2, SlashesNone
    <3> QED
      BY <3>1
  <2> QED
    BY <2>1, <2>2
<1>8. ASSUME NEW k \in (a + 1)..(p + 1), t[k] = t[a] PROVE Cardinality(Slashes(t, a, k)) % 2 # 0
  <2>1. k = p + 1 \/ k \in (a + 1)..p
    BY <1>1
  <2> QED
    BY <1>5, <1>8, <2>1
<1>9. InLiteral(t, a, p + 1, FALSE)
  BY <1>7, <1>8 DEF InLiteral
<1>10. Quoted(t, p + 1, d, q, FALSE)
  BY <1>2, <1>3, <1>4, <1>9 DEF Quoted
<1> QED
  BY <1>1, <1>10 DEF At

\* In a string: the quote ends it, a backslash escapes the next character.
LEMMA AtInString ==
    ASSUME NEW t, NEW p, NEW d, NEW q, At(t, p, d, q, FALSE), p < Len(t), q # "none"
    PROVE  At(t, p + 1, d, IF t[p + 1] = q THEN "none" ELSE q, t[p + 1] = "backslash")
<1>1. /\ t \in Seq(Tokens) /\ p \in 1..Len(t) /\ t[1] = "lbrace" /\ q \in Quotes
      /\ Len(t) \in Nat /\ p \in Nat /\ p + 1 \in 1..Len(t) /\ p > 0
  <2>1. t \in Seq(Tokens) /\ p \in 1..Len(t) /\ t[1] = "lbrace"
    BY DEF At
  <2>2. q \in Quotes
    BY Zenon DEF At
  <2> QED
    BY <2>1, <2>2
<1>0. PICK a \in 1..p : \E S \in SUBSET (1..(a - 1)) :
        Reach(t, a - 1, S) /\ Deep(t, S, p, d) /\ t[a] = q /\ InLiteral(t, a, p, FALSE)
  BY DEF At, Quoted
<1>2. PICK S \in SUBSET (1..(a - 1)) :
        Reach(t, a - 1, S) /\ Deep(t, S, p, d) /\ t[a] = q /\ InLiteral(t, a, p, FALSE)
  BY <1>0
<1>3. a \in 1..(p + 1) /\ a \in Nat /\ a < p + 1 /\ a \in 1..Len(t)
  BY <1>1
<1>4. Deep(t, S, p + 1, d)
  BY <1>1, <1>2, <1>3, DeepStays
<1>5. /\ Cardinality(Slashes(t, a, p + 1)) % 2 = 0
      /\ \A k \in (a + 1)..p : t[k] = t[a] => Cardinality(Slashes(t, a, k)) % 2 # 0
  BY <1>2 DEF InLiteral
<1>6. CASE t[p + 1] = q
  <2>1. p + 1 \in StringEnds(t, a)
    BY <1>1, <1>2, <1>3, <1>5, <1>6 DEF StringEnds
  <2>2. ASSUME NEW k \in StringEnds(t, a) PROVE k >= p + 1
    <3>1. k \in (a + 1)..Len(t) /\ t[k] = t[a] /\ Cardinality(Slashes(t, a, k)) % 2 = 0
      BY DEF StringEnds
    <3>2. k \notin (a + 1)..p
      BY <1>5, <3>1
    <3> QED
      BY <1>1, <1>3, <3>1, <3>2
  <2> SUFFICES ASSUME NEW m, m = Min(StringEnds(t, a))
               PROVE  At(t, p + 1, d, IF t[p + 1] = q THEN "none" ELSE q, t[p + 1] = "backslash")
    OBVIOUS
  <2>3. m \in StringEnds(t, a) /\ m \in (a + 1)..Len(t) /\ m <= p + 1
    BY <1>1, <1>3, <2>1, StringEndsIn
  <2>4. m = p + 1
    BY <1>1, <2>2, <2>3
  <2>5. Reach(t, m, S)
    BY <1>1, <1>2, <1>3, <2>1, ReachString
  <2>6. Bare(t, p + 1, d)
    BY <1>4, <2>4, <2>5 DEF Bare
  <2>7. At(t, p + 1, d, "none", FALSE)
    BY <1>1, <2>6 DEF At
  <2>8. (t[p + 1] = "backslash") = FALSE
    BY <1>1, <1>6, BraceNoQuote
  <2> QED
    BY <1>6, <2>7, <2>8
<1>7. CASE t[p + 1] # q
  <2>1. InLiteral(t, a, p + 1, t[p + 1] = "backslash")
    <3>1. \A k \in (a + 1)..(p + 1) : t[k] = t[a] => Cardinality(Slashes(t, a, k)) % 2 # 0
      <4>1. \A k \in (a + 1)..(p + 1) : k = p + 1 \/ k \in (a + 1)..p
        BY <1>1
      <4> QED
        BY <1>2, <1>5, <1>7, <4>1
    <3> SUFFICES ASSUME NEW n, n = Cardinality(Slashes(t, a, p + 1)),
                        NEW m, m = Cardinality(Slashes(t, a, (p + 1) + 1))
                 PROVE  InLiteral(t, a, p + 1, t[p + 1] = "backslash")
      OBVIOUS
    <3>2. n \in Nat /\ n % 2 = 0
      BY <1>1, <1>3, <1>5, SlashesFinite
    <3>3. t[p + 1] = "backslash" => m = n + 1
      BY <1>1, <1>3, SlashesMore
    <3>4. t[p + 1] # "backslash" => m = 0
      BY <1>1, <1>3, SlashesNone
    <3>5. t[p + 1] = "backslash" => m % 2 # 0
      BY <3>2, <3>3
    <3>6. t[p + 1] # "backslash" => m % 2 = 0
      BY <3>4
    <3> QED
      BY <3>1, <3>5, <3>6 DEF InLiteral
  <2>2. Quoted(t, p + 1, d, q, t[p + 1] = "backslash")
    BY <1>2, <1>3, <1>4, <2>1 DEF Quoted
  <2>3. At(t, p + 1, d, q, t[p + 1] = "backslash")
    BY <1>1, <2>2 DEF At
  <2> QED
    BY <1>7, <2>3
<1> QED
  BY <1>6, <1>7


\* The brace that closes the object the scanner is in makes it balanced.
LEMMA Closing ==
    ASSUME NEW t, NEW p, NEW e, At(t, p, 1, "none", e), p + 1 = Len(t), t[p + 1] = "rbrace"
    PROVE  IsBalanced(t)
<1>1. /\ t \in Seq(Tokens) /\ p \in 1..Len(t) /\ t[1] = "lbrace"
      /\ Len(t) \in Nat /\ p \in Nat /\ p > 0 /\ Len(t) = p + 1 /\ p < Len(t)
  BY DEF At
<1>2. PICK S : Reach(t, p, S) /\ Deep(t, S, p, 1)
  BY NoneNoQuote DEF At, Bare
<1> SUFFICES ASSUME NEW R, R = S \cup {p + 1} PROVE IsBalanced(t)
  OBVIOUS
<1>3. t[p + 1] \notin Quotes
  BY BraceNoQuote
<1>4. Reach(t, p + 1, R)
  BY <1>1, <1>2, <1>3, ReachPlain
<1>5. Outside(t) = R
  BY <1>1, <1>4, ReachEnd
<1>6. /\ S \in SUBSET (1..p) /\ DepthIn(t, S, p) = 1 /\ \A i \in S : t[i] \notin Quotes
      /\ \A i \in 1..p : DepthIn(t, S, i) > 0
  BY <1>2 DEF Deep
<1>7. DepthIn(t, R, p + 1) = 0
  <2>1. DepthIn(t, R, p + 1) = 1 - 1
    BY <1>1, <1>6, DepthTake
  <2> QED
    BY <2>1
<1>8. ASSUME NEW i \in 1..(Len(t) - 1) PROVE DepthIn(t, R, i) > 0
  <2>1. i \in Nat /\ i \in 1..p /\ S \subseteq Int /\ {p + 1} \subseteq Int /\ \A k \in {p + 1} : k > i
    BY <1>1, <1>6
  <2>2. DepthIn(t, R, i) = DepthIn(t, S, i)
    BY <2>1, DepthSame
  <2> QED
    BY <1>6, <2>1, <2>2
<1>9. Len(t) > 1 /\ t[Len(t)] = "rbrace" /\ Len(t) \in R /\ \A i \in R : t[i] \notin Quotes
  BY <1>1, <1>3, <1>6
<1>10. DepthIn(t, R, Len(t)) = 0
  BY <1>1, <1>7
<1> QED
  BY <1>1, <1>5, <1>8, <1>9, <1>10, Zenon DEF IsBalanced

LEMMA DepthPast ==
    ASSUME NEW t, Len(t) \in Nat, NEW p \in Nat, NEW R, R \subseteq 1..(p + 1),
           NEW Q, Q \subseteq ((p + 1) + 1)..Len(t)
    PROVE  DepthIn(t, R \cup Q, p + 1) = DepthIn(t, R, p + 1)
<1>1. p + 1 \in Nat /\ R \subseteq Int /\ Q \subseteq Int /\ \A k \in Q : k > p + 1
  OBVIOUS
<1> QED
  BY <1>1, DepthSame

\* Where a balanced object is closed, it ends,
LEMMA BalancedClose ==
    ASSUME NEW t, NEW p, NEW e, At(t, p, 1, "none", e), p < Len(t), t[p + 1] = "rbrace", IsBalanced(t)
    PROVE  p + 1 = Len(t)
<1>1. t \in Seq(Tokens) /\ p \in 1..Len(t) /\ Len(t) \in Nat /\ p \in Nat /\ p + 1 \in 0..Len(t)
  BY DEF At
<1>2. PICK S : Reach(t, p, S) /\ Deep(t, S, p, 1)
  BY NoneNoQuote DEF At, Bare
<1> SUFFICES ASSUME NEW R, R = S \cup {p + 1} PROVE p + 1 = Len(t)
  OBVIOUS
<1>3. t[p + 1] \notin Quotes
  BY BraceNoQuote
<1>4. Reach(t, p + 1, R)
  BY <1>1, <1>2, <1>3, ReachPlain
<1>5. PICK Q : Q \subseteq ((p + 1) + 1)..Len(t) /\ Outside(t) = R \cup Q
  BY <1>1, <1>4, ReachPast
<1>6. S \in SUBSET (1..p) /\ DepthIn(t, S, p) = 1
  BY <1>2 DEF Deep
<1>7. DepthIn(t, R, p + 1) = 0
  <2>1. DepthIn(t, R, p + 1) = 1 - 1
    BY <1>1, <1>6, DepthTake
  <2> QED
    BY <2>1
<1>8. DepthIn(t, Outside(t), p + 1) = 0
  <2>1. p \in Nat /\ Len(t) \in Nat /\ R \subseteq 1..(p + 1)
    BY <1>1, <1>6
  <2>2. DepthIn(t, R \cup Q, p + 1) = DepthIn(t, R, p + 1)
    BY <1>5, <2>1, DepthPast
  <2> QED
    BY <1>5, <1>7, <2>2
<1>9. \A i \in 1..(Len(t) - 1) : DepthIn(t, Outside(t), i) > 0
  BY Zenon DEF IsBalanced
<1>10. p + 1 # Len(t) => p + 1 \in 1..(Len(t) - 1)
  BY <1>1
<1> QED
  BY <1>8, <1>9, <1>10

\* and at its last place the scanner closes it.
LEMMA BalancedEnd ==
    ASSUME NEW t, NEW p, NEW d, NEW q, NEW e, At(t, p, d, q, e), p + 1 = Len(t), IsBalanced(t)
    PROVE  q = "none" /\ e = FALSE /\ d = 1 /\ t[p + 1] = "rbrace"
<1>1. t \in Seq(Tokens) /\ p \in 1..Len(t) /\ Len(t) \in Nat /\ p \in Nat /\ Len(t) = p + 1 /\ p < Len(t)
  BY DEF At
<1>2. /\ t[p + 1] = "rbrace" /\ p + 1 \in Outside(t) /\ DepthIn(t, Outside(t), p + 1) = 0
      /\ \A i \in Outside(t) : t[i] \notin Quotes
  BY <1>1 DEF IsBalanced
<1>3. CASE q \in Quotes
  <2>1. Quoted(t, p, d, q, e)
    BY <1>3, NoneNoQuote DEF At
  <2>2. PICK a \in 1..p : \E S \in SUBSET (1..(a - 1)) : Reach(t, a - 1, S) /\ t[a] = q /\ InLiteral(t, a, p, e)
    BY <2>1 DEF Quoted
  <2>3. PICK S \in SUBSET (1..(a - 1)) : Reach(t, a - 1, S) /\ t[a] = q /\ InLiteral(t, a, p, e)
    BY <2>2
  <2>4. a \in 1..Len(t) /\ a \in Nat
    BY <1>1
  <2>5. CASE StringEnds(t, a) = {}
    <3>1. Outside(t) = S \cup {a}
      BY <1>1, <1>3, <2>3, <2>4, <2>5, ReachOpen
    <3> QED
      BY <1>2, <1>3, <2>3, <3>1
  <2>6. CASE StringEnds(t, a) # {}
    <3> SUFFICES ASSUME NEW m, m = Min(StringEnds(t, a)) PROVE FALSE
      OBVIOUS
    <3>1. m \in StringEnds(t, a) /\ m \in (a + 1)..Len(t)
      BY <1>1, <2>4, <2>6, StringEndsIn
    <3>2. t[m] = t[a] /\ Cardinality(Slashes(t, a, m)) % 2 = 0
      BY <3>1 DEF StringEnds
    <3>3. m \notin (a + 1)..p
      BY <2>3, <3>2 DEF InLiteral
    <3>4. m = Len(t)
      BY <1>1, <2>4, <3>1, <3>3
    <3>5. Reach(t, m, S)
      BY <1>1, <1>3, <2>3, <2>4, <2>6, ReachString
    <3>6. Outside(t) = S
      BY <1>1, <3>4, <3>5, ReachEnd
    <3> QED
      BY <1>1, <1>2, <2>4, <3>6
  <2> QED
    BY <2>5, <2>6
<1>4. CASE q \notin Quotes
  <2>1. q = "none" /\ e = FALSE /\ Bare(t, p, d)
    BY <1>4 DEF At
  <2>2. PICK S : Reach(t, p, S) /\ Deep(t, S, p, d)
    BY <2>1 DEF Bare
  <2>3. Reach(t, p + 1, S \cup {p + 1})
    BY <1>1, <1>2, <2>2, BraceNoQuote, ReachPlain
  <2>4. Outside(t) = S \cup {p + 1}
    BY <1>1, <2>3, ReachEnd
  <2>5. S \in SUBSET (1..p) /\ d = DepthIn(t, S, p)
    BY <2>2 DEF Deep
  <2>6. DepthIn(t, S \cup {p + 1}, p + 1) = d - 1
    BY <1>1, <1>2, <2>5, DepthTake
  <2>7. d \in Int
    BY AtDepth
  <2> QED
    BY <1>2, <2>1, <2>4, <2>6, <2>7
<1> QED
  BY <1>3, <1>4


------------------------------------------------------------------------------
(* Stretches of a text, one after the other. *)

Stretch == Nat \X Nat

Ordered(rs) == \A j, k \in DOMAIN rs : j < k => rs[j][2] < rs[k][1]

LEMMA OrderedAppend ==
    ASSUME NEW rs \in Seq(Stretch), Ordered(rs), NEW r \in Stretch, \A k \in DOMAIN rs : rs[k][2] < r[1]
    PROVE  /\ Append(rs, r) \in Seq(Stretch) /\ Ordered(Append(rs, r))
           /\ DOMAIN Append(rs, r) = DOMAIN rs \cup {Len(rs) + 1}
           /\ Append(rs, r)[Len(rs) + 1] = r
           /\ \A k \in DOMAIN rs : Append(rs, r)[k] = rs[k]
<1> SUFFICES ASSUME NEW g, g = Append(rs, r)
             PROVE  /\ g \in Seq(Stretch) /\ Ordered(g)
                    /\ DOMAIN g = DOMAIN rs \cup {Len(rs) + 1}
                    /\ g[Len(rs) + 1] = r
                    /\ \A k \in DOMAIN rs : g[k] = rs[k]
  OBVIOUS
<1>1. /\ g \in Seq(Stretch) /\ DOMAIN g = 1..(Len(rs) + 1) /\ DOMAIN rs = 1..Len(rs)
      /\ Len(rs) \in Nat /\ g[Len(rs) + 1] = r /\ \A k \in 1..Len(rs) : g[k] = rs[k]
  OBVIOUS
<1>2. ASSUME NEW j \in DOMAIN g, NEW k \in DOMAIN g, j < k PROVE g[j][2] < g[k][1]
  <2>1. j \in DOMAIN rs /\ g[j] = rs[j]
    BY <1>1, <1>2
  <2>2. CASE k = Len(rs) + 1
    BY <1>1, <2>1, <2>2
  <2>3. CASE k # Len(rs) + 1
    <3>1. k \in DOMAIN rs /\ g[k] = rs[k]
      BY <1>1, <2>3
    <3> QED
      BY <1>2, <2>1, <3>1 DEF Ordered
  <2> QED
    BY <2>2, <2>3
<1> QED
  BY <1>1, <1>2 DEF Ordered

LEMMA OrderedPrepend ==
    ASSUME NEW rs \in Seq(Stretch), Ordered(rs), NEW r \in Stretch, \A k \in DOMAIN rs : r[2] < rs[k][1]
    PROVE  /\ <<r>> \o rs \in Seq(Stretch) /\ Ordered(<<r>> \o rs)
           /\ \A k \in DOMAIN (<<r>> \o rs) :
                (<<r>> \o rs)[k] = r \/ \E j \in DOMAIN rs : (<<r>> \o rs)[k] = rs[j]
<1> SUFFICES ASSUME NEW g, g = <<r>> \o rs
             PROVE  /\ g \in Seq(Stretch) /\ Ordered(g)
                    /\ \A k \in DOMAIN g : g[k] = r \/ \E j \in DOMAIN rs : g[k] = rs[j]
  OBVIOUS
<1>1. /\ g \in Seq(Stretch) /\ DOMAIN g = 1..(Len(rs) + 1) /\ DOMAIN rs = 1..Len(rs)
      /\ Len(rs) \in Nat /\ g[1] = r /\ \A k \in 2..(Len(rs) + 1) : g[k] = rs[k - 1]
  OBVIOUS
<1>2. ASSUME NEW k \in DOMAIN g, k # 1 PROVE k - 1 \in DOMAIN rs /\ g[k] = rs[k - 1]
  BY <1>1, <1>2
<1>3. ASSUME NEW j \in DOMAIN g, NEW k \in DOMAIN g, j < k PROVE g[j][2] < g[k][1]
  <2>1. k # 1 /\ k - 1 \in DOMAIN rs /\ g[k] = rs[k - 1]
    BY <1>1, <1>2, <1>3
  <2>2. CASE j = 1
    BY <1>1, <2>1, <2>2
  <2>3. CASE j # 1
    <3>1. j - 1 \in DOMAIN rs /\ g[j] = rs[j - 1] /\ j - 1 < k - 1
      BY <1>1, <1>2, <1>3, <2>3
    <3> QED
      BY <2>1, <3>1 DEF Ordered
  <2> QED
    BY <2>2, <2>3
<1>4. \A k \in DOMAIN g : g[k] = r \/ \E j \in DOMAIN rs : g[k] = rs[j]
  BY <1>1, <1>2
<1> QED
  BY <1>1, <1>3, <1>4 DEF Ordered

LEMMA OrderedTail ==
    ASSUME NEW rs \in Seq(Stretch), Ordered(rs), rs # <<>>
    PROVE  /\ Tail(rs) \in Seq(Stretch) /\ Ordered(Tail(rs)) /\ Head(rs) = rs[1]
           /\ \A k \in DOMAIN Tail(rs) : \E j \in DOMAIN rs : Tail(rs)[k] = rs[j] /\ rs[1][2] < rs[j][1]
<1> DEFINE g == Tail(rs)
<1>1. /\ g \in Seq(Stretch) /\ DOMAIN g = 1..(Len(rs) - 1) /\ DOMAIN rs = 1..Len(rs)
      /\ Len(rs) \in Nat /\ Head(rs) = rs[1] /\ \A k \in 1..(Len(rs) - 1) : g[k] = rs[k + 1]
  OBVIOUS
<1> HIDE DEF g
<1>2. ASSUME NEW k \in DOMAIN g
      PROVE  k + 1 \in DOMAIN rs /\ g[k] = rs[k + 1] /\ 1 \in DOMAIN rs /\ 1 < k + 1
  BY <1>1
<1>3. ASSUME NEW k \in DOMAIN g PROVE rs[1][2] < rs[k + 1][1]
  BY <1>2 DEF Ordered
<1>4. ASSUME NEW j \in DOMAIN g, NEW k \in DOMAIN g, j < k PROVE g[j][2] < g[k][1]
  <2>1. j + 1 < k + 1
    BY <1>1, <1>4
  <2> QED
    BY <1>2, <2>1 DEF Ordered
<1> QED
  BY <1>1, <1>2, <1>3, <1>4 DEF Ordered, g

LEMMA OrderedNext == ASSUME NEW rs \in Seq(Stretch), Ordered(rs) PROVE InOrder(rs)
<1>1. \A k \in DOMAIN rs : k < k + 1
  OBVIOUS
<1> QED
  BY <1>1 DEF Ordered, InOrder

\* The matches of a pair of tags stand in the text, one after the other.
Tags(t, open, i, m) ==
    /\ m \in Seq(Stretch) /\ Ordered(m)
    /\ \A k \in DOMAIN m : i <= m[k][1] /\ m[k][1] + 2 <= m[k][2] /\ m[k][2] <= Len(t) /\ t[m[k][1]] = open

Scans(f, t, open, close) ==
    /\ f \in [1..(Len(t) + 1) -> Seq(Stretch)]
    /\ TagMatches(t, open, close) = f[1] /\ f[Len(t) + 1] = <<>>
    /\ \A i \in 1..Len(t) :
        f[i] = IF t[i] = open /\ TagEnds(t, close, i) # {}
                 THEN <<<<i, Min(TagEnds(t, close, i))>>>> \o f[Min(TagEnds(t, close, i)) + 1]
               ELSE f[i + 1]

LEMMA TagEndsIn ==
    ASSUME NEW t, Len(t) \in Nat, NEW close, NEW i \in Nat, TagEnds(t, close, i) # {}
    PROVE  Min(TagEnds(t, close, i)) \in (i + 2)..Len(t)
<1>1. TagEnds(t, close, i) \subseteq (i + 2)..Len(t)
  BY DEF TagEnds
<1>2. TagEnds(t, close, i) \in SUBSET Nat
  BY <1>1
<1> QED
  BY <1>1, <1>2, LeastIn

Past(t, open, close) ==
    [i \in 1..Len(t) |->
        IF t[i] = open /\ TagEnds(t, close, i) # {} THEN Min(TagEnds(t, close, i)) + 1 ELSE i + 1]

LEMMA TagEquation == ASSUME NEW t, Len(t) \in Nat, NEW open, NEW close PROVE \E f : Scans(f, t, open, close)
<1> SUFFICES ASSUME NEW n \in Nat, n = Len(t), NEW Q, Q = Seq(Stretch) PROVE \E f : Scans(f, t, open, close)
  OBVIOUS
<1> DEFINE Body(f) == [i \in 1..(Len(t) + 1) |->
                          IF i > Len(t) THEN <<>>
                          ELSE IF t[i] = open /\ TagEnds(t, close, i) # {}
                            THEN <<<<i, Min(TagEnds(t, close, i))>>>> \o f[Min(TagEnds(t, close, i)) + 1]
                          ELSE f[i + 1]]
           f == CHOOSE x : x = Body(x)
<1>1. TagMatches(t, open, close) = f[1]
  BY DEF TagMatches
<1> SUFFICES ASSUME NEW nxt, nxt = Past(t, open, close),
                    NEW G, G = [i \in 1..n |-> [x \in Q |->
                        IF t[i] = open /\ TagEnds(t, close, i) # {}
                          THEN <<<<i, Min(TagEnds(t, close, i))>>>> \o x ELSE x]]
             PROVE  \E g : Scans(g, t, open, close)
  OBVIOUS
<1>2. Jumps(n, nxt)
  <2> SUFFICES ASSUME NEW i \in 1..n PROVE nxt[i] \in 1..(n + 1) /\ nxt[i] > i
    BY DEF Past, Jumps
  <2>1. CASE t[i] = open /\ TagEnds(t, close, i) # {}
    <3>1. Min(TagEnds(t, close, i)) \in (i + 2)..n
      BY <2>1, TagEndsIn
    <3>2. nxt[i] = Min(TagEnds(t, close, i)) + 1
      BY <2>1 DEF Past
    <3> QED
      BY <3>1, <3>2
  <2>2. CASE ~(t[i] = open /\ TagEnds(t, close, i) # {})
    <3>1. nxt[i] = i + 1
      BY <2>2 DEF Past
    <3> QED
      BY <3>1
  <2> QED
    BY <2>1, <2>2
<1>3. G \in Steps(n, Q)
  <2> SUFFICES ASSUME NEW i \in 1..n, NEW x \in Q
               PROVE  (IF t[i] = open /\ TagEnds(t, close, i) # {}
                         THEN <<<<i, Min(TagEnds(t, close, i))>>>> \o x ELSE x) \in Q
    BY DEF Steps
  <2>1. ASSUME TagEnds(t, close, i) # {} PROVE <<<<i, Min(TagEnds(t, close, i))>>>> \o x \in Q
    <3>1. Min(TagEnds(t, close, i)) \in (i + 2)..n
      BY <2>1, TagEndsIn
    <3>2. <<i, Min(TagEnds(t, close, i))>> \in Stretch
      BY <3>1 DEF Stretch
    <3> QED
      BY <3>2
  <2> QED
    BY <2>1
<1>4. <<>> \in Q
  OBVIOUS
<1> HIDE DEF Body, f
<1>5. PICK e : Back(e, <<>>, n, Q, nxt, G)
  BY <1>2, <1>3, <1>4, BackExists
<1>6. e \in [1..(n + 1) -> Q] /\ e[n + 1] = <<>> /\ \A i \in 1..n : e[i] = G[i][e[nxt[i]]]
  BY <1>5 DEF Back
<1>7. ASSUME NEW i \in 1..n
      PROVE  e[i] = IF t[i] = open /\ TagEnds(t, close, i) # {}
                      THEN <<<<i, Min(TagEnds(t, close, i))>>>> \o e[Min(TagEnds(t, close, i)) + 1]
                    ELSE e[i + 1]
  <2>1. nxt[i] \in 1..(n + 1) /\ e[nxt[i]] \in Q
    BY <1>2, <1>6 DEF Jumps
  <2>2. e[i] = IF t[i] = open /\ TagEnds(t, close, i) # {}
                 THEN <<<<i, Min(TagEnds(t, close, i))>>>> \o e[nxt[i]] ELSE e[nxt[i]]
    BY <1>6, <2>1
  <2>3. nxt[i] = IF t[i] = open /\ TagEnds(t, close, i) # {} THEN Min(TagEnds(t, close, i)) + 1 ELSE i + 1
    BY DEF Past
  <2> QED
    BY <2>2, <2>3, Zenon
<1>8. e = Body(e)
  <2> SUFFICES ASSUME NEW i \in 1..(n + 1)
               PROVE  e[i] = IF i > n THEN <<>>
                             ELSE IF t[i] = open /\ TagEnds(t, close, i) # {}
                               THEN <<<<i, Min(TagEnds(t, close, i))>>>> \o e[Min(TagEnds(t, close, i)) + 1]
                             ELSE e[i + 1]
    BY <1>6 DEF Body
  <2>1. CASE i > n
    <3>1. i = n + 1
      BY <2>1
    <3> QED
      BY <1>6, <2>1, <3>1
  <2>2. CASE ~(i > n)
    <3>1. i \in 1..n
      BY <2>2
    <3> QED
      BY <1>7, <2>2, <3>1, Zenon
  <2> QED
    BY <2>1, <2>2
<1>9. f = Body(f)
  BY <1>8 DEF f
<1>10. \A i \in 1..(n + 1) :
          f[i] = IF i > n THEN <<>>
                 ELSE IF t[i] = open /\ TagEnds(t, close, i) # {}
                   THEN <<<<i, Min(TagEnds(t, close, i))>>>> \o f[Min(TagEnds(t, close, i)) + 1]
                 ELSE f[i + 1]
  BY <1>9 DEF Body
<1>11. f[n + 1] = <<>>
  <2>1. n + 1 \in 1..(n + 1) /\ n + 1 > n
    OBVIOUS
  <2> QED
    BY <1>10, <2>1, Zenon
<1>12. ASSUME NEW i \in 1..n
       PROVE  f[i] = IF t[i] = open /\ TagEnds(t, close, i) # {}
                       THEN <<<<i, Min(TagEnds(t, close, i))>>>> \o f[Min(TagEnds(t, close, i)) + 1]
                     ELSE f[i + 1]
  <2>1. i \in 1..(n + 1) /\ ~(i > n)
    OBVIOUS
  <2> QED
    BY <1>10, <2>1, Zenon
<1>13. ASSUME NEW i \in 1..(n + 1) PROVE f[i] \in Q
  <2> DEFINE S == {k \in 1..(n + 1) : f[k] \in Q}
  <2>1. n + 1 \in S
    <3>1. n + 1 \in 1..(n + 1) /\ f[n + 1] \in Q
      BY <1>4, <1>11
    <3> QED
      BY <3>1
  <2>2. ASSUME NEW k \in 1..n, \A j \in (k + 1)..(n + 1) : j \in S PROVE k \in S
    <3>1. k + 1 \in (k + 1)..(n + 1) /\ f[k + 1] \in Q
      BY <2>2
    <3>2. ASSUME TagEnds(t, close, k) # {}
          PROVE  <<<<k, Min(TagEnds(t, close, k))>>>> \o f[Min(TagEnds(t, close, k)) + 1] \in Q
      <4>1. Min(TagEnds(t, close, k)) \in (k + 2)..n
        BY <3>2, TagEndsIn
      <4> SUFFICES ASSUME NEW m, m = Min(TagEnds(t, close, k)) PROVE <<<<k, m>>>> \o f[m + 1] \in Q
        OBVIOUS
      <4>2. m + 1 \in (k + 1)..(n + 1) /\ <<k, m>> \in Stretch
        BY <4>1 DEF Stretch
      <4>3. f[m + 1] \in Q
        BY <2>2, <4>2
      <4> QED
        BY <4>2, <4>3
    <3>3. f[k] \in Q
      BY <1>12, <3>1, <3>2, Zenon
    <3> QED
      BY <3>3
  <2> HIDE DEF S
  <2>3. 1..(n + 1) \subseteq S
    BY <2>1, <2>2, BackInduct
  <2> QED
    BY <2>3 DEF S
<1>14. f \in [1..(n + 1) -> Q]
  <2>1. f = [i \in 1..(n + 1) |-> f[i]]
    BY <1>9 DEF Body
  <2> QED
    BY <1>13, <2>1
<1>15. Scans(f, t, open, close)
  BY <1>1, <1>11, <1>12, <1>14 DEF Scans
<1> QED
  BY <1>15

LEMMA MatchesAre ==
    ASSUME NEW t, Len(t) \in Nat, NEW open, NEW close
    PROVE  Tags(t, open, 1, TagMatches(t, open, close))
<1>1. PICK f : Scans(f, t, open, close)
  BY TagEquation
<1> SUFFICES ASSUME NEW n \in Nat, n = Len(t) PROVE Tags(t, open, 1, f[1])
  BY <1>1 DEF Scans
<1> DEFINE S == {i \in 1..(n + 1) : Tags(t, open, i, f[i])}
<1>2. n + 1 \in S
  <2>1. f[n + 1] = <<>>
    BY <1>1 DEF Scans
  <2>2. Tags(t, open, n + 1, <<>>)
    BY DEF Tags, Ordered
  <2> QED
    BY <2>1, <2>2
<1>3. ASSUME NEW i \in 1..n, \A j \in (i + 1)..(n + 1) : j \in S PROVE i \in S
  <2> SUFFICES Tags(t, open, i, f[i])
    OBVIOUS
  <2>1. f[i] = IF t[i] = open /\ TagEnds(t, close, i) # {}
                 THEN <<<<i, Min(TagEnds(t, close, i))>>>> \o f[Min(TagEnds(t, close, i)) + 1]
               ELSE f[i + 1]
    BY <1>1, Zenon DEF Scans
  <2>2. CASE t[i] = open /\ TagEnds(t, close, i) # {}
    <3>1. Min(TagEnds(t, close, i)) \in (i + 2)..n
      BY <2>2, TagEndsIn
    <3>0. f[i] = <<<<i, Min(TagEnds(t, close, i))>>>> \o f[Min(TagEnds(t, close, i)) + 1]
      BY <2>1, <2>2, Zenon
    <3> SUFFICES ASSUME NEW m \in (i + 2)..n, f[i] = <<<<i, m>>>> \o f[m + 1] PROVE Tags(t, open, i, f[i])
      BY <3>0, <3>1, Zenon
    <3>2. m + 1 \in (i + 1)..(n + 1) /\ <<i, m>> \in Stretch
      BY DEF Stretch
    <3>3. Tags(t, open, m + 1, f[m + 1])
      BY <1>3, <3>2
    <3> SUFFICES ASSUME NEW g, g = f[m + 1], Tags(t, open, m + 1, g), NEW r \in Stretch, r = <<i, m>>,
                        NEW h, h = <<r>> \o g
                 PROVE  Tags(t, open, i, h)
      BY <3>2, <3>3
    <3>4. /\ g \in Seq(Stretch) /\ Ordered(g)
          /\ \A k \in DOMAIN g : m + 1 <= g[k][1] /\ g[k][1] + 2 <= g[k][2] /\ g[k][2] <= n /\ t[g[k][1]] = open
      BY DEF Tags
    <3>5. \A k \in DOMAIN g : g[k] \in Stretch
      BY <3>4
    <3>6. \A k \in DOMAIN g : g[k][1] \in Nat
      BY <3>5 DEF Stretch
    <3>7. \A k \in DOMAIN g : r[2] < g[k][1] /\ i <= g[k][1]
      BY <3>4, <3>6
    <3>8. /\ h \in Seq(Stretch) /\ Ordered(h)
          /\ \A k \in DOMAIN h : h[k] = r \/ \E j \in DOMAIN g : h[k] = g[j]
      BY <3>4, <3>7, OrderedPrepend
    <3>9. i <= r[1] /\ r[1] + 2 <= r[2] /\ r[2] <= n /\ t[r[1]] = open
      BY <2>2
    <3>10. ASSUME NEW k \in DOMAIN h
           PROVE  i <= h[k][1] /\ h[k][1] + 2 <= h[k][2] /\ h[k][2] <= n /\ t[h[k][1]] = open
      <4>1. CASE h[k] = r
        BY <3>9, <4>1, Zenon
      <4>2. CASE \E j \in DOMAIN g : h[k] = g[j]
        <5>1. PICK j \in DOMAIN g : h[k] = g[j]
          BY <4>2
        <5>2. i <= g[j][1] /\ g[j][1] + 2 <= g[j][2] /\ g[j][2] <= n /\ t[g[j][1]] = open
          BY <3>4, <3>7
        <5> QED
          BY <5>1, <5>2, Zenon
      <4> QED
        BY <3>8, <4>1, <4>2
    <3> QED
      BY <3>8, <3>10 DEF Tags
  <2>3. CASE ~(t[i] = open /\ TagEnds(t, close, i) # {})
    <3>1. f[i] = f[i + 1] /\ i + 1 \in (i + 1)..(n + 1)
      BY <2>1, <2>3
    <3>2. Tags(t, open, i + 1, f[i])
      BY <1>3, <3>1
    <3> SUFFICES ASSUME NEW g, g = f[i], Tags(t, open, i + 1, g) PROVE Tags(t, open, i, g)
      BY <3>2
    <3>4. g \in Seq(Stretch) /\ \A k \in DOMAIN g : i + 1 <= g[k][1]
      BY DEF Tags
    <3>5. \A k \in DOMAIN g : g[k] \in Stretch
      BY <3>4
    <3>6. \A k \in DOMAIN g : i <= g[k][1]
      BY <3>4, <3>5 DEF Stretch
    <3> QED
      BY <3>6 DEF Tags
  <2> QED
    BY <2>2, <2>3
<1> HIDE DEF S
<1>4. 1..(n + 1) \subseteq S
  BY <1>2, <1>3, BackInduct
<1>5. 1 \in S
  BY <1>4
<1> QED
  BY <1>5 DEF S


\* Those of a list that are kept.
Kept(rs, K, n) == FlattenSeq([k \in 1..n |-> IF k \in K THEN <<rs[k]>> ELSE <<>>])

KeptOf(rs, K, n, cs) ==
    cs \in Seq(Stretch) /\ Ordered(cs) /\ \A j \in DOMAIN cs : \E k \in 1..n : k \in K /\ cs[j] = rs[k]

LEMMA KeptStep ==
    ASSUME NEW rs \in Seq(Stretch), Ordered(rs), NEW K, NEW n \in Nat, n + 1 <= Len(rs),
           KeptOf(rs, K, n, Kept(rs, K, n))
    PROVE  KeptOf(rs, K, n + 1, Kept(rs, K, n + 1))
<1> DEFINE Piece(k) == IF k \in K THEN <<rs[k]>> ELSE <<>>
<1> SUFFICES ASSUME NEW p, p = [k \in 1..n |-> Piece(k)], NEW q, q = [k \in 1..(n + 1) |-> Piece(k)]
             PROVE  KeptOf(rs, K, n + 1, Kept(rs, K, n + 1))
  OBVIOUS
<1>1. ASSUME NEW k \in 1..(n + 1) PROVE rs[k] \in Stretch /\ Piece(k) \in Seq(Stretch)
  OBVIOUS
<1>2. p \in Pieces(n, Stretch) /\ q \in Pieces(n + 1, Stretch) /\ (\A i \in 1..n : q[i] = p[i]) /\ q[n + 1] = Piece(n + 1)
  BY <1>1 DEF Pieces
<1>3. Kept(rs, K, n) = FlattenSeq(p) /\ Kept(rs, K, n + 1) = FlattenSeq(q)
  BY DEF Kept
<1> HIDE DEF Piece
<1>4. FlattenSeq(q) = FlattenSeq(p) \o q[n + 1]
  <2>1. \A i \in 1..n : q[i] = p[i]
    BY <1>2
  <2> QED
    BY <1>2, <2>1, FlattenStep, Zenon
<1> SUFFICES ASSUME NEW cs, cs = Kept(rs, K, n), NEW ds, ds = Kept(rs, K, n + 1)
             PROVE  KeptOf(rs, K, n + 1, ds)
  OBVIOUS
<1>5. ds = cs \o Piece(n + 1)
  BY <1>2, <1>3, <1>4
<1>6. cs \in Seq(Stretch) /\ Ordered(cs) /\ \A j \in DOMAIN cs : \E k \in 1..n : k \in K /\ cs[j] = rs[k]
  BY DEF KeptOf
<1>7. \A k \in 1..n : k \in 1..(n + 1) /\ k \in DOMAIN rs /\ n + 1 \in DOMAIN rs /\ k < n + 1
  OBVIOUS
<1>8. \A k \in 1..n : rs[k][2] < rs[n + 1][1]
  BY <1>7, Zenon DEF Ordered
<1>9. CASE n + 1 \in K
  <2>1. Piece(n + 1) = <<rs[n + 1]>> /\ rs[n + 1] \in Stretch
    BY <1>9 DEF Piece
  <2> SUFFICES ASSUME NEW r \in Stretch, r = rs[n + 1] PROVE KeptOf(rs, K, n + 1, ds)
    BY <2>1
  <2>2. ds = Append(cs, r)
    <3>1. ds = cs \o <<r>>
      BY <1>5, <2>1, Zenon
    <3>2. cs \o <<r>> = Append(cs, r)
      BY <1>6
    <3> QED
      BY <3>1, <3>2, Zenon
  <2>3. \A j \in DOMAIN cs : cs[j][2] < r[1]
    BY <1>6, <1>8, Zenon
  <2>0. /\ Append(cs, r) \in Seq(Stretch) /\ Ordered(Append(cs, r))
        /\ DOMAIN Append(cs, r) = DOMAIN cs \cup {Len(cs) + 1} /\ Append(cs, r)[Len(cs) + 1] = r
        /\ \A j \in DOMAIN cs : Append(cs, r)[j] = cs[j]
    BY <1>6, <2>3, OrderedAppend
  <2>4. /\ ds \in Seq(Stretch) /\ Ordered(ds)
        /\ DOMAIN ds = DOMAIN cs \cup {Len(cs) + 1} /\ ds[Len(cs) + 1] = r
        /\ \A j \in DOMAIN cs : ds[j] = cs[j]
    BY <2>0, <2>2, Zenon
  <2>5. ASSUME NEW j \in DOMAIN ds PROVE \E k \in 1..(n + 1) : k \in K /\ ds[j] = rs[k]
    <3>1. CASE j \in DOMAIN cs
      BY <1>6, <1>7, <2>4, <3>1, Zenon
    <3>2. CASE j \notin DOMAIN cs
      <4>1. ds[j] = rs[n + 1] /\ n + 1 \in 1..(n + 1)
        BY <2>4, <3>2
      <4> QED
        BY <1>9, <4>1, Zenon
    <3> QED
      BY <3>1, <3>2
  <2> QED
    BY <2>4, <2>5 DEF KeptOf
<1>10. CASE n + 1 \notin K
  <2>1. Piece(n + 1) = <<>>
    BY <1>10 DEF Piece
  <2>2. ds = cs
    <3>1. ds = cs \o <<>>
      BY <1>5, <2>1, Zenon
    <3>2. cs \o <<>> = cs
      BY <1>6
    <3> QED
      BY <3>1, <3>2, Zenon
  <2> QED
    <3>1. ds \in Seq(Stretch) /\ Ordered(ds)
      BY <1>6, <2>2, Zenon
    <3>2. \A j \in DOMAIN ds : \E k \in 1..(n + 1) : k \in K /\ ds[j] = rs[k]
      BY <1>6, <1>7, <2>2, Zenon
    <3> QED
      BY <3>1, <3>2, Zenon DEF KeptOf
<1> QED
  BY <1>9, <1>10

LEMMA KeptAre ==
    ASSUME NEW rs \in Seq(Stretch), Ordered(rs), NEW K
    PROVE  KeptOf(rs, K, Len(rs), Kept(rs, K, Len(rs)))
<1> DEFINE S == {n \in Nat : n <= Len(rs) => KeptOf(rs, K, n, Kept(rs, K, n))}
<1>1. 0 \in S
  <2>1. [k \in 1..0 |-> IF k \in K THEN <<rs[k]>> ELSE <<>>] = <<>>
    OBVIOUS
  <2>2. Len(<<>>) = 0
    OBVIOUS
  <2>3. FlattenSeq(<<>>) = <<>>
    BY <2>2 DEF FlattenSeq
  <2>4. Kept(rs, K, 0) = <<>>
    BY <2>1, <2>3, Zenon DEF Kept
  <2>5. KeptOf(rs, K, 0, <<>>)
    BY DEF KeptOf, Ordered
  <2> QED
    BY <2>4, <2>5
<1>2. ASSUME NEW n \in Nat, n \in S PROVE n + 1 \in S
  <2> SUFFICES ASSUME n + 1 <= Len(rs) PROVE KeptOf(rs, K, n + 1, Kept(rs, K, n + 1))
    OBVIOUS
  <2>1. KeptOf(rs, K, n, Kept(rs, K, n))
    BY <1>2
  <2> QED
    BY <2>1, KeptStep
<1> HIDE DEF S
<1>3. Nat \subseteq S
  BY <1>1, <1>2, Induct
<1>4. Len(rs) \in Nat
  OBVIOUS
<1> QED
  BY <1>3, <1>4 DEF S

LEMMA ParsedAre ==
    ASSUME NEW rs \in Seq(Stretch), Ordered(rs)
    PROVE  /\ Parsed(rs) \in Seq(Stretch) /\ Ordered(Parsed(rs))
           /\ \A j \in DOMAIN Parsed(rs) :
                \E k \in DOMAIN rs : Parsed(rs)[j] = rs[k] /\ IsCall(Part(content, Parsed(rs)[j]))
<1> DEFINE K == {k \in DOMAIN rs : IsCall(Part(content, rs[k]))}
<1>1. Parsed(rs) = Kept(rs, K, Len(rs))
  <2>1. [k \in DOMAIN rs |-> IF IsCall(Part(content, rs[k])) THEN <<rs[k]>> ELSE <<>>]
          = [k \in 1..Len(rs) |-> IF k \in K THEN <<rs[k]>> ELSE <<>>]
    <3>1. DOMAIN rs = 1..Len(rs)
      OBVIOUS
    <3> QED
      BY <3>1, Zenon
  <2> QED
    BY <2>1, Zenon DEF Parsed, Kept
<1>2. \A k \in K : k \in DOMAIN rs /\ IsCall(Part(content, rs[k]))
  OBVIOUS
<1> HIDE DEF K
<1>3. KeptOf(rs, K, Len(rs), Parsed(rs))
  BY <1>1, KeptAre
<1> QED
  BY <1>2, <1>3, Zenon DEF KeptOf

LEMMA BodiesAre ==
    ASSUME NEW t, Len(t) \in Nat, NEW open, NEW close
    PROVE  /\ Bodies(t, open, close) \in Seq(Stretch) /\ Ordered(Bodies(t, open, close))
           /\ \A k \in DOMAIN Bodies(t, open, close) :
                /\ 1 <= Bodies(t, open, close)[k][1] /\ Bodies(t, open, close)[k][2] <= Len(t)
                /\ Bodies(t, open, close)[k][1] <= Bodies(t, open, close)[k][2]
           /\ (\A i \in 1..Len(t) : t[i] # open) =>
                TagMatches(t, open, close) = <<>> /\ Bodies(t, open, close) = <<>>
<1> SUFFICES ASSUME NEW m, m = TagMatches(t, open, close), NEW b, b = Bodies(t, open, close)
             PROVE  /\ b \in Seq(Stretch) /\ Ordered(b)
                    /\ \A k \in DOMAIN b : 1 <= b[k][1] /\ b[k][2] <= Len(t) /\ b[k][1] <= b[k][2]
                    /\ (\A i \in 1..Len(t) : t[i] # open) => m = <<>> /\ b = <<>>
  OBVIOUS
<1>1. /\ m \in Seq(Stretch) /\ Ordered(m)
      /\ \A k \in DOMAIN m : 1 <= m[k][1] /\ m[k][1] + 2 <= m[k][2] /\ m[k][2] <= Len(t) /\ t[m[k][1]] = open
  BY MatchesAre DEF Tags
<1>2. b = [k \in DOMAIN m |-> <<m[k][1] + 1, m[k][2] - 1>>]
  BY DEF Bodies
<1>3. DOMAIN m = 1..Len(m) /\ Len(m) \in Nat /\ \A k \in DOMAIN m : m[k][1] \in Nat /\ m[k][2] \in Nat
  <2>1. \A k \in DOMAIN m : m[k] \in Stretch
    BY <1>1
  <2> QED
    BY <1>1, <2>1 DEF Stretch
<1>4. ASSUME NEW k \in DOMAIN m
      PROVE  /\ b[k] \in Stretch /\ b[k][1] = m[k][1] + 1 /\ b[k][2] = m[k][2] - 1
             /\ 1 <= b[k][1] /\ b[k][2] <= Len(t) /\ b[k][1] <= b[k][2]
  <2>1. b[k] = <<m[k][1] + 1, m[k][2] - 1>>
    BY <1>2
  <2>2. m[k][1] \in Nat /\ m[k][2] \in Nat /\ 1 <= m[k][1] /\ m[k][1] + 2 <= m[k][2] /\ m[k][2] <= Len(t)
    BY <1>1, <1>3
  <2> QED
    BY <2>1, <2>2 DEF Stretch
<1>5. b \in Seq(Stretch) /\ DOMAIN b = DOMAIN m
  BY <1>2, <1>3, <1>4
<1>6. ASSUME NEW j \in DOMAIN b, NEW k \in DOMAIN b, j < k PROVE b[j][2] < b[k][1]
  <2>1. m[j][2] < m[k][1] /\ m[j][2] \in Nat /\ m[k][1] \in Nat
    BY <1>1, <1>3, <1>5, <1>6 DEF Ordered
  <2> QED
    BY <1>4, <1>5, <2>1
<1>7. ASSUME \A i \in 1..Len(t) : t[i] # open PROVE m = <<>> /\ b = <<>>
  <2>1. ASSUME NEW k \in DOMAIN m PROVE FALSE
    <3>1. m[k][1] \in 1..Len(t)
      BY <1>1, <1>3
    <3> QED
      BY <1>1, <1>7, <3>1
  <2>2. Len(m) = 0
    <3>1. Len(m) > 0 => 1 \in DOMAIN m
      BY <1>3
    <3>2. ~(Len(m) > 0)
      BY <2>1, <3>1, Zenon
    <3> QED
      BY <1>3, <3>2
  <2> QED
    BY <1>1, <1>3, <1>5, <2>2
<1> QED
  BY <1>4, <1>5, <1>6, <1>7 DEF Ordered

LEMMA WithoutType ==
    ASSUME NEW t \in Seq(Tokens), NEW ms PROVE Without(t, ms) \in Seq(Tokens)
<1> SUFFICES ASSUME NEW p, p = [i \in DOMAIN t |->
        IF \E k \in DOMAIN ms : ms[k][1] <= i /\ i <= ms[k][2] THEN <<>> ELSE <<t[i]>>]
             PROVE  FlattenSeq(p) \in Seq(Tokens)
  BY Zenon DEF Without
<1>1. DOMAIN t = 1..Len(t) /\ Len(t) \in Nat
  OBVIOUS
<1>2. \A i \in DOMAIN t : p[i] = <<>> \/ p[i] = <<t[i]>>
  BY Zenon
<1>3. \A i \in DOMAIN t : p[i] \in Seq(Tokens)
  <2>1. \A i \in DOMAIN t : <<>> \in Seq(Tokens) /\ <<t[i]>> \in Seq(Tokens)
    OBVIOUS
  <2> QED
    BY <1>2, <2>1, Zenon
<1>4. p \in [DOMAIN t -> Seq(Tokens)]
  BY <1>3, Zenon
<1>5. p \in Pieces(Len(t), Tokens)
  BY <1>1, <1>4 DEF Pieces
<1> QED
  BY <1>1, <1>5, FlattenType

LEMMA PartAt ==
    ASSUME NEW t \in Seq(Tokens), NEW s \in 1..Len(t), NEW e \in (s - 1)..Len(t)
    PROVE  /\ Part(t, <<s, e>>) \in Seq(Tokens) /\ Len(Part(t, <<s, e>>)) = e - s + 1
           /\ \A k \in 1..(e - s + 1) : Part(t, <<s, e>>)[k] = t[s + k - 1]
  BY DEF Part


------------------------------------------------------------------------------
(* The scanner. *)

Typed ==
    /\ content \in Seq(Tokens)
    /\ stage \in {"tool_call", "tools", "fence", "inFences", "bare", "done"}
    /\ pos \in Positions /\ depth \in Int /\ start \in 0..Len(content)
    /\ quote \in Quotes \cup {"none"} /\ escape \in BOOLEAN
    /\ rest \in Seq(Tokens)

Lying(rs, n) == \A k \in DOMAIN rs : 1 <= rs[k][1] /\ rs[k][1] <= rs[k][2] + 1 /\ rs[k][2] <= n

\* The stretches lie in the text one after the other, and the scanner is in the first.
RangesRight ==
    /\ ranges \in Seq(Stretch) /\ Ordered(ranges) /\ Lying(ranges, Len(content))
    /\ stage \notin {"inFences", "bare"} => ranges = <<>>
    /\ stage \in {"tool_call", "tools", "fence"} => calls = <<>>
    /\ IF ranges = <<>> THEN start = 0 /\ spans = <<>>
                        ELSE ranges[1][1] <= pos /\ pos <= ranges[1][2] + 1

\* What was found lies in order before the scanner, and before the object it is in.
Found(ss) ==
    /\ ss \in Seq(Stretch) /\ Ordered(ss) /\ Lying(ss, Len(content))
    /\ ranges # <<>> => \A k \in DOMAIN ss : ss[k][2] < pos /\ (start > 0 => ss[k][2] < start)

\* The scanner has the object it is in right, however the text goes on.
ObjectRight ==
    start > 0 =>
        /\ start < pos
        /\ \A e \in (pos - 1)..Len(content) : At(Part(content, <<start, e>>), pos - start, depth, quote, escape)

Whole ==
    /\ \A k \in DOMAIN spans : IsBalanced(Part(content, spans[k]))
    /\ \A k \in DOMAIN calls : IsCall(Part(content, calls[k]))

ExtractInv == Typed /\ RangesRight /\ Found(spans) /\ Found(calls) /\ ObjectRight /\ Whole

LEMMA PositionsAre == Len(content) \in Nat => Positions = 1..(Len(content) + 1)
  BY DEF Positions

LEMMA NoneFound == ASSUME Len(content) \in Nat PROVE Found(<<>>)
  BY DEF Found, Ordered, Lying

LEMMA ExtractInitInv == ExtractInit => ExtractInv
<1> SUFFICES ASSUME ExtractInit PROVE ExtractInv
  OBVIOUS
<1>1. content \in Seq(Tokens) /\ Len(content) \in Nat
  BY TextsAssumption DEF ExtractInit
<1>2. Typed
  <2>1. pos \in Positions /\ start \in 0..Len(content) /\ depth \in Int
    BY <1>1 DEF ExtractInit, Positions
  <2>2. /\ stage \in {"tool_call", "tools", "fence", "inFences", "bare", "done"}
        /\ quote \in Quotes \cup {"none"} /\ escape \in BOOLEAN /\ rest = content
    BY Zenon DEF ExtractInit
  <2> QED
    BY <1>1, <2>1, <2>2, Zenon DEF Typed
<1>3. RangesRight
  BY <1>1 DEF ExtractInit, RangesRight, Ordered, Lying
<1>4. Found(spans) /\ Found(calls)
  BY <1>1, NoneFound, Zenon DEF ExtractInit
<1>5. ObjectRight /\ Whole
  BY DEF ExtractInit, ObjectRight, Whole
<1> QED
  BY <1>2, <1>3, <1>4, <1>5 DEF ExtractInv

LEMMA TaggedInv ==
    ASSUME ExtractInv, NEW here \in {"tool_call", "tools"}, NEW open, NEW close, NEW next \in {"tools", "fence"},
           Tagged(here, open, close, next)
    PROVE  ExtractInv'
<1> DEFINE cs == Parsed(Bodies(content, open, close))
<1>1. /\ content \in Seq(Tokens) /\ Len(content) \in Nat /\ ranges = <<>> /\ calls = <<>>
      /\ start = 0 /\ spans = <<>>
  BY DEF ExtractInv, Typed, RangesRight, Tagged
<1>2. /\ content' = content /\ ranges' = ranges /\ pos' = pos /\ depth' = depth /\ start' = start
      /\ quote' = quote /\ escape' = escape /\ spans' = spans
  BY DEF Tagged, scanner
<1>3. \/ stage' = "done" /\ calls' = cs /\ rest' = Without(content, TagMatches(content, open, close))
      \/ stage' = next /\ calls' = calls /\ rest' = rest
  BY Zenon DEF Tagged
<1>4. /\ Bodies(content, open, close) \in Seq(Stretch) /\ Ordered(Bodies(content, open, close))
      /\ \A k \in DOMAIN Bodies(content, open, close) :
           /\ 1 <= Bodies(content, open, close)[k][1] /\ Bodies(content, open, close)[k][2] <= Len(content)
           /\ Bodies(content, open, close)[k][1] <= Bodies(content, open, close)[k][2]
  BY <1>1, BodiesAre
<1> SUFFICES ASSUME NEW b, b = Bodies(content, open, close) PROVE ExtractInv'
  OBVIOUS
<1>5. /\ cs \in Seq(Stretch) /\ Ordered(cs)
      /\ \A j \in DOMAIN cs : \E k \in DOMAIN b : cs[j] = b[k] /\ IsCall(Part(content, cs[j]))
  BY <1>4, ParsedAre
<1> HIDE DEF cs
<1>6. \A k \in DOMAIN b : 1 <= b[k][1] /\ b[k][1] <= b[k][2] + 1 /\ b[k][2] <= Len(content)
  <2>1. \A k \in DOMAIN b : b[k] \in Stretch
    BY <1>4
  <2>2. \A k \in DOMAIN b : b[k][1] \in Nat /\ b[k][2] \in Nat
    BY <2>1 DEF Stretch
  <2> QED
    BY <1>4, <2>2
<1>7. Lying(cs, Len(content))
  BY <1>5, <1>6, Zenon DEF Lying
<1>8. Typed'
  <2>1. rest' \in Seq(Tokens)
    BY <1>1, <1>3, WithoutType DEF ExtractInv, Typed
  <2>2. stage' \in {"tools", "fence", "done"}
    BY <1>3
  <2> QED
    BY <1>2, <2>1, <2>2 DEF ExtractInv, Typed, Positions
<1>9. RangesRight'
  BY <1>1, <1>2, <1>3 DEF ExtractInv, RangesRight, Lying
<1>10. Found(spans)' /\ Found(calls)'
  <2>1. Found(spans)'
    BY <1>1, <1>2 DEF Found, Ordered, Lying
  <2>2. calls' \in Seq(Stretch) /\ Ordered(calls') /\ Lying(calls', Len(content))
    <3>1. CASE calls' = cs
      BY <1>5, <1>7, <3>1, Zenon
    <3>2. CASE calls' = calls
      BY <1>1, <3>2 DEF Ordered, Lying
    <3> QED
      BY <1>3, <3>1, <3>2
  <2>3. Found(calls)'
    BY <1>1, <1>2, <2>2 DEF Found
  <2> QED
    BY <2>1, <2>3
<1>11. ObjectRight' /\ Whole'
  <2>1. ObjectRight'
    BY <1>1, <1>2 DEF ObjectRight
  <2>2. \A k \in DOMAIN calls' : IsCall(Part(content, calls'[k]))
    <3>1. CASE calls' = cs
      BY <1>5, <3>1, Zenon
    <3>2. CASE calls' = calls
      BY <3>2, Zenon DEF ExtractInv, Whole
    <3> QED
      BY <1>3, <3>1, <3>2
  <2>3. Whole'
    BY <1>1, <1>2, <2>2 DEF Whole
  <2> QED
    BY <2>1, <2>3
<1> QED
  BY <1>8, <1>9, <1>10, <1>11 DEF ExtractInv

\* The scanner at the beginning of a list of stretches.
LEMMA RewindInv ==
    ASSUME ExtractInv, NEW rs \in Seq(Stretch), Ordered(rs), Lying(rs, Len(content)), Rewind(rs),
           content' = content, rest' = rest, stage' \in {"inFences", "bare"}, calls' = calls,
           \A k \in DOMAIN calls, j \in DOMAIN rs : calls[k][2] < rs[j][1]
    PROVE  ExtractInv'
<1>1. content \in Seq(Tokens) /\ Len(content) \in Nat
  BY DEF ExtractInv, Typed
<1>2. /\ ranges' = rs /\ pos' = (IF rs = <<>> THEN 1 ELSE rs[1][1])
      /\ depth' = 0 /\ start' = 0 /\ quote' = "none" /\ escape' = FALSE /\ spans' = <<>>
  BY DEF Rewind
<1>3. rs # <<>> => 1 \in DOMAIN rs /\ rs[1][1] \in Nat /\ rs[1][2] \in Nat
  <2>1. rs # <<>> => 1 \in DOMAIN rs /\ rs[1] \in Stretch
    OBVIOUS
  <2> QED
    BY <2>1 DEF Stretch
<1>4. rs # <<>> => 1 <= rs[1][1] /\ rs[1][1] <= rs[1][2] + 1 /\ rs[1][2] <= Len(content)
  BY <1>3 DEF Lying
<1>5. Typed'
  <2>1. pos' \in 1..(Len(content) + 1)
    BY <1>1, <1>2, <1>3, <1>4
  <2>2. pos' \in Positions'
    BY <2>1 DEF Positions
  <2>3. quote' \in Quotes \cup {"none"} /\ escape' \in BOOLEAN
    BY <1>2, Zenon
  <2>4. depth' \in Int /\ start' \in 0..Len(content)
    BY <1>1, <1>2
  <2>5. stage' \in {"tool_call", "tools", "fence", "inFences", "bare", "done"}
    BY Zenon
  <2>6. rest' \in Seq(Tokens)
    BY Zenon DEF ExtractInv, Typed
  <2> QED
    BY <1>1, <2>2, <2>3, <2>4, <2>5, <2>6, Zenon DEF Typed
<1>6. RangesRight'
  BY <1>2, <1>3, <1>4 DEF RangesRight
<1>7. Found(spans)'
  BY <1>1, <1>2 DEF Found, Ordered, Lying
<1>8. Found(calls)'
  <2>1. calls \in Seq(Stretch) /\ Ordered(calls) /\ Lying(calls, Len(content))
    BY DEF ExtractInv, Found
  <2>2. rs # <<>> => \A k \in DOMAIN calls : calls[k][2] < pos'
    BY <1>2, <1>3
  <2> QED
    BY <1>2, <2>1, <2>2 DEF Found
<1>9. ObjectRight' /\ Whole'
  BY <1>2 DEF ExtractInv, ObjectRight, Whole
<1> QED
  BY <1>5, <1>6, <1>7, <1>8, <1>9 DEF ExtractInv

LEMMA FindFencesInv == ASSUME ExtractInv, FindFences PROVE ExtractInv'
<1>1. content \in Seq(Tokens) /\ Len(content) \in Nat /\ calls = <<>>
  BY DEF ExtractInv, Typed, RangesRight, FindFences
<1> SUFFICES ASSUME NEW b, b = Bodies(content, "fence", "fence") PROVE ExtractInv'
  OBVIOUS
<1>2. /\ b \in Seq(Stretch) /\ Ordered(b)
      /\ \A k \in DOMAIN b : 1 <= b[k][1] /\ b[k][2] <= Len(content) /\ b[k][1] <= b[k][2]
  BY <1>1, BodiesAre
<1>3. Lying(b, Len(content))
  <2>1. \A k \in DOMAIN b : b[k] \in Stretch
    BY <1>2
  <2>2. \A k \in DOMAIN b : b[k][1] \in Nat /\ b[k][2] \in Nat
    BY <2>1 DEF Stretch
  <2> QED
    BY <1>2, <2>2 DEF Lying
<1>4. /\ Rewind(b) /\ content' = content /\ rest' = rest /\ stage' \in {"inFences", "bare"} /\ calls' = calls
  BY DEF FindFences
<1>5. \A k \in DOMAIN calls, j \in DOMAIN b : calls[k][2] < b[j][1]
  BY <1>1
<1> QED
  BY <1>2, <1>3, <1>4, <1>5, RewindInv

LEMMA FencesDoneInv == ASSUME ExtractInv, FencesDone PROVE ExtractInv'
<1>1. content \in Seq(Tokens) /\ Len(content) \in Nat /\ ranges = <<>> /\ start = 0 /\ spans = <<>>
  BY DEF ExtractInv, Typed, RangesRight, FencesDone
<1>2. content' = content /\ calls' = calls
  BY DEF FencesDone
<1>3. CASE calls # <<>>
  <2>1. /\ stage' = "done" /\ rest' = <<>> /\ ranges' = ranges /\ pos' = pos /\ depth' = depth
        /\ start' = start /\ quote' = quote /\ escape' = escape /\ spans' = spans
    BY <1>3 DEF FencesDone, scanner
  <2>2. Typed'
    BY <1>2, <2>1 DEF ExtractInv, Typed, Positions
  <2>3. RangesRight'
    BY <1>1, <1>2, <2>1 DEF ExtractInv, RangesRight, Lying
  <2>4. Found(spans)' /\ Found(calls)'
    BY <1>1, <1>2, <2>1 DEF ExtractInv, Found, Lying
  <2>5. ObjectRight' /\ Whole'
    BY <1>1, <1>2, <2>1 DEF ExtractInv, ObjectRight, Whole
  <2> QED
    BY <2>2, <2>3, <2>4, <2>5 DEF ExtractInv
<1>4. CASE calls = <<>>
  <2> SUFFICES ASSUME NEW b, b = <<<<1, Len(content)>>>> PROVE ExtractInv'
    OBVIOUS
  <2>1. /\ Rewind(b) /\ rest' = rest /\ stage' \in {"inFences", "bare"}
    BY <1>4 DEF FencesDone
  <2>2. <<1, Len(content)>> \in Stretch
    BY <1>1 DEF Stretch
  <2>3. b \in Seq(Stretch) /\ DOMAIN b = {1} /\ b[1][1] = 1 /\ b[1][2] = Len(content)
    BY <2>2
  <2>4. Ordered(b) /\ Lying(b, Len(content))
    BY <1>1, <2>3 DEF Ordered, Lying
  <2>5. \A k \in DOMAIN calls, j \in DOMAIN b : calls[k][2] < b[j][1]
    BY <1>4
  <2> QED
    BY <1>2, <2>1, <2>3, <2>4, <2>5, RewindInv
<1> QED
  BY <1>3, <1>4

LEMMA BareDoneInv == ASSUME ExtractInv, BareDone PROVE ExtractInv'
<1>1. content \in Seq(Tokens) /\ Len(content) \in Nat /\ ranges = <<>> /\ start = 0 /\ spans = <<>>
  BY DEF ExtractInv, Typed, RangesRight, BareDone
<1>2. /\ content' = content /\ calls' = calls
      /\ stage' = "done" /\ ranges' = ranges /\ pos' = pos /\ depth' = depth
      /\ start' = start /\ quote' = quote /\ escape' = escape /\ spans' = spans
      /\ (rest' = <<>> \/ rest' = content)
  BY DEF BareDone, scanner
<1>3. Typed'
  <2>1. <<>> \in Seq(Tokens)
    OBVIOUS
  <2>2. rest' \in Seq(Tokens)
    BY <1>1, <1>2, <2>1, Zenon
  <2> QED
    BY <1>2, <2>2 DEF ExtractInv, Typed, Positions
<1>4. RangesRight'
  BY <1>1, <1>2 DEF ExtractInv, RangesRight, Lying
<1>5. Found(spans)' /\ Found(calls)'
  BY <1>1, <1>2 DEF ExtractInv, Found, Lying
<1>6. ObjectRight' /\ Whole'
  BY <1>1, <1>2 DEF ExtractInv, ObjectRight, Whole
<1> QED
  BY <1>3, <1>4, <1>5, <1>6 DEF ExtractInv

LEMMA NextRangeInv == ASSUME ExtractInv, NextRange PROVE ExtractInv'
<1>1. /\ content \in Seq(Tokens) /\ Len(content) \in Nat /\ pos \in 1..(Len(content) + 1)
      /\ ranges \in Seq(Stretch) /\ Ordered(ranges) /\ Lying(ranges, Len(content)) /\ ranges # <<>>
      /\ pos <= ranges[1][2] + 1
  BY DEF ExtractInv, Typed, RangesRight, Positions, NextRange
<1> SUFFICES ASSUME NEW g, g = Tail(ranges) PROVE ExtractInv'
  OBVIOUS
<1>2. /\ g \in Seq(Stretch) /\ Ordered(g)
      /\ \A k \in DOMAIN g : \E j \in DOMAIN ranges : g[k] = ranges[j] /\ ranges[1][2] < ranges[j][1]
  BY <1>1, OrderedTail
<1>3. Lying(g, Len(content))
  BY <1>1, <1>2, Zenon DEF Lying
<1>4. /\ Rewind(g) /\ content' = content /\ rest' = rest /\ stage' \in {"inFences", "bare"} /\ calls' = calls
  BY DEF NextRange
<1>5. ASSUME NEW k \in DOMAIN calls, NEW j \in DOMAIN g PROVE calls[k][2] < g[j][1]
  <2>1. calls[k][2] < pos /\ calls[k] \in Stretch
    BY <1>1 DEF ExtractInv, Found
  <2>2. ranges[1][2] < g[j][1] /\ g[j] \in Stretch /\ ranges[1] \in Stretch
    BY <1>1, <1>2
  <2>3. calls[k][2] \in Nat /\ g[j][1] \in Nat /\ ranges[1][2] \in Nat
    BY <2>1, <2>2 DEF Stretch
  <2> QED
    <3>1. pos \in Nat /\ pos <= ranges[1][2] + 1
      BY <1>1
    <3> QED
      BY <2>1, <2>2, <2>3, <3>1
<1> QED
  BY <1>2, <1>3, <1>4, <1>5, RewindInv


\* A step of the scanner within its stretch.
LEMMA ScanAt ==
    ASSUME ExtractInv, Scanning
    PROVE  /\ content \in Seq(Tokens) /\ Len(content) \in Nat /\ ranges # <<>>
           /\ pos \in 1..Len(content) /\ pos + 1 \in Positions
           /\ ranges[1][1] <= pos + 1 /\ pos + 1 <= ranges[1][2] + 1
           /\ depth \in Int /\ start \in 0..Len(content) /\ escape \in BOOLEAN
           /\ quote \in Quotes \cup {"none"} /\ Here \in Tokens /\ Here = content[pos]
<1>1. /\ content \in Seq(Tokens) /\ Len(content) \in Nat /\ ranges # <<>>
      /\ pos \in 1..(Len(content) + 1) /\ ranges \in Seq(Stretch) /\ Lying(ranges, Len(content))
      /\ ranges[1][1] <= pos /\ pos <= Head(ranges)[2]
  BY DEF ExtractInv, Typed, RangesRight, Positions, Scanning
<1>2. 1 \in DOMAIN ranges /\ Head(ranges) = ranges[1] /\ ranges[1] \in Stretch
  BY <1>1
<1>3. ranges[1][1] \in Nat /\ ranges[1][2] \in Nat
  BY <1>2 DEF Stretch
<1>4. ranges[1][2] <= Len(content)
  BY <1>1, <1>2 DEF Lying
<1>5. pos \in 1..Len(content) /\ ranges[1][1] <= pos + 1 /\ pos + 1 <= ranges[1][2] + 1
  BY <1>1, <1>2, <1>3, <1>4
<1>6. Here \in Tokens /\ Here = content[pos] /\ pos + 1 \in Positions
  BY <1>1, <1>5 DEF Here, Positions
<1> QED
  BY <1>1, <1>5, <1>6 DEF ExtractInv, Typed

\* The object, as far as it goes in the text, with the next character.
LEMMA ObjectAt ==
    ASSUME ExtractInv, Scanning, start > 0, NEW e \in pos..Len(content)
    PROVE  \E t : /\ t = Part(content, <<start, e>>) /\ At(t, pos - start, depth, quote, escape)
                  /\ pos - start \in Nat /\ pos - start < Len(t) /\ Len(t) = e - start + 1
                  /\ t[(pos - start) + 1] = Here /\ (pos - start) + 1 = (pos + 1) - start
                  /\ start < pos
<1>1. /\ content \in Seq(Tokens) /\ Len(content) \in Nat /\ pos \in 1..Len(content) /\ start \in 1..Len(content)
      /\ Here = content[pos]
  BY ScanAt
<1>2. start < pos /\ e \in (pos - 1)..Len(content) /\ e \in (start - 1)..Len(content)
  BY <1>1 DEF ExtractInv, ObjectRight
<1> SUFFICES ASSUME NEW t, t = Part(content, <<start, e>>)
             PROVE  /\ At(t, pos - start, depth, quote, escape)
                    /\ pos - start \in Nat /\ pos - start < Len(t) /\ Len(t) = e - start + 1
                    /\ t[(pos - start) + 1] = Here /\ (pos - start) + 1 = (pos + 1) - start
  BY <1>2
<1>3. At(t, pos - start, depth, quote, escape)
  BY <1>2 DEF ExtractInv, ObjectRight
<1>4. Len(t) = e - start + 1 /\ \A k \in 1..(e - start + 1) : t[k] = content[start + k - 1]
  BY <1>1, <1>2, PartAt
<1>5. /\ (pos - start) + 1 \in 1..(e - start + 1) /\ start + ((pos - start) + 1) - 1 = pos
      /\ pos - start \in Nat /\ pos - start < e - start + 1 /\ (pos - start) + 1 = (pos + 1) - start
  BY <1>1, <1>2
<1>6. t[(pos - start) + 1] = content[pos]
  BY <1>4, <1>5
<1> QED
  BY <1>1, <1>3, <1>4, <1>5, <1>6

\* A step that finds no object.
LEMMA Quiet ==
    ASSUME ExtractInv, Step, UNCHANGED <<spans, calls>>,
           depth' \in Int, quote' \in Quotes \cup {"none"}, escape' \in BOOLEAN,
           start' = start \/ (start' = pos /\ start = 0),
           start' > 0 => \A e \in pos..Len(content) :
               At(Part(content, <<start', e>>), (pos + 1) - start', depth', quote', escape')
    PROVE  ExtractInv'
<1>1. /\ content \in Seq(Tokens) /\ Len(content) \in Nat /\ ranges # <<>>
      /\ pos \in 1..Len(content) /\ pos + 1 \in Positions
      /\ ranges[1][1] <= pos + 1 /\ pos + 1 <= ranges[1][2] + 1
      /\ start \in 0..Len(content)
  BY ScanAt DEF Step
<1>2. /\ pos' = pos + 1 /\ content' = content /\ stage' = stage /\ ranges' = ranges /\ rest' = rest
      /\ spans' = spans /\ calls' = calls
  BY DEF Step
<1>3. Typed'
  <2>1. pos' \in Positions' /\ start' \in 0..Len(content')
    BY <1>1, <1>2 DEF Positions
  <2> QED
    BY <1>2, <2>1, Zenon DEF ExtractInv, Typed
<1>4. RangesRight'
  <2>1. stage \notin {"tool_call", "tools", "fence"}
    BY DEF Step, Scanning
  <2>2. /\ ranges' \in Seq(Stretch) /\ Ordered(ranges') /\ Lying(ranges', Len(content'))
        /\ stage' \notin {"inFences", "bare"} => ranges' = <<>>
    BY <1>2, Zenon DEF ExtractInv, RangesRight
  <2>3. ranges' # <<>> /\ ranges'[1][1] <= pos' /\ pos' <= ranges'[1][2] + 1
    BY <1>1, <1>2
  <2> QED
    BY <1>2, <2>1, <2>2, <2>3 DEF RangesRight
<1>5. ASSUME NEW ss, Found(ss), ss' = ss PROVE Found(ss)'
  <2>1. /\ ss \in Seq(Stretch) /\ Ordered(ss) /\ Lying(ss, Len(content))
        /\ \A k \in DOMAIN ss : ss[k][2] < pos /\ (start > 0 => ss[k][2] < start)
    BY <1>1, <1>5 DEF Found
  <2>2. \A k \in DOMAIN ss : ss[k] \in Stretch
    BY <2>1
  <2>3. \A k \in DOMAIN ss : ss[k][2] \in Nat
    BY <2>2 DEF Stretch
  <2>4. \A k \in DOMAIN ss : ss[k][2] < pos' /\ (start' > 0 => ss[k][2] < start')
    BY <1>1, <1>2, <2>1, <2>3
  <2> QED
    BY <1>2, <1>5, <2>1, <2>4 DEF Found
<1>6. Found(spans)' /\ Found(calls)'
  <2>1. Found(spans) /\ Found(calls)
    BY DEF ExtractInv
  <2> QED
    BY <1>2, <1>5, <2>1
<1>7. ObjectRight'
  <2> SUFFICES ASSUME start' > 0
               PROVE  /\ start' < pos'
                      /\ \A e \in (pos' - 1)..Len(content') :
                           At(Part(content', <<start', e>>), pos' - start', depth', quote', escape')
    BY DEF ObjectRight
  <2>1. start' < pos'
    <3>1. start > 0 => start < pos
      BY DEF ExtractInv, ObjectRight
    <3> QED
      BY <1>1, <1>2, <3>1
  <2>2. (pos + 1) - 1 = pos
    BY <1>1
  <2> QED
    BY <1>2, <2>1, <2>2
<1>8. Whole'
  BY <1>2 DEF ExtractInv, Whole
<1> QED
  BY <1>3, <1>4, <1>6, <1>7, <1>8 DEF ExtractInv

LEMMA SkipEscapedInv == ASSUME ExtractInv, SkipEscaped PROVE ExtractInv'
<1>1. /\ Step /\ Scanning /\ escape = TRUE /\ escape' = FALSE /\ depth' = depth /\ start' = start
      /\ quote' = quote /\ UNCHANGED <<spans, calls>>
  <2>1. Step /\ Scanning /\ escape /\ escape' = FALSE /\ UNCHANGED <<depth, start, quote, spans, calls>>
    BY DEF SkipEscaped, Step
  <2>2. escape \in BOOLEAN
    BY <2>1, ScanAt
  <2> QED
    BY <2>1, <2>2
<1>2. depth \in Int /\ quote \in Quotes \cup {"none"} /\ start \in 0..Len(content)
  BY <1>1, ScanAt
<1>3. ASSUME start > 0, NEW e \in pos..Len(content)
      PROVE  At(Part(content, <<start, e>>), (pos + 1) - start, depth, quote, FALSE)
  <2>1. PICK t : /\ t = Part(content, <<start, e>>) /\ At(t, pos - start, depth, quote, escape)
                 /\ pos - start \in Nat /\ pos - start < Len(t)
                 /\ (pos - start) + 1 = (pos + 1) - start
    BY <1>1, <1>3, ObjectAt
  <2>2. At(t, pos - start, depth, quote, TRUE)
    BY <1>1, <2>1, Zenon
  <2>3. At(t, (pos - start) + 1, depth, quote, FALSE)
    BY <2>1, <2>2, AtEscaped
  <2> QED
    BY <2>1, <2>3, Zenon
<1> QED
  BY <1>1, <1>2, <1>3, Quiet

LEMMA InStringInv == ASSUME ExtractInv, InString PROVE ExtractInv'
<1>1. /\ Step /\ Scanning /\ escape = FALSE /\ quote # "none" /\ escape' = (Here = "backslash")
      /\ quote' = (IF Here = quote THEN "none" ELSE quote)
      /\ depth' = depth /\ start' = start /\ UNCHANGED <<spans, calls>>
  <2>1. /\ Step /\ Scanning /\ ~escape /\ quote # "none" /\ escape' = (Here = "backslash")
        /\ quote' = (IF Here = quote THEN "none" ELSE quote)
        /\ UNCHANGED <<depth, start, spans, calls>>
    BY DEF InString, Step
  <2>2. escape \in BOOLEAN
    BY <2>1, ScanAt
  <2> QED
    BY <2>1, <2>2
<1>2. depth \in Int /\ quote \in Quotes \cup {"none"} /\ start \in 0..Len(content)
  BY <1>1, ScanAt
<1>3. ASSUME start > 0, NEW e \in pos..Len(content)
      PROVE  At(Part(content, <<start, e>>), (pos + 1) - start, depth,
                IF Here = quote THEN "none" ELSE quote, Here = "backslash")
  <2>1. PICK t : /\ t = Part(content, <<start, e>>) /\ At(t, pos - start, depth, quote, escape)
                 /\ pos - start \in Nat /\ pos - start < Len(t)
                 /\ t[(pos - start) + 1] = Here /\ (pos - start) + 1 = (pos + 1) - start
    BY <1>1, <1>3, ObjectAt
  <2>2. At(t, pos - start, depth, quote, FALSE)
    BY <1>1, <2>1, Zenon
  <2>3. At(t, (pos - start) + 1, depth, IF t[(pos - start) + 1] = quote THEN "none" ELSE quote,
           t[(pos - start) + 1] = "backslash")
    BY <1>1, <2>1, <2>2, AtInString
  <2> QED
    BY <2>1, <2>3, Zenon
<1>4. quote' \in Quotes \cup {"none"} /\ escape' \in BOOLEAN
  BY <1>1, <1>2
<1>5. start' > 0 => \A e \in pos..Len(content) :
         At(Part(content, <<start', e>>), (pos + 1) - start', depth', quote', escape')
  BY <1>1, <1>3, Zenon
<1> QED
  BY <1>1, <1>2, <1>4, <1>5, Quiet

LEMMA OutsideAt ==
    ASSUME ExtractInv, OutsideString
    PROVE  Step /\ Scanning /\ escape = FALSE /\ quote = "none"
<1>1. Step /\ Scanning /\ ~escape /\ quote = "none"
  BY DEF OutsideString, Step
<1>2. escape \in BOOLEAN
  BY <1>1, ScanAt
<1> QED
  BY <1>1, <1>2

LEMMA OpenStringInv == ASSUME ExtractInv, OpenString PROVE ExtractInv'
<1>1. Step /\ Scanning /\ escape = FALSE /\ quote = "none"
  BY OutsideAt DEF OpenString
<1>2. /\ Here \in Quotes /\ quote' = Here /\ escape' = escape /\ depth' = depth /\ start' = start
      /\ UNCHANGED <<spans, calls>>
  BY DEF OpenString
<1>3. depth \in Int /\ start \in 0..Len(content)
  BY <1>1, ScanAt
<1>4. ASSUME start > 0, NEW e \in pos..Len(content)
      PROVE  At(Part(content, <<start, e>>), (pos + 1) - start, depth, Here, FALSE)
  <2>1. PICK t : /\ t = Part(content, <<start, e>>) /\ At(t, pos - start, depth, quote, escape)
                 /\ pos - start \in Nat /\ pos - start < Len(t)
                 /\ t[(pos - start) + 1] = Here /\ (pos - start) + 1 = (pos + 1) - start
    BY <1>1, <1>4, ObjectAt
  <2>2. At(t, pos - start, depth, "none", FALSE) /\ t[(pos - start) + 1] \in Quotes
    BY <1>1, <1>2, <2>1, Zenon
  <2>3. At(t, (pos - start) + 1, depth, t[(pos - start) + 1], FALSE)
    BY <2>1, <2>2, AtQuote
  <2> QED
    BY <2>1, <2>3, Zenon
<1>5. start' > 0 => \A e \in pos..Len(content) :
         At(Part(content, <<start', e>>), (pos + 1) - start', depth', quote', escape')
  BY <1>1, <1>2, <1>4, Zenon
<1> QED
  BY <1>1, <1>2, <1>3, <1>5, Quiet

\* A character outside of strings that keeps the scanner in its object.
LEMMA OutsideNext ==
    ASSUME ExtractInv, Scanning, escape = FALSE, quote = "none", start > 0, Here \notin Quotes,
           NEW c, c = (IF Here = "lbrace" THEN depth + 1 ELSE IF Here = "rbrace" THEN depth - 1 ELSE depth),
           c > 0, NEW e \in pos..Len(content)
    PROVE  At(Part(content, <<start, e>>), (pos + 1) - start, c, "none", FALSE)
<1>1. PICK t : /\ t = Part(content, <<start, e>>) /\ At(t, pos - start, depth, quote, escape)
               /\ pos - start \in Nat /\ pos - start < Len(t)
               /\ t[(pos - start) + 1] = Here /\ (pos - start) + 1 = (pos + 1) - start
  BY ObjectAt
<1>2. At(t, pos - start, depth, "none", FALSE) /\ t[(pos - start) + 1] \notin Quotes
  BY <1>1, Zenon
<1>3. At(t, (pos - start) + 1, c, "none", FALSE)
  BY <1>1, <1>2, AtOutside
<1> QED
  BY <1>1, <1>3, Zenon

LEMMA ObjectDepth == ASSUME ExtractInv, Scanning, start > 0 PROVE depth > 0
<1>1. pos \in 1..Len(content) /\ Len(content) \in Nat
  BY ScanAt
<1>2. pos \in pos..Len(content)
  BY <1>1
<1>3. PICK t : At(t, pos - start, depth, quote, escape)
  BY <1>2, ObjectAt
<1> QED
  BY <1>3, AtDepth

LEMMA OpenBraceInv == ASSUME ExtractInv, OpenBrace PROVE ExtractInv'
<1>1. Step /\ Scanning /\ escape = FALSE /\ quote = "none"
  BY OutsideAt DEF OpenBrace
<1>2. /\ Here = "lbrace" /\ quote' = quote /\ escape' = escape /\ depth' = depth + 1
      /\ start' = (IF depth = 0 THEN pos ELSE start) /\ UNCHANGED <<spans, calls>>
  BY DEF OpenBrace
<1>3. /\ depth \in Int /\ start \in 0..Len(content) /\ pos \in 1..Len(content) /\ Len(content) \in Nat
      /\ content \in Seq(Tokens) /\ Here = content[pos]
  BY <1>1, ScanAt
<1>4. start > 0 => depth > 0
  BY <1>1, ObjectDepth
<1>5. start' = start \/ (start' = pos /\ start = 0)
  BY <1>2, <1>3, <1>4
<1>6. ASSUME start' > 0, NEW e \in pos..Len(content)
      PROVE  At(Part(content, <<start', e>>), (pos + 1) - start', depth + 1, "none", FALSE)
  <2>1. CASE start > 0
    <3>1. start' = start
      BY <1>2, <1>4, <2>1
    <3>2. depth + 1 > 0
      BY <1>3, <1>4, <2>1
    <3>3. At(Part(content, <<start, e>>), (pos + 1) - start, depth + 1, "none", FALSE)
      BY <1>1, <1>2, <2>1, <3>2, BraceNoQuote, OutsideNext
    <3> QED
      BY <3>1, <3>3, Zenon
  <2>2. CASE ~(start > 0)
    <3>1. start' = pos /\ depth + 1 = 1 /\ (pos + 1) - pos = 1
      BY <1>2, <1>3, <1>6, <2>2
    <3> SUFFICES ASSUME NEW t, t = Part(content, <<pos, e>>) PROVE At(t, 1, 1, "none", FALSE)
      BY <3>1
    <3>2. e \in (pos - 1)..Len(content) /\ 1 \in 1..(e - pos + 1) /\ pos + 1 - 1 = pos /\ e - pos + 1 > 0
      BY <1>3
    <3>3. /\ t \in Seq(Tokens) /\ Len(t) = e - pos + 1
          /\ \A k \in 1..(e - pos + 1) : t[k] = content[pos + k - 1]
      BY <1>3, <3>2, PartAt
    <3>4. t[1] = "lbrace"
      BY <1>2, <1>3, <3>2, <3>3
    <3> QED
      BY <3>2, <3>3, <3>4, AtFirst
  <2> QED
    BY <2>1, <2>2
<1>7. start' > 0 => \A e \in pos..Len(content) :
         At(Part(content, <<start', e>>), (pos + 1) - start', depth', quote', escape')
  BY <1>1, <1>2, <1>6, Zenon
<1>8. depth' \in Int
  BY <1>2, <1>3
<1> QED
  BY <1>1, <1>2, <1>5, <1>7, <1>8, Quiet

LEMMA SkipOtherInv == ASSUME ExtractInv, SkipOther PROVE ExtractInv'
<1>1. Step /\ Scanning /\ escape = FALSE /\ quote = "none"
  BY OutsideAt DEF SkipOther
<1>2. /\ Here \notin Quotes /\ Here # "lbrace" /\ Here # "rbrace" /\ quote' = quote /\ escape' = escape
      /\ depth' = depth /\ start' = start /\ UNCHANGED <<spans, calls>>
  BY DEF SkipOther, Braces
<1>3. depth \in Int /\ start \in 0..Len(content)
  BY <1>1, ScanAt
<1>4. start > 0 => depth > 0
  BY <1>1, ObjectDepth
<1>5. ASSUME start > 0, NEW e \in pos..Len(content)
      PROVE  At(Part(content, <<start, e>>), (pos + 1) - start, depth, "none", FALSE)
  BY <1>1, <1>2, <1>4, <1>5, OutsideNext
<1>6. start' > 0 => \A e \in pos..Len(content) :
         At(Part(content, <<start', e>>), (pos + 1) - start', depth', quote', escape')
  BY <1>1, <1>2, <1>5, Zenon
<1> QED
  BY <1>1, <1>2, <1>3, <1>6, Quiet

LEMMA CloseBraceInv == ASSUME ExtractInv, CloseBrace PROVE ExtractInv'
<1>1. Step /\ Scanning /\ escape = FALSE /\ quote = "none"
  BY OutsideAt DEF CloseBrace
<1>2. Here = "rbrace" /\ quote' = quote /\ escape' = escape /\ depth' = depth - 1
  BY DEF CloseBrace
<1>3. /\ content \in Seq(Tokens) /\ Len(content) \in Nat /\ ranges # <<>>
      /\ pos \in 1..Len(content) /\ pos + 1 \in Positions
      /\ ranges[1][1] <= pos + 1 /\ pos + 1 <= ranges[1][2] + 1
      /\ depth \in Int /\ start \in 0..Len(content)
  BY <1>1, ScanAt
<1>4. CASE ~(depth = 1 /\ start > 0)
  <2>1. start' = start /\ UNCHANGED <<spans, calls>>
    BY <1>4 DEF CloseBrace
  <2>2. start > 0 => depth > 0
    BY <1>1, ObjectDepth
  <2>3. start > 0 => depth - 1 > 0
    BY <1>3, <1>4, <2>2
  <2>4. ASSUME start > 0, NEW e \in pos..Len(content)
        PROVE  At(Part(content, <<start, e>>), (pos + 1) - start, depth - 1, "none", FALSE)
    BY <1>1, <1>2, <2>3, <2>4, BraceNoQuote, OutsideNext
  <2>5. start' > 0 => \A e \in pos..Len(content) :
           At(Part(content, <<start', e>>), (pos + 1) - start', depth', quote', escape')
    BY <1>1, <1>2, <2>1, <2>4, Zenon
  <2>6. depth' \in Int
    BY <1>2, <1>3
  <2> QED
    BY <1>1, <1>2, <2>1, <2>5, <2>6, Quiet
<1>5. CASE depth = 1 /\ start > 0
  <2>1. /\ start' = 0 /\ spans' = Append(spans, <<start, pos>>)
        /\ calls' = IF IsCall(Part(content, <<start, pos>>)) THEN Append(calls, <<start, pos>>) ELSE calls
    BY <1>5 DEF CloseBrace, Part
  <2>2. /\ pos' = pos + 1 /\ content' = content /\ stage' = stage /\ ranges' = ranges /\ rest' = rest
    BY <1>1 DEF Step
  <2>3. IsBalanced(Part(content, <<start, pos>>)) /\ start < pos
    <3>1. pos \in pos..Len(content)
      BY <1>3
    <3>2. PICK t : /\ t = Part(content, <<start, pos>>) /\ At(t, pos - start, depth, quote, escape)
                   /\ Len(t) = pos - start + 1 /\ t[(pos - start) + 1] = Here /\ start < pos
      BY <1>1, <1>5, <3>1, ObjectAt
    <3>3. At(t, pos - start, 1, "none", FALSE) /\ t[(pos - start) + 1] = "rbrace"
      BY <1>1, <1>2, <1>5, <3>2, Zenon
    <3>4. IsBalanced(t)
      BY <3>2, <3>3, Closing
    <3> QED
      BY <3>2, <3>4, Zenon
  <2> SUFFICES ASSUME NEW r, r = <<start, pos>> PROVE ExtractInv'
    OBVIOUS
  <2>4. r \in Stretch /\ r[1] = start /\ r[2] = pos /\ 1 <= r[1] /\ r[1] <= r[2] + 1 /\ r[2] <= Len(content)
    BY <1>3, <1>5, <2>3 DEF Stretch
  <2> DEFINE Longer(ss, g) ==
               /\ g \in Seq(Stretch) /\ Ordered(g) /\ Lying(g, Len(content))
               /\ \A k \in DOMAIN g : g[k][2] < pos + 1
               /\ \A k \in DOMAIN g : (k \in DOMAIN ss /\ g[k] = ss[k]) \/ g[k] = r
  <2>5. ASSUME NEW ss, Found(ss), NEW g, g = Append(ss, r) PROVE Longer(ss, g)
    <3>1. /\ ss \in Seq(Stretch) /\ Ordered(ss) /\ Lying(ss, Len(content))
          /\ \A k \in DOMAIN ss : ss[k][2] < pos /\ ss[k][2] < r[1]
      BY <1>3, <1>5, <2>4, <2>5 DEF Found
    <3>2. \A k \in DOMAIN ss : ss[k] \in Stretch
      BY <3>1
    <3>3. \A k \in DOMAIN ss : ss[k][2] \in Nat
      BY <3>2 DEF Stretch
    <3>4. \A k \in DOMAIN ss : ss[k][2] < pos + 1
      BY <1>3, <3>1, <3>3
    <3>5. r[2] < pos + 1
      BY <1>3, <2>4
    <3>6. /\ Append(ss, r) \in Seq(Stretch) /\ Ordered(Append(ss, r))
          /\ DOMAIN Append(ss, r) = DOMAIN ss \cup {Len(ss) + 1}
          /\ Append(ss, r)[Len(ss) + 1] = r
          /\ \A k \in DOMAIN ss : Append(ss, r)[k] = ss[k]
      BY <2>4, <3>1, OrderedAppend
    <3>7. \A k \in DOMAIN g : (k \in DOMAIN ss /\ g[k] = ss[k]) \/ g[k] = r
      BY <2>5, <3>6
    <3>8. Lying(g, Len(content)) /\ \A k \in DOMAIN g : g[k][2] < pos + 1
      BY <2>4, <3>1, <3>4, <3>5, <3>7, Zenon DEF Lying
    <3> QED
      BY <2>5, <3>6, <3>7, <3>8, Zenon
  <2> HIDE DEF Longer
  <2>6. ASSUME NEW ss, Found(ss)
        PROVE  ss \in Seq(Stretch) /\ Ordered(ss) /\ Lying(ss, Len(content)) /\ \A k \in DOMAIN ss : ss[k][2] < pos + 1
    <3>1. /\ ss \in Seq(Stretch) /\ Ordered(ss) /\ Lying(ss, Len(content))
          /\ \A k \in DOMAIN ss : ss[k][2] < pos
      BY <1>3, <2>6 DEF Found
    <3>2. \A k \in DOMAIN ss : ss[k] \in Stretch
      BY <3>1
    <3>3. \A k \in DOMAIN ss : ss[k][2] \in Nat
      BY <3>2 DEF Stretch
    <3> QED
      BY <1>3, <3>1, <3>3
  <2>7. Found(spans) /\ Found(calls) /\ Whole
    BY DEF ExtractInv
  <2>8. Typed'
    <3>1. depth' \in Int /\ start' \in 0..Len(content') /\ pos' \in Positions'
      BY <1>2, <1>3, <2>1, <2>2 DEF Positions
    <3> QED
      BY <1>2, <2>2, <3>1, Zenon DEF ExtractInv, Typed
  <2>9. RangesRight'
    <3>1. stage \notin {"tool_call", "tools", "fence"}
      BY <1>1 DEF Scanning
    <3>2. /\ ranges' \in Seq(Stretch) /\ Ordered(ranges') /\ Lying(ranges', Len(content'))
          /\ stage' \notin {"inFences", "bare"} => ranges' = <<>>
      BY <2>2, Zenon DEF ExtractInv, RangesRight
    <3>3. ranges' # <<>> /\ ranges'[1][1] <= pos' /\ pos' <= ranges'[1][2] + 1
      BY <1>3, <2>2
    <3> QED
      BY <2>2, <3>1, <3>2, <3>3 DEF RangesRight
  <2>10. Found(spans)' /\ \A k \in DOMAIN spans' : IsBalanced(Part(content, spans'[k]))
    <3>1. /\ spans' \in Seq(Stretch) /\ Ordered(spans') /\ Lying(spans', Len(content))
          /\ \A k \in DOMAIN spans' : spans'[k][2] < pos + 1
          /\ \A k \in DOMAIN spans' : (k \in DOMAIN spans /\ spans'[k] = spans[k]) \/ spans'[k] = r
      <4>1. Longer(spans, spans')
        BY <2>1, <2>5, <2>7
      <4> QED
        BY <4>1, Zenon DEF Longer
    <3>2. Found(spans)'
      BY <2>1, <2>2, <3>1 DEF Found
    <3>3. \A k \in DOMAIN spans' : IsBalanced(Part(content, spans'[k]))
      BY <2>3, <2>7, <3>1, Zenon DEF Whole
    <3> QED
      BY <3>2, <3>3
  <2>11. Found(calls)' /\ \A k \in DOMAIN calls' : IsCall(Part(content, calls'[k]))
    <3>1. CASE IsCall(Part(content, r))
      <4>1. calls' = Append(calls, r)
        BY <2>1, <3>1
      <4>2. /\ calls' \in Seq(Stretch) /\ Ordered(calls') /\ Lying(calls', Len(content))
            /\ \A k \in DOMAIN calls' : calls'[k][2] < pos + 1
            /\ \A k \in DOMAIN calls' : (k \in DOMAIN calls /\ calls'[k] = calls[k]) \/ calls'[k] = r
        <5>1. Longer(calls, calls')
          BY <2>5, <2>7, <4>1
        <5> QED
          BY <5>1, Zenon DEF Longer
      <4>3. Found(calls)'
        <5>1. start' = 0
          BY <2>1
        <5> QED
          BY <2>2, <4>2, <5>1 DEF Found
      <4>4. \A k \in DOMAIN calls' : IsCall(Part(content, calls'[k]))
        BY <2>7, <3>1, <4>2, Zenon DEF Whole
      <4> QED
        BY <4>3, <4>4
    <3>2. CASE ~IsCall(Part(content, r))
      <4>1. calls' = calls
        BY <2>1, <3>2
      <4>2. /\ calls \in Seq(Stretch) /\ Ordered(calls) /\ Lying(calls, Len(content))
            /\ \A k \in DOMAIN calls : calls[k][2] < pos + 1
        BY <2>6, <2>7
      <4>3. Found(calls)'
        <5>1. start' = 0
          BY <2>1
        <5> QED
          BY <2>2, <4>1, <4>2, <5>1 DEF Found
      <4> QED
        BY <2>7, <4>1, <4>3 DEF Whole
    <3> QED
      BY <3>1, <3>2
  <2>12. ObjectRight'
    BY <2>1 DEF ObjectRight
  <2>13. Whole'
    BY <2>2, <2>10, <2>11 DEF Whole
  <2> QED
    BY <2>8, <2>9, <2>10, <2>11, <2>12, <2>13 DEF ExtractInv
<1> QED
  BY <1>4, <1>5

LEMMA ExtractStepInv == ExtractInv /\ [ExtractNext]_extractVars => ExtractInv'
<1> SUFFICES ASSUME ExtractInv, [ExtractNext]_extractVars PROVE ExtractInv'
  OBVIOUS
<1>1. CASE ToolCallTags
  BY <1>1, TaggedInv DEF ToolCallTags
<1>2. CASE ToolsTags
  BY <1>2, TaggedInv DEF ToolsTags
<1>3. CASE FindFences
  BY <1>3, FindFencesInv
<1>4. CASE FencesDone
  BY <1>4, FencesDoneInv
<1>5. CASE BareDone
  BY <1>5, BareDoneInv
<1>6. CASE Scan
  BY <1>6, SkipEscapedInv, InStringInv, OpenStringInv, OpenBraceInv, CloseBraceInv, SkipOtherInv DEF Scan
<1>7. CASE NextRange
  BY <1>7, NextRangeInv
<1>8. CASE UNCHANGED extractVars
  <2>1. UNCHANGED <<content, stage, ranges, pos, depth, start, quote, escape, spans, calls, rest>>
    BY <1>8 DEF extractVars, scanner
  <2> QED
    BY <2>1 DEF ExtractInv, Typed, RangesRight, Found, ObjectRight, Whole, Positions, Lying
<1> QED
  BY <1>1, <1>2, <1>3, <1>4, <1>5, <1>6, <1>7, <1>8 DEF ExtractNext

\* Every call the agent gets, and every object the scanner yields, is balanced and
\* stands in the text, each after the one before (fix_tool_messages.py:82-112),
\* whatever the texts are.
THEOREM FoundIsSound == ExtractSpec => []FoundSound
<1>1. ExtractInv => FoundSound
  <2> SUFFICES ASSUME ExtractInv PROVE FoundSound
    OBVIOUS
  <2>1. InOrder(spans) /\ InOrder(calls)
    BY OrderedNext DEF ExtractInv, Found
  <2> QED
    BY <2>1 DEF ExtractInv, Whole, FoundSound
<1> QED
  BY <1>1, ExtractInitInv, ExtractStepInv, PTL DEF ExtractSpec

\* Every variable of the scanner keeps its type.
THEOREM ExtractTypeCorrect == ExtractSpec => []ExtractTypeOK
<1>1. ExtractInv => ExtractTypeOK
  <2> SUFFICES ASSUME ExtractInv PROVE ExtractTypeOK
    OBVIOUS
  <2>1. Typed /\ Len(content) \in Nat
    BY DEF ExtractInv, Typed
  <2>2. ASSUME NEW ss \in Seq(Stretch), Lying(ss, Len(content)) PROVE ss \in Seq(Positions \X Nat)
    <3>1. ASSUME NEW k \in DOMAIN ss PROVE ss[k] \in Positions \X Nat
      <4>1. ss[k] \in Stretch
        OBVIOUS
      <4>2. ss[k] = <<ss[k][1], ss[k][2]>> /\ ss[k][1] \in Nat /\ ss[k][2] \in Nat
        BY <4>1 DEF Stretch
      <4>3. ss[k][1] \in Positions
        BY <2>1, <2>2, <4>2 DEF Lying, Positions
      <4> QED
        BY <4>2, <4>3, Zenon
    <3> QED
      BY <3>1
  <2>3. ranges \in Seq(Positions \X Nat) /\ spans \in Seq(Positions \X Nat) /\ calls \in Seq(Positions \X Nat)
    BY <2>2 DEF ExtractInv, RangesRight, Found
  <2> QED
    BY <2>1, <2>3 DEF Typed, ExtractTypeOK
<1> QED
  BY <1>1, ExtractInitInv, ExtractStepInv, PTL DEF ExtractSpec


------------------------------------------------------------------------------
(* The search in the bare text. *)

CallObjects == {o \in TopLevel : IsCall(Part(content, o))}
Got == {calls[k] : k \in DOMAIN calls}

\* T and C: the objects that stand in no other, and the calls among them.
Plainly(T, C) == T = TopLevel /\ C = CallObjects /\ PlainProse

\* The calls so far are those that end before the scanner, and the scanner is in an
\* object of its own when it is in one of T.
InBare(T, C) ==
    IF ranges = <<>> THEN Got = C
    ELSE /\ ranges = <<<<1, Len(content)>>>>
         /\ Got = {o \in C : o[2] < pos}
         /\ IF start = 0
              THEN /\ depth = 0 /\ quote = "none" /\ escape = FALSE
                   /\ \A o \in T : ~(o[1] < pos /\ pos <= o[2])
              ELSE \E o \in T : o[1] = start /\ pos <= o[2]

LEMMA PlainlyAre ==
    ASSUME ExtractInv, NEW T, NEW C, Plainly(T, C)
    PROVE  /\ C \subseteq T /\ \A o \in C : IsCall(Part(content, o))
           /\ \A o \in T : o \in C <=> IsCall(Part(content, o))
           /\ \A o \in T : /\ o[1] \in 1..Len(content) /\ o[2] \in 1..Len(content) /\ o[1] < o[2]
                           /\ o = <<o[1], o[2]>> /\ IsBalanced(Part(content, o)) /\ content[o[1]] = "lbrace"
           /\ \A o, p \in T : o = p \/ o[2] < p[1] \/ p[2] < o[1]
           /\ \A i \in 1..Len(content) :
                content[i] \notin Quotes \cup Braces \/ \E o \in T : o[1] <= i /\ i <= o[2]
<1>1. content \in Seq(Tokens) /\ Len(content) \in Nat
  BY DEF ExtractInv, Typed
<1>2. /\ C \subseteq T /\ (\A o \in C : IsCall(Part(content, o)))
      /\ \A o \in T : o \in C <=> IsCall(Part(content, o))
  BY DEF Plainly, CallObjects
<1>3. ASSUME NEW o \in T
      PROVE  /\ o[1] \in 1..Len(content) /\ o[2] \in 1..Len(content) /\ o[1] < o[2]
             /\ o = <<o[1], o[2]>> /\ IsBalanced(Part(content, o)) /\ content[o[1]] = "lbrace"
  <2>1. o \in Positions \X Positions /\ o[2] <= Len(content) /\ IsBalanced(Part(content, o))
    BY DEF Plainly, TopLevel, Objects
  <2>2. o[1] \in 1..(Len(content) + 1) /\ o[2] \in 1..Len(content) /\ o = <<o[1], o[2]>>
    BY <1>1, <2>1 DEF Positions
  <2>3. Len(Part(content, o)) > 1 /\ Part(content, o)[1] = "lbrace"
    BY <2>1 DEF IsBalanced
  <2>4. o[1] <= o[2]
    <3> SUFFICES ASSUME o[2] < o[1] PROVE FALSE
      BY <2>2
    <3>1. Part(content, o) = <<>>
      BY <1>1, <2>2 DEF Part
    <3> QED
      BY <2>3, <3>1
  <2>5. o[1] \in 1..Len(content) /\ o[2] \in (o[1] - 1)..Len(content)
    BY <1>1, <2>2, <2>4
  <2> SUFFICES ASSUME NEW t, t = Part(content, <<o[1], o[2]>>)
               PROVE  o[1] < o[2] /\ content[o[1]] = "lbrace"
    BY <2>1, <2>2, <2>5
  <2>6. Len(t) = o[2] - o[1] + 1 /\ \A k \in 1..(o[2] - o[1] + 1) : t[k] = content[o[1] + k - 1]
    BY <1>1, <2>5, PartAt
  <2>7. Len(t) > 1 /\ t[1] = "lbrace"
    BY <2>2, <2>3, Zenon
  <2>8. 1 \in 1..(o[2] - o[1] + 1) /\ o[1] + 1 - 1 = o[1] /\ o[1] < o[2]
    BY <2>2, <2>6, <2>7
  <2> QED
    BY <2>6, <2>7, <2>8
<1>4. \A o, p \in T : o = p \/ o[2] < p[1] \/ p[2] < o[1]
  BY Zenon DEF Plainly, PlainProse
<1>5. ASSUME NEW i \in 1..Len(content), content[i] \in Quotes \cup Braces
      PROVE  \E o \in T : o[1] <= i /\ i <= o[2]
  <2>1. i \in DOMAIN content
    BY <1>1
  <2>2. PICK o \in T : Within(<<i, i>>, o)
    BY <1>5, <2>1, Zenon DEF Plainly, PlainProse
  <2> QED
    BY <2>2 DEF Within
<1> QED
  BY <1>2, <1>3, <1>4, <1>5

\* No object ends at the scanner: nothing new is before it.
LEMMA NothingPassed ==
    ASSUME ExtractInv, NEW T, NEW C, Plainly(T, C), pos \in Nat, \A o \in T : o[2] # pos
    PROVE  {o \in C : o[2] < pos + 1} = {o \in C : o[2] < pos}
<1>1. \A o \in C : o[2] \in Nat /\ o[2] # pos
  <2>1. C \subseteq T /\ \A o \in T : o[2] \in 1..Len(content)
    BY PlainlyAre
  <2>2. Len(content) \in Nat
    BY DEF ExtractInv, Typed
  <2> QED
    BY <2>1, <2>2
<1> QED
  BY <1>1

\* The scanner in an object of T: it closes it at its end, and not before.
LEMMA InObject ==
    ASSUME ExtractInv, NEW T, NEW C, Plainly(T, C), Scanning, start > 0,
           NEW o \in T, o[1] = start, pos <= o[2]
    PROVE  /\ pos = o[2] => quote = "none" /\ escape = FALSE /\ depth = 1 /\ Here = "rbrace"
           /\ quote = "none" /\ depth = 1 /\ Here = "rbrace" => pos = o[2]
<1>1. pos \in 1..Len(content) /\ Len(content) \in Nat /\ start \in 0..Len(content)
  BY ScanAt
<1>2. o[2] \in 1..Len(content) /\ o = <<o[1], o[2]>> /\ IsBalanced(Part(content, o))
  BY PlainlyAre
<1>3. o[2] \in pos..Len(content)
  BY <1>1, <1>2
<1>4. PICK t : /\ t = Part(content, <<start, o[2]>>) /\ At(t, pos - start, depth, quote, escape)
               /\ pos - start \in Nat /\ pos - start < Len(t) /\ Len(t) = o[2] - start + 1
               /\ t[(pos - start) + 1] = Here
  BY <1>3, ObjectAt
<1>5. IsBalanced(t)
  BY <1>2, <1>4, Zenon
<1>6. ASSUME pos = o[2] PROVE quote = "none" /\ escape = FALSE /\ depth = 1 /\ Here = "rbrace"
  <2>1. (pos - start) + 1 = Len(t)
    BY <1>1, <1>4, <1>6
  <2>2. quote = "none" /\ escape = FALSE /\ depth = 1 /\ t[(pos - start) + 1] = "rbrace"
    <3>1. At(t, pos - start, depth, quote, escape)
      BY <1>4
    <3> QED
      BY <1>5, <2>1, <3>1, BalancedEnd, Zenon
  <2> QED
    BY <1>4, <2>2, Zenon
<1>7. ASSUME quote = "none", depth = 1, Here = "rbrace" PROVE pos = o[2]
  <2>1. At(t, pos - start, 1, "none", escape) /\ t[(pos - start) + 1] = "rbrace"
    BY <1>4, <1>7, Zenon
  <2>2. (pos - start) + 1 = Len(t)
    BY <1>4, <1>5, <2>1, BalancedClose
  <2> QED
    BY <1>1, <1>2, <1>4, <2>2
<1> QED
  BY <1>6, <1>7

\* A step within an object of T.
LEMMA WithinObject ==
    ASSUME ExtractInv, NEW T, NEW C, Plainly(T, C), InBare(T, C), ranges # <<>>,
           Step, start > 0, start' = start, calls' = calls,
           ~(quote = "none" /\ escape = FALSE /\ depth = 1 /\ Here = "rbrace")
    PROVE  InBare(T, C)'
<1>1. /\ pos' = pos + 1 /\ content' = content /\ ranges' = ranges /\ Scanning
  BY DEF Step
<1>2. /\ ranges = <<<<1, Len(content)>>>> /\ Got = {o \in C : o[2] < pos}
      /\ \E o \in T : o[1] = start /\ pos <= o[2]
  BY DEF InBare
<1>3. PICK o \in T : o[1] = start /\ pos <= o[2]
  BY <1>2
<1>4. pos # o[2]
  BY <1>1, <1>3, InObject
<1>5. pos \in 1..Len(content) /\ Len(content) \in Nat /\ start \in 0..Len(content)
  BY <1>1, ScanAt
<1>6. /\ \A p \in T : p[1] \in 1..Len(content) /\ p[2] \in 1..Len(content) /\ p[1] < p[2]
      /\ \A p, q \in T : p = q \/ p[2] < q[1] \/ q[2] < p[1]
  BY PlainlyAre
<1>7. start < pos
  BY <1>1 DEF ExtractInv, ObjectRight
<1>8. pos + 1 <= o[2]
  BY <1>3, <1>4, <1>5, <1>6
<1>9. ASSUME NEW p \in T PROVE p[2] # pos
  <2>1. p = o \/ p[2] < o[1] \/ o[2] < p[1]
    BY <1>3, <1>6
  <2>2. p[2] = pos => ~(p = o) /\ ~(p[2] < o[1]) /\ ~(o[2] < p[1])
    BY <1>3, <1>4, <1>5, <1>6, <1>7
  <2> QED
    BY <2>1, <2>2
<1>10. Got' = {p \in C : p[2] < pos'}
  <2>1. {p \in C : p[2] < pos + 1} = {p \in C : p[2] < pos}
    BY <1>5, <1>9, NothingPassed
  <2>2. Got' = Got
    BY DEF Got
  <2> QED
    BY <1>1, <1>2, <2>1, <2>2, Zenon
<1>11. start' # 0 /\ \E p \in T : p[1] = start' /\ pos' <= p[2]
  BY <1>1, <1>3, <1>5, <1>8
<1> QED
  BY <1>1, <1>2, <1>10, <1>11, Zenon DEF InBare

\* The place of the scanner outside of its objects.
LEMMA InProse ==
    ASSUME ExtractInv, NEW T, NEW C, Plainly(T, C), Scanning, \A o \in T : ~(o[1] < pos /\ pos <= o[2])
    PROVE  \/ Here \notin Quotes \cup Braces /\ \A o \in T : o[1] # pos
           \/ Here = "lbrace" /\ \E o \in T : o[1] = pos
<1>1. pos \in 1..Len(content) /\ Len(content) \in Nat /\ Here = content[pos]
  BY ScanAt
<1>2. /\ \A o \in T : o[1] \in 1..Len(content) /\ o[2] \in 1..Len(content) /\ content[o[1]] = "lbrace"
      /\ content[pos] \notin Quotes \cup Braces \/ \E o \in T : o[1] <= pos /\ pos <= o[2]
  BY <1>1, PlainlyAre
<1>3. CASE Here \notin Quotes \cup Braces
  <2>1. "lbrace" \in Braces
    BY DEF Braces
  <2> QED
    BY <1>1, <1>2, <1>3, <2>1
<1>4. CASE \E o \in T : o[1] <= pos /\ pos <= o[2]
  <2>1. PICK o \in T : o[1] <= pos /\ pos <= o[2]
    BY <1>4
  <2>2. o[1] = pos
    BY <1>1, <1>2, <2>1
  <2> QED
    BY <1>1, <1>2, <2>2
<1> QED
  BY <1>1, <1>2, <1>3, <1>4

\* A step outside of the objects of T.
LEMMA OutsideObjects ==
    ASSUME ExtractInv, NEW T, NEW C, Plainly(T, C), InBare(T, C), ranges # <<>>,
           start = 0, OpenString \/ OpenBrace \/ CloseBrace \/ SkipOther
    PROVE  InBare(T, C)'
<1>1. Step /\ Scanning
  BY OutsideAt DEF OpenString, OpenBrace, CloseBrace, SkipOther
<1>2. pos' = pos + 1 /\ content' = content /\ ranges' = ranges
  BY <1>1 DEF Step
<1>3. /\ ranges = <<<<1, Len(content)>>>> /\ Got = {o \in C : o[2] < pos}
      /\ depth = 0 /\ quote = "none" /\ escape = FALSE
      /\ \A o \in T : ~(o[1] < pos /\ pos <= o[2])
  BY DEF InBare
<1>4. pos \in 1..Len(content) /\ Len(content) \in Nat
  BY <1>1, ScanAt
<1>5. \A p \in T : p[1] \in 1..Len(content) /\ p[2] \in 1..Len(content) /\ p[1] < p[2]
  BY PlainlyAre
<1>6. \A p \in T : p[2] # pos
  BY <1>3, <1>4, <1>5
<1>7. {p \in C : p[2] < pos + 1} = {p \in C : p[2] < pos}
  BY <1>4, <1>6, NothingPassed
<1>8. CASE Here \notin Quotes \cup Braces /\ \A o \in T : o[1] # pos
  <2>1. SkipOther
    BY <1>8 DEF OpenString, OpenBrace, CloseBrace, Braces
  <2>2. depth' = depth /\ start' = start /\ quote' = quote /\ escape' = escape /\ calls' = calls
    BY <2>1 DEF SkipOther
  <2>3. \A o \in T : ~(o[1] < pos + 1 /\ pos + 1 <= o[2])
    BY <1>3, <1>4, <1>5, <1>8
  <2>4. Got' = {p \in C : p[2] < pos'}
    BY <1>2, <1>3, <1>7, <2>2, Zenon DEF Got
  <2> QED
    BY <1>2, <1>3, <2>2, <2>3, <2>4, Zenon DEF InBare
<1>9. CASE Here = "lbrace" /\ \E o \in T : o[1] = pos
  <2>1. OpenBrace
    BY <1>9, BraceNoQuote DEF OpenString, CloseBrace, SkipOther, Braces
  <2>2. start' = pos /\ calls' = calls
    BY <1>3, <2>1 DEF OpenBrace
  <2>3. PICK o \in T : o[1] = pos
    BY <1>9
  <2>4. pos # 0 /\ pos + 1 <= o[2]
    BY <1>4, <1>5, <2>3
  <2>5. Got' = {p \in C : p[2] < pos'}
    BY <1>2, <1>3, <1>7, <2>2, Zenon DEF Got
  <2> QED
    BY <1>2, <1>3, <2>2, <2>3, <2>4, <2>5, Zenon DEF InBare
<1> QED
  BY <1>1, <1>3, <1>8, <1>9, InProse

\* The end of an object of T.
LEMMA ObjectEnds ==
    ASSUME ExtractInv, NEW T, NEW C, Plainly(T, C), InBare(T, C), ranges # <<>>,
           CloseBrace, start > 0, depth = 1
    PROVE  InBare(T, C)'
<1>1. Step /\ Scanning /\ escape = FALSE /\ quote = "none"
  BY OutsideAt DEF CloseBrace
<1>2. /\ pos' = pos + 1 /\ content' = content /\ ranges' = ranges
  BY <1>1 DEF Step
<1>3. /\ Here = "rbrace" /\ quote' = quote /\ escape' = escape /\ depth' = depth - 1 /\ start' = 0
      /\ calls' = IF IsCall(Part(content, <<start, pos>>)) THEN Append(calls, <<start, pos>>) ELSE calls
  BY DEF CloseBrace, Part
<1>4. /\ ranges = <<<<1, Len(content)>>>> /\ Got = {o \in C : o[2] < pos}
      /\ \E o \in T : o[1] = start /\ pos <= o[2]
  BY DEF InBare
<1>5. PICK o \in T : o[1] = start /\ pos <= o[2]
  BY <1>4
<1>6. pos = o[2]
  BY <1>1, <1>3, <1>5, InObject
<1>7. pos \in 1..Len(content) /\ Len(content) \in Nat
  BY <1>1, ScanAt
<1>8. /\ \A p \in T : p[1] \in 1..Len(content) /\ p[2] \in 1..Len(content) /\ p[1] < p[2]
      /\ \A p, q \in T : p = q \/ p[2] < q[1] \/ q[2] < p[1]
      /\ o = <<start, pos>> /\ C \subseteq T /\ (o \in C <=> IsCall(Part(content, o)))
  <2>1. /\ \A p \in T : p[1] \in 1..Len(content) /\ p[2] \in 1..Len(content) /\ p[1] < p[2]
        /\ \A p, q \in T : p = q \/ p[2] < q[1] \/ q[2] < p[1]
        /\ o = <<o[1], o[2]>> /\ C \subseteq T /\ (o \in C <=> IsCall(Part(content, o)))
    BY PlainlyAre
  <2> QED
    BY <1>5, <1>6, <2>1, Zenon
<1>9. ASSUME NEW p \in T, p # o PROVE p[2] # pos /\ ~(p[1] < pos + 1 /\ pos + 1 <= p[2])
  <2>1. p[2] < o[1] \/ o[2] < p[1]
    BY <1>8, <1>9
  <2> QED
    BY <1>6, <1>7, <1>8, <2>1
<1>10. \A p \in T : ~(p[1] < pos + 1 /\ pos + 1 <= p[2])
  <2>1. ~(pos + 1 <= o[2])
    BY <1>6, <1>7
  <2> QED
    BY <1>9, <2>1
<1>11. {p \in C : p[2] < pos + 1} = {p \in C : p[2] < pos} \cup (IF o \in C THEN {o} ELSE {})
  <2>1. ASSUME NEW p \in C PROVE p[2] < pos + 1 <=> p[2] < pos \/ p = o
    <3>1. p \in T /\ p[2] \in Nat
      BY <1>7, <1>8
    <3>2. CASE p = o
      BY <1>6, <1>7, <3>2
    <3>3. CASE p # o
      <4>1. p[2] # pos
        BY <1>9, <3>1, <3>3
      <4> QED
        BY <1>7, <3>1, <3>3, <4>1
    <3> QED
      BY <3>2, <3>3
  <2> QED
    BY <2>1
<1>12. Got' = Got \cup (IF o \in C THEN {o} ELSE {})
  <2>1. CASE o \in C
    <3>1. calls' = Append(calls, o) /\ calls \in Seq(Stretch)
      BY <1>3, <1>8, <2>1, Zenon DEF ExtractInv, Found
    <3>2. o \in Stretch
      BY <1>7, <1>8 DEF Stretch
    <3>3. /\ DOMAIN calls' = DOMAIN calls \cup {Len(calls) + 1} /\ calls'[Len(calls) + 1] = o
          /\ \A k \in DOMAIN calls : calls'[k] = calls[k]
      BY <3>1, <3>2
    <3> SUFFICES ASSUME NEW p PROVE p \in Got' <=> p \in Got \cup (IF o \in C THEN {o} ELSE {})
      OBVIOUS
    <3>4. p \in Got' <=> p \in Got \/ p = o
      BY <3>3, Zenon DEF Got
    <3> QED
      BY <2>1, <3>4, Zenon
  <2>2. CASE o \notin C
    <3>1. calls' = calls
      BY <1>3, <1>8, <2>2, Zenon
    <3> QED
      BY <2>2, <3>1, Zenon DEF Got
  <2> QED
    BY <2>1, <2>2
<1>13. Got' = {p \in C : p[2] < pos'}
  BY <1>2, <1>4, <1>11, <1>12, Zenon
<1>14. depth' = 0 /\ quote' = "none" /\ escape' = FALSE
  BY <1>1, <1>3
<1> QED
  BY <1>2, <1>3, <1>4, <1>10, <1>13, <1>14, Zenon DEF InBare

LEMMA BareScan ==
    ASSUME ExtractInv, NEW T, NEW C, Plainly(T, C), InBare(T, C), Scan
    PROVE  InBare(T, C)'
<1>1. Scanning /\ Step
  BY DEF Scan, SkipEscaped, InString, OpenString, OpenBrace, CloseBrace, SkipOther, OutsideString, Step
<1>2. ranges # <<>> /\ start \in 0..Len(content) /\ Len(content) \in Nat /\ depth \in Int
  BY <1>1, ScanAt
<1>3. CASE start = 0
  <2>1. quote = "none" /\ escape = FALSE
    BY <1>2, <1>3 DEF InBare
  <2>2. OpenString \/ OpenBrace \/ CloseBrace \/ SkipOther
    BY <2>1 DEF Scan, SkipEscaped, InString
  <2> QED
    BY <1>2, <1>3, <2>2, OutsideObjects
<1>4. CASE start # 0
  <2>1. start > 0
    BY <1>2, <1>4
  <2>2. depth > 0
    BY <1>1, <2>1, ObjectDepth
  <2>3. CASE CloseBrace /\ depth = 1
    BY <1>2, <2>1, <2>3, ObjectEnds
  <2>4. CASE ~(CloseBrace /\ depth = 1)
    <3>1. start' = start /\ calls' = calls
      BY <1>2, <2>1, <2>2, <2>4 DEF Scan, SkipEscaped, InString, OpenString, OpenBrace, CloseBrace, SkipOther
    <3>2. ~(quote = "none" /\ escape = FALSE /\ depth = 1 /\ Here = "rbrace")
      BY <2>4, BraceNoQuote DEF Scan, SkipEscaped, InString, OpenString, OpenBrace, SkipOther, Braces
    <3> QED
      BY <1>1, <1>2, <2>1, <3>1, <3>2, WithinObject
  <2> QED
    BY <2>3, <2>4
<1> QED
  BY <1>3, <1>4


\* What else the searches keep: the answer is left as it was until calls are found.
Searches ==
    /\ rest = content \/ (stage = "done" /\ calls # <<>>)
    /\ (stage = "inFences" /\ Unwrapped) => (ranges = <<>> /\ calls = <<>>)
    /\ \A T, C : Plainly(T, C) =>
         /\ stage = "bare" => InBare(T, C)
         /\ (stage = "done" /\ (Unwrapped \/ calls = <<>>)) => Got = C

SearchInv == ExtractInv /\ Searches

LEMMA SameText ==
    ASSUME content' = content
    PROVE  /\ Unwrapped' = Unwrapped
           /\ \A T, C : Plainly(T, C)' = Plainly(T, C)
<1>1. Unwrapped' = Unwrapped
  BY DEF Unwrapped
<1>2. TopLevel' = TopLevel
  BY DEF TopLevel, Objects, Positions
<1>3. CallObjects' = CallObjects
  BY <1>2 DEF CallObjects
<1>4. PlainProse' = PlainProse
  BY <1>2 DEF PlainProse
<1> QED
  BY <1>1, <1>2, <1>3, <1>4, Zenon DEF Plainly

LEMMA NoTags ==
    ASSUME ExtractInv, Unwrapped, NEW open \in {"<tool_call>", "<tools>", "fence"}, NEW close
    PROVE  Parsed(Bodies(content, open, close)) = <<>> /\ Bodies(content, open, close) = <<>>
<1>1. Len(content) \in Nat /\ DOMAIN content = 1..Len(content)
  BY DEF ExtractInv, Typed
<1>2. \A i \in 1..Len(content) : content[i] # open
  BY <1>1 DEF Unwrapped, Plain
<1>3. Bodies(content, open, close) = <<>>
  BY <1>1, <1>2, BodiesAre
<1>4. Parsed(<<>>) = <<>>
  <2>1. Parsed(<<>>) \in Seq(Stretch) /\ \A j \in DOMAIN Parsed(<<>>) : \E k \in DOMAIN <<>> : TRUE
    <3>1. <<>> \in Seq(Stretch) /\ Ordered(<<>>)
      BY DEF Ordered
    <3> QED
      BY <3>1, ParsedAre
  <2>2. \A j \in DOMAIN Parsed(<<>>) : FALSE
    BY <2>1
  <2>3. Len(Parsed(<<>>)) > 0 => 1 \in DOMAIN Parsed(<<>>)
    BY <2>1
  <2> QED
    BY <2>1, <2>2, <2>3
<1> QED
  BY <1>3, <1>4

LEMMA SearchInitInv == ExtractInit => SearchInv
  BY ExtractInitInv DEF SearchInv, Searches, ExtractInit

LEMMA TaggedSearch ==
    ASSUME SearchInv, NEW here \in {"tool_call", "tools"}, NEW open \in {"<tool_call>", "<tools>"}, NEW close,
           NEW next \in {"tools", "fence"}, Tagged(here, open, close, next)
    PROVE  Searches'
<1> DEFINE cs == Parsed(Bodies(content, open, close))
<1>1. /\ ExtractInv /\ Searches /\ content' = content /\ stage \in {"tool_call", "tools"}
      /\ ranges = <<>> /\ calls = <<>>
      /\ \/ cs # <<>> /\ stage' = "done" /\ calls' = cs
         \/ cs = <<>> /\ stage' = next /\ calls' = calls /\ rest' = rest
  BY Zenon DEF SearchInv, Tagged, ExtractInv, RangesRight
<1>2. Unwrapped' = Unwrapped
  BY <1>1, SameText
<1>3. Unwrapped => cs = <<>>
  BY <1>1, NoTags
<1> HIDE DEF cs
<1>4. rest = content
  BY <1>1 DEF Searches
<1>5. CASE cs # <<>>
  BY <1>1, <1>2, <1>3, <1>5 DEF Searches
<1>6. CASE cs = <<>>
  <2>1. stage' \in {"tools", "fence"} /\ rest' = rest
    BY <1>1, <1>6
  <2> QED
    BY <1>1, <1>4, <2>1 DEF Searches
<1> QED
  BY <1>5, <1>6

LEMMA FindFencesSearch == ASSUME SearchInv, FindFences PROVE Searches'
<1>1. /\ ExtractInv /\ Searches /\ content' = content /\ stage = "fence" /\ stage' = "inFences"
      /\ calls' = calls /\ rest' = rest /\ calls = <<>> /\ ranges' = Bodies(content, "fence", "fence")
  BY DEF SearchInv, FindFences, Rewind, ExtractInv, RangesRight
<1>2. Unwrapped' = Unwrapped
  BY <1>1, SameText
<1>3. Unwrapped => ranges' = <<>>
  BY <1>1, NoTags
<1>4. rest = content
  BY <1>1 DEF Searches
<1> QED
  BY <1>1, <1>2, <1>3, <1>4 DEF Searches

LEMMA FencesDoneSearch == ASSUME SearchInv, FencesDone PROVE Searches'
<1>1. ExtractInv /\ Searches /\ content' = content /\ calls' = calls /\ stage = "inFences"
  BY DEF SearchInv, FencesDone
<1>2. /\ Unwrapped' = Unwrapped /\ \A T, C : Plainly(T, C)' = Plainly(T, C)
  BY <1>1, SameText
<1>3. Unwrapped => calls = <<>>
  BY <1>1 DEF Searches
<1>4. rest = content
  BY <1>1 DEF Searches
<1>5. Len(content) \in Nat
  BY <1>1 DEF ExtractInv, Typed
<1>6. CASE calls # <<>>
  <2>1. stage' = "done"
    BY <1>6 DEF FencesDone
  <2> QED
    BY <1>1, <1>2, <1>3, <1>6, <2>1 DEF Searches
<1>7. CASE calls = <<>>
  <2>1. /\ stage' = "bare" /\ rest' = rest
        /\ Rewind(<<<<1, Len(content)>>>>)
    BY <1>7 DEF FencesDone
  <2>2. /\ ranges' = <<<<1, Len(content)>>>> /\ pos' = 1 /\ depth' = 0 /\ start' = 0
        /\ quote' = "none" /\ escape' = FALSE
    BY <2>1 DEF Rewind
  <2>3. ASSUME NEW T, NEW C, Plainly(T, C) PROVE InBare(T, C)'
    <3>1. /\ C \subseteq T
          /\ \A o \in T : o[1] \in 1..Len(content) /\ o[2] \in 1..Len(content)
      BY <1>1, <2>3, PlainlyAre
    <3>2. \A o \in T : ~(o[1] < pos' /\ pos' <= o[2]) /\ ~(o[2] < pos')
      BY <1>5, <2>2, <3>1
    <3>3. Got' = {} /\ {o \in C : o[2] < pos'} = {}
      BY <1>1, <1>7, <3>1, <3>2 DEF Got
    <3>4. ranges' # <<>>
      BY <2>2
    <3> QED
      BY <1>1, <2>2, <3>2, <3>3, <3>4, Zenon DEF InBare
  <2> QED
    BY <1>1, <1>2, <1>4, <2>1, <2>3 DEF Searches
<1> QED
  BY <1>6, <1>7

LEMMA BareDoneSearch == ASSUME SearchInv, BareDone PROVE Searches'
<1>1. /\ ExtractInv /\ Searches /\ content' = content /\ calls' = calls /\ stage = "bare" /\ stage' = "done"
      /\ ranges = <<>> /\ rest' = IF calls # <<>> THEN <<>> ELSE content
  BY DEF SearchInv, BareDone
<1>2. /\ Unwrapped' = Unwrapped /\ \A T, C : Plainly(T, C)' = Plainly(T, C)
  BY <1>1, SameText
<1>3. ASSUME NEW T, NEW C, Plainly(T, C) PROVE Got' = C
  BY <1>1, <1>3 DEF Searches, InBare, Got
<1> QED
  BY <1>1, <1>2, <1>3 DEF Searches

LEMMA ScanSearch == ASSUME SearchInv, Scan PROVE Searches'
<1>1. Scanning /\ Step
  BY DEF Scan, SkipEscaped, InString, OpenString, OpenBrace, CloseBrace, SkipOther, OutsideString, Step
<1>2. /\ ExtractInv /\ Searches /\ content' = content /\ stage' = stage /\ rest' = rest
      /\ ranges # <<>> /\ stage \in {"inFences", "bare"}
  BY <1>1 DEF SearchInv, Step, Scanning
<1>3. /\ Unwrapped' = Unwrapped /\ \A T, C : Plainly(T, C)' = Plainly(T, C)
  BY <1>2, SameText
<1>4. ASSUME NEW T, NEW C, Plainly(T, C), stage = "bare" PROVE InBare(T, C)'
  <2>1. InBare(T, C)
    BY <1>2, <1>4 DEF Searches
  <2> QED
    BY <1>2, <1>4, <2>1, BareScan
<1>5. rest = content /\ ~(stage = "inFences" /\ Unwrapped)
  BY <1>2 DEF Searches
<1> QED
  BY <1>2, <1>3, <1>4, <1>5 DEF Searches

LEMMA NextRangeSearch == ASSUME SearchInv, NextRange PROVE Searches'
<1>1. /\ ExtractInv /\ Searches /\ content' = content /\ stage' = stage /\ rest' = rest /\ calls' = calls
      /\ ranges # <<>> /\ ranges' = Tail(ranges) /\ stage \in {"inFences", "bare"} /\ pos > Head(ranges)[2]
  BY DEF SearchInv, NextRange, Rewind
<1>2. /\ Unwrapped' = Unwrapped /\ \A T, C : Plainly(T, C)' = Plainly(T, C)
  BY <1>1, SameText
<1>3. Len(content) \in Nat /\ pos \in 1..(Len(content) + 1)
  BY <1>1 DEF ExtractInv, Typed, Positions
<1>4. ASSUME NEW T, NEW C, Plainly(T, C), stage = "bare" PROVE InBare(T, C)'
  <2>1. ranges = <<<<1, Len(content)>>>> /\ Got = {o \in C : o[2] < pos}
    BY <1>1, <1>4 DEF Searches, InBare
  <2>2. ranges' = <<>> /\ pos > Len(content)
    BY <1>1, <2>1
  <2>3. C \subseteq T /\ \A o \in T : o[2] \in 1..Len(content)
    BY <1>1, <1>4, PlainlyAre
  <2>4. Got = C
    BY <1>3, <2>1, <2>2, <2>3
  <2>5. Got' = Got
    BY <1>1 DEF Got
  <2> QED
    BY <2>2, <2>4, <2>5 DEF InBare
<1>5. rest = content /\ ~(stage = "inFences" /\ Unwrapped)
  BY <1>1 DEF Searches
<1> QED
  BY <1>1, <1>2, <1>4, <1>5 DEF Searches

LEMMA SearchStepInv == SearchInv /\ [ExtractNext]_extractVars => SearchInv'
<1> SUFFICES ASSUME SearchInv, [ExtractNext]_extractVars PROVE SearchInv'
  OBVIOUS
<1>0. ExtractInv'
  BY ExtractStepInv DEF SearchInv
<1>1. CASE ToolCallTags
  BY <1>0, <1>1, TaggedSearch DEF ToolCallTags, SearchInv
<1>2. CASE ToolsTags
  BY <1>0, <1>2, TaggedSearch DEF ToolsTags, SearchInv
<1>3. CASE FindFences
  BY <1>0, <1>3, FindFencesSearch DEF SearchInv
<1>4. CASE FencesDone
  BY <1>0, <1>4, FencesDoneSearch DEF SearchInv
<1>5. CASE BareDone
  BY <1>0, <1>5, BareDoneSearch DEF SearchInv
<1>6. CASE Scan
  BY <1>0, <1>6, ScanSearch DEF SearchInv
<1>7. CASE NextRange
  BY <1>0, <1>7, NextRangeSearch DEF SearchInv
<1>8. CASE UNCHANGED extractVars
  <2>1. UNCHANGED <<content, stage, ranges, pos, depth, start, quote, escape, spans, calls, rest>>
    BY <1>8 DEF extractVars, scanner
  <2>2. /\ Unwrapped' = Unwrapped /\ \A T, C : Plainly(T, C)' = Plainly(T, C)
    BY <2>1, SameText
  <2>3. \A T, C : InBare(T, C)' = InBare(T, C)
    BY <2>1 DEF InBare, Got
  <2> QED
    BY <1>0, <2>1, <2>2, <2>3, Zenon DEF SearchInv, Searches, Got
<1> QED
  BY <1>1, <1>2, <1>3, <1>4, <1>5, <1>6, <1>7, <1>8 DEF ExtractNext

LEMMA SearchAlways == ExtractSpec => []SearchInv
  BY SearchInitInv, SearchStepInv, PTL DEF ExtractSpec

\* In a bare text of any length with plain prose the calls are exactly the objects
\* with a name and arguments that stand in no other object (82-112, 159-167).
THEOREM AllAreFound == ExtractSpec => []AllFound
<1>1. SearchInv => AllFound
  <2> SUFFICES ASSUME SearchInv, stage = "done", Unwrapped, PlainProse
               PROVE  {calls[k] : k \in DOMAIN calls} = {o \in TopLevel : IsCall(Part(content, o))}
    BY DEF AllFound
  <2>1. Plainly(TopLevel, CallObjects)
    BY DEF Plainly
  <2>2. Got = CallObjects
    BY <2>1 DEF SearchInv, Searches
  <2> QED
    BY <2>2, Zenon DEF Got, CallObjects
<1> QED
  BY <1>1, SearchAlways, PTL

\* An answer without calls reaches the agent as it was written, and had none that
\* stands in plain prose, whatever tags and fences are in it (126-168).
THEOREM NoCallIsMissed == ExtractSpec => []CallNotMissed
<1>1. SearchInv => CallNotMissed
  <2> SUFFICES ASSUME SearchInv, stage = "done", calls = <<>>
               PROVE  rest = content /\ (PlainProse => \A o \in TopLevel : ~IsCall(Part(content, o)))
    BY DEF CallNotMissed
  <2>1. rest = content
    BY DEF SearchInv, Searches
  <2>2. ASSUME PlainProse, NEW o \in TopLevel PROVE ~IsCall(Part(content, o))
    <3>1. Plainly(TopLevel, CallObjects)
      BY <2>2 DEF Plainly
    <3>2. Got = CallObjects
      BY <3>1 DEF SearchInv, Searches
    <3>3. Got = {}
      BY DEF Got
    <3> QED
      BY <3>2, <3>3 DEF CallObjects
  <2> QED
    BY <2>1, <2>2
<1> QED
  BY <1>1, SearchAlways, PTL
==============================================================================
