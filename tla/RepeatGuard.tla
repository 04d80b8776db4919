----------------------------- MODULE RepeatGuard -----------------------------
(***************************************************************************)
(* What the repeat-tool-call guard of fix_tool_messages.py promises to one *)
(* agent session: a loop of client, proxy and model, seen since the last   *)
(* user message (a user message ends every run of identical calls, and     *)
(* nothing before it is looked at).  ToolProxy implements this module.     *)
(***************************************************************************)
EXTENDS AgentLoop, FiniteSets

CONSTANTS
    Turns,      \* the lists of calls the model may answer with
    MaxTail     \* bound on the messages after a user message

ASSUME GuardAssumption == Turns \subseteq Seq(Calls)

VARIABLE tail   \* messages since the last user message

guardVars == <<tail, todo, row, par>>

Messages == [role : {"assistant", "tool"}, calls : Seq(Calls)]

Matches(m, s) == m.role = "assistant" /\ Len(m.calls) = 1 /\ Sig[m.calls[1]] = s

\* The most recent assistant turns whose only call is s, tool results between.
Run(h, s) ==
    {i \in 1..Len(h) : Matches(h[i], s) /\ \A j \in i..Len(h) : h[j].role = "tool" \/ Matches(h[j], s)}

\* Mutant: one repetition more.
BlocksOneLater(h, cs) == Threshold > 0 /\ cs # <<>> /\ Cardinality(Run(h, Sig[cs[1]])) > Threshold

Blocks(h, cs) == Threshold > 0 /\ cs # <<>> /\ Cardinality(Run(h, Sig[cs[1]])) >= Threshold

GuardInit == tail = <<>> /\ Rest

UserMessage == Interject /\ tail' = <<>>

\* A text answer, or one whose calls the guard drops, ends the agent's turn.
TextTurn ==
    /\ Len(tail) < MaxTail
    /\ Receive(<<>>)
    /\ tail' = Append(tail, Assistant(<<>>))

CallTurn(cs) ==
    /\ cs # <<>> /\ Len(tail) < MaxTail
    /\ ~Blocks(tail, cs)
    /\ Receive(cs)
    /\ tail' = Append(tail, Assistant(cs))

CallDone == Perform /\ tail' = Append(tail, ToolResult)

GuardNext == UserMessage \/ TextTurn \/ (\E cs \in Turns : CallTurn(cs)) \/ CallDone

GuardSpec == GuardInit /\ [][GuardNext]_guardVars

GuardTypeOK ==
    /\ tail \in Seq(Messages) /\ todo \in Seq(Calls) /\ row \in Seq(Sigs) /\ par \in BOOLEAN

\* The same call is executed at most Threshold times in a row, unless the model
\* asked for it in an answer with several calls (fix_tool_messages.py:224, 261).
RowBounded == Threshold > 0 /\ ~par => Len(row) <= Threshold
==============================================================================
