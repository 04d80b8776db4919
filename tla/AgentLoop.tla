------------------------------ MODULE AgentLoop ------------------------------
(***************************************************************************)
(* The agent of a session: it shows the user an answer without calls,      *)
(* executes the calls of any other one by one, and remembers nothing else. *)
(* RepeatGuard and ToolProxy extend this module with what they see of the  *)
(* messages.                                                               *)
(***************************************************************************)
EXTENDS Naturals, Sequences

CONSTANTS
    Calls,      \* tool calls as the model writes them
    Sigs, Sig,  \* Sig[c]: name and canonical arguments of a call
    Threshold   \* LITELLM_REPEAT_THRESHOLD

ASSUME AgentAssumption == Sig \in [Calls -> Sigs] /\ Threshold \in Nat

VARIABLES
    todo,   \* calls of the last answer still to be executed
    row,    \* signatures of the calls executed last, as far as they are identical
    par     \* was one of them part of an answer with several calls?

Assistant(cs) == [role |-> "assistant", calls |-> cs]
ToolResult == [role |-> "tool", calls |-> <<>>]

Rest == todo = <<>> /\ row = <<>> /\ par = FALSE

\* The user speaks: the first message, an answer to a text, or an interruption.
Interject ==
    /\ todo = <<>>
    /\ row' = <<>> /\ par' = FALSE
    /\ UNCHANGED todo

\* An answer arrives.
Receive(cs) ==
    /\ todo = <<>>
    /\ todo' = cs
    /\ row' = IF cs # <<>> /\ row # <<>> /\ row[1] = Sig[cs[1]] THEN row ELSE <<>>
    /\ par' = (Len(cs) > 1 \/ (par /\ row' # <<>>))

\* The next call is executed.
Perform ==
    /\ todo # <<>>
    /\ LET s == Sig[Head(todo)]
       IN  row' = IF row # <<>> /\ row[1] = s THEN Append(row, s) ELSE <<s>>
    /\ todo' = Tail(todo)
    /\ UNCHANGED par
==============================================================================
