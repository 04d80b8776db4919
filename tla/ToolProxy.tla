------------------------------ MODULE ToolProxy ------------------------------
(***************************************************************************)
(* fix_tool_messages.py between an agent and a model.  The agent sends its *)
(* whole message history in each request; the proxy repairs it (the        *)
(* pre-call hook), the model answers, and the post-call hook (streaming or *)
(* not) turns tool calls written as text into real ones and drops an       *)
(* answer that would repeat the last call once too often.  The agent then  *)
(* executes the calls and sends the longer history.                        *)
(*                                                                         *)
(* An answer of the model has calls of its own (native), calls found in    *)
(* its text (embedded), or none.  Sequences of messages are cut at MaxLen. *)
(***************************************************************************)
EXTENDS AgentLoop, SequencesExt

CONSTANTS Answers,  \* the answers the model may give: [native, embedded]
          MaxLen    \* bound on the agent's history

ASSUME ProxyAssumption ==
    /\ MaxLen \in Nat
    /\ \A a \in Answers : a.native \in Seq(Calls) /\ a.embedded \in Seq(Calls)

VARIABLE history    \* the agent's messages

vars == <<history, todo, row, par>>

User == [role |-> "user", calls |-> <<>>]

(* The pre-call hook. *)

\* Mutant: the pair at the end of the history is not looked at.
ShimButLast(msgs) ==
    FlattenSeq([i \in DOMAIN msgs |->
        IF msgs[i].role = "tool" /\ i + 1 < Len(msgs) /\ msgs[i + 1].role = "user"
          THEN <<msgs[i], Assistant(<<>>)>> ELSE <<msgs[i]>>])

Shim(msgs) ==
    FlattenSeq([i \in DOMAIN msgs |->
        IF msgs[i].role = "tool" /\ i + 1 <= Len(msgs) /\ msgs[i + 1].role = "user"
          THEN <<msgs[i], Assistant(<<>>)>> ELSE <<msgs[i]>>])

(* The guard: the walk back through the messages of the request. *)

\* Mutants: arguments compared as written, a user message that is skipped, too.
IdenticalRaw(m, s) == m.role = "assistant" /\ Len(m.calls) = 1 /\ m.calls[1] = s

Identical(m, s) == m.role = "assistant" /\ Len(m.calls) = 1 /\ Sig[m.calls[1]] = s

CountSkippingOthers(msgs, s) ==
    LET back[i \in 0..Len(msgs)] ==
          IF i = 0 THEN 0
          ELSE IF Identical(msgs[i], s) THEN 1 + back[i - 1] ELSE back[i - 1]
    IN  back[Len(msgs)]

Count(msgs, s) ==
    LET back[i \in 0..Len(msgs)] ==
          IF i = 0 THEN 0
          ELSE IF msgs[i].role = "tool" THEN back[i - 1]
          ELSE IF Identical(msgs[i], s) THEN 1 + back[i - 1]
          ELSE 0
    IN  back[Len(msgs)]

Blocked(msgs, cs) == Threshold > 0 /\ cs # <<>> /\ Count(msgs, Sig[cs[1]]) >= Threshold

(* The post-call hooks: the calls that reach the agent. *)

Guarded(msgs, cs) == IF Blocked(msgs, cs) THEN <<>> ELSE cs

SuccessHook(msgs, a) == Guarded(msgs, IF a.native # <<>> THEN a.native ELSE a.embedded)

\* Mutant: the native calls of a stream are passed through unguarded.
StreamingHookUnguarded(msgs, a) ==
    IF a.embedded # <<>> THEN Guarded(msgs, a.embedded) ELSE a.native

StreamingHook(msgs, a) == Guarded(msgs, IF a.embedded # <<>> THEN a.embedded ELSE a.native)

------------------------------------------------------------------------------
Init == history = <<>> /\ Rest

Say ==
    /\ Len(history) < MaxLen
    /\ Interject
    /\ history' = Append(history, User)

\* One request and its answer.
Request(streaming, a) ==
    /\ Len(history) < MaxLen
    /\ history # <<>> /\ Last(history).role \in {"user", "tool"}
    /\ LET msgs == Shim(history)
           cs == IF streaming THEN StreamingHook(msgs, a) ELSE SuccessHook(msgs, a)
       IN  Receive(cs) /\ history' = Append(history, Assistant(cs))

Execute == Perform /\ history' = Append(history, ToolResult)

Next == Say \/ (\E streaming \in BOOLEAN, a \in Answers : Request(streaming, a)) \/ Execute

Spec == Init /\ [][Next]_vars

------------------------------------------------------------------------------
(* Properties *)

SinceUser(h) == SubSeq(h, SelectLastInSeq(h, LAMBDA m : m.role = "user") + 1, Len(h))

\* The hook as a whole, over histories with user messages, repairs of them and
\* both kinds of answers, implements the guard.
Guard == INSTANCE RepeatGuard
           WITH Turns <- {a.native : a \in Answers} \cup {a.embedded : a \in Answers},
                MaxTail <- MaxLen, tail <- SinceUser(history)
ImplementsGuard == Guard!GuardSpec

\* An answer is dropped only when the last Threshold calls the agent executed
\* were all the one it starts with: nothing that makes progress is blocked.
OnlyRepeatsBlocked ==
    \A a \in Answers :
        /\ todo = <<>> /\ history # <<>> /\ Last(history).role \in {"user", "tool"}
        /\ a.native # <<>> /\ SuccessHook(Shim(history), a) = <<>>
        => Len(row) >= Threshold /\ row[1] = Sig[a.native[1]]

\* The streaming and the plain hook hand the agent the same calls, unless the
\* answer has calls of both kinds.
PathsAgree ==
    \A a \in Answers :
        a.native = <<>> \/ a.embedded = <<>> =>
            SuccessHook(Shim(history), a) = StreamingHook(Shim(history), a)

\* The places where a user message follows a tool result, and where message i of h is to
\* be found when something is inserted at each of them.
Gaps(h) == {i \in 1..(Len(h) - 1) : h[i].role = "tool" /\ h[i + 1].role = "user"}
MovedTo(h, i) == i + Cardinality({j \in Gaps(h) : j < i})

\* The repaired history has no user message right after a tool result, and without what
\* was inserted it is the history: every message is there in its order, after each of those
\* tool results one assistant message without calls, and nothing else.
ShimRepairs ==
    LET msgs == Shim(history)
    IN  /\ \A i \in 1..(Len(msgs) - 1) : ~(msgs[i].role = "tool" /\ msgs[i + 1].role = "user")
        /\ Len(msgs) - Len(history) = Cardinality(Gaps(history))
        /\ \A i \in 1..Len(history) : msgs[MovedTo(history, i)] = history[i]
        /\ \A i \in Gaps(history) : msgs[MovedTo(history, i) + 1] = Assistant(<<>>)
==============================================================================
