----------------------------- MODULE ToolExtract -----------------------------
(***************************************************************************)
(* How fix_tool_messages.py finds tool calls a model wrote as text:        *)
(* _extract_tool_calls looks for <tool_call> tags, then for <tools> tags,  *)
(* then into code fences, then at the bare text, and stops at the first of *)
(* the four that gives a call.  The last two use a scanner for             *)
(* brace-balanced objects, one character per step here.                    *)
(*                                                                         *)
(* A text is a sequence of tokens: braces, quotes and the backslash, "x"   *)
(* for a stretch of anything else, "c" for the name and arguments that     *)
(* make an object a call, and the tags and fences, each one token.  Blanks *)
(* are not represented: the code strips them.                              *)
(***************************************************************************)
EXTENDS Integers, Sequences, SequencesExt

CONSTANT Texts    \* the texts a model may write

Quotes == {"single", "double"}
Plain == {"x", "c", "<tool_call>", "</tool_call>", "<tools>", "</tools>", "fence"}
Braces == {"lbrace", "rbrace"}
Tokens == Braces \cup {"backslash"} \cup Quotes \cup Plain

ASSUME TextsAssumption == Texts \subseteq Seq(Tokens)

VARIABLES
    content,  \* the text
    stage,    \* the wrapping that is looked for
    ranges,   \* the stretches of the text still to scan, the current one first
    pos,      \* the scanner: where it is,
    depth,    \* braces open (it may go below zero),
    start,    \* where the object began, 0 for none,
    quote,    \* the quote of the string it is in, "none" for none,
    escape,   \* whether the next character is escaped,
    spans,    \* the objects it has found: first and last position
    calls,    \* the calls so far: first and last position
    rest      \* the text that is left in the answer

scanner == <<pos, depth, start, quote, escape, spans>>
extractVars == <<content, stage, ranges, scanner, calls, rest>>

------------------------------------------------------------------------------
(* The parsers and regular expressions of the library *)

\* Positions of t that are not inside a string literal, and whether every literal
\* is closed.  A quote is escaped by an odd number of backslashes before it.
Slashes(t, q, k) == {j \in (q + 1)..(k - 1) : \A l \in j..(k - 1) : t[l] = "backslash"}

StringEnds(t, q) ==
    {k \in (q + 1)..Len(t) : t[k] = t[q] /\ Cardinality(Slashes(t, q, k)) % 2 = 0}

Outside(t) ==
    LET from[i \in 1..(Len(t) + 1)] ==
          IF i > Len(t) THEN {}
          ELSE IF t[i] \notin Quotes THEN {i} \cup from[i + 1]
          ELSE IF StringEnds(t, i) = {} THEN {i}
          ELSE from[Min(StringEnds(t, i)) + 1]
    IN  from[1]

\* Braces open after position i, given the positions outside of strings.
DepthIn(t, out, i) ==
    Cardinality({k \in out : k <= i /\ t[k] = "lbrace"})
      - Cardinality({k \in out : k <= i /\ t[k] = "rbrace"})

\* A literal that is not closed leaves its quote among the outside tokens.
IsBalanced(t) ==
    /\ Len(t) > 1 /\ t[1] = "lbrace" /\ t[Len(t)] = "rbrace"
    /\ LET out == Outside(t)
       IN  /\ Len(t) \in out
           /\ \A i \in out : t[i] \notin Quotes
           /\ \A i \in 1..(Len(t) - 1) : DepthIn(t, out, i) > 0
           /\ DepthIn(t, out, Len(t)) = 0

\* What json.loads or ast.literal_eval reads as a dictionary with a name and
\* arguments: keys and values are "c", string literals and dictionaries.
IsCall(t) ==
    /\ IsBalanced(t)
    /\ LET out == Outside(t)
       IN  /\ \A i \in out : t[i] \in Braces \cup {"c"}
           /\ \E i \in out : t[i] = "c" /\ DepthIn(t, out, i) = 1

\* finditer of open, then at least one token, up to the first close.
TagEnds(t, close, i) == {j \in (i + 2)..Len(t) : t[j] = close}

TagMatches(t, open, close) ==
    LET from[i \in 1..(Len(t) + 1)] ==
          IF i > Len(t) THEN <<>>
          ELSE IF t[i] = open /\ TagEnds(t, close, i) # {}
            THEN <<<<i, Min(TagEnds(t, close, i))>>>> \o from[Min(TagEnds(t, close, i)) + 1]
          ELSE from[i + 1]
    IN  from[1]

Bodies(t, open, close) ==
    [k \in DOMAIN TagMatches(t, open, close) |->
        <<TagMatches(t, open, close)[k][1] + 1, TagMatches(t, open, close)[k][2] - 1>>]

Part(t, r) == SubSeq(t, r[1], r[2])

Without(t, ms) ==
    FlattenSeq([i \in DOMAIN t |->
        IF \E k \in DOMAIN ms : ms[k][1] <= i /\ i <= ms[k][2] THEN <<>> ELSE <<t[i]>>])

\* Those of the stretches rs that parse.
Parsed(rs) ==
    FlattenSeq([k \in DOMAIN rs |-> IF IsCall(Part(content, rs[k])) THEN <<rs[k]>> ELSE <<>>])

------------------------------------------------------------------------------
ExtractInit ==
    /\ content \in Texts
    /\ stage = "tool_call" /\ ranges = <<>>
    /\ pos = 1 /\ depth = 0 /\ start = 0 /\ quote = "none" /\ escape = FALSE /\ spans = <<>>
    /\ calls = <<>> /\ rest = content

\* Mutant: tags without a call end the search.
TaggedOnly(here, open, close, next) ==
    /\ stage = here
    /\ LET cs == Parsed(Bodies(content, open, close))
       IN  IF TagMatches(content, open, close) # <<>>
             THEN /\ stage' = "done" /\ calls' = cs
                  /\ rest' = Without(content, TagMatches(content, open, close))
             ELSE stage' = next /\ UNCHANGED <<calls, rest>>
    /\ UNCHANGED <<content, ranges, scanner>>

\* One of the two kinds of tags: the calls are the bodies that parse.  If there is
\* one, all matches are cut out of the text.
Tagged(here, open, close, next) ==
    /\ stage = here
    /\ LET cs == Parsed(Bodies(content, open, close))
       IN  IF cs # <<>>
             THEN /\ stage' = "done" /\ calls' = cs
                  /\ rest' = Without(content, TagMatches(content, open, close))
             ELSE stage' = next /\ UNCHANGED <<calls, rest>>
    /\ UNCHANGED <<content, ranges, scanner>>

ToolCallTags == Tagged("tool_call", "<tool_call>", "</tool_call>", "tools")
ToolsTags == Tagged("tools", "<tools>", "</tools>", "fence")

Rewind(rs) ==
    /\ ranges' = rs
    /\ pos' = IF rs = <<>> THEN 1 ELSE rs[1][1]
    /\ depth' = 0 /\ start' = 0 /\ quote' = "none" /\ escape' = FALSE /\ spans' = <<>>

FindFences ==
    /\ stage = "fence" /\ stage' = "inFences"
    /\ Rewind(Bodies(content, "fence", "fence"))
    /\ UNCHANGED <<content, calls, rest>>

\* All fences are scanned: their calls, or else the whole text.
FencesDone ==
    /\ stage = "inFences" /\ ranges = <<>>
    /\ IF calls # <<>>
         THEN stage' = "done" /\ rest' = <<>> /\ UNCHANGED <<ranges, scanner>>
         ELSE stage' = "bare" /\ Rewind(<<<<1, Len(content)>>>>) /\ UNCHANGED rest
    /\ UNCHANGED <<content, calls>>

BareDone ==
    /\ stage = "bare" /\ ranges = <<>>
    /\ stage' = "done"
    /\ rest' = IF calls # <<>> THEN <<>> ELSE content
    /\ UNCHANGED <<content, ranges, scanner, calls>>

------------------------------------------------------------------------------
(* The scanner, _balanced_object_spans *)

Scanning == stage \in {"inFences", "bare"} /\ ranges # <<>> /\ pos <= Head(ranges)[2]
Here == content[pos]

Step ==
    /\ Scanning
    /\ pos' = pos + 1
    /\ UNCHANGED <<content, stage, ranges, rest>>

SkipEscaped ==
    /\ Step /\ escape
    /\ escape' = FALSE
    /\ UNCHANGED <<depth, start, quote, spans, calls>>

\* Mutant: backslashes mean nothing.
InStringRaw ==
    /\ Step /\ ~escape /\ quote # "none"
    /\ escape' = FALSE
    /\ quote' = IF Here = quote THEN "none" ELSE quote
    /\ UNCHANGED <<depth, start, spans, calls>>

InString ==
    /\ Step /\ ~escape /\ quote # "none"
    /\ escape' = (Here = "backslash")
    /\ quote' = IF Here = quote THEN "none" ELSE quote
    /\ UNCHANGED <<depth, start, spans, calls>>

OutsideString == Step /\ ~escape /\ quote = "none"

OpenString ==
    /\ OutsideString /\ Here \in Quotes
    /\ quote' = Here
    /\ UNCHANGED <<depth, start, escape, spans, calls>>

OpenBrace ==
    /\ OutsideString /\ Here = "lbrace"
    /\ start' = IF depth = 0 THEN pos ELSE start
    /\ depth' = depth + 1
    /\ UNCHANGED <<quote, escape, spans, calls>>

\* Mutant: every closing brace forgets the start.
CloseBraceForget ==
    /\ OutsideString /\ Here = "rbrace"
    /\ depth' = depth - 1 /\ start' = 0
    /\ IF depth = 1 /\ start > 0
         THEN /\ spans' = Append(spans, <<start, pos>>)
              /\ calls' = IF IsCall(SubSeq(content, start, pos))
                            THEN Append(calls, <<start, pos>>) ELSE calls
         ELSE UNCHANGED <<spans, calls>>
    /\ UNCHANGED <<quote, escape>>

CloseBrace ==
    /\ OutsideString /\ Here = "rbrace"
    /\ depth' = depth - 1
    /\ IF depth = 1 /\ start > 0
         THEN /\ spans' = Append(spans, <<start, pos>>)
              /\ calls' = IF IsCall(SubSeq(content, start, pos))
                            THEN Append(calls, <<start, pos>>) ELSE calls
              /\ start' = 0
         ELSE UNCHANGED <<start, spans, calls>>
    /\ UNCHANGED <<quote, escape>>

SkipOther ==
    /\ OutsideString /\ Here \notin Quotes \cup Braces
    /\ UNCHANGED <<depth, start, quote, escape, spans, calls>>

\* The end of one stretch, with whatever was open in it forgotten.
NextRange ==
    /\ stage \in {"inFences", "bare"} /\ ranges # <<>> /\ pos > Head(ranges)[2]
    /\ Rewind(Tail(ranges))
    /\ UNCHANGED <<content, stage, calls, rest>>

Scan == SkipEscaped \/ InString \/ OpenString \/ OpenBrace \/ CloseBrace \/ SkipOther

ExtractNext ==
    \/ ToolCallTags \/ ToolsTags \/ FindFences \/ FencesDone \/ BareDone
    \/ Scan \/ NextRange

ExtractSpec == ExtractInit /\ [][ExtractNext]_extractVars

------------------------------------------------------------------------------
(* Properties *)

Positions == 1..(Len(content) + 1)

\* Every variable keeps its type: the place of the scanner, and what it found.
ExtractTypeOK ==
    /\ content \in Seq(Tokens)
    /\ stage \in {"tool_call", "tools", "fence", "inFences", "bare", "done"}
    /\ ranges \in Seq(Positions \X Nat)
    /\ pos \in Positions /\ depth \in Int /\ start \in 0..Len(content)
    /\ quote \in Quotes \cup {"none"} /\ escape \in BOOLEAN
    /\ spans \in Seq(Positions \X Nat) /\ calls \in Seq(Positions \X Nat)
    /\ rest \in Seq(Tokens)

InOrder(rs) == \A k \in DOMAIN rs : k + 1 \in DOMAIN rs => rs[k][2] < rs[k + 1][1]

\* What the scanner yields are balanced objects, one after the other: no brace in a
\* string is counted, no escaped quote ends a string, no object is cut or nested in
\* another (fix_tool_messages.py:82-112).  So is every call the agent gets, whichever
\* of the four searches found it: it stands in the text, whole and once.
FoundSound ==
    /\ InOrder(spans) /\ \A k \in DOMAIN spans : IsBalanced(Part(content, spans[k]))
    /\ InOrder(calls) /\ \A k \in DOMAIN calls : IsCall(Part(content, calls[k]))

Objects == {r \in Positions \X Positions : r[2] <= Len(content) /\ IsBalanced(Part(content, r))}
Within(r, o) == o[1] <= r[1] /\ r[2] <= o[2]
TopLevel == {o \in Objects : \A p \in Objects : Within(o, p) => p = o}

\* Around its objects the text has no quote and no brace, and no two of them overlap
\* (a brace in a string of one could be the first of another).
PlainProse ==
    /\ \A o, p \in TopLevel : o = p \/ o[2] < p[1] \/ p[2] < o[1]
    /\ \A i \in DOMAIN content :
         \/ content[i] \notin Quotes \cup Braces
         \/ \E o \in TopLevel : Within(<<i, i>>, o)

Unwrapped == \A i \in DOMAIN content : content[i] \notin Plain \ {"x", "c"}

\* In a bare text with plain prose the calls are exactly the objects with a name and
\* arguments that stand in no other object.
AllFound ==
    stage = "done" /\ Unwrapped /\ PlainProse =>
        {calls[k] : k \in DOMAIN calls} = {o \in TopLevel : IsCall(Part(content, o))}

\* An answer taken for one without calls has none, if its prose is plain, and reaches
\* the agent as it was written: tags and fences that are broken, nested, or around
\* something else do not hide a call from the searches after them (126-133, 139-146, 168).
CallNotMissed ==
    stage = "done" /\ calls = <<>> =>
        rest = content /\ (PlainProse => \A o \in TopLevel : ~IsCall(Part(content, o)))
=============================================================================
