---------------------------- MODULE MCToolExtract ----------------------------
(* All texts of up to Chars characters for the scanner, all texts of up to    *)
(* Segs segments, whole calls among them, for the wrappings, and one with two *)
(* calls that overlap through their strings.                                  *)
EXTENDS ToolExtract

CONSTANTS Chars, Segs

SeqUpTo(S, n) == UNION {[1..k -> S] : k \in 0..n}

Call == <<"lbrace", "c", "rbrace">>
Segments == {Call, <<"lbrace", "rbrace">>, <<"x">>, <<"<tool_call>">>, <<"</tool_call>">>,
             <<"<tools>">>, <<"</tools>">>, <<"fence">>}

Overlap == <<"lbrace", "c", "double", "lbrace", "double", "c", "rbrace", "double", "c", "rbrace">>

const_Texts ==
    SeqUpTo({"lbrace", "rbrace", "backslash", "single", "double", "x", "c"}, Chars)
    \cup {FlattenSeq(s) : s \in SeqUpTo(Segments, Segs)} \cup {Overlap}
==============================================================================
