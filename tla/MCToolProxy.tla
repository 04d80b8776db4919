----------------------------- MODULE MCToolProxy -----------------------------
(* Two different calls, one of them in two spellings; answers with one call,  *)
(* with two, with none, with calls in the text and with both.                  *)
EXTENDS ToolProxy

const_Calls == {"a", "a2", "b"}
const_Sigs == {"a", "b"}
const_Sig == [c \in const_Calls |-> IF c = "a2" THEN "a" ELSE c]
const_Answers ==
    {[native |-> n, embedded |-> <<>>] : n \in {<<>>, <<"a">>, <<"b">>, <<"a", "b">>}}
    \cup {[native |-> <<>>, embedded |-> e] : e \in {<<"a2">>, <<"a", "a", "a">>}}
    \cup {[native |-> <<"a">>, embedded |-> <<"b">>]}
==============================================================================
