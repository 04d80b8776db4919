---------------------------- MODULE MCRepeatGuard ----------------------------
EXTENDS RepeatGuard

const_Calls == {"a", "a2", "b"}
const_Sigs == {"a", "b"}
const_Sig == [c \in const_Calls |-> IF c = "a2" THEN "a" ELSE c]
const_Turns == {<<"a">>, <<"a2">>, <<"b">>, <<"a", "b">>, <<"b", "a2">>}
==============================================================================
