------------------------------ MODULE MCChatCall ------------------------------
(* The two limits in the proportion of 90, 180 and 240 seconds, a tick for    *)
(* each 30 seconds; a call may take up to five times the idle limit.          *)
EXTENDS ChatCall

const_Caps == {6, 8}
==============================================================================
