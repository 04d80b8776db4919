----------------------------- MODULE MCScaleMove -----------------------------
(* Five workloads in the order of workloads.txt: prometheus-operator, the      *)
(* StatefulSet it owns, one that is idle already, an app, its database.        *)
EXTENDS ScaleMove

const_Orig == <<1, 1, 0, 2, 1>>
const_SelfHealed == {1}
==============================================================================
