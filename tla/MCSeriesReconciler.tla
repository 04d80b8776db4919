-------------------------- MODULE MCSeriesReconciler --------------------------
(* Two authors with a volume each, of different series. *)
EXTENDS SeriesReconciler

const_Books == {"a", "b"}
const_Author == [b \in const_Books |-> IF b = "a" THEN 1 ELSE 2]
const_Slug == [b \in const_Books |-> IF b = "a" THEN "s" ELSE "t"]
==============================================================================
