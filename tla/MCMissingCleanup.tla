--------------------------- MODULE MCMissingCleanup ---------------------------
(* A film in two parts, a film outside the library's path but for one part,  *)
(* and two episodes.                                                         *)
EXTENDS MissingCleanup

const_Media == {"film", "mixed", "ep1", "ep2"}
const_Section == [m \in const_Media |-> IF m \in {"film", "mixed"} THEN "movie" ELSE "show"]
const_Parts ==
    [m \in const_Media |->
       CASE m = "film" -> {1, 2} [] m = "mixed" -> {3, 9} [] m = "ep1" -> {4} [] m = "ep2" -> {5}]
const_Ours == 1..5
==============================================================================
