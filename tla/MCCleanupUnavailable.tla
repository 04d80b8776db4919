------------------------- MODULE MCCleanupUnavailable -------------------------
(* A film in two versions, one of them in two parts; an episode; an album.  *)
EXTENDS CleanupUnavailable

const_Media == {"short", "long", "episode", "album"}
const_Item == [m \in const_Media |-> IF m \in {"short", "long"} THEN "film" ELSE m]
const_Section == [i \in {"film", "episode", "album"} |->
                    CASE i = "film" -> 1 [] i = "episode" -> 2 [] i = "album" -> 3]
const_Kind == <<"movie", "show", "artist">>
const_Parts == [m \in const_Media |->
                  CASE m = "short" -> {1} [] m = "long" -> {2, 3} [] m = "episode" -> {4} [] m = "album" -> {5}]
==============================================================================
