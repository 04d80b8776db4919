---------------------------- MODULE MCSeedingGuard ----------------------------
(* A movie, and a show with two episodes. *)
EXTENDS SeedingGuard, TLC

CONSTANTS m, s, f, e1, e2

const_FilesOf == (m :> {f}) @@ (s :> {e1, e2})
==============================================================================
