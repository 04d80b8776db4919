---------------------------- MODULE MissingCleanup ----------------------------
(***************************************************************************)
(* The missing-media CronJob of Plex (missing-cleanup-script.yaml,         *)
(* missing-cleanup-cronjob.yaml).  A pod walks the movie and show sections *)
(* of Plex, stat()s every file on the read-only mount, and when not too    *)
(* many are missing deletes the entries that have none left.  A pod that   *)
(* fails is replaced once.  Meanwhile files come and go, the mount breaks  *)
(* and heals, and others delete entries.                                   *)
(*                                                                         *)
(* The files of one entry are looked at in one step.  Files outside        *)
(* LIBRARY_PATH are those of no entry's Checked set.                       *)
(***************************************************************************)
EXTENDS Naturals, FiniteSets

CONSTANTS
    Media,              \* media versions Plex may have an entry for
    Section,            \* Section[m]: the section of m
    Parts, Ours,        \* Parts[m]: the files of m; those under LIBRARY_PATH
    MaxMissingPercent,  \* the circuit breaker
    MaxChanges,         \* bound on changes of the files, the mount, the entries
    MaxFail             \* bound on failing calls

Sections == {Section[m] : m \in Media}
Files == UNION {Parts[m] : m \in Media}
Checked(m) == Parts[m] \cap Ours

ASSUME CleanupAssumption ==
    /\ IsFiniteSet(Media) /\ \A m \in Media : IsFiniteSet(Parts[m])
    /\ MaxMissingPercent \in Nat /\ MaxChanges \in Nat /\ MaxFail \in Nat

VARIABLES
    library, there, mounted,  \* Plex's entries; the files; does the mount answer?
    dry,                      \* DRY_RUN
    pc,                       \* "idle", "walk", "delete" or "failed"
    attempt,                  \* pods of this job so far
    toList, listed,           \* sections and entries still to walk
    total, missing,           \* the script's total_parts and missing
    left,                     \* entries still to delete
    goneParts, calm, removed, \* history: parts seen missing, no change since the pod
                              \* began, entries this pod deleted
    changes, fails

world == <<library, there, mounted>>
count == <<total, missing, goneParts>>
vars == <<world, dry, pc, attempt, toList, listed, count, left, calm, removed, changes, fails>>

Init ==
    /\ library \in SUBSET Media /\ there = Files /\ mounted = TRUE
    /\ dry \in BOOLEAN
    /\ pc = "idle" /\ attempt = 0
    /\ toList = {} /\ listed = {} /\ total = 0 /\ missing = {} /\ left = {}
    /\ goneParts = 0 /\ calm = TRUE /\ removed = {}
    /\ changes = 0 /\ fails = 0

------------------------------------------------------------------------------
(* The job *)

\* A pod starts only where the volume can be mounted; it asks for the sections.
StartPod ==
    /\ pc = "idle" \/ (pc = "failed" /\ attempt < 2)
    /\ mounted
    /\ pc' = "walk"
    /\ attempt' = IF pc = "idle" THEN 1 ELSE attempt + 1
    /\ toList' = Sections /\ listed' = {} /\ left' = {}
    /\ total' = 0 /\ missing' = {} /\ goneParts' = 0 /\ calm' = TRUE /\ removed' = {}
    /\ UNCHANGED <<world, dry, changes, fails>>

ListSection(s) ==
    /\ pc = "walk" /\ listed = {} /\ s \in toList
    /\ toList' = toList \ {s}
    /\ listed' = {m \in library : Section[m] = s}
    /\ UNCHANGED <<world, dry, pc, attempt, count, left, calm, removed, changes, fails>>

Visible(m) == IF mounted THEN Checked(m) \cap there ELSE {}

\* Mutant: one missing part is enough.
MissesAny(m) == Checked(m) # {} /\ Visible(m) # Checked(m)

IsMissing(m) == Checked(m) # {} /\ Visible(m) = {}

Examine(m) ==
    /\ pc = "walk" /\ m \in listed
    /\ listed' = listed \ {m}
    /\ total' = total + Cardinality(Checked(m))
    /\ goneParts' = goneParts + Cardinality(Checked(m) \ Visible(m))
    /\ missing' = IF IsMissing(m) THEN missing \cup {m} ELSE missing
    /\ UNCHANGED <<world, dry, pc, attempt, toList, left, calm, removed, changes, fails>>

\* Mutants: no breaker; a breaker that trips at its limit.
AbortsOnEmptyOnly == total = 0
AbortsAtLimit == total = 0 \/ 100 * Cardinality(missing) >= MaxMissingPercent * total

Aborts == total = 0 \/ 100 * Cardinality(missing) > MaxMissingPercent * total

Judge ==
    /\ pc = "walk" /\ toList = {} /\ listed = {}
    /\ IF Aborts THEN pc' = "failed" /\ left' = {}
                 ELSE pc' = "delete" /\ left' = missing
    /\ UNCHANGED <<world, dry, attempt, toList, listed, count, calm, removed, changes, fails>>

WouldDelete(m) ==
    /\ pc = "delete" /\ dry /\ m \in left
    /\ left' = left \ {m}
    /\ UNCHANGED <<world, dry, pc, attempt, toList, listed, count, calm, removed, changes, fails>>

\* Plex drops the entry, and the files it still finds with it.
Delete(m) ==
    /\ pc = "delete" /\ ~dry /\ m \in left /\ m \in library
    /\ library' = library \ {m} /\ there' = there \ Parts[m]
    /\ left' = left \ {m} /\ removed' = removed \cup {m}
    /\ UNCHANGED <<mounted, dry, pc, attempt, toList, listed, count, calm, changes, fails>>

\* The entry is gone already: 404, and the script ends on the exception.
DeleteNotFound(m) ==
    /\ pc = "delete" /\ ~dry /\ m \in left /\ m \notin library
    /\ pc' = "failed"
    /\ UNCHANGED <<world, dry, attempt, toList, listed, count, left, calm, removed, changes, fails>>

\* The answer is lost or late: Plex did what it was asked, the script ends.
DeleteUnanswered(m) ==
    /\ pc = "delete" /\ ~dry /\ m \in left /\ m \in library /\ fails < MaxFail
    /\ library' = library \ {m} /\ there' = there \ Parts[m]
    /\ removed' = removed \cup {m}
    /\ pc' = "failed" /\ fails' = fails + 1
    /\ UNCHANGED <<mounted, dry, attempt, toList, listed, count, left, calm, changes>>

CallFails ==
    /\ (pc = "walk" /\ listed = {}) \/ (pc = "delete" /\ ~dry /\ left # {})
    /\ fails < MaxFail
    /\ pc' = "failed" /\ fails' = fails + 1
    /\ UNCHANGED <<world, dry, attempt, toList, listed, count, left, calm, removed, changes>>

Finish ==
    /\ pc = "delete" /\ left = {}
    /\ pc' = "idle"
    /\ UNCHANGED <<world, dry, attempt, toList, listed, count, left, calm, removed, changes, fails>>

\* backoffLimit 1: the second failure is the job's.
JobFails ==
    /\ pc = "failed" /\ attempt = 2
    /\ pc' = "idle"
    /\ UNCHANGED <<world, dry, attempt, toList, listed, count, left, calm, removed, changes, fails>>

Job ==
    \/ StartPod \/ Judge \/ CallFails \/ Finish \/ JobFails
    \/ \E s \in Sections : ListSection(s)
    \/ \E m \in Media : Examine(m) \/ WouldDelete(m) \/ Delete(m) \/ DeleteNotFound(m) \/ DeleteUnanswered(m)

------------------------------------------------------------------------------
(* Everyone else *)

Change ==
    /\ changes < MaxChanges /\ changes' = changes + 1 /\ calm' = FALSE
    /\ UNCHANGED <<dry, pc, attempt, toList, listed, count, left, removed, fails>>

\* A file is deleted, or downloaded again.
FileGoes == Change /\ (\E f \in there : there' = there \ {f}) /\ UNCHANGED <<library, mounted>>
FileComes == Change /\ (\E f \in Files \ there : there' = there \cup {f}) /\ UNCHANGED <<library, mounted>>

MountBreaks == Change /\ mounted /\ mounted' = FALSE /\ UNCHANGED <<library, there>>

\* Plex finds new media; a user, Maintainerr or cleanup-unavailable.sh deletes some.
EntryAdded == Change /\ (\E m \in Media \ library : library' = library \cup {m}) /\ UNCHANGED <<there, mounted>>
EntryDropped == Change /\ (\E m \in library : library' = library \ {m}) /\ UNCHANGED <<there, mounted>>

MountHeals ==
    /\ ~mounted /\ mounted' = TRUE
    /\ UNCHANGED <<library, there, dry, pc, attempt, toList, listed, count, left, calm, removed, changes, fails>>

Others == FileGoes \/ FileComes \/ MountBreaks \/ EntryAdded \/ EntryDropped \/ MountHeals

Next == Job \/ Others

Spec == Init /\ [][Next]_vars

\* The schedule comes round, a pod that runs goes on, and a broken mount is repaired.
FairSpec == Spec /\ WF_vars(Job) /\ WF_vars(MountHeals)

------------------------------------------------------------------------------
(* Properties *)

\* Every variable keeps its type: the library, the walk and the counters.
TypeOK ==
    /\ library \in SUBSET Media /\ there \in SUBSET Files /\ mounted \in BOOLEAN /\ dry \in BOOLEAN
    /\ pc \in {"idle", "walk", "delete", "failed"} /\ attempt \in 0..2
    /\ toList \in SUBSET Sections /\ listed \in SUBSET Media /\ left \in SUBSET Media
    /\ total \in Nat /\ missing \in SUBSET Media /\ goneParts \in Nat
    /\ calm \in BOOLEAN /\ removed \in SUBSET Media
    /\ changes \in 0..MaxChanges /\ fails \in 0..MaxFail

\* What one pod deletes is within the breaker's percentage of the parts it
\* checked, however it ends and whatever others delete (lines 83, 89-95).
LossBounded == 100 * Cardinality(removed) <= MaxMissingPercent * total

\* A pod that has not seen a single file deletes nothing: the mount that shows
\* nothing does not empty the library (lines 12-16, 83), if no entry has so many
\* parts that losing it counts for less than the breaker.
FewParts == \A m \in Media : MaxMissingPercent * Cardinality(Checked(m)) < 100
OutageHarmless == FewParts /\ goneParts = total => removed = {}

\* An entry that should go: it has files in the library's path, and none is there.
Gone(m) == m \in library /\ Checked(m) # {} /\ Checked(m) \cap there = {}

\* While nothing else changes, a pod deletes the entries without a file and no others:
\* what it has taken for missing has no file left, and what is without a file when the
\* walk is over waits for its deletion, so that none is left at the end (58-71, 95).
CalmSafe ==
    calm => /\ \A m \in left \cup removed : Checked(m) # {} /\ Checked(m) \cap there = {}
            /\ pc = "delete" /\ ~dry => \A m \in Media : Gone(m) => m \in left

\* An entry without files goes, or gets one, or the breaker holds all of them:
\* failed and interrupted jobs are made up for (backoffLimit, schedule).
Held ==
    \E n \in {Cardinality({m \in library : Gone(m)})},
       t \in {Cardinality({e \in library \X Files : e[2] \in Checked(e[1])})} :
        100 * n > MaxMissingPercent * t
Converges == \A m \in Media : []<>(dry \/ Held \/ ~Gone(m))
==============================================================================
