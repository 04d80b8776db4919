-------------------------- MODULE CleanupUnavailable --------------------------
(***************************************************************************)
(* cleanup-unavailable.sh, which somebody runs by hand against Plex over   *)
(* HTTP.  For each movie and show library it lists the items; for each     *)
(* item it reads the versions, sends a HEAD for every part, and then       *)
(* deletes the version of each part that was answered with 404.  There is  *)
(* no breaker.  An error of curl or jq is an empty answer: set -e is not   *)
(* in force in command and process substitutions, nor under "if".          *)
(* Meanwhile files come and go, the mount breaks and heals, and others     *)
(* change the library.                                                     *)
(***************************************************************************)
EXTENDS Naturals, FiniteSets

CONSTANTS
    Media,             \* media versions Plex may have
    Item, Section,     \* Item[m]: the item of m; Section[i]: the library of i
    Kind,              \* Kind[s]: "movie", "show" or another type of library
    Parts,             \* Parts[m]: the files of m
    MaxChanges,        \* bound on changes by others
    MaxFail            \* bound on failing requests

Sections == DOMAIN Kind
Files == UNION {Parts[m] : m \in Media}

ASSUME LibraryAssumption ==
    /\ 0 \notin Sections
    /\ IsFiniteSet(Media) /\ \A m \in Media : IsFiniteSet(Parts[m])
    /\ \A m \in Media : Section[Item[m]] \in Sections
    /\ \A m, n \in Media : m # n => Parts[m] \cap Parts[n] = {}
    /\ MaxChanges \in Nat /\ MaxFail \in Nat

VARIABLES
    library, there, mounted,  \* Plex's versions; the files; does the mount answer?
    dry,                      \* DRY_RUN
    pc,                       \* "idle", "sections", "items", "parts" or "done"
    sections, section,        \* libraries still to clean, and the one at hand, or 0
    items,                    \* items of it still to check
    toLook, left,             \* parts of the item still to look at, and to delete
    found, deleted,           \* unavailable_found and deleted_count of the library
    clean, still,             \* history: no change and no failure since the run began;
                              \* neither a change since the item at hand was read
                              \* nor a 404 for one of its parts that was not Plex's
    lacking,                  \* history: the parts that were missing at the start
    changes, fails

world == <<library, there, mounted>>
walk == <<sections, section, items>>
history == <<clean, still, lacking>>
vars == <<world, dry, pc, walk, toLook, left, found, deleted, history, changes, fails>>

Visible == IF mounted THEN there ELSE {}
VersionOf(p) == CHOOSE m \in Media : p \in Parts[m]

\* Mutant: shows are passed over.
WalkedMovies(s) == Kind[s] = "movie"
Walked(s) == Kind[s] \in {"movie", "show"}

VersionsIn(s) == {m \in library : Section[Item[m]] = s}
PartsIn(s) == UNION {Parts[m] : m \in VersionsIn(s)}

Init ==
    /\ library \in SUBSET Media /\ there \in SUBSET Files /\ mounted \in BOOLEAN
    /\ dry \in BOOLEAN
    /\ pc = "idle" /\ sections = {} /\ section = 0 /\ items = {}
    /\ toLook = {} /\ left = {} /\ found = 0 /\ deleted = 0
    /\ clean = FALSE /\ still = FALSE /\ lacking = {}
    /\ changes = 0 /\ fails = 0

------------------------------------------------------------------------------
(* The run *)

\* A request that fails or is answered with something else than what was asked for.
RequestFails == fails < MaxFail /\ fails' = fails + 1 /\ clean' = FALSE
RequestWorks == UNCHANGED <<fails, clean>>

\* The connection is tested, a destructive run confirmed, and the libraries listed.
Start ==
    /\ pc \in {"idle", "done"} /\ pc' = "sections"
    /\ lacking' = (UNION {PartsIn(s) : s \in Sections}) \ Visible
    /\ \/ sections' = Sections /\ clean' = TRUE /\ UNCHANGED fails
       \/ sections' = {} /\ RequestFails
    /\ UNCHANGED <<world, dry, section, items, toLook, left, found, deleted, still, changes>>

SkipLibrary(s) ==
    /\ pc = "sections" /\ s \in sections /\ ~Walked(s)
    /\ sections' = sections \ {s}
    /\ UNCHANGED <<world, dry, pc, section, items, toLook, left, found, deleted, history, changes, fails>>

ItemsIn(s) == {Item[m] : m \in VersionsIn(s)}

ListItems(s) ==
    /\ pc = "sections" /\ s \in sections /\ Walked(s)
    /\ pc' = "items" /\ sections' = sections \ {s} /\ section' = s
    /\ \/ items' = ItemsIn(s) /\ RequestWorks
       \/ items' = {} /\ RequestFails
    /\ UNCHANGED <<world, dry, toLook, left, found, deleted, still, lacking, changes>>

\* Mutant: the parts of one version only.
PartsOfOne(i) ==
    LET versions == {m \in library : Item[m] = i}
    IN  IF versions = {} THEN {} ELSE Parts[CHOOSE m \in versions : TRUE]

PartsOf(i) == UNION {Parts[m] : m \in {n \in library : Item[n] = i}}

ReadItem(i) ==
    /\ pc = "items" /\ i \in items
    /\ pc' = "parts" /\ items' = items \ {i} /\ still' = TRUE
    /\ \/ toLook' = PartsOf(i) /\ RequestWorks
       \/ toLook' = {} /\ RequestFails
    /\ UNCHANGED <<world, dry, sections, section, left, found, deleted, lacking, changes>>

\* Mutant: every answer but 200 is a file that is gone.
UnavailableUnlessOk(code) == code # 200
Unavailable(code) == code = 404

\* Plex answers a HEAD with 404 when it does not find the file.  What fails may be
\* answered with 404 as well, by the ingress or a proxy that does not find Plex.
HeadPart(p) ==
    /\ pc = "parts" /\ p \in toLook
    /\ toLook' = toLook \ {p}
    /\ \E code \in {200, 404, 500} :
        /\ \/ code = (IF p \in Visible THEN 200 ELSE 404) /\ RequestWorks /\ UNCHANGED still
           \/ code = 500 /\ RequestFails /\ UNCHANGED still
           \/ code = 404 /\ RequestFails /\ still' = FALSE
        /\ left' = IF Unavailable(code) THEN left \cup {p} ELSE left
    /\ UNCHANGED <<world, dry, pc, walk, found, deleted, lacking, changes>>

\* One line of check_media_parts: the version of the part is to go.
Take(p) ==
    /\ pc = "parts" /\ toLook = {} /\ p \in left
    /\ left' = left \ {p} /\ found' = found + 1
    /\ UNCHANGED <<dry, pc, walk, toLook, still, lacking, changes>>

WouldDelete(p) ==
    /\ Take(p) /\ dry
    /\ deleted' = deleted + 1
    /\ UNCHANGED <<world, clean, fails>>

\* Plex drops the version, with those of its files it finds.
Remove(m) ==
    /\ library' = library \ {m} /\ there' = there \ (Parts[m] \cap Visible)
    /\ UNCHANGED mounted

Delete(p) ==
    /\ Take(p) /\ ~dry /\ VersionOf(p) \in library
    /\ Remove(VersionOf(p)) /\ deleted' = deleted + 1 /\ RequestWorks

\* The version went with an earlier part, or by other hands: Plex answers with 404,
\* or it refuses.  To curl -s that is an answer like any other.
DeleteNothing(p) ==
    /\ Take(p) /\ ~dry
    /\ \/ VersionOf(p) \notin library /\ RequestWorks
       \/ VersionOf(p) \in library /\ RequestFails
    /\ deleted' = deleted + 1
    /\ UNCHANGED world

\* curl fails, with the request lost or the answer.
DeleteUnanswered(p) ==
    /\ Take(p) /\ ~dry /\ RequestFails
    /\ Remove(VersionOf(p)) \/ UNCHANGED world
    /\ UNCHANGED deleted

ItemDone ==
    /\ pc = "parts" /\ toLook = {} /\ left = {}
    /\ pc' = "items" /\ still' = FALSE
    /\ UNCHANGED <<world, dry, walk, toLook, left, found, deleted, clean, lacking, changes, fails>>

\* The summary is printed, and the counters are gone.
LibraryDone ==
    /\ pc = "items" /\ items = {}
    /\ pc' = "sections" /\ section' = 0 /\ found' = 0 /\ deleted' = 0
    /\ UNCHANGED <<world, dry, sections, items, toLook, left, history, changes, fails>>

Finish ==
    /\ pc = "sections" /\ sections = {}
    /\ pc' = "done" /\ lacking' = {}
    /\ UNCHANGED <<world, dry, walk, toLook, left, found, deleted, clean, still, changes, fails>>

\* Ctrl-C: nothing is kept.
Interrupt ==
    /\ pc \in {"sections", "items", "parts"}
    /\ pc' = "idle" /\ sections' = {} /\ section' = 0 /\ items' = {} /\ toLook' = {} /\ left' = {}
    /\ found' = 0 /\ deleted' = 0 /\ clean' = FALSE /\ still' = FALSE /\ lacking' = {}
    /\ UNCHANGED <<world, dry, changes, fails>>

Run ==
    \/ Start \/ ItemDone \/ LibraryDone \/ Finish \/ Interrupt
    \/ \E s \in Sections : SkipLibrary(s) \/ ListItems(s)
    \/ \E i \in items : ReadItem(i)
    \/ \E p \in Files : HeadPart(p) \/ WouldDelete(p) \/ Delete(p) \/ DeleteNothing(p) \/ DeleteUnanswered(p)

------------------------------------------------------------------------------
(* Everyone else *)

Change ==
    /\ changes < MaxChanges /\ changes' = changes + 1
    /\ clean' = FALSE /\ still' = FALSE
    /\ UNCHANGED <<dry, pc, walk, toLook, left, found, deleted, lacking, fails>>

FileGoes == Change /\ (\E f \in there : there' = there \ {f}) /\ UNCHANGED <<library, mounted>>
FileComes == Change /\ (\E f \in Files \ there : there' = there \cup {f}) /\ UNCHANGED <<library, mounted>>
MountSwitches == Change /\ mounted' = ~mounted /\ UNCHANGED <<library, there>>
VersionAdded == Change /\ (\E m \in Media \ library : library' = library \cup {m}) /\ UNCHANGED <<there, mounted>>
VersionDropped == Change /\ (\E m \in library : library' = library \ {m}) /\ UNCHANGED <<there, mounted>>

Others == FileGoes \/ FileComes \/ MountSwitches \/ VersionAdded \/ VersionDropped

Next == Run \/ Others

Spec == Init /\ [][Next]_vars

------------------------------------------------------------------------------
(* Properties *)

\* Every variable keeps its type, and no library has more deletions than findings.
TypeOK ==
    /\ library \in SUBSET Media /\ there \in SUBSET Files /\ mounted \in BOOLEAN /\ dry \in BOOLEAN
    /\ pc \in {"idle", "sections", "items", "parts", "done"}
    /\ sections \in SUBSET Sections /\ section \in Sections \cup {0}
    /\ items \in SUBSET {Item[m] : m \in Media}
    /\ toLook \in SUBSET Files /\ left \in SUBSET Files
    /\ found \in Nat /\ deleted \in 0..found
    /\ clean \in BOOLEAN /\ still \in BOOLEAN /\ lacking \in SUBSET Files
    /\ changes \in 0..MaxChanges /\ fails \in 0..MaxFail

\* A version that goes misses a part at that very moment, whatever Plex answered to
\* the requests before, unless something changed since its item was read or a 404 was
\* not about the file: there is no second look, but the look is at one item, and no
\* other error is taken for 404 (cleanup-unavailable.sh:203, 312-327).  With the mount
\* away every part is missing.
MissingWhenDeleted ==
    [][Run /\ still => \A m \in library \ library' : ~(Parts[m] \subseteq Visible)]_vars

\* The summary of a library that nothing disturbed counts the missing parts it had
\* when the run began, each once, in a dry run and in one that deletes as well, where
\* a version with several of them is asked to be deleted as often (320-325, 332-339).
SectionOf(p) == Section[Item[VersionOf(p)]]
SummaryRight ==
    pc = "items" /\ items = {} /\ clean =>
        /\ found = Cardinality({p \in lacking : SectionOf(p) = section})
        /\ deleted = found

\* After a run that nothing disturbed no version of a movie or show library misses a
\* part, whatever earlier runs left behind: deletions that were refused and counted as
\* done, runs that ended half way, items that could not be read (273, 324-326).
IsFilm(m) == Kind[Section[Item[m]]] \in {"movie", "show"}
CleanRunCleans ==
    pc = "done" /\ clean /\ ~dry => \A m \in library : IsFilm(m) => Parts[m] \subseteq Visible
==============================================================================
