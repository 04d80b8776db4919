------------------------ MODULE CleanupUnavailableProofs ------------------------
(* What holds of cleanup-unavailable.sh for any library, any number of failing    *)
(* requests and any changes by others: what goes misses a part, and what a quiet  *)
(* run leaves behind misses none.                                                 *)
EXTENDS CleanupUnavailable, FiniteSetTheorems, TLAPS

\* The script is where its loops are: nothing is left of a part, an item or a library
\* when the next one begins.
Loops ==
    /\ pc # "parts" => toLook = {} /\ left = {} /\ still = FALSE
    /\ pc \in {"idle", "sections", "done"} => items = {}
    /\ pc \in {"idle", "done"} => sections = {}

\* While nothing changes and the answers are Plex's, what is to be deleted is not there.
Evidence == still => left \cap Visible = {}

\* In a quiet run, what misses a part is in a library or an item still to come, or its
\* missing parts are among those that are looked at.
Pending ==
    clean /\ ~dry /\ pc # "idle" =>
        \A m \in library : IsFilm(m) =>
            \/ Section[Item[m]] \in sections
            \/ Section[Item[m]] = section /\ Item[m] \in items
            \/ Parts[m] \ Visible \subseteq toLook \cup left

\* The parts that were missing at the start of the run, of the items of this library
\* that were or are being checked, and those of them that are still to be counted.
Begun == {p \in lacking : SectionOf(p) = section /\ Item[VersionOf(p)] \notin items}
Due == left \cup (toLook \ Visible)

\* In a quiet run, what is ahead misses what it missed at the start, and what is behind
\* is counted, each part once.
Counted ==
    /\ pc \in {"idle", "sections", "done"} => found = 0 /\ deleted = 0
    /\ clean =>
        /\ deleted = found
        /\ pc \in {"sections", "items", "parts"} =>
            \A s \in sections : PartsIn(s) \ Visible = {p \in lacking : SectionOf(p) = s}
        /\ pc \in {"items", "parts"} =>
            /\ section \in Sections \ sections
            /\ \A i \in items : /\ Section[i] = section
                               /\ PartsOf(i) \ Visible = {p \in lacking : Item[VersionOf(p)] = i}
            /\ Due \subseteq Begun
            /\ found = Cardinality(Begun \ Due)

IInv == TypeOK /\ Loops /\ Evidence /\ Pending /\ Counted

LEMMA OwnVersion ==
    ASSUME NEW p \in Files
    PROVE  VersionOf(p) \in Media /\ p \in Parts[VersionOf(p)] /\ \A m \in Media : p \in Parts[m] => m = VersionOf(p)
<1>1. \E m \in Media : p \in Parts[m]
  BY DEF Files
<1>2. VersionOf(p) \in Media /\ p \in Parts[VersionOf(p)]
  BY <1>1 DEF VersionOf
<1> QED
  BY <1>2, LibraryAssumption

\* A version that Plex drops takes no other version's files with it.
LEMMA Removed ==
    ASSUME TypeOK, NEW m \in Media, Remove(m)
    PROVE  /\ Visible' \subseteq Visible
           /\ \A n \in library' : n \in library /\ n # m /\ Parts[n] \ Visible' = Parts[n] \ Visible
<1>1. library' = library \ {m} /\ there' = there \ (Parts[m] \cap Visible) /\ mounted' = mounted
  BY DEF Remove
<1>2. Visible' = Visible \ Parts[m]
  BY <1>1 DEF Visible
<1>3. \A n \in library' : n \in Media /\ n # m /\ Parts[n] \cap Parts[m] = {}
  BY <1>1, LibraryAssumption DEF TypeOK
<1> QED
  BY <1>1, <1>2, <1>3

------------------------------------------------------------------------------
LEMMA TypeInit == Init => TypeOK
<1> SUFFICES ASSUME Init PROVE TypeOK
  OBVIOUS
<1>1. mounted \in BOOLEAN /\ dry \in BOOLEAN /\ clean \in BOOLEAN /\ still \in BOOLEAN
  BY Zenon DEF Init
<1>2. /\ library \in SUBSET Media /\ there \in SUBSET Files /\ sections = {} /\ section = 0 /\ items = {}
      /\ toLook = {} /\ left = {} /\ lacking = {} /\ found = 0 /\ deleted = 0 /\ changes = 0 /\ fails = 0
      /\ pc = "idle"
  BY DEF Init
<1> QED
  BY <1>1, <1>2, LibraryAssumption DEF TypeOK

LEMMA RequestTypes == ASSUME TypeOK, RequestFails \/ RequestWorks PROVE clean' \in BOOLEAN /\ fails' \in 0..MaxFail
<1>1. clean' \in BOOLEAN
  BY Zenon DEF RequestFails, RequestWorks, TypeOK
<1>2. fails' \in 0..MaxFail
  BY LibraryAssumption DEF RequestFails, RequestWorks, TypeOK
<1> QED
  BY <1>1, <1>2

\* Files and items that a listing names exist.
LEMMA ListingTypes ==
    ASSUME TypeOK
    PROVE  /\ \A s \in Sections : ItemsIn(s) \subseteq {Item[m] : m \in Media} /\ PartsIn(s) \subseteq Files
           /\ \A i : PartsOf(i) \subseteq Files
  BY DEF TypeOK, ItemsIn, VersionsIn, PartsIn, PartsOf, Files

LEMMA TypeRun == ASSUME TypeOK, Run PROVE TypeOK'
<1>1. CASE Start
  <2>1. lacking' \in SUBSET Files /\ sections' \in SUBSET Sections
    BY <1>1, ListingTypes DEF Start
  <2>2. clean' \in BOOLEAN
    BY <1>1, Zenon DEF Start, RequestFails
  <2>3. fails' \in 0..MaxFail
    BY <1>1, LibraryAssumption DEF Start, RequestFails, TypeOK
  <2> QED
    BY <1>1, <2>1, <2>2, <2>3 DEF Start, TypeOK, world
<1>2. CASE ItemDone
  BY <1>2 DEF ItemDone, TypeOK, world, walk
<1>3. CASE LibraryDone
  BY <1>3 DEF LibraryDone, TypeOK, world, history
<1>4. CASE Finish
  BY <1>4 DEF Finish, TypeOK, world, walk
<1>5. CASE Interrupt
  <2>1. found' = 0 /\ deleted' = 0 /\ section' = 0 /\ pc' = "idle"
        /\ sections' = {} /\ items' = {} /\ toLook' = {} /\ left' = {} /\ lacking' = {}
    BY <1>5 DEF Interrupt
  <2>2. clean' \in BOOLEAN /\ still' \in BOOLEAN
    BY <1>5, Zenon DEF Interrupt
  <2>3. UNCHANGED <<library, there, mounted, dry, changes, fails>>
    BY <1>5 DEF Interrupt, world
  <2> QED
    BY <2>1, <2>2, <2>3 DEF TypeOK
<1>6. ASSUME NEW s \in Sections, SkipLibrary(s) PROVE TypeOK'
  BY <1>6 DEF SkipLibrary, TypeOK, world, history
<1>7. ASSUME NEW s \in Sections, ListItems(s) PROVE TypeOK'
  <2>1. items' \in SUBSET {Item[m] : m \in Media} /\ clean' \in BOOLEAN /\ fails' \in 0..MaxFail
    BY <1>7, ListingTypes, RequestTypes DEF ListItems
  <2> QED
    BY <1>7, <2>1 DEF ListItems, TypeOK, world
<1>8. ASSUME NEW i \in items, ReadItem(i) PROVE TypeOK'
  <2>1. toLook' \in SUBSET Files /\ clean' \in BOOLEAN /\ fails' \in 0..MaxFail
    BY <1>8, ListingTypes, RequestTypes DEF ReadItem
  <2> QED
    BY <1>8, <2>1 DEF ReadItem, TypeOK, world
<1>9. ASSUME NEW p \in Files, HeadPart(p) PROVE TypeOK'
  <2>1. RequestWorks \/ RequestFails
    BY <1>9 DEF HeadPart
  <2>2. clean' \in BOOLEAN /\ fails' \in 0..MaxFail
    BY <2>1, RequestTypes
  <2>3. left' \in {left, left \cup {p}} /\ (still' = still \/ still' = FALSE)
    BY <1>9, Zenon DEF HeadPart
  <2>4. /\ UNCHANGED <<library, there, mounted, dry, pc, sections, section, items, found, deleted, lacking, changes>>
        /\ toLook' = toLook \ {p}
    BY <1>9, Zenon DEF HeadPart, world, walk
  <2> QED
    BY <2>2, <2>3, <2>4 DEF TypeOK
<1>10. ASSUME NEW p \in Files, WouldDelete(p) \/ Delete(p) \/ DeleteNothing(p) \/ DeleteUnanswered(p)
       PROVE  TypeOK'
  <2>1. Take(p) /\ deleted' \in {deleted, deleted + 1}
    BY <1>10 DEF WouldDelete, Delete, DeleteNothing, DeleteUnanswered
  <2>2. found' \in Nat /\ deleted' \in 0..found' /\ left' \in SUBSET Files
    BY <2>1 DEF Take, TypeOK
  <2>3. clean' \in BOOLEAN /\ fails' \in 0..MaxFail
    <3>1. RequestFails \/ RequestWorks
      BY <1>10 DEF WouldDelete, Delete, DeleteNothing, DeleteUnanswered, RequestWorks
    <3> QED
      BY <3>1, RequestTypes
  <2>4. library' \in SUBSET Media /\ there' \in SUBSET Files /\ mounted' = mounted
    BY <1>10 DEF WouldDelete, Delete, DeleteNothing, DeleteUnanswered, Remove, world, TypeOK
  <2> QED
    BY <2>1, <2>2, <2>3, <2>4 DEF Take, TypeOK, walk
<1> QED
  BY <1>1, <1>2, <1>3, <1>4, <1>5, <1>6, <1>7, <1>8, <1>9, <1>10 DEF Run

LEMMA TypeOthers == ASSUME TypeOK, Others PROVE TypeOK'
<1>1. Change
  BY DEF Others, FileGoes, FileComes, MountSwitches, VersionAdded, VersionDropped
<1>2. clean' = FALSE /\ still' = FALSE /\ changes' \in 0..MaxChanges
      /\ UNCHANGED <<dry, pc, sections, section, items, toLook, left, found, deleted, lacking, fails>>
  BY <1>1, LibraryAssumption DEF Change, TypeOK, walk
<1>3. mounted' \in BOOLEAN
  <2>1. mounted' = mounted \/ mounted' = ~mounted
    BY DEF Others, FileGoes, FileComes, MountSwitches, VersionAdded, VersionDropped
  <2> QED
    BY <2>1, Zenon DEF TypeOK
<1>4. library' \in SUBSET Media /\ there' \in SUBSET Files
  BY DEF Others, FileGoes, FileComes, MountSwitches, VersionAdded, VersionDropped, TypeOK
<1> QED
  BY <1>2, <1>3, <1>4 DEF TypeOK

------------------------------------------------------------------------------
(* Where the loops are, and what is to be deleted *)

LEMMA LoopsRun == ASSUME TypeOK, Loops, Evidence, Run PROVE Loops' /\ Evidence'
<1> USE DEF Loops, Evidence
<1>1. CASE Start \/ ItemDone \/ LibraryDone \/ Finish \/ Interrupt
  BY <1>1 DEF Start, ItemDone, LibraryDone, Finish, Interrupt, world, walk, history
<1>2. ASSUME NEW s \in Sections, SkipLibrary(s) \/ ListItems(s) PROVE Loops' /\ Evidence'
  BY <1>2 DEF SkipLibrary, ListItems, world, history
<1>3. ASSUME NEW i \in items, ReadItem(i) PROVE Loops' /\ Evidence'
  BY <1>3 DEF ReadItem, world
<1>4. ASSUME NEW p \in Files, HeadPart(p) PROVE Loops' /\ Evidence'
  <2>1. still' => still /\ left' \subseteq left \cup (IF p \in Visible THEN {} ELSE {p})
    <3> SUFFICES ASSUME still' = TRUE PROVE still /\ left' \subseteq left \cup (IF p \in Visible THEN {} ELSE {p})
      BY <1>4 DEF HeadPart, TypeOK
    <3>1. PICK code \in {200, 404, 500} :
            /\ \/ code = (IF p \in Visible THEN 200 ELSE 404) /\ RequestWorks /\ UNCHANGED still
               \/ code = 500 /\ RequestFails /\ UNCHANGED still
               \/ code = 404 /\ RequestFails /\ still' = FALSE
            /\ left' = IF Unavailable(code) THEN left \cup {p} ELSE left
      BY <1>4 DEF HeadPart
    <3>2. code = (IF p \in Visible THEN 200 ELSE 404) \/ code = 500
      BY <3>1
    <3>3. still' = still
      BY <3>1
    <3> QED
      BY <3>1, <3>2, <3>3 DEF Unavailable
  <2> QED
    BY <1>4, <2>1 DEF HeadPart, world, walk, Visible
<1>5. ASSUME NEW p \in Files, WouldDelete(p) \/ Delete(p) \/ DeleteNothing(p) \/ DeleteUnanswered(p)
      PROVE  Loops' /\ Evidence'
  <2>1. Take(p)
    BY <1>5 DEF WouldDelete, Delete, DeleteNothing, DeleteUnanswered
  <2>2. Visible' \subseteq Visible
    <3>1. CASE UNCHANGED world
      BY <3>1 DEF world, Visible
    <3>2. CASE Remove(VersionOf(p))
      BY <3>2, OwnVersion, Removed
    <3> QED
      BY <1>5, <3>1, <3>2 DEF WouldDelete, Delete, DeleteNothing, DeleteUnanswered
  <2> QED
    BY <2>1, <2>2 DEF Take, walk
<1> QED
  BY <1>1, <1>2, <1>3, <1>4, <1>5 DEF Run

LEMMA LoopsOthers == ASSUME TypeOK, Loops, Others PROVE Loops' /\ Evidence'
<1>1. Change
  BY DEF Others, FileGoes, FileComes, MountSwitches, VersionAdded, VersionDropped
<1> QED
  BY <1>1 DEF Change, Loops, Evidence, walk

------------------------------------------------------------------------------
(* What is still to come in a quiet run *)

LEMMA PendingRun == ASSUME TypeOK, Loops, Pending, Run PROVE Pending'
<1> SUFFICES ASSUME clean', ~dry', pc' # "idle", NEW m \in library', IsFilm(m)
             PROVE  \/ Section[Item[m]] \in sections'
                    \/ Section[Item[m]] = section' /\ Item[m] \in items'
                    \/ Parts[m] \ Visible' \subseteq toLook' \cup left'
  BY DEF Pending
<1> DEFINE Before == \/ Section[Item[m]] \in sections
                     \/ Section[Item[m]] = section /\ Item[m] \in items
                     \/ Parts[m] \ Visible \subseteq toLook \cup left
<1>0. m \in library => m \in Media /\ Section[Item[m]] \in Sections
  BY LibraryAssumption DEF TypeOK
<1>1. CASE Start
  BY <1>0, <1>1 DEF Start, RequestFails, world
<1>2. ASSUME clean, ~dry, pc # "idle", m \in library PROVE Before
  BY <1>2 DEF Pending
<1>3. CASE ItemDone \/ LibraryDone \/ Finish
  <2>0. UNCHANGED <<library, there, mounted, dry, sections, items, toLook, left, clean>> /\ pc # "idle"
    <3>1. CASE ItemDone
      BY <3>1 DEF ItemDone, world, walk
    <3>2. CASE LibraryDone
      BY <3>2 DEF LibraryDone, world, history
    <3>3. CASE Finish
      BY <3>3 DEF Finish, world, walk
    <3> QED
      BY <1>3, <3>1, <3>2, <3>3
  <2>1. clean /\ ~dry /\ pc # "idle" /\ m \in library /\ sections' = sections /\ items' = items
        /\ toLook' = toLook /\ left' = left /\ there' = there /\ mounted' = mounted
    BY <2>0, Zenon
  <2>2. section' = section \/ items = {}
    BY <1>3 DEF ItemDone, LibraryDone, Finish, walk
  <2>3. Visible' = Visible
    BY <2>1 DEF Visible
  <2> QED
    BY <1>2, <2>1, <2>2, <2>3
<1>4. CASE Interrupt
  BY <1>4 DEF Interrupt
<1>5. ASSUME NEW s \in Sections, SkipLibrary(s) PROVE Section[Item[m]] \in sections' \/ Parts[m] \ Visible' \subseteq toLook' \cup left'
  BY <1>2, <1>5 DEF SkipLibrary, Walked, IsFilm, Loops, world, history, Visible
<1>6. ASSUME NEW s \in Sections, ListItems(s)
      PROVE  \/ Section[Item[m]] \in sections'
             \/ Section[Item[m]] = section' /\ Item[m] \in items'
             \/ Parts[m] \ Visible' \subseteq toLook' \cup left'
  <2>1. clean /\ ~dry /\ pc = "sections" /\ items' = ItemsIn(s) /\ section' = s /\ sections' = sections \ {s}
        /\ UNCHANGED <<library, there, mounted, toLook, left>>
    BY <1>6 DEF ListItems, RequestWorks, RequestFails, world
  <2>2. Section[Item[m]] = s => Item[m] \in items'
    BY <2>1 DEF ItemsIn, VersionsIn
  <2> QED
    BY <1>2, <2>1, <2>2 DEF Loops, Visible
<1>7. ASSUME NEW i \in items, ReadItem(i)
      PROVE  \/ Section[Item[m]] \in sections'
             \/ Section[Item[m]] = section' /\ Item[m] \in items'
             \/ Parts[m] \ Visible' \subseteq toLook' \cup left'
  <2>1. clean /\ ~dry /\ pc = "items" /\ toLook' = PartsOf(i) /\ items' = items \ {i}
        /\ UNCHANGED <<library, there, mounted, sections, section, left>>
    BY <1>7 DEF ReadItem, RequestWorks, RequestFails, world
  <2>2. Item[m] = i => Parts[m] \subseteq toLook'
    BY <2>1 DEF PartsOf
  <2>3. Parts[m] \ Visible \subseteq toLook \cup left => Parts[m] \ Visible' \subseteq toLook' \cup left'
    BY <2>1 DEF Loops, Visible
  <2> QED
    BY <1>2, <2>1, <2>2, <2>3
<1>8. ASSUME NEW p \in Files, HeadPart(p)
      PROVE  \/ Section[Item[m]] \in sections'
             \/ Section[Item[m]] = section' /\ Item[m] \in items'
             \/ Parts[m] \ Visible' \subseteq toLook' \cup left'
  <2>1. /\ clean /\ ~dry /\ pc = "parts" /\ toLook' = toLook \ {p}
        /\ UNCHANGED <<library, there, mounted, sections, section, items>>
        /\ left' = IF p \in Visible THEN left ELSE left \cup {p}
    <3>1. PICK code \in {200, 404, 500} :
            /\ \/ code = (IF p \in Visible THEN 200 ELSE 404) /\ RequestWorks
               \/ RequestFails
            /\ left' = IF Unavailable(code) THEN left \cup {p} ELSE left
      BY <1>8 DEF HeadPart
    <3>2. code = (IF p \in Visible THEN 200 ELSE 404) /\ clean
      BY <3>1 DEF RequestWorks, RequestFails
    <3>3. left' = IF p \in Visible THEN left ELSE left \cup {p}
      BY <3>1, <3>2 DEF Unavailable
    <3> QED
      BY <1>8, <3>2, <3>3 DEF HeadPart, world, walk
  <2> QED
    BY <1>2, <2>1 DEF Visible
<1>9. ASSUME NEW p \in Files, WouldDelete(p) \/ Delete(p) \/ DeleteNothing(p) \/ DeleteUnanswered(p)
      PROVE  \/ Section[Item[m]] \in sections'
             \/ Section[Item[m]] = section' /\ Item[m] \in items'
             \/ Parts[m] \ Visible' \subseteq toLook' \cup left'
  <2>1. /\ clean /\ ~dry /\ pc = "parts" /\ toLook' = toLook /\ left' = left \ {p}
        /\ UNCHANGED <<sections, section, items>>
    BY <1>9 DEF WouldDelete, Delete, DeleteNothing, DeleteUnanswered, Take, RequestWorks, RequestFails, walk
  <2>2. m \in library /\ p \notin Parts[m] /\ Parts[m] \ Visible' = Parts[m] \ Visible
    <3>1. CASE Delete(p)
      BY <3>1, OwnVersion, Removed DEF Delete, TypeOK
    <3>2. CASE DeleteNothing(p)
      BY <2>1, <3>2, OwnVersion DEF DeleteNothing, RequestFails, world, Visible, TypeOK
    <3> QED
      BY <1>9, <2>1, <3>1, <3>2 DEF WouldDelete, DeleteUnanswered, Take, RequestFails
  <2> QED
    BY <1>2, <2>1, <2>2
<1> QED
  BY <1>1, <1>3, <1>4, <1>5, <1>6, <1>7, <1>8, <1>9 DEF Run

------------------------------------------------------------------------------
(* What is counted in a quiet run *)

\* There are finitely many files.
LEMMA FilesFinite == IsFiniteSet(Files)
<1> DEFINE T == {Parts[m] : m \in Media}
           f == [m \in Media |-> Parts[m]]
<1>1. f \in Surjection(Media, T)
  BY DEF Surjection
<1>2. IsFiniteSet(T)
  <2> HIDE DEF T, f
  <2> QED
    BY <1>1, LibraryAssumption, FS_Surjection
<1>3. \A t \in T : IsFiniteSet(t)
  BY LibraryAssumption
<1>4. Files = UNION T
  BY DEF Files
<1> HIDE DEF T
<1> QED
  BY <1>2, <1>3, <1>4, FS_UNION

\* A part of a library belongs to a version Plex has.
LEMMA PartsKnown ==
    ASSUME TypeOK, NEW s, NEW p \in PartsIn(s)
    PROVE  p \in Files /\ VersionOf(p) \in library /\ SectionOf(p) = s
<1>1. PICK m \in library : Section[Item[m]] = s /\ p \in Parts[m]
  BY DEF PartsIn, VersionsIn
<1>2. m \in Media /\ p \in Files
  BY <1>1 DEF TypeOK, Files
<1> QED
  BY <1>1, <1>2, OwnVersion DEF SectionOf

\* The same of a part of an item.
LEMMA PartsOfKnown ==
    ASSUME TypeOK, NEW i, NEW p \in PartsOf(i)
    PROVE  p \in Files /\ VersionOf(p) \in library /\ Item[VersionOf(p)] = i
<1>1. PICK m \in library : Item[m] = i /\ p \in Parts[m]
  BY DEF PartsOf
<1>2. m \in Media /\ p \in Files
  BY <1>1 DEF TypeOK, Files
<1> QED
  BY <1>1, <1>2, OwnVersion

\* Every part of a version Plex has is a part of its item and of its library.
LEMMA PartsThere ==
    ASSUME TypeOK, NEW p \in Files, VersionOf(p) \in library
    PROVE  p \in PartsIn(SectionOf(p)) /\ p \in PartsOf(Item[VersionOf(p)])
  BY OwnVersion DEF PartsIn, PartsOf, VersionsIn, SectionOf

LEMMA MissingAtStart ==
    ASSUME Start, NEW p
    PROVE  p \in lacking' <=> p \notin Visible /\ \E t \in Sections : p \in PartsIn(t)
<1>1. lacking' = (UNION {PartsIn(t) : t \in Sections}) \ Visible
  BY DEF Start
<1> QED
  BY <1>1

LEMMA CountedStart == ASSUME TypeOK, Loops, Counted, Start PROVE Counted'
<1> SUFFICES ASSUME clean', NEW s \in sections'
             PROVE  (PartsIn(s) \ Visible)' = {p \in lacking' : SectionOf(p) = s}
  BY DEF Counted, Start
<1>1. sections' = Sections
  BY DEF Start, RequestFails
<1>2. PartsIn(s)' = PartsIn(s) /\ Visible' = Visible
  BY DEF Start, world, PartsIn, VersionsIn, Visible
<1>3. ASSUME NEW p \in PartsIn(s) \ Visible PROVE p \in lacking' /\ SectionOf(p) = s
  BY <1>1, MissingAtStart, PartsKnown
<1>4. ASSUME NEW p \in lacking', SectionOf(p) = s PROVE p \in PartsIn(s) \ Visible
  <2>1. PICK t \in Sections : p \in PartsIn(t) \ Visible
    BY MissingAtStart
  <2> QED
    BY <1>4, <2>1, PartsKnown
<1> QED
  BY <1>2, <1>3, <1>4

LEMMA CountedListing ==
    ASSUME TypeOK, Loops, Counted, NEW s \in Sections, SkipLibrary(s) \/ ListItems(s)
    PROVE  Counted'
<1>0. UNCHANGED <<library, there, mounted, lacking, found, deleted, toLook, left>> /\ s \in sections
  BY DEF SkipLibrary, ListItems, world, history
<1>1. Visible' = Visible /\ (\A t : PartsIn(t)' = PartsIn(t)) /\ \A i : PartsOf(i)' = PartsOf(i)
  BY <1>0 DEF Visible, PartsIn, VersionsIn, PartsOf
<1>2. CASE SkipLibrary(s)
  BY <1>0, <1>1, <1>2 DEF SkipLibrary, Counted, history
<1>3. CASE ListItems(s)
  <2>1. pc = "sections" /\ pc' = "items" /\ sections' = sections \ {s} /\ section' = s /\ found = 0 /\ deleted = 0
        /\ toLook = {} /\ left = {}
    BY <1>3 DEF ListItems, Counted, Loops
  <2> SUFFICES ASSUME clean'
               PROVE  /\ \A t \in sections' : PartsIn(t) \ Visible = {p \in lacking : SectionOf(p) = t}
                      /\ \A i \in items' : /\ Section[i] = s
                                          /\ PartsOf(i) \ Visible = {p \in lacking : Item[VersionOf(p)] = i}
                      /\ Due' \subseteq Begun' /\ found' = Cardinality(Begun' \ Due')
    BY <1>0, <1>1, <2>1 DEF Counted
  <2>2. clean /\ items' = ItemsIn(s)
    BY <1>3 DEF ListItems, RequestWorks, RequestFails
  <2>3. \A t \in sections : PartsIn(t) \ Visible = {p \in lacking : SectionOf(p) = t}
    BY <2>1, <2>2 DEF Counted
  <2>4. ASSUME NEW i \in items'
        PROVE  Section[i] = s /\ PartsOf(i) \ Visible = {p \in lacking : Item[VersionOf(p)] = i}
    <3>1. Section[i] = s
      BY <2>2 DEF ItemsIn, VersionsIn
    <3>2. ASSUME NEW p \in PartsOf(i), p \notin Visible PROVE p \in lacking /\ Item[VersionOf(p)] = i
      <4>1. p \in Files /\ VersionOf(p) \in library /\ Item[VersionOf(p)] = i
        BY PartsOfKnown
      <4>2. p \in PartsIn(s)
        BY <3>1, <4>1, PartsThere DEF SectionOf
      <4> QED
        BY <1>0, <2>3, <3>2, <4>1, <4>2
    <3>3. ASSUME NEW p \in lacking, Item[VersionOf(p)] = i PROVE p \in PartsOf(i) /\ p \notin Visible
      <4>1. p \in PartsIn(s) \ Visible
        BY <1>0, <2>3, <3>1, <3>3 DEF SectionOf
      <4> QED
        BY <3>3, <4>1, PartsKnown, PartsThere
    <3> QED
      BY <3>1, <3>2, <3>3
  <2>5. Begun' = {}
    <3> SUFFICES ASSUME NEW p \in lacking, SectionOf(p) = s PROVE Item[VersionOf(p)] \in items'
      BY <1>0, <2>1 DEF Begun
    <3>1. VersionOf(p) \in library
      BY <1>0, <2>3, PartsKnown
    <3> QED
      BY <2>2, <3>1 DEF ItemsIn, VersionsIn, SectionOf
  <2>6. Due' = {}
    BY <1>0, <2>1 DEF Due
  <2> QED
    BY <1>0, <2>1, <2>3, <2>4, <2>5, <2>6, FS_EmptySet
<1> QED
  BY <1>2, <1>3

LEMMA CountedReading ==
    ASSUME TypeOK, Loops, Counted, NEW i \in items, ReadItem(i)
    PROVE  Counted'
<1>1. UNCHANGED <<library, there, mounted, lacking, found, deleted, sections, section, left>>
      /\ pc = "items" /\ pc' = "parts" /\ items' = items \ {i}
  BY DEF ReadItem, world
<1> SUFFICES ASSUME clean' PROVE Counted'
  BY <1>1 DEF Counted
<1>2. clean /\ toLook' = PartsOf(i) /\ toLook = {} /\ left = {}
  BY DEF ReadItem, RequestWorks, RequestFails, Loops
<1>3. Visible' = Visible /\ (\A t : PartsIn(t)' = PartsIn(t)) /\ \A j : PartsOf(j)' = PartsOf(j)
  BY <1>1 DEF Visible, PartsIn, VersionsIn, PartsOf
<1>4. Due = {} /\ Due' = {p \in lacking : Item[VersionOf(p)] = i} /\ Section[i] = section
  BY <1>1, <1>2, <1>3 DEF Due, Counted
<1>5. Begun' = Begun \cup Due' /\ Begun \cap Due' = {}
  BY <1>1, <1>4 DEF Begun, SectionOf
<1>6. Begun' \ Due' = Begun \ Due /\ Due' \subseteq Begun'
  BY <1>4, <1>5
<1> QED
  BY <1>1, <1>2, <1>3, <1>6 DEF Counted

LEMMA CountedLooking ==
    ASSUME TypeOK, Loops, Counted, NEW p \in Files, HeadPart(p)
    PROVE  Counted'
<1>1. UNCHANGED <<library, there, mounted, lacking, found, deleted, sections, section, items, pc>>
      /\ pc = "parts" /\ p \in toLook /\ toLook' = toLook \ {p}
  BY DEF HeadPart, world, walk
<1> SUFFICES ASSUME clean' PROVE Counted'
  BY <1>1 DEF Counted
<1>2. PICK code \in {200, 404, 500} :
        /\ \/ code = (IF p \in Visible THEN 200 ELSE 404) /\ RequestWorks
           \/ RequestFails
        /\ left' = IF Unavailable(code) THEN left \cup {p} ELSE left
  BY DEF HeadPart
<1>3. clean /\ left' = IF p \in Visible THEN left ELSE left \cup {p}
  <2>1. clean /\ code = IF p \in Visible THEN 200 ELSE 404
    BY <1>2 DEF RequestWorks, RequestFails
  <2> QED
    BY <1>2, <2>1 DEF Unavailable
<1>4. Visible' = Visible /\ (\A t : PartsIn(t)' = PartsIn(t)) /\ \A j : PartsOf(j)' = PartsOf(j)
  BY <1>1 DEF Visible, PartsIn, VersionsIn, PartsOf
<1>5. Due' = Due /\ Begun' = Begun
  BY <1>1, <1>3, <1>4 DEF Due, Begun
<1> QED
  BY <1>1, <1>3, <1>4, <1>5 DEF Counted

\* What goes with a version that is deleted changes nothing for other items and libraries.
LEMMA CountedTaking ==
    ASSUME TypeOK, Loops, Counted, NEW p \in Files,
           WouldDelete(p) \/ Delete(p) \/ DeleteNothing(p) \/ DeleteUnanswered(p)
    PROVE  Counted'
<1>1. UNCHANGED <<lacking, sections, section, items, pc, toLook>>
      /\ pc = "parts" /\ toLook = {} /\ p \in left /\ left' = left \ {p} /\ found' = found + 1
  BY DEF WouldDelete, Delete, DeleteNothing, DeleteUnanswered, Take, walk
<1> SUFFICES ASSUME clean' PROVE Counted'
  BY <1>1 DEF Counted
<1>2. clean /\ deleted' = deleted + 1
  BY DEF WouldDelete, Delete, DeleteNothing, DeleteUnanswered, RequestWorks, RequestFails
<1>3. Due = left /\ Due' = left \ {p} /\ Begun' = Begun /\ p \in Begun
  BY <1>1, <1>2 DEF Due, Begun, Counted
<1>4. Due' \subseteq Begun' /\ found' = Cardinality(Begun' \ Due')
  <2>1. Begun' \ Due' = (Begun \ Due) \cup {p} /\ p \notin Begun \ Due
    BY <1>1, <1>3
  <2>2. IsFiniteSet(Begun \ Due)
    BY FilesFinite, FS_Subset DEF Begun, TypeOK
  <2>3. Cardinality(Begun' \ Due') = Cardinality(Begun \ Due) + 1
    BY <2>1, <2>2, FS_AddElement
  <2> QED
    BY <1>1, <1>2, <1>3, <2>3 DEF Counted
<1> DEFINE m == VersionOf(p)
<1>5. m \in Media /\ Section[Item[m]] = section /\ Item[m] \notin items
  BY <1>3, OwnVersion DEF Begun, SectionOf
<1>6. /\ \A n \in library' : n \in library /\ Parts[n] \ Visible' = Parts[n] \ Visible
      /\ \A n \in library : n # m => n \in library'
  <2>1. CASE UNCHANGED world
    BY <2>1 DEF world, Visible
  <2>2. CASE Remove(m)
    BY <1>5, <2>2, Removed DEF Remove
  <2> QED
    BY <2>1, <2>2 DEF WouldDelete, Delete, DeleteNothing, DeleteUnanswered
<1>7. ASSUME NEW s \in sections PROVE PartsIn(s)' \ Visible' = PartsIn(s) \ Visible
  <2>1. s # section
    BY <1>1, <1>2 DEF Counted
  <2>2. \A n \in library : Section[Item[n]] = s => n \in library'
    BY <1>5, <1>6, <2>1
  <2>3. PartsIn(s) = UNION {Parts[n] : n \in {k \in library : Section[Item[k]] = s}}
        /\ PartsIn(s)' = UNION {Parts[n] : n \in {k \in library' : Section[Item[k]] = s}}
    BY DEF PartsIn, VersionsIn
  <2> QED
    BY <1>6, <2>2, <2>3
<1>8. ASSUME NEW i \in items PROVE PartsOf(i)' \ Visible' = PartsOf(i) \ Visible
  <2>1. \A n \in library : Item[n] = i => n \in library'
    BY <1>5, <1>6
  <2> QED
    BY <1>6, <2>1 DEF PartsOf
<1> QED
  BY <1>1, <1>2, <1>4, <1>7, <1>8 DEF Counted

LEMMA CountedRun == ASSUME TypeOK, Loops, Counted, Run PROVE Counted'
<1>1. CASE ItemDone \/ LibraryDone \/ Finish \/ Interrupt
  <2>1. CASE ItemDone \/ LibraryDone \/ Finish
    <3>1. UNCHANGED <<library, there, mounted, sections, clean, items, toLook, left>>
      BY <2>1 DEF ItemDone, LibraryDone, Finish, world, walk, history
    <3>2. Visible' = Visible /\ (\A t : PartsIn(t)' = PartsIn(t)) /\ \A j : PartsOf(j)' = PartsOf(j)
      BY <3>1 DEF Visible, PartsIn, VersionsIn, PartsOf
    <3>3. CASE ItemDone
      <4>1. UNCHANGED <<section, found, deleted, lacking>> /\ pc = "parts" /\ pc' = "items"
        BY <3>3 DEF ItemDone, walk
      <4>2. Due' = Due /\ Begun' = Begun
        BY <3>1, <3>2, <4>1 DEF Due, Begun
      <4> QED
        BY <3>1, <3>2, <4>1, <4>2 DEF Counted
    <3>4. CASE LibraryDone
      BY <3>1, <3>2, <3>4 DEF LibraryDone, Counted, history
    <3>5. CASE Finish
      BY <3>1, <3>5 DEF Finish, Counted
    <3> QED
      BY <2>1, <3>3, <3>4, <3>5
  <2>2. CASE Interrupt
    BY <2>2 DEF Interrupt, Counted
  <2> QED
    BY <1>1, <2>1, <2>2
<1> QED
  BY <1>1, CountedStart, CountedListing, CountedReading, CountedLooking, CountedTaking DEF Run

LEMMA CountedOthers == ASSUME Counted, Others PROVE Counted'
<1>1. Change
  BY DEF Others, FileGoes, FileComes, MountSwitches, VersionAdded, VersionDropped
<1> QED
  BY <1>1 DEF Change, Counted

LEMMA Invariant == Spec => []IInv
<1>1. Init => IInv
  BY TypeInit DEF Init, IInv, Loops, Evidence, Pending, Counted
<1>2. IInv /\ [Next]_vars => IInv'
  <2> SUFFICES ASSUME IInv, [Next]_vars PROVE IInv'
    OBVIOUS
  <2>1. CASE Run
    BY <2>1, TypeRun, LoopsRun, PendingRun, CountedRun DEF IInv
  <2>2. CASE Others
    <3>1. Pending'
      BY <2>2 DEF Others, FileGoes, FileComes, MountSwitches, VersionAdded, VersionDropped, Change, Pending
    <3> QED
      BY <2>2, <3>1, TypeOthers, LoopsOthers, CountedOthers DEF IInv
  <2>3. CASE UNCHANGED vars
    <3>1. Counted'
      BY <2>3 DEF vars, world, walk, history, IInv, Counted, Begun, Due, Visible, PartsIn, VersionsIn, PartsOf
    <3> QED
      BY <2>3, <3>1 DEF vars, world, walk, history, IInv, TypeOK, Loops, Evidence, Pending, Visible
  <2> QED
    BY <2>1, <2>2, <2>3 DEF Next
<1> QED
  BY <1>1, <1>2, PTL DEF Spec

------------------------------------------------------------------------------
(* The theorems *)

\* Every variable keeps its type: no more is counted as deleted than as found
\* (cleanup-unavailable.sh:320-326).
THEOREM TypeCorrect == Spec => []TypeOK
  BY Invariant, PTL DEF IInv

\* A quiet run leaves no version of a movie or show library that misses a part,
\* whatever the runs before it did (312-330, 388-392).
THEOREM CleanRunsClean == Spec => []CleanRunCleans
<1>1. IInv => CleanRunCleans
  BY DEF IInv, CleanRunCleans, Pending, Loops
<1> QED
  BY <1>1, Invariant, PTL

\* The summary of a library in a run that nothing disturbs is right: every part that was
\* missing is counted once, also when its version went with another of its parts, and
\* whatever runs before left in the counters (318-326, 332-339).
THEOREM SummaryIsRight == Spec => []SummaryRight
<1>1. IInv => SummaryRight
  <2> SUFFICES ASSUME IInv, pc = "items", items = {}, clean
               PROVE  found = Cardinality({p \in lacking : SectionOf(p) = section}) /\ deleted = found
    BY DEF SummaryRight
  <2>1. Due = {} /\ Begun = {p \in lacking : SectionOf(p) = section}
    BY DEF IInv, Loops, Due, Begun
  <2>2. Begun \ Due = Begun
    BY <2>1
  <2> QED
    BY <2>1, <2>2 DEF IInv, Counted
<1> QED
  BY <1>1, Invariant, PTL

\* Unless something changed since its item was read, a version that goes misses a part
\* at that moment (203, 312-327).
THEOREM MissingWhenItGoes == Spec => MissingWhenDeleted
<1> DEFINE Fine == Run /\ still => \A m \in library \ library' : ~(Parts[m] \subseteq Visible)
<1>1. IInv /\ [Next]_vars => [Fine]_vars
  <2> SUFFICES ASSUME IInv, Run, still, NEW m \in library \ library' PROVE ~(Parts[m] \subseteq Visible)
    OBVIOUS
  <2>1. PICK p \in Files : Delete(p) \/ DeleteUnanswered(p)
    BY DEF Run, Start, ItemDone, LibraryDone, Finish, Interrupt, SkipLibrary, ListItems, ReadItem, HeadPart,
           WouldDelete, DeleteNothing, world
  <2>2. p \in left /\ m = VersionOf(p)
    BY <2>1 DEF Delete, DeleteUnanswered, Take, Remove, world
  <2> QED
    BY <2>2, OwnVersion DEF IInv, Evidence
<1> QED
  BY <1>1, Invariant, PTL DEF Spec, MissingWhenDeleted
==============================================================================
