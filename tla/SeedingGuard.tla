----------------------------- MODULE SeedingGuard -----------------------------
(***************************************************************************)
(* The seeding guard of maintainerr: a CronJob that gives every movie and  *)
(* show with a file that a torrent still links to the Plex label "seeding",*)
(* and takes it from the others.  Maintainerr's rules leave labelled items *)
(* alone.  The guard writes the whole set of an item's labels, as the      *)
(* listing of the section had it; in the meantime torrents come and go,    *)
(* users label, items are deleted and the mount may be away.               *)
(*                                                                         *)
(* concurrencyPolicy Forbid: there is one pass at a time.                  *)
(***************************************************************************)
EXTENDS Naturals, Sequences

CONSTANTS
    Movies, Shows,   \* items, by section
    Files,           \* below LIBRARY_PATH
    FilesOf,         \* of a movie its parts, of a show those of its episodes
    MaxLinks,        \* bound on the torrents that come or go
    MaxUser,         \* bound on the labels that users set or take
    MaxMount,        \* bound on the changes of the mount
    MaxFail          \* bound on the calls and writes that fail

Items == Movies \cup Shows
Labels == {"seeding", "kids"}   \* the guard's, and one of the users'
Sections == <<Movies, Shows>>

ASSUME ItemsAssumption ==
    /\ Movies \cap Shows = {} /\ FilesOf \in [Items -> SUBSET Files]
    /\ \A a, b \in Items : a # b => FilesOf[a] \cap FilesOf[b] = {}
    /\ MaxLinks \in Nat /\ MaxUser \in Nat /\ MaxMount \in Nat /\ MaxFail \in Nat

VARIABLES
    library,   \* items that Plex has
    labels,    \* of each item
    linked,    \* files with a link count above one
    mount,     \* is the library there for the guard?
    pc,        \* "idle", or what the pass does next
    sec,       \* the section it is in
    items,     \* the listing: items, and their labels in it
    seeding,   \* those with a file that was seen linked
    look, todo,\* files still to look at, and items still to decide about
    tries,     \* pods the job may still start after this one
    late,      \* PUTs that Plex has not dealt with when their pod gives up: item, labels
    steady,    \* history: files linked since the pass began, the mount there and no
               \* late PUT for their item
    free,      \* history: items of the library without a link since then, their labels
               \* left alone by users and late PUTs
    changes    \* counts what is bounded

pass == <<pc, sec, items, seeding, look, todo, tries>>
history == <<steady, free>>
vars == <<library, labels, linked, mount, pass, late, history, changes>>

Linked(it) == FilesOf[it] \cap linked # {}
FilesIn(its) == UNION {FilesOf[it] : it \in its}
Bounded(kind, max) == changes[kind] < max /\ changes' = [changes EXCEPT ![kind] = @ + 1]

Init ==
    /\ library = Items /\ labels \in [Items -> {{}, {"kids"}}]
    /\ linked \in SUBSET Files /\ mount \in BOOLEAN
    /\ pc = "idle" /\ sec = 1 /\ items = [it \in {} |-> {}] /\ seeding = {}
    /\ look = {} /\ todo = {} /\ tries = 0 /\ late = {}
    /\ steady = {} /\ free = {}
    /\ changes = [links |-> 0, user |-> 0, mount |-> 0, fail |-> 0]

------------------------------------------------------------------------------
(* The guard *)

\* A pod keeps nothing of the one before, nor a section of the one before it.
Afresh == items' = [it \in {} |-> {}] /\ seeding' = {} /\ look' = {} /\ todo' = {}

\* A pod begins, and so does what is said about its pass.
Begin ==
    /\ pc' = "list" /\ sec' = 1 /\ Afresh
    /\ steady' = (IF mount THEN linked ELSE {}) /\ free' = {it \in library : ~Linked(it)}

Scheduled ==
    /\ pc = "idle" /\ Begin /\ tries' = 1
    /\ UNCHANGED <<library, labels, linked, mount, late, changes>>

\* The items of a section with their labels.
List ==
    /\ pc = "list"
    /\ LET here == Sections[sec] \cap library
       IN  items' = [it \in here |-> labels[it]] /\ look' = FilesIn(here)
    /\ pc' = "look"
    /\ UNCHANGED <<library, labels, linked, mount, sec, seeding, todo, tries, late, history, changes>>

\* Mutant: of several episodes the one that is looked at last decides.
LookLast ==
    /\ pc = "look"
    /\ \E it \in DOMAIN items : \E f \in FilesOf[it] \cap look :
         /\ look' = look \ {f}
         /\ seeding' = IF mount /\ it \in library /\ f \in linked THEN seeding \cup {it} ELSE seeding \ {it}
    /\ UNCHANGED <<library, labels, linked, mount, pc, sec, items, todo, tries, late, history, changes>>

\* Mutant: an item is judged by the first of its files.
LookFirst ==
    /\ pc = "look"
    /\ \E it \in DOMAIN items : \E f \in FilesOf[it] \cap look :
         /\ look' = look \ FilesOf[it]
         /\ seeding' = IF mount /\ it \in library /\ f \in linked THEN seeding \cup {it} ELSE seeding
    /\ UNCHANGED <<library, labels, linked, mount, pc, sec, items, todo, tries, late, history, changes>>

\* The link count of one file, until one of the item's is linked.  A file that cannot
\* be looked at is not; an item that is no longer there has no files to look at.
Look ==
    /\ pc = "look"
    /\ \E it \in DOMAIN items : \E f \in FilesOf[it] \cap look :
         IF mount /\ it \in library /\ f \in linked
           THEN seeding' = seeding \cup {it} /\ look' = look \ FilesOf[it]
           ELSE UNCHANGED seeding /\ look' = look \ {f}
    /\ UNCHANGED <<library, labels, linked, mount, pc, sec, items, todo, tries, late, history, changes>>

Looked ==
    /\ pc = "look" /\ look = {}
    /\ pc' = "write" /\ todo' = DOMAIN items
    /\ UNCHANGED <<library, labels, linked, mount, sec, items, seeding, look, tries, late, history, changes>>

\* Mutant: only the guard's own label is written.
SetLabelsOwn(it, new) ==
    labels' = IF it \in library THEN [labels EXCEPT ![it] = new \cap {"seeding"}] ELSE labels

\* The request names the labels the item is to have.  One that names none asks for
\* nothing, and one for an item that is gone does nothing.
SetLabels(it, new) ==
    labels' = IF it \in library /\ new # {} THEN [labels EXCEPT ![it] = new] ELSE labels

\* The labels an item of the listing is to have.
Wanted(it) == IF it \in seeding THEN items[it] \cup {"seeding"} ELSE items[it] \ {"seeding"}

\* Mutant: the label is never taken away.
DecideAddOnly(it) ==
    IF it \in seeding /\ Wanted(it) # items[it] THEN SetLabels(it, Wanted(it)) ELSE UNCHANGED labels

Decide(it) == IF Wanted(it) # items[it] THEN SetLabels(it, Wanted(it)) ELSE UNCHANGED labels

Write ==
    /\ pc = "write"
    /\ \E it \in todo : Decide(it) /\ todo' = todo \ {it}
    /\ UNCHANGED <<library, linked, mount, pc, sec, items, seeding, look, tries, late, history, changes>>

\* The next section, or the report and the end of the pass.
SectionDone ==
    /\ pc = "write" /\ todo = {}
    /\ IF sec < Len(Sections)
         THEN pc' = "list" /\ sec' = sec + 1 /\ UNCHANGED tries
         ELSE pc' = "idle" /\ sec' = 1 /\ tries' = 0
    /\ Afresh
    /\ UNCHANGED <<library, labels, linked, mount, late, history, changes>>

\* A call fails, and the pod ends: before or after Plex did what it says, or with the
\* PUT still on its way (60 seconds are over).  The job starts one more pod
\* (backoffLimit 1).
Fails ==
    /\ pc # "idle" /\ Bounded("fail", MaxFail)
    /\ \/ UNCHANGED <<labels, late>>
       \/ pc = "write" /\ \E it \in todo : Decide(it) /\ UNCHANGED late
       \/ /\ pc = "write" /\ UNCHANGED labels
          /\ \E it \in todo : Wanted(it) # items[it] /\ late' = late \cup {<<it, Wanted(it)>>}
    /\ IF tries > 0
         THEN Begin /\ tries' = tries - 1
         ELSE /\ pc' = "idle" /\ sec' = 1 /\ Afresh /\ UNCHANGED tries
              /\ steady' = {} /\ free' = {}
    /\ UNCHANGED <<library, linked, mount>>

Guard == Scheduled \/ List \/ Look \/ Looked \/ Write \/ SectionDone

------------------------------------------------------------------------------
(* The others *)

\* Plex deals with a PUT whose pod is gone, perhaps in the midst of another pass.
Lands ==
    /\ \E put \in late :
         /\ SetLabels(put[1], put[2]) /\ late' = late \ {put}
         /\ steady' = steady \ FilesOf[put[1]] /\ free' = free \ {put[1]}
    /\ UNCHANGED <<library, linked, mount, pass, changes>>

\* A torrent is added or removed, or a file is imported.
LinkChanges ==
    /\ Bounded("links", MaxLinks)
    /\ \E f \in FilesIn(library) : linked' = IF f \in linked THEN linked \ {f} ELSE linked \cup {f}
    /\ steady' = steady \cap linked'
    /\ free' = {it \in free : FilesOf[it] \cap linked' = {}}
    /\ UNCHANGED <<library, labels, mount, pass, late>>

UserLabels ==
    /\ Bounded("user", MaxUser)
    /\ \E it \in library :
         /\ labels' = [labels EXCEPT ![it] = IF "kids" \in @ THEN @ \ {"kids"} ELSE @ \cup {"kids"}]
         /\ free' = free \ {it}
    /\ UNCHANGED <<library, linked, mount, pass, late, steady>>

MountChanges ==
    /\ Bounded("mount", MaxMount)
    /\ mount' = ~mount /\ steady' = {}
    /\ UNCHANGED <<library, labels, linked, pass, late, free>>

\* Maintainerr deletes what its rules match, and they leave labelled items out.
Deleted ==
    /\ \E it \in library :
         /\ "seeding" \notin labels[it]
         /\ library' = library \ {it} /\ free' = free \ {it}
         /\ linked' = linked \ FilesOf[it] /\ steady' = steady \ FilesOf[it]
    /\ UNCHANGED <<labels, mount, pass, late, changes>>

Next ==
    \/ Guard \/ Fails
    \/ Lands \/ LinkChanges \/ UserLabels \/ MountChanges \/ Deleted

Spec == Init /\ [][Next]_vars

\* The job runs every day, and a pass that is not cut short goes on to its end.
FairSpec == Spec /\ WF_vars(Guard)

------------------------------------------------------------------------------
(* Properties *)

\* Every variable keeps its type: the labels, the links and the place in the pass.
TypeOK ==
    /\ library \subseteq Items /\ labels \in [Items -> SUBSET Labels]
    /\ linked \subseteq Files /\ mount \in BOOLEAN
    /\ pc \in {"idle", "list", "look", "write"} /\ sec \in DOMAIN Sections
    /\ DOMAIN items \subseteq Sections[sec] /\ \A it \in DOMAIN items : items[it] \subseteq Labels
    /\ seeding \subseteq DOMAIN items /\ look \subseteq FilesIn(Items) /\ todo \subseteq DOMAIN items
    /\ tries \in 0..1 /\ late \subseteq Items \X SUBSET Labels
    /\ steady \subseteq linked /\ free \subseteq library
    /\ changes \in [{"links", "user", "mount", "fail"} -> Nat]

\* One and the same file of the item was linked since the pass began, with the mount
\* there, and no late PUT touched its labels.
Kept(it) == FilesOf[it] \cap steady # {}

\* Once a pass is over, whatever had a file that was linked since it began is labelled,
\* a show for a single episode, if the mount was there (42-52, 80, 84, 91).  A show whose
\* links only changed places may be missed: its episodes are looked at one by one.
SeedingLabelled == pc = "idle" => \A it \in library : Kept(it) => "seeding" \in labels[it]

\* Once a pass is over, whether the mount was there or not, the guard has taken its
\* label from what had no link since it began, if the item has another label and no
\* user touched its labels meanwhile (87-95).
UnlinkedFreed == pc = "idle" => \A it \in free : "kids" \in labels[it] => "seeding" \notin labels[it]

\* The label is not taken from an item that had a file linked all the time, neither when
\* another of its episodes is free nor by the second pod after a first one that saw it
\* otherwise, but by a PUT that arrives after its pod gave up (53-59, 93-94).
NotTakenWhileLinked ==
    [][\A it \in Items :
        "seeding" \in labels[it] /\ "seeding" \notin labels'[it]
            => ~Kept(it) \/ <<it, labels'[it]>> \in late]_vars

\* The whole set is written, and yet a user's label is lost only if it was set after
\* the listing, and comes back only if it was taken after the listing, of this pass or
\* of the one that sent the PUT that arrives (77, 91, 94).
UsersLabelsKept ==
    [][\A it \in Items :
        changes'["user"] = changes["user"] /\ ("kids" \in labels[it]) # ("kids" \in labels'[it])
            => \/ pc # "idle" /\ it \in DOMAIN items /\ ("kids" \in labels'[it]) = ("kids" \in items[it])
               \/ <<it, labels'[it]>> \in late]_vars

\* When torrents and users leave things alone and the mount is there, all that is
\* linked gets its label, and what is not linked loses it if it has another.
LabelsFollow ==
    <>[](mount => \A it \in library :
            IF Linked(it) THEN "seeding" \in labels[it]
            ELSE "kids" \in labels[it] => "seeding" \notin labels[it])
==============================================================================
