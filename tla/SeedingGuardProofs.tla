--------------------------- MODULE SeedingGuardProofs ---------------------------
(* What holds of the seeding guard for any library, any files, and any number   *)
(* of failures: TypeOK, and on it the invariants that say what a pass knows.     *)
EXTENDS SeedingGuard, TLAPS

SectionOf(it) == IF it \in Movies THEN 1 ELSE 2

\* Of what was linked all the time, the listing tells whether it has the label until it
\* is decided: nobody else sets or takes it.
Mirror ==
    \A it \in DOMAIN items :
        Kept(it) /\ (pc = "look" \/ (pc = "write" /\ it \in todo))
            => ("seeding" \in items[it] <=> "seeding" \in labels[it])

\* An item with a file that was linked since a pass began is seen to be, and is labelled
\* from its turn on.
SeenOf(it) ==
    /\ pc # "idle" /\ SectionOf(it) < sec => "seeding" \in labels[it]
    /\ pc = "look" /\ SectionOf(it) = sec =>
            it \in DOMAIN items /\ (FilesOf[it] \cap steady \subseteq look \/ it \in seeding)
    /\ pc = "write" /\ SectionOf(it) = sec =>
            /\ it \in DOMAIN items /\ it \in seeding
            /\ it \in todo \/ "seeding" \in labels[it]
    /\ pc = "idle" => "seeding" \in labels[it]

Seen ==
    /\ steady # {} => mount
    /\ \A it \in library : Kept(it) => SeenOf(it)

\* A section begins with nothing left of the one before.
Fresh == pc = "list" => DOMAIN items = {}

IInv == TypeOK /\ Fresh /\ Mirror /\ Seen

LEMMA TwoSections == DOMAIN Sections = {1, 2} /\ Len(Sections) = 2 /\ Sections[1] = Movies /\ Sections[2] = Shows
  BY DEF Sections

LEMMA InSection == ASSUME NEW it \in Items, NEW k \in {1, 2} PROVE it \in Sections[k] <=> SectionOf(it) = k
  BY TwoSections, ItemsAssumption DEF Items, SectionOf

------------------------------------------------------------------------------
(* Types *)

LEMMA AfreshTypes ==
    ASSUME Afresh, sec' \in {1, 2}
    PROVE  /\ DOMAIN items' \subseteq Sections[sec]' /\ \A it \in DOMAIN items' : items'[it] \subseteq Labels
           /\ seeding' \subseteq DOMAIN items' /\ look' \subseteq FilesIn(Items) /\ todo' \subseteq DOMAIN items'
  BY DEF Afresh

LEMMA BeginTypes ==
    ASSUME TypeOK, Begin, tries' \in 0..1, labels' \in [Items -> SUBSET Labels], UNCHANGED <<library, linked, mount>>,
           late' \subseteq Items \X SUBSET Labels,
           changes' \in [{"links", "user", "mount", "fail"} -> Nat]
    PROVE  TypeOK'
<1>1. sec' = 1 /\ pc' = "list" /\ Afresh /\ steady' \subseteq linked /\ free' \subseteq library
  BY DEF Begin
<1> QED
  BY <1>1, AfreshTypes, TwoSections DEF TypeOK

\* What the guard decides to write are labels that exist.
LEMMA WantedTypes == ASSUME TypeOK, NEW it \in todo PROVE <<it, Wanted(it)>> \in Items \X SUBSET Labels
<1>1. it \in DOMAIN items /\ items[it] \subseteq Labels /\ "seeding" \in Labels
  BY DEF TypeOK, Labels
<1>2. it \in Items
  BY <1>1, TwoSections DEF TypeOK, Items
<1> QED
  BY <1>1, <1>2 DEF Wanted

LEMMA DecideTypes == ASSUME TypeOK, NEW it \in todo, Decide(it) PROVE labels' \in [Items -> SUBSET Labels]
  BY WantedTypes DEF TypeOK, Decide, SetLabels

LEMMA TypeInit == Init => TypeOK
<1> SUFFICES ASSUME Init PROVE TypeOK
  OBVIOUS
<1>1. DOMAIN items = {} /\ seeding = {} /\ look = {} /\ todo = {} /\ sec \in DOMAIN Sections
  BY TwoSections DEF Init
<1>2. changes \in [{"links", "user", "mount", "fail"} -> Nat]
  BY DEF Init
<1>3. labels \in [Items -> SUBSET Labels] /\ library \subseteq Items /\ steady = {} /\ free = {}
        /\ linked \subseteq Files /\ late = {}
  BY DEF Init, Labels
<1>4. DOMAIN items \subseteq Sections[sec] /\ \A it \in DOMAIN items : items[it] \subseteq Labels
  BY <1>1
<1>5. mount \in BOOLEAN
  BY DEF Init
<1>6. pc \in {"idle", "list", "look", "write"} /\ tries \in 0..1
  BY DEF Init
<1>7. seeding \subseteq DOMAIN items /\ look \subseteq FilesIn(Items) /\ todo \subseteq DOMAIN items
        /\ steady \subseteq linked /\ free \subseteq library /\ late \subseteq Items \X SUBSET Labels
  BY <1>1, <1>3
<1> QED
  BY <1>1, <1>2, <1>3, <1>4, <1>5, <1>6, <1>7 DEF TypeOK

LEMMA TypeGuard == ASSUME TypeOK, Fresh, Guard PROVE TypeOK'
<1>1. CASE Scheduled
  BY <1>1, BeginTypes DEF Scheduled, TypeOK
<1>2. CASE List
  <2>1. sec \in {1, 2} /\ Sections[sec] \subseteq Items
    BY TwoSections DEF TypeOK, Items
  <2>2. /\ DOMAIN items' = Sections[sec] \cap library /\ look' = FilesIn(Sections[sec] \cap library)
        /\ \A it \in Sections[sec] \cap library : items'[it] = labels[it]
    BY <1>2 DEF List
  <2>3. DOMAIN items' \subseteq Sections[sec]' /\ \A it \in DOMAIN items' : items'[it] \subseteq Labels
    BY <1>2, <2>1, <2>2, TwoSections DEF List, TypeOK
  <2>4. seeding' \subseteq DOMAIN items' /\ todo' \subseteq DOMAIN items' /\ look' \subseteq FilesIn(Items)
    BY <1>2, <2>1, <2>2 DEF List, TypeOK, Fresh, FilesIn
  <2> QED
    BY <1>2, <2>3, <2>4 DEF List, TypeOK, history
<1>3. CASE Look
  BY <1>3 DEF Look, TypeOK, history
<1>4. CASE Looked
  BY <1>4 DEF Looked, TypeOK, history
<1>5. CASE Write
  BY <1>5, DecideTypes DEF Write, TypeOK, history
<1>6. CASE SectionDone
  <2>1. Afresh /\ UNCHANGED <<library, labels, linked, mount, late, steady, free, changes>>
    BY <1>6 DEF SectionDone, history
  <2>2. pc' \in {"idle", "list", "look", "write"} /\ sec' \in {1, 2} /\ tries' \in 0..1
    BY <1>6, TwoSections DEF SectionDone, TypeOK
  <2> QED
    BY <2>1, <2>2, AfreshTypes, TwoSections DEF TypeOK
<1> QED
  BY <1>1, <1>2, <1>3, <1>4, <1>5, <1>6 DEF Guard

LEMMA TypeFails == ASSUME TypeOK, Fails PROVE TypeOK'
<1>1. labels' \in [Items -> SUBSET Labels]
  BY DecideTypes DEF Fails, TypeOK
<1>2. changes' \in [{"links", "user", "mount", "fail"} -> Nat]
  BY DEF Fails, Bounded, TypeOK
<1>3. late' \subseteq Items \X SUBSET Labels
  BY WantedTypes DEF Fails, TypeOK
<1>4. CASE tries > 0
  BY <1>1, <1>2, <1>3, <1>4, BeginTypes DEF Fails, TypeOK
<1>5. CASE ~(tries > 0)
  <2>1. /\ pc' = "idle" /\ sec' = 1 /\ Afresh /\ steady' = {} /\ free' = {}
        /\ UNCHANGED <<library, linked, mount, tries>>
    BY <1>5 DEF Fails
  <2> QED
    BY <1>1, <1>2, <1>3, <2>1, AfreshTypes, TwoSections DEF TypeOK
<1> QED
  BY <1>4, <1>5

Other == Lands \/ LinkChanges \/ UserLabels \/ MountChanges \/ Deleted

\* What a PUT that comes late sets.
LEMMA Landed ==
    ASSUME TypeOK, Lands
    PROVE  \E it \in Items, new \in SUBSET Labels :
             /\ <<it, new>> \in late /\ late' \subseteq late
             /\ labels' = labels \/ (it \in library /\ labels' = [labels EXCEPT ![it] = new])
             /\ steady' = steady \ FilesOf[it] /\ free' = free \ {it}
             /\ UNCHANGED <<library, linked, mount, pass, changes>>
<1>1. PICK put \in late :
        /\ SetLabels(put[1], put[2]) /\ late' = late \ {put}
        /\ steady' = steady \ FilesOf[put[1]] /\ free' = free \ {put[1]}
  BY DEF Lands
<1>2. PICK it \in Items, new \in SUBSET Labels : put = <<it, new>>
  BY DEF TypeOK
<1>3. put[1] = it /\ put[2] = new
  BY <1>2
<1> QED
  BY <1>1, <1>2, <1>3 DEF Lands, SetLabels

LEMMA TypeOther == ASSUME TypeOK, Other PROVE TypeOK'
<1>1. CASE LinkChanges
  <2>1. linked' \subseteq Files
    BY <1>1, ItemsAssumption DEF LinkChanges, TypeOK, FilesIn
  <2> QED
    BY <1>1, <2>1 DEF LinkChanges, Bounded, TypeOK, pass
<1>2. CASE UserLabels
  BY <1>2 DEF UserLabels, Bounded, TypeOK, pass, history, Labels
<1>3. CASE MountChanges
  <2>1. mount' \in BOOLEAN
    BY <1>3, Zenon DEF MountChanges
  <2> QED
    BY <1>3, <2>1 DEF MountChanges, Bounded, TypeOK, pass
<1>4. CASE Deleted
  BY <1>4 DEF Deleted, TypeOK, pass
<1>5. CASE Lands
  <2>1. labels' \in [Items -> SUBSET Labels]
    BY <1>5, Landed DEF TypeOK
  <2>2. /\ late' \subseteq late /\ steady' \subseteq steady /\ free' \subseteq free
        /\ UNCHANGED <<library, linked, mount, pass, changes>>
    BY <1>5, Landed
  <2> QED
    BY <2>1, <2>2 DEF TypeOK, pass
<1> QED
  BY <1>1, <1>2, <1>3, <1>4, <1>5 DEF Other

LEMMA FreshOk == ASSUME Fresh, [Next]_vars PROVE Fresh'
  BY DEF Fresh, Next, Guard, Scheduled, Begin, Afresh, List, Look, Looked, Write, SectionDone, Fails,
         Lands, LinkChanges, UserLabels, MountChanges, Deleted, vars, pass

------------------------------------------------------------------------------
(* What a pass knows *)

\* An item of the listing that is written about is of the section at hand.
LEMMA TodoHere == ASSUME TypeOK, NEW it \in todo PROVE it \in Items /\ it \in DOMAIN items /\ SectionOf(it) = sec
<1>1. sec \in {1, 2} /\ it \in DOMAIN items /\ it \in Sections[sec] /\ it \in Items
  BY TwoSections DEF TypeOK, Items
<1> QED
  BY <1>1, InSection

\* Deciding gives its label to what was seen linked, and leaves the other items alone.
LEMMA Decided ==
    ASSUME TypeOK, Mirror, pc = "write", NEW it \in todo, Decide(it)
    PROVE  /\ \A o \in Items : o # it => labels'[o] = labels[o]
           /\ Kept(it) /\ it \in library /\ it \in seeding => "seeding" \in labels'[it]
<1>1. it \in Items /\ it \in DOMAIN items /\ (Kept(it) => ("seeding" \in items[it] <=> "seeding" \in labels[it]))
  BY TodoHere DEF Mirror
<1>2. \A o \in Items : o # it => labels'[o] = labels[o]
  BY <1>1 DEF Decide, SetLabels, TypeOK
<1>3. ASSUME Kept(it), it \in library, it \in seeding PROVE "seeding" \in labels'[it]
  <2>1. Wanted(it) = items[it] \cup {"seeding"}
    BY <1>3 DEF Wanted
  <2>2. CASE "seeding" \in items[it]
    <3>1. Wanted(it) = items[it] /\ "seeding" \in labels[it]
      BY <1>1, <1>3, <2>1, <2>2
    <3> QED
      BY <3>1 DEF Decide
  <2>3. CASE "seeding" \notin items[it]
    <3>1. Wanted(it) # items[it] /\ Wanted(it) # {} /\ "seeding" \in Wanted(it)
      BY <2>1, <2>3
    <3>2. labels' = [labels EXCEPT ![it] = Wanted(it)]
      BY <1>3, <3>1 DEF Decide, SetLabels
    <3> QED
      BY <1>1, <3>1, <3>2 DEF TypeOK
  <2> QED
    BY <2>2, <2>3
<1> QED
  BY <1>2, <1>3

LEMMA KnowsBegin == ASSUME TypeOK, Begin, UNCHANGED <<library, linked, mount>> PROVE Mirror' /\ Seen'
<1>1. pc' = "list" /\ sec' = 1 /\ DOMAIN items' = {} /\ steady' = IF mount THEN linked ELSE {}
  BY DEF Begin, Afresh
<1>2. \A it : SectionOf(it)' \in {1, 2}
  BY DEF SectionOf
<1>3. Mirror'
  BY <1>1 DEF Mirror
<1>4. \A it : SeenOf(it)'
  BY <1>1, <1>2 DEF SeenOf
<1>5. steady' # {} => mount'
  BY <1>1
<1> QED
  BY <1>3, <1>4, <1>5 DEF Seen

\* Nothing new to know about the items: no more of them, no more files linked all the
\* time, the same place in the pass, and the same labels of what is kept.
LEMMA KnowsSame ==
    ASSUME Mirror, Seen, UNCHANGED pass, steady' \subseteq steady, library' \subseteq library,
           DOMAIN items \subseteq Items, library \subseteq Items, steady' # {} => mount',
           \A it \in Items : Kept(it)' => ("seeding" \in labels'[it] <=> "seeding" \in labels[it])
    PROVE  Mirror' /\ Seen'
<1>1. \A it : Kept(it)' => Kept(it)
  BY DEF Kept
<1>2. Mirror'
  BY <1>1 DEF Mirror, pass
<1>3. ASSUME NEW it \in library', Kept(it)' PROVE SeenOf(it)'
  <2>1. SeenOf(it) /\ ("seeding" \in labels'[it] <=> "seeding" \in labels[it])
    BY <1>1, <1>3 DEF Seen
  <2> QED
    BY <2>1 DEF SeenOf, SectionOf, pass
<1> QED
  BY <1>2, <1>3 DEF Seen

LEMMA KnowsGuard == ASSUME IInv, Guard PROVE Mirror' /\ Seen'
<1> USE DEF IInv
<1>0. sec \in {1, 2} /\ library \subseteq Items /\ steady \subseteq linked /\ DOMAIN items \subseteq Items
  BY TwoSections DEF TypeOK, Items
<1>1. CASE Scheduled
  BY <1>1, KnowsBegin DEF Scheduled
<1>2. CASE List
  <2>1. /\ pc = "list" /\ pc' = "look" /\ UNCHANGED <<library, labels, linked, mount, sec, seeding, steady>>
        /\ DOMAIN items' = Sections[sec] \cap library /\ look' = FilesIn(Sections[sec] \cap library)
        /\ \A it \in Sections[sec] \cap library : items'[it] = labels[it]
    BY <1>2 DEF List, history
  <2>2. Mirror'
    BY <2>1 DEF Mirror
  <2>3. ASSUME NEW it \in library, SectionOf(it) = sec PROVE it \in DOMAIN items' /\ FilesOf[it] \cap steady \subseteq look'
    <3>1. it \in Sections[sec] \cap library
      BY <1>0, <2>3, InSection
    <3> QED
      BY <2>1, <3>1 DEF FilesIn
  <2>4. ASSUME NEW it \in library, Kept(it) PROVE SeenOf(it)'
    <3>1. SeenOf(it)
      BY <2>4 DEF Seen
    <3> QED
      BY <2>1, <2>3, <3>1 DEF SeenOf, SectionOf
  <2> QED
    BY <2>1, <2>2, <2>4 DEF Seen, Kept
<1>3. CASE Look
  <2>1. /\ pc = "look" /\ UNCHANGED <<library, labels, linked, mount, pc, sec, items, todo, steady>>
        /\ \E it \in DOMAIN items : \E f \in FilesOf[it] \cap look :
             IF mount /\ it \in library /\ f \in linked
               THEN seeding' = seeding \cup {it} /\ look' = look \ FilesOf[it]
               ELSE UNCHANGED seeding /\ look' = look \ {f}
    BY <1>3 DEF Look, history
  <2>2. PICK o \in DOMAIN items : \E f \in FilesOf[o] \cap look :
             IF mount /\ o \in library /\ f \in linked
               THEN seeding' = seeding \cup {o} /\ look' = look \ FilesOf[o]
               ELSE UNCHANGED seeding /\ look' = look \ {f}
    BY <2>1
  <2>f. PICK f \in FilesOf[o] \cap look :
             IF mount /\ o \in library /\ f \in linked
               THEN seeding' = seeding \cup {o} /\ look' = look \ FilesOf[o]
               ELSE UNCHANGED seeding /\ look' = look \ {f}
    BY <2>2
  <2>3. ASSUME NEW it \in library, FilesOf[it] \cap steady \subseteq look \/ it \in seeding, steady # {} => mount
        PROVE  FilesOf[it] \cap steady \subseteq look' \/ it \in seeding'
    <3>1. CASE it = o
      BY <1>0, <2>f, <2>3, <3>1
    <3>2. CASE it # o
      <4>1. FilesOf[it] \cap FilesOf[o] = {} /\ f \in FilesOf[o]
        BY <1>0, <3>2, ItemsAssumption
      <4>2. seeding \subseteq seeding' /\ look \ FilesOf[o] \subseteq look'
        BY <2>f
      <4> QED
        BY <2>3, <4>1, <4>2
    <3> QED
      BY <3>1, <3>2
  <2>4. Mirror'
    BY <2>1 DEF Mirror, Kept
  <2>5. ASSUME NEW it \in library, Kept(it) PROVE SeenOf(it)'
    <3>1. SeenOf(it) /\ (steady # {} => mount)
      BY <2>5 DEF Seen
    <3> QED
      BY <2>1, <2>3, <2>5, <3>1 DEF SeenOf, SectionOf
  <2> QED
    BY <2>1, <2>4, <2>5 DEF Seen, Kept
<1>4. CASE Looked
  <2>1. /\ pc = "look" /\ pc' = "write" /\ look = {} /\ todo' = DOMAIN items
        /\ UNCHANGED <<library, labels, linked, mount, sec, items, seeding, steady>>
    BY <1>4 DEF Looked, history
  <2>2. Mirror'
    BY <2>1 DEF Mirror, Kept
  <2>3. ASSUME NEW it \in library, Kept(it) PROVE SeenOf(it)'
    <3>1. SeenOf(it)
      BY <2>3 DEF Seen
    <3> QED
      BY <2>1, <2>3, <3>1 DEF SeenOf, SectionOf, Kept
  <2> QED
    BY <2>1, <2>2, <2>3 DEF Seen, Kept
<1>5. CASE Write
  <2>1. /\ pc = "write" /\ UNCHANGED <<library, linked, mount, pc, sec, items, seeding, steady>>
        /\ \E it \in todo : Decide(it) /\ todo' = todo \ {it}
    BY <1>5 DEF Write, history
  <2>2. PICK o \in todo : Decide(o) /\ todo' = todo \ {o}
    BY <2>1
  <2>3. /\ \A it \in Items : it # o => labels'[it] = labels[it]
        /\ Kept(o) /\ o \in library /\ o \in seeding => "seeding" \in labels'[o]
    BY <2>1, <2>2, Decided
  <2>4. o \in Items /\ SectionOf(o) = sec
    BY TodoHere
  <2>5. Mirror'
    BY <1>0, <2>1, <2>2, <2>3 DEF Mirror, Kept
  <2>6. ASSUME NEW it \in library, Kept(it) PROVE SeenOf(it)'
    <3>1. SeenOf(it)
      BY <2>6 DEF Seen
    <3>2. CASE it = o
      BY <2>1, <2>2, <2>3, <2>4, <2>6, <3>1, <3>2 DEF SeenOf, SectionOf
    <3>3. CASE it # o
      <4>1. labels'[it] = labels[it] /\ (it \in todo' <=> it \in todo)
        BY <1>0, <2>2, <2>3, <3>3
      <4> QED
        BY <2>1, <3>1, <4>1 DEF SeenOf, SectionOf
    <3> QED
      BY <3>2, <3>3
  <2> QED
    BY <2>1, <2>5, <2>6 DEF Seen, Kept
<1>6. CASE SectionDone
  <2>1. /\ pc = "write" /\ todo = {} /\ DOMAIN items' = {}
        /\ (pc' = "list" /\ sec = 1 /\ sec' = 2) \/ (pc' = "idle" /\ sec = 2)
        /\ UNCHANGED <<library, labels, linked, mount, steady>>
    BY <1>0, <1>6, TwoSections DEF SectionDone, Afresh, history
  <2>2. Mirror'
    BY <2>1 DEF Mirror
  <2>3. ASSUME NEW it \in library, Kept(it) PROVE SeenOf(it)'
    <3>1. SeenOf(it) /\ SectionOf(it) \in {1, 2}
      BY <2>3 DEF Seen, SectionOf
    <3> QED
      BY <1>0, <2>1, <3>1 DEF SeenOf, SectionOf
  <2> QED
    BY <2>1, <2>2, <2>3 DEF Seen, Kept
<1> QED
  BY <1>1, <1>2, <1>3, <1>4, <1>5, <1>6 DEF Guard

LEMMA KnowsFails == ASSUME IInv, Fails PROVE Mirror' /\ Seen'
<1>1. CASE tries > 0
  BY <1>1, KnowsBegin DEF Fails, IInv
<1>2. CASE ~(tries > 0)
  BY <1>2 DEF Fails, Mirror, Seen, Kept
<1> QED
  BY <1>1, <1>2

LEMMA KnowsOther == ASSUME IInv, Other PROVE Mirror' /\ Seen'
<1> USE DEF IInv
<1>0. library \subseteq Items /\ DOMAIN items \subseteq Items /\ (steady # {} => mount)
  BY TwoSections DEF TypeOK, Items, Seen
<1>1. CASE LinkChanges
  BY <1>0, <1>1, KnowsSame DEF LinkChanges
<1>2. CASE UserLabels
  <2>1. \A it \in Items : "seeding" \in labels'[it] <=> "seeding" \in labels[it]
    BY <1>0, <1>2 DEF UserLabels, TypeOK
  <2> QED
    BY <1>0, <1>2, <2>1, KnowsSame DEF UserLabels
<1>3. CASE MountChanges
  BY <1>0, <1>3, KnowsSame DEF MountChanges
<1>4. CASE Deleted
  BY <1>0, <1>4, KnowsSame DEF Deleted
<1>5. CASE Lands
  <2>1. PICK o \in Items, new \in SUBSET Labels :
          /\ labels' = labels \/ (o \in library /\ labels' = [labels EXCEPT ![o] = new])
          /\ steady' = steady \ FilesOf[o]
          /\ UNCHANGED <<library, linked, mount, pass, changes>>
    BY <1>5, Landed
  <2>2. ~Kept(o)'
    BY <2>1 DEF Kept
  <2>3. \A it \in Items : it # o => labels'[it] = labels[it]
    BY <2>1 DEF TypeOK
  <2> QED
    BY <1>0, <2>1, <2>2, <2>3, KnowsSame
<1> QED
  BY <1>1, <1>2, <1>3, <1>4, <1>5 DEF Other

LEMMA Invariant == Spec => []IInv
<1>1. Init => IInv
  <2>1. Init => ~(steady # {}) /\ pc = "idle" /\ \A it : ~Kept(it)
    BY DEF Init, Kept
  <2> QED
    BY <2>1, TypeInit DEF IInv, Fresh, Mirror, Seen
<1>2. IInv /\ [Next]_vars => IInv'
  <2> SUFFICES ASSUME IInv, [Next]_vars PROVE IInv'
    OBVIOUS
  <2>1. CASE Guard
    BY <2>1, TypeGuard, KnowsGuard, FreshOk DEF IInv
  <2>2. CASE Fails
    BY <2>2, TypeFails, KnowsFails, FreshOk DEF IInv
  <2>3. CASE Other
    BY <2>3, TypeOther, KnowsOther, FreshOk DEF IInv
  <2>4. CASE UNCHANGED vars
    <3>1. UNCHANGED <<pass, late, steady, free, library, linked, mount, labels, changes>>
      BY <2>4 DEF vars, history
    <3>2. Mirror' /\ Seen'
      BY <3>1, KnowsSame, TwoSections DEF IInv, Seen, TypeOK, Items
    <3> QED
      BY <3>1, <3>2 DEF pass, IInv, TypeOK, Fresh
  <2> QED
    BY <2>1, <2>2, <2>3, <2>4 DEF Next, Other
<1> QED
  BY <1>1, <1>2, PTL DEF Spec

------------------------------------------------------------------------------
(* What a pass leaves without the label *)

Freed(it) == "kids" \in labels[it] => "seeding" \notin labels[it]

\* What had no link since a pass began is never seen linked; in the listing it has the
\* labels that it has, and from its turn on the label is gone.
Unseen(it) ==
    /\ it \in library /\ ~Linked(it) /\ it \notin seeding
    /\ pc = "idle" \/ SectionOf(it) < sec => Freed(it)
    /\ pc \in {"look", "write"} /\ SectionOf(it) = sec =>
            /\ it \in DOMAIN items
            /\ IF pc = "look" \/ it \in todo THEN items[it] = labels[it] ELSE Freed(it)

UInv == \A it \in free : Unseen(it)

LEMMA UnseenBegin ==
    ASSUME Begin, UNCHANGED <<library, linked>>
    PROVE  UInv'
<1>1. \A it \in free' : it \in library /\ ~Linked(it)
  BY DEF Begin
<1>2. pc' = "list" /\ sec' = 1 /\ seeding' = {}
  BY DEF Begin, Afresh
<1>3. \A it : SectionOf(it) \in {1, 2}
  BY DEF SectionOf
<1> QED
  BY <1>1, <1>2, <1>3 DEF UInv, Unseen, SectionOf, Linked

\* Deciding about an item that was not seen linked frees it.
LEMMA DecidedFree ==
    ASSUME TypeOK, NEW it \in todo, Decide(it), it \in library, it \notin seeding, items[it] = labels[it]
    PROVE  Freed(it)'
<1>1. it \in Items /\ labels[it] \subseteq Labels
  BY TodoHere DEF TypeOK
<1>2. Wanted(it) = items[it] \ {"seeding"}
  BY DEF Wanted
<1>3. CASE "seeding" \in items[it] /\ items[it] \ {"seeding"} # {}
  <2>1. labels' = [labels EXCEPT ![it] = items[it] \ {"seeding"}]
    BY <1>2, <1>3 DEF Decide, SetLabels
  <2> QED
    BY <1>1, <2>1 DEF Freed, TypeOK
<1>4. CASE "seeding" \in items[it] /\ items[it] \ {"seeding"} = {}
  <2>1. "kids" \notin labels[it] /\ labels' = labels
    BY <1>2, <1>4 DEF Decide, SetLabels
  <2> QED
    BY <2>1 DEF Freed
<1>5. CASE "seeding" \notin items[it]
  <2>1. Wanted(it) = items[it]
    BY <1>2, <1>5
  <2> QED
    BY <1>5, <2>1 DEF Decide, Freed
<1> QED
  BY <1>3, <1>4, <1>5

LEMMA UnseenGuard == ASSUME IInv, UInv, Guard PROVE UInv'
<1> USE DEF IInv
<1>0. sec \in {1, 2} /\ free \subseteq Items /\ free \subseteq library /\ \A it : SectionOf(it) \in {1, 2}
  BY TwoSections DEF TypeOK, SectionOf
<1>1. CASE Scheduled
  BY <1>1, UnseenBegin DEF Scheduled
<1>2. CASE List
  <2>1. /\ pc = "list" /\ pc' = "look" /\ UNCHANGED <<library, labels, linked, sec, seeding, free>>
        /\ DOMAIN items' = Sections[sec] \cap library
        /\ \A it \in Sections[sec] \cap library : items'[it] = labels[it]
    BY <1>2 DEF List, history
  <2>2. \A it \in free : SectionOf(it) = sec => it \in Sections[sec] \cap library
    BY <1>0, InSection
  <2> QED
    BY <1>0, <2>1, <2>2 DEF UInv, Unseen, Freed, SectionOf, Linked
<1>3. CASE Look
  <2>1. /\ UNCHANGED <<library, labels, linked, pc, sec, items, todo, free>>
        /\ \E o \in DOMAIN items : \E f \in FilesOf[o] :
              seeding' = seeding \/ (f \in linked /\ seeding' = seeding \cup {o})
    BY <1>3 DEF Look, history
  <2>2. PICK o \in DOMAIN items : \E f \in FilesOf[o] :
              seeding' = seeding \/ (f \in linked /\ seeding' = seeding \cup {o})
    BY <2>1
  <2>3. \A it \in free : it \in seeding' => it \in seeding \/ Linked(it)
    BY <2>2 DEF Linked
  <2>4. ASSUME NEW it \in free PROVE Unseen(it)'
    <3>1. Unseen(it)
      BY <2>4 DEF UInv
    <3> QED
      BY <2>1, <2>3, <3>1 DEF Unseen, Freed, SectionOf, Linked
  <2> QED
    BY <2>1, <2>4 DEF UInv
<1>4. CASE Looked
  <2>1. /\ pc = "look" /\ pc' = "write" /\ todo' = DOMAIN items
        /\ UNCHANGED <<library, labels, linked, sec, items, seeding, free>>
    BY <1>4 DEF Looked, history
  <2> QED
    BY <2>1 DEF UInv, Unseen, Freed, SectionOf, Linked
<1>5. CASE Write
  <2>1. /\ pc = "write" /\ UNCHANGED <<library, linked, pc, sec, items, seeding, free>>
        /\ \E it \in todo : Decide(it) /\ todo' = todo \ {it}
    BY <1>5 DEF Write, history
  <2>2. PICK o \in todo : Decide(o) /\ todo' = todo \ {o}
    BY <2>1
  <2>3. SectionOf(o) = sec /\ \A it \in Items : it # o => labels'[it] = labels[it]
    BY <2>1, <2>2, TodoHere, Decided
  <2>4. ASSUME NEW it \in free, it # o PROVE Unseen(it)'
    <3>1. Unseen(it) /\ labels'[it] = labels[it] /\ (it \in todo' <=> it \in todo)
      BY <1>0, <2>2, <2>3, <2>4 DEF UInv
    <3> QED
      BY <2>1, <3>1 DEF Unseen, Freed, SectionOf, Linked
  <2>5. ASSUME o \in free PROVE Unseen(o)'
    <3>1. Unseen(o) /\ o \notin todo'
      BY <2>2, <2>5 DEF UInv
    <3>2. items[o] = labels[o]
      BY <2>1, <2>3, <3>1 DEF Unseen
    <3>3. Freed(o)'
      BY <2>2, <3>1, <3>2, DecidedFree DEF Unseen
    <3> QED
      BY <2>1, <3>1, <3>3 DEF Unseen, SectionOf, Linked
  <2> QED
    BY <2>1, <2>4, <2>5 DEF UInv
<1>6. CASE SectionDone
  <2>1. /\ pc = "write" /\ todo = {} /\ seeding' = {}
        /\ (pc' = "list" /\ sec = 1 /\ sec' = 2) \/ (pc' = "idle" /\ sec = 2)
        /\ UNCHANGED <<library, labels, linked, free>>
    BY <1>0, <1>6, TwoSections DEF SectionDone, Afresh, history
  <2>2. \A it \in free : SectionOf(it) < sec \/ SectionOf(it) = sec => Freed(it)
    BY <2>1 DEF UInv, Unseen
  <2>3. \A it \in free : pc' = "idle" \/ SectionOf(it) < sec' => Freed(it)
    BY <1>0, <2>1, <2>2
  <2> QED
    BY <2>1, <2>3 DEF UInv, Unseen, Freed, SectionOf, Linked
<1> QED
  BY <1>1, <1>2, <1>3, <1>4, <1>5, <1>6 DEF Guard

LEMMA UnseenFails == ASSUME Fails PROVE UInv'
<1>1. CASE tries > 0
  BY <1>1, UnseenBegin DEF Fails
<1>2. CASE ~(tries > 0)
  BY <1>2 DEF Fails, UInv
<1> QED
  BY <1>1, <1>2

LEMMA UnseenOther == ASSUME IInv, UInv, Other PROVE UInv'
<1>0. free \subseteq library /\ library \subseteq Items
  BY DEF IInv, TypeOK
<1>1. CASE LinkChanges
  <2>1. UNCHANGED <<library, labels, pass>> /\ free' = {it \in free : FilesOf[it] \cap linked' = {}}
    BY <1>1 DEF LinkChanges
  <2> QED
    BY <2>1 DEF pass, UInv, Unseen, Freed, SectionOf, Linked
<1>2. CASE UserLabels
  <2>1. PICK o \in library : free' = free \ {o} /\ \A it \in Items : it # o => labels'[it] = labels[it]
    BY <1>0, <1>2 DEF UserLabels, IInv, TypeOK
  <2>2. UNCHANGED <<library, linked, pass>> /\ \A it \in free' : it \in free /\ labels'[it] = labels[it]
    BY <1>0, <1>2, <2>1 DEF UserLabels
  <2> QED
    BY <2>2 DEF pass, UInv, Unseen, Freed, SectionOf, Linked
<1>3. CASE MountChanges
  BY <1>3 DEF MountChanges, pass, UInv, Unseen, Freed, SectionOf, Linked
<1>4. CASE Deleted
  <2>1. PICK o \in library :
          /\ library' = library \ {o} /\ free' = free \ {o} /\ linked' = linked \ FilesOf[o]
          /\ UNCHANGED <<labels, pass>>
    BY <1>4 DEF Deleted
  <2>2. \A it \in free : ~Linked(it) => ~Linked(it)'
    BY <2>1 DEF Linked
  <2> QED
    BY <2>1, <2>2 DEF pass, UInv, Unseen, Freed, SectionOf
<1>5. CASE Lands
  <2>1. PICK o \in Items, new \in SUBSET Labels :
          /\ labels' = labels \/ (o \in library /\ labels' = [labels EXCEPT ![o] = new])
          /\ free' = free \ {o}
          /\ UNCHANGED <<library, linked, mount, pass, changes>>
    <3>1. TypeOK
      BY DEF IInv
    <3> QED
      BY <1>5, <3>1, Landed
  <2>2. \A it \in free' : it \in free /\ labels'[it] = labels[it]
    BY <1>0, <2>1 DEF IInv, TypeOK
  <2> QED
    BY <2>1, <2>2 DEF pass, UInv, Unseen, Freed, SectionOf, Linked
<1> QED
  BY <1>1, <1>2, <1>3, <1>4, <1>5 DEF Other

------------------------------------------------------------------------------
(* The theorems *)

\* Every variable keeps its type: what the guard has seen and has still to do is of the
\* section it is in, and there are never more than two pods (script lines 61-66).
THEOREM TypeCorrect == Spec => []TypeOK
  BY Invariant, PTL DEF IInv

\* After a pass, whatever had a file that was linked all the time is labelled, if the
\* mount was there, whoever did what meanwhile and whichever calls failed (42-52, 79-95).
THEOREM SeedingIsLabelled == Spec => []SeedingLabelled
<1>1. IInv => SeedingLabelled
  BY DEF IInv, Seen, SeenOf, SeedingLabelled
<1> QED
  BY <1>1, Invariant, PTL

\* After a pass that came to its end, what had no link all the time is without the label
\* if it has another, whatever failed before and whoever did what meanwhile (87-95).
THEOREM UnlinkedIsFreed == Spec => []UnlinkedFreed
<1>1. Init => UInv
  BY DEF Init, UInv
<1>2. IInv /\ UInv /\ [Next]_vars => UInv'
  <2> SUFFICES ASSUME IInv, UInv, [Next]_vars PROVE UInv'
    OBVIOUS
  <2>1. CASE UNCHANGED vars
    BY <2>1 DEF vars, pass, history, UInv, Unseen, Freed, SectionOf, Linked
  <2> QED
    BY <2>1, UnseenGuard, UnseenFails, UnseenOther DEF Next, Other
<1>3. UInv => UnlinkedFreed
  BY DEF UInv, Unseen, Freed, UnlinkedFreed
<1> QED
  BY <1>1, <1>2, <1>3, Invariant, PTL DEF Spec

\* A pod that takes the label decides about an item of which it saw no linked file.
LEMMA Taken ==
    ASSUME IInv, pc = "write", NEW o \in todo, Decide(o), NEW it \in Items,
           "seeding" \in labels[it], "seeding" \notin labels'[it]
    PROVE  ~Kept(it)
<1>1. it = o
  BY Decided DEF IInv
<1>2. it \in DOMAIN items /\ SectionOf(it) = sec
  BY <1>1, TodoHere DEF IInv
<1>3. Kept(it) /\ it \in library /\ it \in seeding => "seeding" \in labels'[it]
  BY <1>1, Decided DEF IInv
<1>4. it \in library
  BY <1>1 DEF Decide, SetLabels
<1> QED
  BY <1>2, <1>3, <1>4 DEF IInv, Seen, SeenOf

\* What a PUT that comes late changes, it sets to what its pod asked for.
LEMMA LandedLabels ==
    ASSUME TypeOK, Lands, NEW it \in Items, labels'[it] # labels[it]
    PROVE  <<it, labels'[it]>> \in late
<1>1. PICK o \in Items, new \in SUBSET Labels :
        <<o, new>> \in late /\ (labels' = labels \/ labels' = [labels EXCEPT ![o] = new])
  BY Landed
<1>2. it = o /\ labels'[it] = new
  BY <1>1 DEF TypeOK
<1> QED
  BY <1>1, <1>2

\* The label is never taken from what had a file linked since the pass began, in the first
\* pod or in the second, but by a PUT that arrives after its pod gave up (53-59, 87-95).
THEOREM NotTaken == Spec => NotTakenWhileLinked
<1> DEFINE Fine(it) == "seeding" \in labels[it] /\ "seeding" \notin labels'[it]
                         => ~Kept(it) \/ <<it, labels'[it]>> \in late
<1>1. IInv /\ [Next]_vars => [\A it \in Items : Fine(it)]_vars
  <2> SUFFICES ASSUME IInv, Next, NEW it \in Items PROVE Fine(it)
    OBVIOUS
  <2>1. CASE UNCHANGED labels
    BY <2>1
  <2>2. CASE \E o \in todo : pc = "write" /\ Decide(o)
    BY <2>2, Taken
  <2>3. CASE UserLabels
    BY <2>3 DEF UserLabels, IInv, TypeOK
  <2>4. CASE Lands
    BY <2>4, LandedLabels DEF IInv
  <2> QED
    BY <2>1, <2>2, <2>3, <2>4
    DEF Next, Guard, Scheduled, List, Look, Looked, Write, SectionDone, Fails, LinkChanges, MountChanges, Deleted
<1> QED
  BY <1>1, Invariant, PTL DEF Spec, NotTakenWhileLinked

\* Nobody but users changes users' labels, and the guard sets them to nothing but what
\* its listing held, this one's or that of a pod whose PUT came late (77, 91, 94).
THEOREM UsersLabelsAreKept == Spec => UsersLabelsKept
<1> DEFINE Fine(it) == changes'["user"] = changes["user"] /\ ("kids" \in labels[it]) # ("kids" \in labels'[it])
                         => \/ pc # "idle" /\ it \in DOMAIN items /\ ("kids" \in labels'[it]) = ("kids" \in items[it])
                            \/ <<it, labels'[it]>> \in late
<1>1. IInv /\ [Next]_vars => [\A it \in Items : Fine(it)]_vars
  <2> SUFFICES ASSUME IInv, Next, NEW it \in Items PROVE Fine(it)
    OBVIOUS
  <2>1. CASE UNCHANGED labels
    BY <2>1
  <2>2. CASE \E o \in todo : pc = "write" /\ Decide(o)
    <3>1. PICK o \in todo : pc = "write" /\ Decide(o)
      BY <2>2
    <3>2. o \in Items /\ o \in DOMAIN items /\ ("kids" \in Wanted(o) <=> "kids" \in items[o])
      BY TodoHere DEF IInv, Wanted
    <3>3. labels' = labels \/ labels' = [labels EXCEPT ![o] = Wanted(o)]
      BY <3>1 DEF Decide, SetLabels
    <3> QED
      BY <3>1, <3>2, <3>3 DEF IInv, TypeOK
  <2>3. CASE UserLabels
    BY <2>3 DEF UserLabels, Bounded, IInv, TypeOK
  <2>4. CASE Lands
    BY <2>4, LandedLabels DEF IInv
  <2> QED
    BY <2>1, <2>2, <2>3, <2>4
    DEF Next, Guard, Scheduled, List, Look, Looked, Write, SectionDone, Fails, LinkChanges, MountChanges, Deleted
<1> QED
  BY <1>1, Invariant, PTL DEF Spec, UsersLabelsKept
==============================================================================
