------------------------- MODULE MissingCleanupProofs -------------------------
(***************************************************************************)
(* The circuit breaker of the missing-media job, for every library and     *)
(* every percentage.  The invariant follows the walk (what is listed has   *)
(* not been examined, and what is missing was listed), keeps the evidence  *)
(* (as long as no file was seen, the entries missing outweigh the parts),  *)
(* and ties every deletion to the judgement passed on those counts.        *)
(***************************************************************************)
EXTENDS MissingCleanup, FiniteSetTheorems, TLAPS

Walked ==
    /\ \A m \in listed \cup missing : Section[m] \notin toList
    /\ listed \cap missing = {}
    /\ \A m \in missing : Checked(m) # {}

Evidence ==
    /\ goneParts <= total
    /\ FewParts /\ goneParts = total => MaxMissingPercent * total <= 99 * Cardinality(missing)

Judged ==
    /\ left \cup removed \subseteq missing
    /\ pc = "walk" => left = {} /\ removed = {}
    /\ pc = "delete" \/ removed # {} => ~Aborts

Cleared == calm => mounted /\ \A m \in missing : Checked(m) \cap there = {}

\* Nothing is passed over: an entry without a file is still to be walked, or missing.
Covered ==
    calm => /\ pc = "walk" => \A m \in Media : Gone(m) => Section[m] \in toList \/ m \in listed \cup missing
            /\ pc = "delete" /\ ~dry => \A m \in Media : Gone(m) => m \in left

IInv == TypeOK /\ Walked /\ Evidence /\ Judged /\ Cleared /\ Covered

------------------------------------------------------------------------------
(* Sizes *)

LEMMA MediaFinite ==
    ASSUME NEW S, S \subseteq Media
    PROVE  IsFiniteSet(S) /\ Cardinality(S) \in Nat
<1>1. IsFiniteSet(S)
  BY CleanupAssumption, FS_Subset
<1> QED
  BY <1>1, FS_CardinalityType

\* The parts of an entry that are seen missing are counted among its parts, and
\* they are all of them only when none is visible.
LEMMA PartsCounted ==
    ASSUME NEW m \in Media
    PROVE  /\ Cardinality(Checked(m)) \in Nat
           /\ Cardinality(Checked(m) \ Visible(m)) \in Nat
           /\ Cardinality(Checked(m) \ Visible(m)) <= Cardinality(Checked(m))
           /\ Cardinality(Checked(m) \ Visible(m)) = Cardinality(Checked(m)) => Visible(m) = {}
           /\ Checked(m) = {} => Cardinality(Checked(m)) = 0
<1> DEFINE C == Checked(m)
           G == Checked(m) \ Visible(m)
<1>1. IsFiniteSet(C)
  BY CleanupAssumption, FS_Subset DEF Checked
<1>2. G \subseteq C /\ Visible(m) \subseteq C
  BY DEF Visible
<1>3. IsFiniteSet(G) /\ Cardinality(G) <= Cardinality(C) /\ (Cardinality(G) = Cardinality(C) => G = C)
  BY <1>1, <1>2, FS_Subset
<1>4. G = C => Visible(m) = {}
  BY <1>2
<1>5. Cardinality(C) \in Nat /\ Cardinality(G) \in Nat
  BY <1>1, <1>3, FS_CardinalityType
<1>6. C = {} => Cardinality(C) = 0
  BY FS_EmptySet
<1> QED
  BY <1>3, <1>4, <1>5, <1>6

------------------------------------------------------------------------------
(* Types *)

LEMMA TypeStep == ASSUME TypeOK, [Next]_vars PROVE TypeOK'
<1> USE DEF TypeOK
<1>1. CASE StartPod
  BY <1>1 DEF StartPod, world
<1>2. CASE \E s \in Sections : ListSection(s)
  BY <1>2 DEF ListSection, world, count
<1>3. CASE \E m \in Media : Examine(m)
  <2>1. PICK m \in Media : Examine(m)
    BY <1>3
  <2>2. Cardinality(Checked(m)) \in Nat /\ Cardinality(Checked(m) \ Visible(m)) \in Nat
    BY PartsCounted
  <2> QED
    BY <2>1, <2>2 DEF Examine, world
<1>4. CASE Judge
  BY <1>4 DEF Judge, world, count
<1>5. CASE \E m \in Media : WouldDelete(m)
  BY <1>5 DEF WouldDelete, world, count
<1>6. CASE \E m \in Media : Delete(m)
  BY <1>6 DEF Delete, count
<1>7. CASE \E m \in Media : DeleteNotFound(m)
  BY <1>7 DEF DeleteNotFound, world, count
<1>8. CASE \E m \in Media : DeleteUnanswered(m)
  BY <1>8, CleanupAssumption DEF DeleteUnanswered, count
<1>9. CASE CallFails
  BY <1>9, CleanupAssumption DEF CallFails, world, count
<1>10. CASE Finish \/ JobFails
  BY <1>10 DEF Finish, JobFails, world, count
<1>11. CASE FileGoes \/ FileComes \/ MountBreaks \/ EntryAdded \/ EntryDropped
  <2>1. changes' \in 0..MaxChanges /\ calm' = FALSE
    BY <1>11, CleanupAssumption DEF FileGoes, FileComes, MountBreaks, EntryAdded, EntryDropped, Change
  <2>2. library' \in SUBSET Media /\ there' \in SUBSET Files /\ mounted' \in BOOLEAN
    BY <1>11, Zenon DEF FileGoes, FileComes, MountBreaks, EntryAdded, EntryDropped
  <2>3. UNCHANGED <<dry, pc, attempt, toList, listed, count, left, removed, fails>>
    BY <1>11 DEF FileGoes, FileComes, MountBreaks, EntryAdded, EntryDropped, Change
  <2>4. calm' \in BOOLEAN
    BY <2>1, Zenon
  <2> QED
    BY <2>1, <2>2, <2>3, <2>4 DEF count
<1>12. CASE MountHeals
  <2>1. mounted' \in BOOLEAN
    BY <1>12, Zenon DEF MountHeals
  <2> QED
    BY <1>12, <2>1 DEF MountHeals, count
<1>13. CASE UNCHANGED vars
  BY <1>13 DEF vars, world, count
<1> QED
  BY <1>1, <1>2, <1>3, <1>4, <1>5, <1>6, <1>7, <1>8, <1>9, <1>10, <1>11, <1>12, <1>13 DEF Next, Job, Others

------------------------------------------------------------------------------
(* The walk *)

\* Only the start of a pod, a listing and an examination touch the counts.
LEMMA CountsKept ==
    ASSUME [Next]_vars, ~StartPod, \A s \in Sections : ~ListSection(s), \A m \in Media : ~Examine(m)
    PROVE  UNCHANGED <<toList, listed, total, missing, goneParts>>
<1>1. CASE Judge \/ CallFails \/ Finish \/ JobFails
  BY <1>1 DEF Judge, CallFails, Finish, JobFails, count
<1>2. CASE \E m \in Media : WouldDelete(m) \/ Delete(m) \/ DeleteNotFound(m) \/ DeleteUnanswered(m)
  BY <1>2 DEF WouldDelete, Delete, DeleteNotFound, DeleteUnanswered, count
<1>3. CASE Others
  BY <1>3 DEF Others, FileGoes, FileComes, MountBreaks, EntryAdded, EntryDropped, MountHeals, Change, count
<1>4. CASE UNCHANGED vars
  BY <1>4 DEF vars, count
<1> QED
  BY <1>1, <1>2, <1>3, <1>4 DEF Next, Job

LEMMA WalkedStep == ASSUME IInv, [Next]_vars PROVE Walked'
<1>1. CASE StartPod
  BY <1>1 DEF StartPod, Walked
<1>2. ASSUME NEW s \in Sections, ListSection(s) PROVE Walked'
  <2>1. toList' = toList \ {s} /\ listed' = {m \in library : Section[m] = s} /\ missing' = missing /\ s \in toList
    BY <1>2 DEF ListSection, count
  <2> QED
    BY <2>1 DEF IInv, Walked
<1>3. ASSUME NEW m \in Media, Examine(m) PROVE Walked'
  <2>1. /\ toList' = toList /\ listed' = listed \ {m} /\ m \in listed
        /\ missing' = IF IsMissing(m) THEN missing \cup {m} ELSE missing
    BY <1>3 DEF Examine
  <2> QED
    BY <2>1 DEF IInv, Walked, IsMissing
<1>4. CASE UNCHANGED <<toList, listed, total, missing, goneParts>>
  BY <1>4 DEF IInv, Walked
<1> QED
  BY <1>1, <1>2, <1>3, <1>4, CountsKept

LEMMA EvidenceStep == ASSUME IInv, [Next]_vars PROVE Evidence'
<1>1. CASE StartPod
  <2>1. goneParts' = 0 /\ total' = 0 /\ Cardinality(missing') = 0
    BY <1>1, FS_EmptySet DEF StartPod
  <2> QED
    BY <2>1, CleanupAssumption DEF Evidence
<1>2. ASSUME NEW m \in Media, Examine(m) PROVE Evidence'
  <2> DEFINE c == Cardinality(Checked(m))
             g == Cardinality(Checked(m) \ Visible(m))
             n == Cardinality(missing)
  <2>1. /\ total' = total + c /\ goneParts' = goneParts + g
        /\ missing' = IF IsMissing(m) THEN missing \cup {m} ELSE missing
        /\ m \in listed
    BY <1>2 DEF Examine
  <2>2. c \in Nat /\ g \in Nat /\ g <= c /\ (g = c => Visible(m) = {}) /\ (Checked(m) = {} => c = 0)
    BY PartsCounted
  <2>3. n \in Nat /\ IsFiniteSet(missing)
    BY MediaFinite DEF IInv, TypeOK
  <2>4. total \in Nat /\ goneParts \in Nat /\ goneParts <= total
    BY DEF IInv, TypeOK, Evidence
  <2>5. goneParts' <= total'
    BY <2>1, <2>2, <2>4
  <2>6. ASSUME FewParts, goneParts' = total'
        PROVE  MaxMissingPercent * total' <= 99 * Cardinality(missing')
    <3>1. g = c /\ goneParts = total
      BY <2>1, <2>2, <2>4, <2>6
    <3>2. MaxMissingPercent * total <= 99 * n
      BY <2>6, <3>1 DEF IInv, Evidence
    <3>3. MaxMissingPercent * c < 100
      BY <2>6 DEF FewParts
    <3>4. CASE Checked(m) = {}
      <4>1. c = 0 /\ missing' = missing
        BY <2>1, <2>2, <3>4 DEF IsMissing
      <4> HIDE DEF c
      <4>2. total' = total
        BY <2>1, <2>4, <4>1
      <4> QED
        BY <3>2, <4>1, <4>2, Zenon
    <3>5. CASE Checked(m) # {}
      <4>1. missing' = missing \cup {m} /\ m \notin missing
        BY <2>1, <2>2, <3>1, <3>5 DEF IsMissing, IInv, Walked
      <4>2. Cardinality(missing') = n + 1
        BY <2>3, <4>1, FS_AddElement
      <4> HIDE DEF c, n
      <4>3. MaxMissingPercent * (total + c) = MaxMissingPercent * total + MaxMissingPercent * c
        BY <2>2, <2>4, CleanupAssumption
      <4>4. MaxMissingPercent * total \in Nat /\ MaxMissingPercent * c \in Nat
        BY <2>2, <2>4, CleanupAssumption
      <4> QED
        BY <2>1, <2>3, <3>2, <3>3, <4>2, <4>3, <4>4
    <3> QED
      BY <3>4, <3>5
  <2> QED
    BY <2>5, <2>6 DEF Evidence, FewParts
<1>3. ASSUME NEW s \in Sections, ListSection(s) PROVE Evidence'
  BY <1>3 DEF ListSection, count, IInv, Evidence, FewParts
<1>4. CASE UNCHANGED <<toList, listed, total, missing, goneParts>>
  BY <1>4 DEF IInv, Evidence, FewParts
<1> QED
  BY <1>1, <1>2, <1>3, <1>4, CountsKept

------------------------------------------------------------------------------
(* The judgement and the deletions *)

LEMMA JudgedStep == ASSUME IInv, [Next]_vars PROVE Judged'
<1>1. CASE StartPod
  BY <1>1 DEF StartPod, Judged
<1>2. ASSUME NEW s \in Sections, ListSection(s) PROVE Judged'
  BY <1>2 DEF ListSection, count, IInv, Judged
<1>3. ASSUME NEW m \in Media, Examine(m) PROVE Judged'
  <2>1. pc = "walk" /\ pc' = "walk" /\ left' = left /\ removed' = removed
    BY <1>3 DEF Examine
  <2> QED
    BY <2>1 DEF IInv, Judged
<1>4. CASE Judge
  <2>1. UNCHANGED <<total, missing, removed>> /\ (Aborts' <=> Aborts) /\ removed = {}
    BY <1>4 DEF Judge, count, Aborts, IInv, Judged
  <2> QED
    BY <1>4, <2>1 DEF Judge, Judged, IInv
<1>5. ASSUME NEW m \in Media,
             WouldDelete(m) \/ Delete(m) \/ DeleteNotFound(m) \/ DeleteUnanswered(m)
      PROVE  Judged'
  <2>1. /\ pc = "delete"
        /\ UNCHANGED <<total, missing>> /\ pc' \in {"delete", "failed"}
        /\ left' \subseteq left /\ removed' \subseteq removed \cup {m}
        /\ m \in left
    BY <1>5 DEF WouldDelete, Delete, DeleteNotFound, DeleteUnanswered, count
  <2> QED
    BY <2>1 DEF IInv, Judged, Aborts
<1>6. CASE CallFails \/ Finish \/ JobFails
  BY <1>6 DEF CallFails, Finish, JobFails, count, IInv, Judged, Aborts
<1>7. CASE Others
  BY <1>7 DEF Others, FileGoes, FileComes, MountBreaks, EntryAdded, EntryDropped, MountHeals, Change, count,
              IInv, Judged, Aborts
<1>8. CASE UNCHANGED vars
  BY <1>8 DEF vars, count, IInv, Judged, Aborts
<1> QED
  BY <1>1, <1>2, <1>3, <1>4, <1>5, <1>6, <1>7, <1>8 DEF Next, Job

LEMMA ClearedStep == ASSUME IInv, [Next]_vars PROVE Cleared'
<1>1. CASE StartPod
  BY <1>1 DEF StartPod, world, Cleared
<1>2. ASSUME NEW s \in Sections, ListSection(s) PROVE Cleared'
  BY <1>2 DEF ListSection, world, count, IInv, Cleared
<1>3. ASSUME NEW m \in Media, Examine(m) PROVE Cleared'
  <2>1. UNCHANGED <<mounted, there, calm>> /\ missing' \subseteq missing \cup {m}
        /\ (m \in missing' => m \in missing \/ IsMissing(m))
    BY <1>3 DEF Examine, world
  <2>2. mounted /\ IsMissing(m) => Checked(m) \cap there = {}
    BY DEF IsMissing, Visible
  <2> QED
    BY <2>1, <2>2 DEF IInv, Cleared
<1>4. ASSUME NEW m \in Media,
             WouldDelete(m) \/ Delete(m) \/ DeleteNotFound(m) \/ DeleteUnanswered(m)
      PROVE  Cleared'
  <2>1. UNCHANGED <<mounted, calm, missing>> /\ there' \subseteq there
    BY <1>4 DEF WouldDelete, Delete, DeleteNotFound, DeleteUnanswered, world, count
  <2> QED
    BY <2>1 DEF IInv, Cleared
<1>5. CASE Judge \/ CallFails \/ Finish \/ JobFails
  BY <1>5 DEF Judge, CallFails, Finish, JobFails, world, count, IInv, Cleared
<1>6. CASE FileGoes \/ FileComes \/ MountBreaks \/ EntryAdded \/ EntryDropped
  BY <1>6 DEF FileGoes, FileComes, MountBreaks, EntryAdded, EntryDropped, Change, Cleared
<1>7. CASE MountHeals
  BY <1>7 DEF MountHeals, count, IInv, Cleared
<1>8. CASE UNCHANGED vars
  BY <1>8 DEF vars, world, count, IInv, Cleared
<1> QED
  BY <1>1, <1>2, <1>3, <1>4, <1>5, <1>6, <1>7, <1>8 DEF Next, Job, Others

\* Deleting an entry that has no file takes no file from another one.
LEMMA GoneBefore ==
    ASSUME NEW m \in Media, Checked(m) \cap there = {}, library' = library \ {m}, there' = there \ Parts[m],
           NEW n \in Media, Gone(n)'
    PROVE  Gone(n) /\ n # m
  BY DEF Gone, Checked

LEMMA CoveredStep == ASSUME IInv, [Next]_vars PROVE Covered'
<1> USE DEF IInv
<1>1. CASE StartPod
  BY <1>1 DEF StartPod, Covered, Sections
<1>2. ASSUME NEW s \in Sections, ListSection(s) PROVE Covered'
  <2>1. /\ pc = "walk" /\ listed = {} /\ toList' = toList \ {s} /\ listed' = {m \in library : Section[m] = s}
        /\ UNCHANGED <<library, there, dry, pc, missing, left, calm>>
    BY <1>2 DEF ListSection, world, count
  <2> QED
    BY <2>1 DEF Covered, Gone
<1>3. ASSUME NEW m \in Media, Examine(m) PROVE Covered'
  <2>1. /\ pc = "walk" /\ listed' = listed \ {m}
        /\ missing' = IF IsMissing(m) THEN missing \cup {m} ELSE missing
        /\ UNCHANGED <<library, there, dry, pc, toList, left, calm>>
    BY <1>3 DEF Examine, world
  <2>2. Gone(m) => IsMissing(m)
    BY DEF Gone, IsMissing, Visible
  <2>3. \A n \in Media : Gone(n)' = Gone(n)
    BY <2>1 DEF Gone
  <2> QED
    BY <2>1, <2>2, <2>3 DEF Covered
<1>4. CASE Judge
  <2>1. /\ pc = "walk" /\ toList = {} /\ listed = {}
        /\ (pc' = "failed" \/ (pc' = "delete" /\ left' = missing))
        /\ UNCHANGED <<library, there, calm>>
    BY <1>4 DEF Judge, world
  <2> QED
    BY <2>1 DEF Covered, Gone
<1>5. ASSUME NEW m \in Media, Delete(m) PROVE Covered'
  <2>1. /\ pc = "delete" /\ m \in left /\ left' = left \ {m} /\ ~dry
        /\ library' = library \ {m} /\ there' = there \ Parts[m]
        /\ UNCHANGED <<dry, pc, calm>>
    BY <1>5 DEF Delete
  <2>2. calm => Checked(m) \cap there = {}
    BY <2>1 DEF Judged, Cleared
  <2>3. calm => \A n \in Media : Gone(n)' => Gone(n) /\ n # m
    BY <2>1, <2>2, GoneBefore
  <2> QED
    BY <2>1, <2>3 DEF Covered
<1>6. ASSUME NEW m \in Media, WouldDelete(m) \/ DeleteNotFound(m) \/ DeleteUnanswered(m) PROVE Covered'
  <2>1. pc' = "failed" \/ (pc' = "delete" /\ dry')
    BY <1>6 DEF WouldDelete, DeleteNotFound, DeleteUnanswered, world
  <2> QED
    BY <2>1 DEF Covered
<1>7. CASE CallFails \/ Finish \/ JobFails
  BY <1>7 DEF CallFails, Finish, JobFails, Covered
<1>8. CASE FileGoes \/ FileComes \/ MountBreaks \/ EntryAdded \/ EntryDropped
  BY <1>8 DEF FileGoes, FileComes, MountBreaks, EntryAdded, EntryDropped, Change, Covered
<1>9. CASE MountHeals
  BY <1>9 DEF MountHeals, count, Covered, Gone
<1>10. CASE UNCHANGED vars
  BY <1>10 DEF vars, world, count, Covered, Gone
<1> QED
  BY <1>1, <1>2, <1>3, <1>4, <1>5, <1>6, <1>7, <1>8, <1>9, <1>10 DEF Next, Job, Others

------------------------------------------------------------------------------
(* The theorems *)

LEMMA InitInv == Init => IInv
<1> SUFFICES ASSUME Init PROVE IInv
  OBVIOUS
<1>1. TypeOK
  BY CleanupAssumption DEF Init, TypeOK
<1>2. Walked /\ Judged /\ Cleared /\ Covered
  BY DEF Init, Walked, Judged, Cleared, Covered
<1>3. Evidence
  <2>1. total = 0 /\ goneParts = 0 /\ Cardinality(missing) = 0
    BY FS_EmptySet DEF Init
  <2> QED
    BY <2>1, CleanupAssumption DEF Evidence
<1> QED
  BY <1>1, <1>2, <1>3 DEF IInv

LEMMA StepInv == IInv /\ [Next]_vars => IInv'
<1> SUFFICES ASSUME IInv, [Next]_vars PROVE IInv'
  OBVIOUS
<1>1. TypeOK'
  BY TypeStep DEF IInv
<1> QED
  BY <1>1, WalkedStep, EvidenceStep, JudgedStep, ClearedStep, CoveredStep DEF IInv

\* The variables stay in their types.
THEOREM TypeCorrect == Spec => []TypeOK
<1>1. IInv => TypeOK
  BY DEF IInv
<1> QED
  BY <1>1, InitInv, StepInv, PTL DEF Spec

\* The entries one pod deletes never exceed the breaker's share of the parts it
\* checked (missing-cleanup-script.yaml:83-95).
THEOREM LossIsBounded == Spec => []LossBounded
<1>1. IInv => LossBounded
  <2> SUFFICES ASSUME IInv PROVE LossBounded
    OBVIOUS
  <2>1. total \in Nat /\ removed \subseteq missing /\ missing \subseteq Media
    BY DEF IInv, TypeOK, Judged
  <2>2. Cardinality(removed) \in Nat /\ Cardinality(missing) \in Nat /\ Cardinality(removed) <= Cardinality(missing)
    BY <2>1, MediaFinite, FS_Subset
  <2>3. CASE removed = {}
    <3>1. Cardinality(removed) = 0
      BY <2>3, FS_EmptySet
    <3> QED
      BY <2>1, <3>1, CleanupAssumption DEF LossBounded
  <2>4. CASE removed # {}
    BY <2>1, <2>2, <2>4, CleanupAssumption DEF IInv, Judged, Aborts, LossBounded
  <2> QED
    BY <2>3, <2>4
<1> QED
  BY <1>1, InitInv, StepInv, PTL DEF Spec

\* A pod that saw no file at all deletes nothing, whatever the library, unless an
\* entry has 100 / MaxMissingPercent parts or more (lines 12-16, 83).
THEOREM OutageIsHarmless == Spec => []OutageHarmless
<1>1. IInv => OutageHarmless
  <2> SUFFICES ASSUME IInv, FewParts, goneParts = total, removed # {} PROVE FALSE
    BY DEF OutageHarmless
  <2>1. total \in Nat /\ total # 0 /\ ~(100 * Cardinality(missing) > MaxMissingPercent * total)
    BY DEF IInv, TypeOK, Judged, Aborts
  <2>2. MaxMissingPercent * total <= 99 * Cardinality(missing)
    BY DEF IInv, Evidence
  <2>3. removed \subseteq missing /\ missing \subseteq Media
    BY DEF IInv, Judged, TypeOK
  <2>4. Cardinality(missing) \in Nat /\ Cardinality(missing) # 0
    BY <2>3, MediaFinite, FS_EmptySet
  <2> QED
    BY <2>1, <2>2, <2>4, CleanupAssumption
<1> QED
  BY <1>1, InitInv, StepInv, PTL DEF Spec

\* While nothing else changes, what is deleted are the entries without a file in the
\* library's path: no other, and when a pod has come to its end, all of them (58-71, 95).
THEOREM CalmIsSafe == Spec => []CalmSafe
<1>1. IInv => CalmSafe
  BY DEF IInv, Walked, Judged, Cleared, Covered, CalmSafe
<1> QED
  BY <1>1, InitInv, StepInv, PTL DEF Spec
==============================================================================
