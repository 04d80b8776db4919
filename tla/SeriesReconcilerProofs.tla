------------------------ MODULE SeriesReconcilerProofs ------------------------
(***************************************************************************)
(* That the reconciler searches a book at most once, however its runs are  *)
(* cut short and repeated.  What stops the second search is that the book  *)
(* is monitored before it is searched, and that whatever ends that without *)
(* a user also leaves a trace in the history: a search is always paid for, *)
(* by one of the two or by a user's switch (Paid).                         *)
(* Then that a run overlooks nothing: what was wanted all the time is      *)
(* found when its author has had his turn (Sought).                        *)
(***************************************************************************)
EXTENDS SeriesReconciler, TLAPS

Credit(b) == IF b \in monitored \/ stage[b] # "new" THEN 1 ELSE 0

Paid == \A b \in Books : searches[b] <= offs[b] + Credit(b)

\* What the run is about to search can be paid for, before and after it is monitored.
Unpaid ==
    /\ \A b \in cands : searches[b] <= offs[b] \/ stage[b] # "new"
    /\ pc # "search" => \A b \in toSearch : searches[b] <= offs[b]
    /\ pc = "search" => \A b \in toSearch : searches[b] + 1 <= offs[b] + Credit(b)

StillHandled == \A b \in handledBefore : stage[b] # "new"

IInv == TypeOK /\ Paid /\ Unpaid /\ StillHandled /\ HandledLeftAlone

------------------------------------------------------------------------------
(* Types *)

LEMMA ExitType == ASSUME Exit PROVE
    /\ pc' = "idle" /\ copies' \in [Authors -> [tags : SUBSET Tags, mon : BOOLEAN]]
    /\ at' \in 1..NAuthors + 1 /\ cands' = {} /\ toSearch' = {} /\ handledBefore' = {} /\ waiting' = {}
<1>1. NoCopies \in [Authors -> [tags : SUBSET Tags, mon : BOOLEAN]]
  <2>1. FALSE \in BOOLEAN
    OBVIOUS
  <2>2. [tags |-> {}, mon |-> FALSE] \in [tags : SUBSET Tags, mon : BOOLEAN]
    BY <2>1, Zenon
  <2> QED
    BY <2>2 DEF NoCopies
<1>2. 1 \in 1..NAuthors + 1
  BY ReconcilerAssumption
<1> QED
  BY <1>1, <1>2 DEF Exit

\* A record of an author with its monitored flag set.
LEMMA CopyMarked ==
    ASSUME NEW C \in [Authors -> [tags : SUBSET Tags, mon : BOOLEAN]], NEW a \in Authors
    PROVE  [C EXCEPT ![a].mon = TRUE] \in [Authors -> [tags : SUBSET Tags, mon : BOOLEAN]]
<1>1. C[a] \in [tags : SUBSET Tags, mon : BOOLEAN]
  OBVIOUS
<1>2. [C[a] EXCEPT !.mon = TRUE] \in [tags : SUBSET Tags, mon : BOOLEAN]
  BY <1>1, Zenon
<1> QED
  BY <1>2, Zenon

LEMMA TypeRun == ASSUME TypeOK, Run PROVE TypeOK'
<1> USE ReconcilerAssumption DEF TypeOK
<1>1. CASE Start
  <2>1. copies' \in [Authors -> [tags : SUBSET Tags, mon : BOOLEAN]]
    <3>1. \A a \in Authors : [tags |-> tags[a], mon |-> authorMon[a]] \in [tags : SUBSET Tags, mon : BOOLEAN]
      BY Zenon
    <3> QED
      BY <1>1, <3>1 DEF Start
  <2>2. at' \in 1..NAuthors + 1 /\ pc' \in {"authors"}
    BY <1>1 DEF Start
  <2>3. cands' = {} /\ toSearch' = {} /\ handledBefore' \in SUBSET Books /\ waiting' \in SUBSET Books
    BY <1>1 DEF Start
  <2>4. UNCHANGED <<bookshelf, intent, raced, searches, offs, userActs, fails>>
    BY <1>1 DEF Start
  <2> QED
    BY <2>1, <2>2, <2>3, <2>4 DEF bookshelf
<1>2. ASSUME NEW a \in Authors, Skip(a) PROVE TypeOK'
  BY <1>2 DEF Skip, bookshelf, history, Authors
<1>3. ASSUME NEW a \in Authors, NEW answered \in BOOLEAN, PutAuthor(a, answered) PROVE TypeOK'
  <2>1. tags' \in [Authors -> SUBSET Tags] /\ UNCHANGED <<volumes, monitored, stage, intent, raced, searches, offs, userActs>>
    BY <1>3 DEF PutAuthor
  <2>2. authorMon' \in [Authors -> BOOLEAN]
    <3>1. authorMon' = [authorMon EXCEPT ![a] = TRUE]
      BY <1>3 DEF PutAuthor
    <3> QED
      BY <3>1, Zenon
  <2>3. CASE answered
    <3>1. copies' = [copies EXCEPT ![a].mon = TRUE] /\ UNCHANGED <<pc, at, cands, toSearch, handledBefore, waiting, fails>>
      BY <1>3, <2>3 DEF PutAuthor
    <3>2. copies' \in [Authors -> [tags : SUBSET Tags, mon : BOOLEAN]]
      BY <3>1, CopyMarked, Zenon
    <3> QED
      BY <2>1, <2>2, <3>1, <3>2
  <2>4. CASE ~answered
    <3>1. Exit /\ fails' \in 0..MaxFail
      BY <1>3, <2>4 DEF PutAuthor, Fail
    <3> QED
      BY <2>1, <2>2, <3>1, ExitType
  <2> QED
    BY <2>3, <2>4
<1>4. ASSUME NEW a \in Authors, ListBooks(a) PROVE TypeOK'
  BY <1>4 DEF ListBooks, bookshelf, history, Authors
<1>5. ASSUME NEW b \in Books, CheckHistory(b) PROVE TypeOK'
  BY <1>5 DEF CheckHistory, bookshelf, history
<1>6. CASE NextAuthor
  BY <1>6 DEF NextAuthor, bookshelf, history
<1>7. CASE AuthorsDone
  <2>1. UNCHANGED <<bookshelf, intent, raced, searches, offs, userActs, fails>>
    BY <1>7 DEF AuthorsDone
  <2>2. CASE Exit
    BY <2>1, <2>2, ExitType DEF bookshelf
  <2>3. CASE pc' = "monitor" /\ UNCHANGED <<copies, at, cands, toSearch, handledBefore, waiting>>
    BY <2>1, <2>3 DEF bookshelf
  <2> QED
    BY <1>7, <2>2, <2>3 DEF AuthorsDone
<1>8. ASSUME NEW answered \in BOOLEAN, Monitor(answered) PROVE TypeOK'
  <2>1. monitored' \in SUBSET Books /\ UNCHANGED <<volumes, stage, tags, authorMon, intent, raced, searches, offs, userActs>>
    BY <1>8 DEF Monitor
  <2>2. CASE pc' = "search" /\ UNCHANGED <<copies, at, cands, toSearch, handledBefore, waiting, fails>>
    BY <2>1, <2>2
  <2>3. CASE Fail
    BY <2>1, <2>3, ExitType DEF Fail
  <2> QED
    BY <1>8, <2>2, <2>3 DEF Monitor
<1>9. ASSUME NEW answered \in BOOLEAN, Search(answered) PROVE TypeOK'
  <2>1. searches' \in [Books -> Nat] /\ UNCHANGED <<bookshelf, intent, raced, offs, userActs>>
    BY <1>9 DEF Search
  <2>2. Exit /\ fails' \in 0..MaxFail
    BY <1>9 DEF Search, Fail
  <2> QED
    BY <2>1, <2>2, ExitType DEF bookshelf
<1>10. CASE CallFails
  BY <1>10, ExitType DEF CallFails, Fail, bookshelf
<1> QED
  BY <1>1, <1>2, <1>3, <1>4, <1>5, <1>6, <1>7, <1>8, <1>9, <1>10 DEF Run

LEMMA TypeOthers == ASSUME TypeOK, Others PROVE TypeOK'
<1> USE ReconcilerAssumption DEF TypeOK
<1>1. ASSUME NEW a \in Authors, NEW t \in Tags, Tag(a, t) PROVE TypeOK'
  <2>1. tags' \in [Authors -> SUBSET Tags] /\ userActs' \in 0..MaxUser
    BY <1>1 DEF Tag
  <2>2. intent' \in [Authors -> SUBSET Tags] /\ raced' \in SUBSET Authors
    BY <1>1, <2>1 DEF Tag
  <2>3. waiting' \in SUBSET Books
    BY <1>1 DEF Tag
  <2>4. UNCHANGED <<volumes, monitored, stage, authorMon, run, handledBefore, searches, offs, fails>>
    BY <1>1 DEF Tag
  <2> QED
    BY <2>1, <2>2, <2>3, <2>4 DEF run
<1>2. ASSUME NEW b \in Books, SwitchOn(b) \/ SwitchOff(b) \/ AddVolume(b) PROVE TypeOK'
  BY <1>2 DEF SwitchOn, SwitchOff, AddVolume, run, history
<1>3. ASSUME NEW b \in Books, Grab(b) \/ Import(b) \/ Consume(b) PROVE TypeOK'
  BY <1>3 DEF Grab, Import, Consume, run, history
<1> QED
  BY <1>1, <1>2, <1>3 DEF Others

------------------------------------------------------------------------------
(* The balance *)

Balance == Paid /\ Unpaid /\ StillHandled /\ HandledLeftAlone

\* Numbers of one book.
LEMMA Counts ==
    ASSUME TypeOK, NEW b \in Books
    PROVE  searches[b] \in Nat /\ offs[b] \in Nat /\ Credit(b) \in {0, 1}
  BY DEF TypeOK, Credit

\* An action that leaves searches and offs alone, keeps or raises every credit, and ends the run.
LEMMA ExitBalance ==
    ASSUME IInv, Exit, searches' = searches, offs' = offs, \A b \in Books : Credit(b)' >= Credit(b)
    PROVE  Balance'
<1>1. Paid'
  <2> SUFFICES ASSUME NEW b \in Books PROVE searches[b] <= offs[b] + Credit(b)'
    BY DEF Paid
  <2>1. searches[b] <= offs[b] + Credit(b) /\ Credit(b)' >= Credit(b) /\ Credit(b)' \in {0, 1}
    BY DEF IInv, Paid, Credit
  <2> QED
    BY <2>1, Counts DEF IInv
<1> QED
  BY <1>1 DEF Exit, Balance, Unpaid, StillHandled, HandledLeftAlone

LEMMA BalanceRun == ASSUME IInv, Run PROVE Balance'
<1> USE DEF IInv
<1>1. CASE Start
  <2>1. /\ UNCHANGED <<monitored, stage, searches, offs>> /\ pc' = "authors" /\ cands' = {} /\ toSearch' = {}
        /\ handledBefore' = {b \in Books : stage[b] # "new"}
    BY <1>1 DEF Start, bookshelf
  <2> QED
    BY <2>1 DEF Balance, Paid, Unpaid, StillHandled, HandledLeftAlone, Credit
<1>2. ASSUME NEW a \in Authors, Skip(a) PROVE Balance'
  BY <1>2 DEF Skip, bookshelf, history, Balance, Paid, Unpaid, StillHandled, HandledLeftAlone, Credit
<1>3. ASSUME NEW a \in Authors, NEW answered \in BOOLEAN, PutAuthor(a, answered) PROVE Balance'
  <2>1. UNCHANGED <<monitored, stage, searches, offs>> /\ pc = "authors"
    BY <1>3 DEF PutAuthor
  <2>2. CASE answered
    BY <1>3, <2>1, <2>2 DEF PutAuthor, Balance, Paid, Unpaid, StillHandled, HandledLeftAlone, Credit
  <2>3. CASE ~answered
    <3>1. Exit
      BY <1>3, <2>3 DEF PutAuthor, Fail
    <3>2. \A b \in Books : Credit(b)' >= Credit(b)
      BY <2>1 DEF Credit
    <3> QED
      BY <2>1, <3>1, <3>2, ExitBalance
  <2> QED
    BY <2>2, <2>3
<1>4. ASSUME NEW a \in Authors, ListBooks(a) PROVE Balance'
  <2>1. /\ UNCHANGED <<monitored, stage, searches, offs, toSearch, handledBefore>>
        /\ pc = "authors" /\ pc' = "books" /\ cands' = {b \in volumes : Candidate(a, b)}
    BY <1>4 DEF ListBooks, bookshelf, history
  <2>2. ASSUME NEW b \in cands' PROVE searches[b] <= offs[b] \/ stage[b] # "new"
    <3>1. b \in Books /\ b \notin monitored
      BY <2>1 DEF Candidate, TypeOK
    <3>2. searches[b] <= offs[b] + Credit(b)
      BY <3>1 DEF Paid
    <3> QED
      BY <3>1, <3>2, Counts DEF Credit
  <2> QED
    BY <2>1, <2>2 DEF Balance, Paid, Unpaid, StillHandled, HandledLeftAlone, Credit
<1>5. ASSUME NEW b \in Books, CheckHistory(b) PROVE Balance'
  <2>1. /\ UNCHANGED <<monitored, stage, searches, offs, handledBefore, pc>>
        /\ pc = "books" /\ b \in cands /\ cands' = cands \ {b}
        /\ toSearch' = IF WasHandled(b) THEN toSearch ELSE toSearch \cup {b}
    BY <1>5 DEF CheckHistory, bookshelf, history
  <2> QED
    BY <2>1 DEF WasHandled, Balance, Paid, Unpaid, StillHandled, HandledLeftAlone, Credit
<1>6. CASE NextAuthor
  BY <1>6 DEF NextAuthor, bookshelf, history, Balance, Paid, Unpaid, StillHandled, HandledLeftAlone, Credit
<1>7. CASE AuthorsDone
  <2>1. UNCHANGED <<monitored, stage, searches, offs>> /\ pc = "authors"
    BY <1>7 DEF AuthorsDone, bookshelf
  <2>2. CASE Exit
    <3>1. \A b \in Books : Credit(b)' >= Credit(b)
      BY <2>1 DEF Credit
    <3> QED
      BY <2>1, <2>2, <3>1, ExitBalance
  <2>3. CASE pc' = "monitor" /\ UNCHANGED <<copies, at, cands, toSearch, handledBefore, waiting>>
    BY <2>1, <2>3 DEF Balance, Paid, Unpaid, StillHandled, HandledLeftAlone, Credit
  <2> QED
    BY <1>7, <2>2, <2>3 DEF AuthorsDone
<1>8. ASSUME NEW answered \in BOOLEAN, Monitor(answered) PROVE Balance'
  <2>1. UNCHANGED <<stage, searches, offs>> /\ pc = "monitor" /\ monitored' = monitored \cup toSearch
    BY <1>8 DEF Monitor
  <2>2. \A b \in Books : Credit(b)' >= Credit(b) /\ Credit(b)' \in {0, 1}
    BY <2>1 DEF Credit
  <2>3. CASE Fail
    BY <2>1, <2>2, <2>3, ExitBalance DEF Fail
  <2>4. CASE pc' = "search" /\ UNCHANGED <<copies, at, cands, toSearch, handledBefore, waiting, fails>>
    <3>1. ASSUME NEW b \in toSearch PROVE searches[b] + 1 <= offs[b] + Credit(b)'
      <4>1. b \in Books /\ Credit(b)' = 1 /\ searches[b] <= offs[b]
        BY <2>1 DEF Credit, TypeOK, Unpaid
      <4> QED
        BY <4>1, Counts
    <3>2. Paid'
      <4> SUFFICES ASSUME NEW b \in Books PROVE searches[b] <= offs[b] + Credit(b)'
        BY <2>1 DEF Paid
      <4>1. searches[b] <= offs[b] + Credit(b)
        BY DEF Paid
      <4> QED
        BY <2>2, <4>1, Counts
    <3>3. Unpaid'
      BY <2>1, <2>4, <3>1 DEF Unpaid
    <3> QED
      BY <2>1, <2>4, <3>2, <3>3 DEF Balance, StillHandled, HandledLeftAlone
  <2> QED
    BY <1>8, <2>3, <2>4 DEF Monitor
<1>9. ASSUME NEW answered \in BOOLEAN, Search(answered) PROVE Balance'
  <2>1. /\ UNCHANGED <<monitored, stage, offs>> /\ pc = "search"
        /\ searches' = [b \in Books |-> IF b \in toSearch THEN searches[b] + 1 ELSE searches[b]]
        /\ Exit
    BY <1>9 DEF Search, Fail, bookshelf
  <2>2. ASSUME NEW b \in Books PROVE searches'[b] <= offs[b] + Credit(b)
    BY <2>1 DEF Paid, Unpaid
  <2>3. Paid'
    BY <2>1, <2>2 DEF Paid, Credit
  <2> QED
    BY <2>1, <2>3 DEF Exit, Balance, Unpaid, StillHandled, HandledLeftAlone
<1>10. CASE CallFails
  <2>1. UNCHANGED <<monitored, stage, searches, offs>> /\ Exit
    BY <1>10 DEF CallFails, Fail, bookshelf
  <2>2. \A b \in Books : Credit(b)' >= Credit(b)
    BY <2>1 DEF Credit
  <2> QED
    BY <2>1, <2>2, ExitBalance
<1> QED
  BY <1>1, <1>2, <1>3, <1>4, <1>5, <1>6, <1>7, <1>8, <1>9, <1>10 DEF Run

LEMMA BalanceOthers == ASSUME IInv, Others PROVE Balance'
<1> USE DEF IInv
\* What others do never makes a book new again; only a user's switch, which is
\* counted, and a consumption, which leaves its trace, end a book's monitoring.
<1>1. ASSUME NEW c \in Books, SwitchOff(c) PROVE Balance'
  <2>1. /\ monitored' = monitored \ {c} /\ offs' = [offs EXCEPT ![c] = @ + 1]
        /\ UNCHANGED <<stage, searches, pc, cands, toSearch, handledBefore>>
    BY <1>1 DEF SwitchOff, run
  <2>2. ASSUME NEW b \in Books
        PROVE  offs[b] + Credit(b) <= offs'[b] + Credit(b)' /\ offs[b] <= offs'[b]
    BY <2>1, Counts DEF Credit, TypeOK
  <2>3. \A b \in Books : offs'[b] \in Nat /\ Credit(b)' \in {0, 1}
    BY <2>1 DEF Credit, TypeOK
  <2> HIDE DEF IInv
  <2>4. Paid'
    <3> SUFFICES ASSUME NEW b \in Books PROVE searches[b] <= offs'[b] + Credit(b)'
      BY <2>1 DEF Paid
    <3>1. searches[b] <= offs[b] + Credit(b)
      BY DEF IInv, Paid
    <3> QED
      BY <2>2, <2>3, <3>1, Counts DEF IInv
  <2>5. \A b \in cands : searches[b] <= offs'[b] \/ stage[b] # "new"
    BY <2>2, <2>3, Counts DEF IInv, TypeOK, Unpaid
  <2>6. pc # "search" => \A b \in toSearch : searches[b] <= offs'[b]
    BY <2>2, <2>3, Counts DEF IInv, TypeOK, Unpaid
  <2>7. pc = "search" => \A b \in toSearch : searches[b] + 1 <= offs'[b] + Credit(b)'
    <3> SUFFICES ASSUME pc = "search", NEW b \in toSearch PROVE searches[b] + 1 <= offs'[b] + Credit(b)'
      OBVIOUS
    <3>1. searches[b] + 1 <= offs[b] + Credit(b) /\ b \in Books
      BY DEF IInv, Unpaid, TypeOK
    <3> QED
      BY <2>2, <2>3, <3>1, Counts DEF IInv
  <2>8. Unpaid'
    BY <2>1, <2>5, <2>6, <2>7 DEF Unpaid
  <2> QED
    BY <2>1, <2>4, <2>8 DEF IInv, Balance, StillHandled, HandledLeftAlone
<1>2. ASSUME /\ UNCHANGED <<searches, offs, pc, cands, toSearch, handledBefore>>
             /\ \A b \in Books : Credit(b)' >= Credit(b)
             /\ \A b \in Books : stage[b] # "new" => stage'[b] # "new"
      PROVE  Balance'
  <2>1. \A b \in Books : Credit(b)' \in {0, 1}
    BY DEF Credit
  <2> HIDE DEF IInv
  <2>2. Paid'
    <3> SUFFICES ASSUME NEW b \in Books PROVE searches[b] <= offs[b] + Credit(b)'
      BY <1>2 DEF Paid
    <3>1. searches[b] <= offs[b] + Credit(b)
      BY DEF IInv, Paid
    <3> QED
      BY <1>2, <2>1, <3>1, Counts DEF IInv
  <2>3. pc = "search" => \A b \in toSearch : searches[b] + 1 <= offs[b] + Credit(b)'
    <3> SUFFICES ASSUME pc = "search", NEW b \in toSearch PROVE searches[b] + 1 <= offs[b] + Credit(b)'
      OBVIOUS
    <3>1. searches[b] + 1 <= offs[b] + Credit(b) /\ b \in Books
      BY DEF IInv, Unpaid, TypeOK
    <3> QED
      BY <1>2, <2>1, <3>1, Counts DEF IInv
  <2>4. Unpaid'
    BY <1>2, <2>3 DEF IInv, Unpaid, TypeOK
  <2>5. StillHandled' /\ HandledLeftAlone'
    BY <1>2 DEF IInv, StillHandled, HandledLeftAlone, TypeOK
  <2> QED
    BY <2>2, <2>4, <2>5 DEF Balance
<1>3. ASSUME NEW a \in Authors, NEW t \in Tags, Tag(a, t) PROVE Balance'
  BY <1>2, <1>3 DEF Tag, run, Credit
<1>4. ASSUME NEW b \in Books, SwitchOn(b) \/ AddVolume(b) PROVE Balance'
  BY <1>2, <1>4 DEF SwitchOn, AddVolume, run, history, Credit
<1>5. ASSUME NEW b \in Books, Grab(b) \/ Import(b) \/ Consume(b) PROVE Balance'
  <2>1. UNCHANGED <<searches, offs, pc, cands, toSearch, handledBefore>>
    BY <1>5 DEF Grab, Import, Consume, run, history
  <2>2. \A c \in Books : stage[c] # "new" => stage'[c] # "new"
    BY <1>5 DEF Grab, Import, Consume, TypeOK
  <2>3. \A c \in Books : Credit(c)' >= Credit(c)
    BY <1>5, <2>2 DEF Grab, Import, Consume, Credit, TypeOK
  <2> QED
    BY <1>2, <2>1, <2>2, <2>3
<1> QED
  BY <1>1, <1>3, <1>4, <1>5 DEF Others

------------------------------------------------------------------------------
(* The theorems *)

LEMMA InitInv == Init => IInv
<1> SUFFICES ASSUME Init PROVE IInv
  OBVIOUS
<1>1. NoCopies \in [Authors -> [tags : SUBSET Tags, mon : BOOLEAN]]
  <2>1. [tags |-> {}, mon |-> FALSE] \in [tags : SUBSET Tags, mon : BOOLEAN]
    BY Zenon
  <2> QED
    BY <2>1 DEF NoCopies
<1>2. TypeOK
  BY <1>1, ReconcilerAssumption DEF Init, TypeOK
<1>3. Paid /\ Unpaid /\ StillHandled /\ HandledLeftAlone
  BY DEF Init, Paid, Unpaid, StillHandled, HandledLeftAlone, Credit
<1> QED
  BY <1>2, <1>3 DEF IInv

LEMMA StepInv == IInv /\ [Next]_vars => IInv'
<1> SUFFICES ASSUME IInv, [Next]_vars PROVE IInv'
  OBVIOUS
<1>1. CASE Next
  <2>1. TypeOK'
    BY <1>1, TypeRun, TypeOthers DEF Next, IInv
  <2>2. Balance'
    BY <1>1, BalanceRun, BalanceOthers DEF Next
  <2> QED
    BY <2>1, <2>2 DEF IInv, Balance
<1>2. CASE UNCHANGED vars
  BY <1>2 DEF vars, bookshelf, run, history, IInv, TypeOK, Paid, Unpaid, StillHandled, HandledLeftAlone, Credit
<1> QED
  BY <1>1, <1>2

\* The variables stay in their types.
THEOREM TypeCorrect == Spec => []TypeOK
<1>1. IInv => TypeOK
  BY DEF IInv
<1> QED
  BY <1>1, InitInv, StepInv, PTL DEF Spec

\* A book is searched once, and once more for each time a user switched it off,
\* however calls fail and runs repeat (series_reconciler.py:86, 91, 99-100).
THEOREM SearchedAtMostOnce == Spec => []SearchedOnce
<1>1. IInv => SearchedOnce
  <2> SUFFICES ASSUME IInv, NEW b \in Books PROVE searches[b] <= offs[b] + 1
    BY DEF SearchedOnce
  <2>1. searches[b] <= offs[b] + Credit(b)
    BY DEF IInv, Paid
  <2> QED
    BY <2>1, Counts DEF IInv
<1> QED
  BY <1>1, InitInv, StepInv, PTL DEF Spec

\* What had been grabbed or imported when a run began is not among what it
\* searches (series_reconciler.py:54-60, 91).
THEOREM HandledSafe == Spec => []HandledLeftAlone
<1>1. IInv => HandledLeftAlone
  BY DEF IInv
<1> QED
  BY <1>1, InitInv, StepInv, PTL DEF Spec

------------------------------------------------------------------------------
(* Tags *)

\* A run's copies are as good as new but for the authors a user tagged meanwhile.
Fresh == pc # "idle" => \A a \in Authors \ raced : copies[a].tags = tags[a]

LEMMA FreshRun == ASSUME TypeOK, TagsKept, Fresh, Run PROVE TagsKept' /\ Fresh'
<1> USE DEF TypeOK
<1>1. CASE Start
  <2>1. copies' = [a \in Authors |-> [tags |-> tags[a], mon |-> authorMon[a]]]
        /\ UNCHANGED <<tags, intent, raced>>
    BY <1>1 DEF Start, bookshelf
  <2> QED
    BY <2>1 DEF TagsKept, Fresh
<1>2. ASSUME NEW a \in Authors, NEW answered \in BOOLEAN, PutAuthor(a, answered) PROVE TagsKept' /\ Fresh'
  <2>1. pc # "idle" /\ tags' = [tags EXCEPT ![a] = copies[a].tags] /\ UNCHANGED <<intent, raced>>
    BY <1>2 DEF PutAuthor
  <2>2. \A c \in Authors \ raced : tags'[c] = tags[c]
    BY <2>1 DEF Fresh
  <2>3. TagsKept'
    BY <2>1, <2>2 DEF TagsKept
  <2>4. CASE answered
    <3>1. copies' = [copies EXCEPT ![a].mon = TRUE]
      BY <1>2, <2>4 DEF PutAuthor
    <3>2. \A c \in Authors : copies'[c].tags = copies[c].tags
      BY <3>1
    <3> QED
      BY <2>1, <2>2, <2>3, <3>2 DEF Fresh
  <2>5. CASE ~answered
    BY <1>2, <2>3, <2>5 DEF PutAuthor, Fail, Exit, Fresh
  <2> QED
    BY <2>4, <2>5
<1>3. ASSUME UNCHANGED <<tags, intent, raced>>, pc' = "idle" \/ (pc # "idle" /\ copies' = copies)
      PROVE  TagsKept' /\ Fresh'
  BY <1>3 DEF TagsKept, Fresh
<1>4. ASSUME NEW a \in Authors, Skip(a) \/ ListBooks(a) PROVE TagsKept' /\ Fresh'
  BY <1>3, <1>4 DEF Skip, ListBooks, bookshelf, history
<1>5. ASSUME NEW b \in Books, CheckHistory(b) PROVE TagsKept' /\ Fresh'
  BY <1>3, <1>5 DEF CheckHistory, bookshelf, history
<1>6. ASSUME NEW answered \in BOOLEAN, Monitor(answered) \/ Search(answered) PROVE TagsKept' /\ Fresh'
  BY <1>3, <1>6 DEF Monitor, Search, Fail, Exit, bookshelf
<1>7. ASSUME NextAuthor \/ AuthorsDone \/ CallFails PROVE TagsKept' /\ Fresh'
  BY <1>3, <1>7 DEF NextAuthor, AuthorsDone, CallFails, Fail, Exit, bookshelf, history
<1> QED
  BY <1>1, <1>2, <1>4, <1>5, <1>6, <1>7 DEF Run

LEMMA FreshOthers == ASSUME TypeOK, TagsKept, Fresh, Others PROVE TagsKept' /\ Fresh'
<1>1. ASSUME NEW a \in Authors, NEW t \in Tags, Tag(a, t) PROVE TagsKept' /\ Fresh'
  <2>1. /\ \A c \in Authors : c # a => tags'[c] = tags[c] /\ intent'[c] = intent[c]
        /\ intent'[a] = tags'[a]
        /\ raced' = IF pc = "idle" THEN raced \ {a} ELSE raced \cup {a}
        /\ UNCHANGED <<pc, copies>>
    BY <1>1 DEF Tag, TypeOK, run
  <2> QED
    BY <2>1 DEF TagsKept, Fresh
<1>2. ASSUME NEW b \in Books,
             SwitchOn(b) \/ SwitchOff(b) \/ AddVolume(b) \/ Grab(b) \/ Import(b) \/ Consume(b)
      PROVE  TagsKept' /\ Fresh'
  <2>1. UNCHANGED <<tags, intent, raced, pc, copies>>
    BY <1>2 DEF SwitchOn, SwitchOff, AddVolume, Grab, Import, Consume, run, history
  <2> QED
    BY <2>1 DEF TagsKept, Fresh
<1> QED
  BY <1>1, <1>2 DEF Others

\* A choice of tags made while no run was under way is never undone
\* (series_reconciler.py:67, 80).
THEOREM TagsAreKept == Spec => []TagsKept
<1>1. Init => TagsKept /\ Fresh
  BY DEF Init, TagsKept, Fresh
<1>2. TypeOK /\ TagsKept /\ Fresh /\ [Next]_vars => TagsKept' /\ Fresh'
  <2> SUFFICES ASSUME TypeOK, TagsKept, Fresh, [Next]_vars PROVE TagsKept' /\ Fresh'
    OBVIOUS
  <2>1. CASE Next
    BY <2>1, FreshRun, FreshOthers DEF Next
  <2>2. CASE UNCHANGED vars
    BY <2>2 DEF vars, bookshelf, run, history, TagsKept, Fresh
  <2> QED
    BY <2>1, <2>2
<1> QED
  BY <1>1, <1>2, TypeCorrect, PTL DEF Spec
------------------------------------------------------------------------------
(* What a run finds *)

\* A volume that was wanted all the time has its tag in the run's copy, and from its
\* author's turn on it is found, until it is monitored.
Sought(b) ==
    /\ b \in volumes /\ stage[b] = "new" /\ Slug[b] \in copies[Author[b]].tags
    /\ b \in monitored <=> pc = "search"
    /\ pc \in {"authors", "books"} /\ Author[b] < at => b \in cands \cup toSearch
    /\ pc = "monitor" => b \in toSearch

FInv ==
    /\ \A b \in waiting : Sought(b)
    /\ pc = "authors" => cands = {}

LEMMA ExitFinds == ASSUME Exit PROVE FInv'
  BY DEF Exit, FInv

\* The copy of an author is written to but for its monitored flag.
LEMMA MarkedTags ==
    ASSUME TypeOK, NEW a \in Authors, copies' = [copies EXCEPT ![a].mon = TRUE]
    PROVE  \A c \in Authors : copies'[c].tags = copies[c].tags
  BY DEF TypeOK

LEMMA FindsRun == ASSUME TypeOK, FInv, Run PROVE FInv'
<1>0. waiting \subseteq Books /\ at \in Nat /\ \A b \in Books : Author[b] \in Authors /\ Author[b] \in Nat /\ Author[b] >= 1
  BY ReconcilerAssumption DEF TypeOK, Authors
<1>1. CASE Start
  <2>1. /\ UNCHANGED <<volumes, monitored, stage>> /\ pc' = "authors" /\ at' = 1 /\ cands' = {}
        /\ copies' = [a \in Authors |-> [tags |-> tags[a], mon |-> authorMon[a]]]
        /\ waiting' = {b \in Books : Wanted(b)}
    BY <1>1 DEF Start, bookshelf
  <2>2. ASSUME NEW b \in Books, Wanted(b) PROVE Sought(b)'
    <3>1. b \in volumes /\ b \notin monitored /\ stage[b] = "new" /\ Slug[b] \in copies'[Author[b]].tags
      BY <1>0, <2>1, <2>2 DEF Wanted
    <3>2. ~(Author[b] < at')
      BY <1>0, <2>1
    <3> QED
      BY <2>1, <3>1, <3>2 DEF Sought
  <2> QED
    BY <2>1, <2>2 DEF FInv
<1>2. ASSUME NEW a \in Authors, Skip(a) PROVE FInv'
  <2>1. /\ UNCHANGED <<volumes, monitored, stage, pc, copies, cands, toSearch, waiting>> /\ pc = "authors"
        /\ at = a /\ copies[a].tags = {} /\ at' = at + 1
    BY <1>2 DEF Skip, bookshelf, history
  <2>2. ASSUME NEW b \in waiting PROVE Sought(b)'
    <3>1. Sought(b) /\ Author[b] # a
      BY <2>1 DEF FInv, Sought
    <3>2. Author[b] < at' => Author[b] < at
      BY <1>0, <2>1, <3>1
    <3> QED
      BY <2>1, <3>1, <3>2 DEF Sought
  <2> QED
    BY <2>1, <2>2 DEF FInv
<1>3. ASSUME NEW a \in Authors, NEW answered \in BOOLEAN, PutAuthor(a, answered) PROVE FInv'
  <2>1. CASE answered
    <3>1. /\ UNCHANGED <<volumes, monitored, stage, pc, at, cands, toSearch, waiting>>
          /\ copies' = [copies EXCEPT ![a].mon = TRUE]
      BY <1>3, <2>1 DEF PutAuthor
    <3>2. \A b \in waiting : copies'[Author[b]].tags = copies[Author[b]].tags
      BY <1>0, <3>1, MarkedTags
    <3> QED
      BY <3>1, <3>2 DEF FInv, Sought
  <2>2. CASE ~answered
    BY <1>3, <2>2, ExitFinds DEF PutAuthor, Fail
  <2> QED
    BY <2>1, <2>2
<1>4. ASSUME NEW a \in Authors, ListBooks(a) PROVE FInv'
  <2>1. /\ UNCHANGED <<volumes, monitored, stage, copies, toSearch, waiting>> /\ pc = "authors"
        /\ pc' = "books" /\ at = a /\ at' = at + 1 /\ cands' = {b \in volumes : Candidate(a, b)}
    BY <1>4 DEF ListBooks, bookshelf, history
  <2>2. ASSUME NEW b \in waiting PROVE Sought(b)'
    <3>1. Sought(b) /\ cands = {}
      BY <2>1 DEF FInv
    <3>2. Author[b] = a => b \in cands'
      BY <2>1, <3>1 DEF Sought, Candidate, HasFile
    <3>3. Author[b] < at' => Author[b] < at \/ Author[b] = a
      BY <1>0, <2>1
    <3>4. Author[b] < at' => b \in cands' \cup toSearch
      BY <2>1, <3>1, <3>2, <3>3 DEF Sought
    <3> QED
      BY <2>1, <3>1, <3>4 DEF Sought
  <2> QED
    BY <2>1, <2>2 DEF FInv
<1>5. ASSUME NEW b \in Books, CheckHistory(b) PROVE FInv'
  <2>1. /\ UNCHANGED <<volumes, monitored, stage, pc, copies, at, waiting>> /\ pc = "books"
        /\ cands' = cands \ {b}
        /\ toSearch' = IF stage[b] # "new" THEN toSearch ELSE toSearch \cup {b}
    BY <1>5 DEF CheckHistory, WasHandled, bookshelf, history
  <2>2. \A c \in waiting : c \in cands \cup toSearch => c \in cands' \cup toSearch'
    BY <2>1 DEF FInv, Sought
  <2> QED
    BY <2>1, <2>2 DEF FInv, Sought
<1>6. CASE NextAuthor
  BY <1>6 DEF NextAuthor, bookshelf, history, FInv, Sought
<1>7. CASE AuthorsDone
  <2>1. /\ pc = "authors" /\ at = NAuthors + 1 /\ UNCHANGED <<volumes, monitored, stage>>
        /\ Exit \/ (pc' = "monitor" /\ UNCHANGED <<copies, at, cands, toSearch, waiting>>)
    BY <1>7 DEF AuthorsDone, bookshelf
  <2>2. \A b \in waiting : Author[b] < at
    BY <1>0, <2>1, ReconcilerAssumption DEF Authors
  <2>3. CASE pc' = "monitor" /\ UNCHANGED <<copies, at, cands, toSearch, waiting>>
    BY <2>1, <2>2, <2>3 DEF FInv, Sought
  <2> QED
    BY <2>1, <2>3, ExitFinds
<1>8. ASSUME NEW answered \in BOOLEAN, Monitor(answered) PROVE FInv'
  <2>1. CASE pc' = "search" /\ UNCHANGED <<copies, at, cands, toSearch, waiting>>
    <3>1. pc = "monitor" /\ monitored' = monitored \cup toSearch /\ UNCHANGED <<volumes, stage>>
      BY <1>8 DEF Monitor
    <3> QED
      BY <2>1, <3>1 DEF FInv, Sought
  <2> QED
    BY <1>8, <2>1, ExitFinds DEF Monitor, Fail
<1>9. ASSUME NEW answered \in BOOLEAN, Search(answered) PROVE FInv'
  BY <1>9, ExitFinds DEF Search, Fail
<1>10. CASE CallFails
  BY <1>10, ExitFinds DEF CallFails, Fail
<1> QED
  BY <1>1, <1>2, <1>3, <1>4, <1>5, <1>6, <1>7, <1>8, <1>9, <1>10 DEF Run

LEMMA FindsOthers == ASSUME TypeOK, FInv, Others PROVE FInv'
<1>1. ASSUME NEW a \in Authors, NEW t \in Tags, Tag(a, t) PROVE FInv'
  <2>1. UNCHANGED <<volumes, monitored, stage, pc, copies, at, cands, toSearch>> /\ waiting' \subseteq waiting
    BY <1>1 DEF Tag, run
  <2> QED
    BY <2>1 DEF FInv, Sought
<1>2. ASSUME NEW b \in Books, SwitchOn(b) \/ SwitchOff(b) PROVE FInv'
  <2>1. /\ UNCHANGED <<volumes, stage, pc, copies, at, cands, toSearch>> /\ waiting' = waiting \ {b}
        /\ monitored' = monitored \cup {b} \/ monitored' = monitored \ {b}
    BY <1>2 DEF SwitchOn, SwitchOff, run
  <2> QED
    BY <2>1 DEF FInv, Sought
<1>3. ASSUME NEW b \in Books, AddVolume(b) PROVE FInv'
  BY <1>3 DEF AddVolume, run, history, FInv, Sought
<1>4. ASSUME NEW b \in Books, Grab(b) PROVE FInv'
  <2>1. /\ UNCHANGED <<volumes, monitored, pc, copies, at, cands, toSearch>> /\ waiting' = waiting \ {b}
        /\ stage' = [stage EXCEPT ![b] = "grabbed"]
    BY <1>4 DEF Grab, run
  <2>2. \A c \in waiting' : stage'[c] = stage[c]
    BY <2>1 DEF TypeOK
  <2> QED
    BY <2>1, <2>2 DEF FInv, Sought
<1>5. ASSUME NEW b \in Books, Import(b) \/ Consume(b) PROVE FInv'
  <2>1. /\ UNCHANGED <<volumes, pc, copies, at, cands, toSearch, waiting>>
        /\ stage[b] # "new" /\ \E x : stage' = [stage EXCEPT ![b] = x]
        /\ monitored' = monitored \/ monitored' = monitored \ {b}
    BY <1>5 DEF Import, Consume, run, history
  <2>2. \A c \in waiting : c # b
    BY <2>1 DEF FInv, Sought
  <2>3. \A c \in waiting : stage'[c] = stage[c] /\ (c \in monitored' <=> c \in monitored)
    BY <2>1, <2>2 DEF TypeOK
  <2> QED
    BY <2>1, <2>3 DEF FInv, Sought
<1> QED
  BY <1>1, <1>2, <1>3, <1>4, <1>5 DEF Others

\* However many authors and volumes there are, and whoever else acts, a run that is
\* through with the authors has found every volume that was wanted since it began, and
\* one that comes to its searches has every one of them monitored (74-100).
THEOREM NothingOverlooked == Spec => []NoneOverlooked
<1>1. Init => FInv
  BY DEF Init, FInv
<1>2. TypeOK /\ FInv /\ [Next]_vars => FInv'
  <2> SUFFICES ASSUME TypeOK, FInv, [Next]_vars PROVE FInv'
    OBVIOUS
  <2>1. CASE Next
    BY <2>1, FindsRun, FindsOthers DEF Next
  <2>2. CASE UNCHANGED vars
    BY <2>2 DEF vars, bookshelf, run, history, FInv, Sought
  <2> QED
    BY <2>1, <2>2
<1>3. TypeOK /\ FInv => NoneOverlooked
  <2> SUFFICES ASSUME TypeOK, FInv PROVE NoneOverlooked
    OBVIOUS
  <2>1. \A b \in waiting : Author[b] < NAuthors + 1
    BY ReconcilerAssumption DEF TypeOK, Authors
  <2> QED
    BY <2>1 DEF FInv, Sought, NoneOverlooked
<1> QED
  BY <1>1, <1>2, <1>3, TypeCorrect, PTL DEF Spec
==============================================================================
