--------------------------- MODULE SeriesReconciler ---------------------------
(***************************************************************************)
(* series_reconciler.py against Bookshelf.  A run reads all authors, takes *)
(* them one by one (marks the author monitored, reads the books, asks for  *)
(* the history of each candidate), and then with two calls monitors what   *)
(* it found and asks for a search.  A run ends at the first call that      *)
(* fails; the Job's retry and the next hour's run are alike and never      *)
(* overlap with it (reconciler.yaml).  Meanwhile users tag authors and     *)
(* switch books, volumes appear, are grabbed, imported, and consumed by    *)
(* calibre-web.  DRY_RUN is not set, as deployed.                          *)
(***************************************************************************)
EXTENDS Naturals, FiniteSets

CONSTANTS
    NAuthors, Books, Author, \* authors in Bookshelf's order; Author[b]: that of b
    Tags, Slug,              \* Slug[b]: the slug of b's series
    MaxUser, MaxFail         \* bounds on user actions and on failing calls

Authors == 1..NAuthors

ASSUME ReconcilerAssumption ==
    /\ NAuthors \in Nat /\ Author \in [Books -> Authors]
    /\ MaxUser \in Nat /\ MaxFail \in Nat

VARIABLES
    volumes, monitored,  \* books Bookshelf knows, those it monitors
    stage,               \* of a book: "new", "grabbed", "file" or "consumed"
    tags, authorMon,     \* of an author, as Bookshelf has them
    pc,                  \* "idle", "authors", "books", "monitor" or "search"
    copies,              \* the run's copy of the authors
    at,                  \* the author at hand
    cands, toSearch,     \* books to check, and to search
    intent, raced,       \* history: the tags the user last chose, and the authors for
                         \* whom that was while a run was under way
    handledBefore,       \* history: books handled when the run began
    waiting,             \* history: books wanted since the run began
    searches, offs,      \* history: searches the runs asked for, times a user
                         \* switched monitoring off, per book
    userActs, fails

bookshelf == <<volumes, monitored, stage, tags, authorMon>>
run == <<pc, copies, at, cands, toSearch>>
history == <<intent, raced, handledBefore, waiting, searches, offs>>
vars == <<bookshelf, run, history, userActs, fails>>

\* A volume of a tagged series that nobody has taken up.
Wanted(b) == b \in volumes \ monitored /\ stage[b] = "new" /\ Slug[b] \in tags[Author[b]]

NoCopies == [a \in Authors |-> [tags |-> {}, mon |-> FALSE]]

Init ==
    /\ volumes = {} /\ monitored = {} /\ stage = [b \in Books |-> "new"]
    /\ tags \in [Authors -> SUBSET Tags] /\ authorMon \in [Authors -> BOOLEAN]
    /\ pc = "idle" /\ copies = NoCopies
    /\ at = 1 /\ cands = {} /\ toSearch = {}
    /\ intent = tags /\ raced = {} /\ handledBefore = {} /\ waiting = {}
    /\ searches = [b \in Books |-> 0] /\ offs = [b \in Books |-> 0]
    /\ userActs = 0 /\ fails = 0

------------------------------------------------------------------------------
(* A run *)

\* The process ends, and what it knew with it.
Exit ==
    /\ pc' = "idle" /\ copies' = NoCopies /\ at' = 1 /\ cands' = {} /\ toSearch' = {}
    /\ handledBefore' = {} /\ waiting' = {}

\* A call fails, before or after Bookshelf did what it was asked.
Fail == Exit /\ fails < MaxFail /\ fails' = fails + 1

\* The names of the tags (64) and the authors (67) are read in one step: of a tag made
\* between the two the run does not know the name, and passes its author over once.
Start ==
    /\ pc = "idle"
    /\ pc' = "authors" /\ at' = 1 /\ cands' = {} /\ toSearch' = {}
    /\ copies' = [a \in Authors |-> [tags |-> tags[a], mon |-> authorMon[a]]]
    /\ handledBefore' = {b \in Books : stage[b] # "new"}
    /\ waiting' = {b \in Books : Wanted(b)}
    /\ UNCHANGED <<bookshelf, intent, raced, searches, offs, userActs, fails>>

\* Mutant: the authors after one without tags are left out.
SkipRest(a) ==
    /\ pc = "authors" /\ at = a /\ copies[a].tags = {}
    /\ at' = NAuthors + 1
    /\ UNCHANGED <<bookshelf, pc, copies, cands, toSearch, history, userActs, fails>>

Skip(a) ==
    /\ pc = "authors" /\ at = a /\ copies[a].tags = {}
    /\ at' = at + 1
    /\ UNCHANGED <<bookshelf, pc, copies, cands, toSearch, history, userActs, fails>>

\* Mutant: what is written back are the tags that are the slug of a series.
PutAuthorMatched(a, answered) ==
    /\ pc = "authors" /\ at = a /\ copies[a].tags # {} /\ ~copies[a].mon
    /\ tags' = [tags EXCEPT ![a] = copies[a].tags \cap {Slug[b] : b \in volumes}]
    /\ authorMon' = [authorMon EXCEPT ![a] = TRUE]
    /\ IF answered
         THEN /\ copies' = [copies EXCEPT ![a].mon = TRUE]
              /\ UNCHANGED <<pc, at, cands, toSearch, handledBefore, waiting, fails>>
         ELSE Fail
    /\ UNCHANGED <<volumes, monitored, stage, intent, raced, searches, offs, userActs>>

\* The author is written back as it was read.
PutAuthor(a, answered) ==
    /\ pc = "authors" /\ at = a /\ copies[a].tags # {} /\ ~copies[a].mon
    /\ tags' = [tags EXCEPT ![a] = copies[a].tags]
    /\ authorMon' = [authorMon EXCEPT ![a] = TRUE]
    /\ IF answered
         THEN /\ copies' = [copies EXCEPT ![a].mon = TRUE]
              /\ UNCHANGED <<pc, at, cands, toSearch, handledBefore, waiting, fails>>
         ELSE Fail
    /\ UNCHANGED <<volumes, monitored, stage, intent, raced, searches, offs, userActs>>

HasFile(b) == stage[b] = "file"

\* Mutant: monitored books are not passed over.
CandidateAny(a, b) == Author[b] = a /\ Slug[b] \in copies[a].tags /\ ~HasFile(b)

Candidate(a, b) == Author[b] = a /\ Slug[b] \in copies[a].tags /\ b \notin monitored /\ ~HasFile(b)

ListBooks(a) ==
    /\ pc = "authors" /\ at = a /\ copies[a].tags # {} /\ copies[a].mon
    /\ pc' = "books" /\ at' = at + 1
    /\ cands' = {b \in volumes : Candidate(a, b)}
    /\ UNCHANGED <<bookshelf, copies, toSearch, history, userActs, fails>>

WasHandled(b) == stage[b] # "new"

\* Mutant: only the volume found last is kept.
CheckHistoryLast(b) ==
    /\ pc = "books" /\ b \in cands
    /\ cands' = cands \ {b}
    /\ toSearch' = IF WasHandled(b) THEN toSearch ELSE {b}
    /\ UNCHANGED <<bookshelf, pc, copies, at, history, userActs, fails>>

CheckHistory(b) ==
    /\ pc = "books" /\ b \in cands
    /\ cands' = cands \ {b}
    /\ toSearch' = IF WasHandled(b) THEN toSearch ELSE toSearch \cup {b}
    /\ UNCHANGED <<bookshelf, pc, copies, at, history, userActs, fails>>

NextAuthor ==
    /\ pc = "books" /\ cands = {}
    /\ pc' = "authors"
    /\ UNCHANGED <<bookshelf, copies, at, cands, toSearch, history, userActs, fails>>

AuthorsDone ==
    /\ pc = "authors" /\ at = NAuthors + 1
    /\ IF toSearch = {}
         THEN Exit
         ELSE pc' = "monitor" /\ UNCHANGED <<copies, at, cands, toSearch, handledBefore, waiting>>
    /\ UNCHANGED <<bookshelf, intent, raced, searches, offs, userActs, fails>>

Monitor(answered) ==
    /\ pc = "monitor"
    /\ monitored' = monitored \cup toSearch
    /\ IF answered THEN pc' = "search" /\ UNCHANGED <<copies, at, cands, toSearch, handledBefore, waiting, fails>>
                   ELSE Fail
    /\ UNCHANGED <<volumes, stage, tags, authorMon, intent, raced, searches, offs, userActs>>

Search(answered) ==
    /\ pc = "search"
    /\ searches' = [b \in Books |-> IF b \in toSearch THEN searches[b] + 1 ELSE searches[b]]
    /\ IF answered THEN Exit /\ UNCHANGED fails ELSE Fail
    /\ UNCHANGED <<bookshelf, intent, raced, offs, userActs>>

CallFails ==
    /\ pc # "idle" /\ Fail
    /\ UNCHANGED <<bookshelf, intent, raced, searches, offs, userActs>>

Run ==
    \/ Start \/ NextAuthor \/ AuthorsDone \/ CallFails
    \/ \E a \in Authors : Skip(a) \/ ListBooks(a) \/ \E answered \in BOOLEAN : PutAuthor(a, answered)
    \/ \E b \in Books : CheckHistory(b)
    \/ \E answered \in BOOLEAN : Monitor(answered) \/ Search(answered)

------------------------------------------------------------------------------
(* Users, Bookshelf and calibre-web *)

Tag(a, t) ==
    /\ userActs < MaxUser /\ userActs' = userActs + 1
    /\ \/ t \notin tags[a] /\ tags' = [tags EXCEPT ![a] = @ \cup {t}]
       \/ t \in tags[a] /\ tags' = [tags EXCEPT ![a] = @ \ {t}]
    /\ intent' = [intent EXCEPT ![a] = tags'[a]]
    /\ raced' = IF pc = "idle" THEN raced \ {a} ELSE raced \cup {a}
    /\ waiting' = {b \in waiting : Slug[b] \in tags'[Author[b]]}
    /\ UNCHANGED <<volumes, monitored, stage, authorMon, run, handledBefore, searches, offs, fails>>

SwitchOn(b) ==
    /\ userActs < MaxUser /\ userActs' = userActs + 1
    /\ b \in volumes \ monitored /\ monitored' = monitored \cup {b} /\ waiting' = waiting \ {b}
    /\ UNCHANGED <<volumes, stage, tags, authorMon, run, intent, raced, handledBefore, searches, offs, fails>>

SwitchOff(b) ==
    /\ userActs < MaxUser /\ userActs' = userActs + 1
    /\ b \in monitored /\ monitored' = monitored \ {b} /\ waiting' = waiting \ {b}
    /\ offs' = [offs EXCEPT ![b] = @ + 1]
    /\ UNCHANGED <<volumes, stage, tags, authorMon, run, intent, raced, handledBefore, searches, fails>>

AddVolume(b) ==
    /\ b \in Books \ volumes /\ volumes' = volumes \cup {b}
    /\ UNCHANGED <<monitored, stage, tags, authorMon, run, history, userActs, fails>>

\* Found by a search, in a feed, or by a user.
Grab(b) ==
    /\ b \in volumes /\ stage[b] = "new"
    /\ stage' = [stage EXCEPT ![b] = "grabbed"] /\ waiting' = waiting \ {b}
    /\ UNCHANGED <<volumes, monitored, tags, authorMon, run, intent, raced, handledBefore, searches, offs, userActs, fails>>

Import(b) ==
    /\ stage[b] = "grabbed" /\ stage' = [stage EXCEPT ![b] = "file"]
    /\ UNCHANGED <<volumes, monitored, tags, authorMon, run, history, userActs, fails>>

\* calibre-web takes the file, and Bookshelf stops monitoring the book.
Consume(b) ==
    /\ stage[b] = "file" /\ stage' = [stage EXCEPT ![b] = "consumed"]
    /\ monitored' = monitored \ {b}
    /\ UNCHANGED <<volumes, tags, authorMon, run, history, userActs, fails>>

Others ==
    \/ \E a \in Authors, t \in Tags : Tag(a, t)
    \/ \E b \in Books : SwitchOn(b) \/ SwitchOff(b) \/ AddVolume(b) \/ Grab(b) \/ Import(b) \/ Consume(b)

Next == Run \/ Others

Spec == Init /\ [][Next]_vars

\* The hour comes round and a run goes on; nobody else need do anything.
FairSpec == Spec /\ WF_vars(Run)

------------------------------------------------------------------------------
(* Properties *)

\* Every variable keeps its type: the books, the copies of authors and the run.
TypeOK ==
    /\ volumes \in SUBSET Books /\ monitored \in SUBSET Books
    /\ stage \in [Books -> {"new", "grabbed", "file", "consumed"}]
    /\ tags \in [Authors -> SUBSET Tags] /\ authorMon \in [Authors -> BOOLEAN]
    /\ pc \in {"idle", "authors", "books", "monitor", "search"}
    /\ copies \in [Authors -> [tags : SUBSET Tags, mon : BOOLEAN]]
    /\ at \in 1..NAuthors + 1 /\ cands \in SUBSET Books /\ toSearch \in SUBSET Books
    /\ intent \in [Authors -> SUBSET Tags] /\ raced \in SUBSET Authors
    /\ handledBefore \in SUBSET Books /\ waiting \in SUBSET Books
    /\ searches \in [Books -> Nat] /\ offs \in [Books -> Nat]
    /\ userActs \in 0..MaxUser /\ fails \in 0..MaxFail

\* However its calls fail and the runs are repeated, a book is searched once, and
\* once more for each time a user switched it off (series_reconciler.py:86, 91, 99-100).
SearchedOnce == \A b \in Books : searches[b] <= offs[b] + 1

\* A book that had been grabbed or imported when the run began is never among
\* those it monitors and searches (lines 54-60, 91).
HandledLeftAlone == toSearch \cap handledBefore = {}

\* A run overlooks nothing: a volume that was wanted from its beginning on is among
\* those it found when it is through with the authors, and is monitored when it asks
\* for the searches, whatever else was found and whoever was tagged meanwhile (74-100).
NoneOverlooked ==
    /\ pc = "authors" /\ at = NAuthors + 1 => waiting \subseteq toSearch
    /\ pc = "search" => waiting \subseteq monitored

\* A volume of a tagged series does not stay unmonitored (lines 10-16), whatever
\* fails in between: the runs are repeated.
NewVolumeMonitored == \A b \in Books : []<>~Wanted(b)

\* The tags of an author are those the user last chose (line 10 "Intent is declared by
\* tagging an author"), unless that was during a run: only then can the run write back
\* a copy that is older than the choice (67, 80).
TagsKept == \A a \in Authors \ raced : tags[a] = intent[a]
==============================================================================
