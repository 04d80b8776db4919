---------------------------- MODULE WriteAheadLog ----------------------------
(***************************************************************************)
(* What the two scripts of the storage01 move promise together, without    *)
(* the cluster around them: an item is only disturbed after its size was   *)
(* logged, only the log is used to put it back, and the log is dropped     *)
(* when everything in it has been put back.  ScaleMove implements it.      *)
(***************************************************************************)
CONSTANTS Items, Size

VARIABLES live, log

logVars == <<live, log>>

LogEntry(i) == [w |-> i, r |-> Size[i]]

LogInit == live = Size /\ log = {}

\* The size of an item is read, and logged, once.
LogItem(i) ==
    /\ \A e \in log : e.w # i
    /\ log' = log \cup {[w |-> i, r |-> live[i]]}
    /\ UNCHANGED live

TakeDown(i) ==
    /\ \E e \in log : e.w = i
    /\ live' = [live EXCEPT ![i] = 0]
    /\ UNCHANGED log

PutBack(i) ==
    /\ \E e \in log : e.w = i /\ live' = [live EXCEPT ![i] = e.r]
    /\ UNCHANGED log

Forget ==
    /\ \A e \in log : live[e.w] = e.r
    /\ log' = {}
    /\ UNCHANGED live

LogNext ==
    \/ \E i \in Items : LogItem(i) \/ TakeDown(i) \/ PutBack(i)
    \/ Forget

LogSpec == LogInit /\ [][LogNext]_logVars

\* No item's size is ever lost: it is live, or it is in the log.
NothingLost == \A i \in Items : live[i] = Size[i] \/ LogEntry(i) \in log
==============================================================================
