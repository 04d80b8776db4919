------------------------------- MODULE ChatCall -------------------------------
(***************************************************************************)
(* One request of benchmark.py to vLLM after the other: chat,              *)
(* chat_with_usage and complete (1641-1733).  The main thread hands the    *)
(* request to the worker of a new pool and waits for it up to a wall-clock *)
(* limit; the worker gives up when its socket is silent for Idle.  Leaving *)
(* the pool's with statement waits for the worker, whatever the reason.    *)
(*                                                                         *)
(* Time is counted in ticks.  A limit that is reached is acted on before   *)
(* time goes on.                                                           *)
(***************************************************************************)
EXTENDS Naturals

CONSTANTS
    Idle,      \* LLM_TIMEOUT, what one operation on the socket may take
    Caps,      \* PER_PROBLEM_TIMEOUT and CONTEXT_TEST_TIMEOUT
    MaxParts   \* bound on the parts in which an answer's body arrives

ASSUME LimitsAssumption ==
    /\ Idle \in Nat \ {0} /\ MaxParts \in Nat \ {0} /\ Caps \subseteq Nat
    /\ \A c \in Caps : c > Idle

VARIABLES
    main,     \* the main thread: "free" between calls, "waiting" for the future,
              \* "leaving" the pool, "gone" after a Ctrl-C
    verdict,  \* what it leaves the pool with, then what the caller got
    worker,   \* where the request is, or how it ended
    parts,    \* parts of the body still to come
    cap,      \* the wall-clock limit of this call
    spent,    \* time since the call began
    quiet     \* time since the socket last did something

callVars == <<main, verdict, worker, parts, cap, spent, quiet>>

Busy == {"connect", "send", "head", "body"}
Over == {"answered", "failed", "silent"}

CallInit ==
    /\ main = "free" /\ verdict = "none" /\ worker = "none"
    /\ parts = 0 /\ cap = 0 /\ spent = 0 /\ quiet = 0

------------------------------------------------------------------------------
(* The worker: _post *)

\* The connection is made, and the request sent.
Send ==
    /\ \/ worker = "connect" /\ worker' = "send"
       \/ worker = "send" /\ worker' = "head"
    /\ quiet' = 0
    /\ UNCHANGED <<main, verdict, parts, cap, spent>>

\* vLLM sends the head of an answer when it has the whole of it.
HeadArrives ==
    /\ worker = "head" /\ worker' = "body"
    /\ parts' \in 1..MaxParts /\ quiet' = 0
    /\ UNCHANGED <<main, verdict, cap, spent>>

\* The last part ends the request: an answer, or a status or a body that raises.
PartArrives ==
    /\ worker = "body" /\ parts' = parts - 1 /\ quiet' = 0
    /\ IF parts = 1 THEN worker' \in {"answered", "failed"} ELSE UNCHANGED worker
    /\ UNCHANGED <<main, verdict, cap, spent>>

\* The connection is refused, reset or closed before the end of the body.
Breaks ==
    /\ worker \in Busy /\ worker' = "failed"
    /\ UNCHANGED <<main, verdict, parts, cap, spent, quiet>>

\* Mutant: a timeout for the connection only.
GoesSilentFirst ==
    /\ worker = "connect" /\ quiet = Idle /\ worker' = "silent"
    /\ UNCHANGED <<main, verdict, parts, cap, spent, quiet>>

\* socket.timeout, which is TimeoutError.  It ends the request for the client alone:
\* nothing closes the connection (1649-1652), and vLLM may go on with its answer.
GoesSilent ==
    /\ worker \in Busy /\ quiet = Idle /\ worker' = "silent"
    /\ UNCHANGED <<main, verdict, parts, cap, spent, quiet>>

Worker == Send \/ HeadArrives \/ PartArrives \/ Breaks \/ GoesSilent

------------------------------------------------------------------------------
(* The main thread *)

Call ==
    /\ main = "free" /\ main' = "waiting" /\ verdict' = "none"
    /\ worker' = "connect" /\ cap' \in Caps
    /\ parts' = 0 /\ spent' = 0 /\ quiet' = 0

\* What future.result() returns or raises.  TimeoutError is the same class for the
\* socket and for the future, and both are reported as the wall-clock limit.
Result == CASE worker = "answered" -> "answer"
            [] worker = "failed" -> "error"
            [] worker = "silent" -> "timeout"

\* The worker has ended, so there is nothing to wait for in the pool.
Got ==
    /\ main = "waiting" /\ worker \in Over
    /\ main' = "free" /\ verdict' = Result
    /\ UNCHANGED <<worker, parts, cap, spent, quiet>>

\* Mutant: the limit of the socket is given to the future, too.
DeadlineIdle ==
    /\ main = "waiting" /\ worker \in Busy /\ spent = Idle
    /\ main' = "leaving" /\ verdict' = "timeout"
    /\ UNCHANGED <<worker, parts, cap, spent, quiet>>

\* future.result() gives up.
Deadline ==
    /\ main = "waiting" /\ worker \in Busy /\ spent = cap
    /\ main' = "leaving" /\ verdict' = "timeout"
    /\ UNCHANGED <<worker, parts, cap, spent, quiet>>

\* shutdown(wait=True) returns, and what was raised goes on to the caller.
Leave ==
    /\ main = "leaving" /\ worker \in Over
    /\ main' = IF verdict = "interrupt" THEN "gone" ELSE "free"
    /\ UNCHANGED <<verdict, worker, parts, cap, spent, quiet>>

\* Ctrl-C while the main thread waits; KeyboardInterrupt is no Exception, so no
\* caller goes on to another call.
Interrupt ==
    /\ main = "waiting"
    /\ main' = "leaving" /\ verdict' = "interrupt"
    /\ UNCHANGED <<worker, parts, cap, spent, quiet>>

\* Ctrl-C while the pool is left: the worker stays behind, and the exit of the
\* process waits for it.
InterruptAgain ==
    /\ main = "leaving" /\ worker \in Busy
    /\ main' = "gone" /\ verdict' = "interrupt"
    /\ UNCHANGED <<worker, parts, cap, spent, quiet>>

Main == Call \/ Got \/ Deadline \/ Leave \/ Interrupt \/ InterruptAgain

\* Mutant: the connection is made without a timeout.
DuePatient ==
    \/ worker \in Over /\ main \in {"waiting", "leaving"}
    \/ main = "waiting" /\ spent = cap

\* Time goes on while nothing is due.
Due ==
    \/ worker \in Busy /\ quiet = Idle
    \/ worker \in Over /\ main \in {"waiting", "leaving"}
    \/ main = "waiting" /\ spent = cap

Tick ==
    /\ worker \in Busy /\ ~Due
    /\ spent' = spent + 1 /\ quiet' = quiet + 1
    /\ UNCHANGED <<main, verdict, worker, parts, cap>>

CallNext == Worker \/ Main \/ Tick

CallSpec == CallInit /\ [][CallNext]_callVars

\* Time passes, and both threads do what is due.  The server owes nothing.
FairCallSpec ==
    /\ CallSpec
    /\ WF_callVars(Tick) /\ WF_callVars(GoesSilent)
    /\ WF_callVars(Got) /\ WF_callVars(Deadline) /\ WF_callVars(Leave)

------------------------------------------------------------------------------
(* Properties *)

\* Every variable keeps its type: the worker, the call and their clocks.
CallTypeOK ==
    /\ main \in {"free", "waiting", "leaving", "gone"}
    /\ verdict \in {"none", "answer", "error", "timeout", "interrupt"}
    /\ worker \in {"none"} \cup Busy \cup Over
    /\ parts \in 0..MaxParts /\ cap \in Caps \cup {0}
    /\ spent \in Nat /\ quiet \in 0..Idle

\* An answer that is there before the call gave up is the one the caller gets, also
\* when it comes in the same moment as the limit.
AnswerTaken ==
    [][main = "waiting" /\ worker = "answered" /\ main' # main => verdict' \in {"answer", "interrupt"}]_callVars

\* What a caller takes for a timeout went without an answer for Idle at least, and an
\* answer is dropped only if it came after the limit of its call: while the pool waited
\* for it (1687-1692, 1708-1713).
TimeoutEarned ==
    main = "free" /\ verdict = "timeout" =>
        spent >= Idle /\ (worker = "answered" => spent >= cap)

\* A call may last longer than its limit, as the pool waits for the worker, but no
\* longer than the idle limit for each operation on the socket (1649-1652, 1687).
Overtime == spent <= (3 + MaxParts) * Idle

\* Every call comes to an end, and so does its worker, which a Ctrl-C may leave behind.
CallEnds ==
    main \in {"waiting", "leaving"} \/ worker \in Busy
        ~> main \in {"free", "gone"} /\ worker \notin Busy
==============================================================================
