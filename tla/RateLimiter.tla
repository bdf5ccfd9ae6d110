----------------------------- MODULE RateLimiter -----------------------------
(***************************************************************************)
(* The rate limiter of src/utils/rateLimiter.ts: the requests of the        *)
(* current window, a list of waiting callers and a pause.  A caller that is  *)
(* let go is not yet a request: it pushes its timestamp in a microtask of    *)
(* its own, and those of other callers may come first.                      *)
(***************************************************************************)
EXTENDS Integers, Sequences, FiniteSets, SequencesExt

CONSTANTS
    LimitedCallers,  \* calls of execute
    MaxRequests,
    MaxPauses        \* bound: calls of pause

ASSUME LimiterAssumption ==
    IsFiniteSet(LimitedCallers) /\ MaxRequests \in Nat \ {0} /\ MaxPauses \in Nat

VARIABLES
    inWindow,     \* the number of timestamps in requests
    waiters,      \* waitingPromises
    paused,
    limited,      \* where each caller is
    crossed,      \* history: a caller was counted while another was let go but
                  \* not yet a request
    pausesUsed

limiterVars == <<inWindow, waiters, paused, limited, crossed, pausesUsed>>

LimitedAt == {"idle", "waiting",
              "timedOut",  \* over; its entry stays in waitingPromises
              "letGo",     \* its promise is resolved
              "running",   \* its timestamp is pushed and fn called
              "over"}

LimiterInit ==
    /\ inWindow = 0
    /\ waiters = <<>>
    /\ paused = FALSE
    /\ limited = [c \in LimitedCallers |-> "idle"]
    /\ crossed = FALSE
    /\ pausesUsed = 0

LetGo == {c \in LimitedCallers : limited[c] = "letGo"}

LimitExceeded == inWindow >= MaxRequests

-----------------------------------------------------------------------------
\* Mutant: the callers let go as if the window were empty.
WholeWindow(n) == MaxRequests

Available(n) == IF n < MaxRequests THEN MaxRequests - n ELSE 0

\* _notifyWaiting, given where the callers are: as many waiters as the window
\* has room for are resolved; one that has timed out uses up its turn.
NotifyWaiting(callers) ==
    LET n     == IF Available(inWindow) < Len(waiters) THEN Available(inWindow) ELSE Len(waiters)
        freed == {waiters[i] : i \in 1 .. n}
    IN  /\ waiters' = SubSeq(waiters, n + 1, Len(waiters))
        /\ limited' = [c \in LimitedCallers |-> IF c \in freed /\ callers[c] = "waiting"
                                                THEN "letGo" ELSE callers[c]]
        /\ crossed' = (crossed \/ (n > 0 /\ LetGo # {}))

\* execute: the request is counted and made, put in the list, or refused.
ExecuteLimited(c, wait) ==
    /\ limited[c] = "idle"
    /\ IF ~ paused /\ ~ LimitExceeded
       THEN /\ inWindow' = inWindow + 1
            /\ limited' = [limited EXCEPT ![c] = "running"]
            /\ crossed' = (crossed \/ LetGo # {})
            /\ UNCHANGED waiters
       ELSE /\ limited' = [limited EXCEPT ![c] = IF wait THEN "waiting" ELSE "over"]
            /\ waiters' = IF wait THEN Append(waiters, c) ELSE waiters
            /\ UNCHANGED <<inWindow, crossed>>
    /\ UNCHANGED <<paused, pausesUsed>>

\* The caller goes on after its wait; nothing is checked again.
WaitOver(c) ==
    /\ limited[c] = "letGo"
    /\ inWindow' = inWindow + 1
    /\ limited' = [limited EXCEPT ![c] = "running"]
    /\ UNCHANGED <<waiters, paused, crossed, pausesUsed>>

\* The filter of the timer compares the wrong function and removes nothing.
WaitTimesOut(c) ==
    /\ limited[c] = "waiting"
    /\ limited' = [limited EXCEPT ![c] = "timedOut"]
    /\ UNCHANGED <<inWindow, waiters, paused, crossed, pausesUsed>>

\* fn settles.
LimitedReturns(c) ==
    /\ limited[c] = "running"
    /\ LET callers == [limited EXCEPT ![c] = "over"] IN
         IF paused THEN limited' = callers /\ UNCHANGED <<waiters, crossed>>
                   ELSE NotifyWaiting(callers)
    /\ UNCHANGED <<inWindow, paused, pausesUsed>>

PauseLimiter ==
    /\ ~ paused /\ pausesUsed < MaxPauses
    /\ paused' = TRUE
    /\ pausesUsed' = pausesUsed + 1
    /\ UNCHANGED <<inWindow, waiters, limited, crossed>>

ResumeLimiter ==
    /\ paused
    /\ paused' = FALSE
    /\ NotifyWaiting(limited)
    /\ UNCHANGED <<inWindow, pausesUsed>>

\* A timestamp leaves the window: _cleanOldRequests is called before every use.
\* Nobody is told.
RequestAges ==
    /\ inWindow > 0
    /\ inWindow' = inWindow - 1
    /\ UNCHANGED <<waiters, paused, limited, crossed, pausesUsed>>

LimiterNext ==
    \/ \E c \in LimitedCallers :
         \/ \E wait \in BOOLEAN : ExecuteLimited(c, wait)
         \/ WaitOver(c) \/ WaitTimesOut(c) \/ LimitedReturns(c)
    \/ PauseLimiter \/ ResumeLimiter \/ RequestAges

-----------------------------------------------------------------------------
LimiterTypeOK ==
    /\ inWindow \in 0 .. Cardinality(LimitedCallers)
    /\ waiters \in Seq(LimitedCallers)
    /\ paused \in BOOLEAN /\ crossed \in BOOLEAN
    /\ limited \in [LimitedCallers -> LimitedAt]
    /\ \A c \in LimitedCallers : limited[c] = "waiting" => c \in ToSet(waiters)

(* The limit holds, callers that have been let go included, through waits    *)
(* that time out, pauses and a window that moves at any time, as long as    *)
(* nobody is counted while a caller that was let go has yet to push its     *)
(* timestamp; no caller is in the list twice or after it was let go.        *)
LimitHolds ==
    /\ ~ crossed => inWindow + Cardinality(LetGo) <= MaxRequests
    /\ IsInjective(waiters)
    /\ \A i \in 1 .. Len(waiters) : limited[waiters[i]] \in {"waiting", "timedOut"}

=============================================================================
