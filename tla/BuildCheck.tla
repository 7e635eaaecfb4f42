----------------------------- MODULE BuildCheck -----------------------------
(***************************************************************************)
(* The build check of the window (check_updates, update_loaded and         *)
(* close_request of Main.cpp).  A click asks GitHub for the latest build   *)
(* and starts an eight-second timer; the answer and the timer are          *)
(* callbacks of the main loop, in any order, and the answer of a check     *)
(* that timed out may still come when the next one is on its way.  The     *)
(* window keeps one file, one cancellable and one timer connection, those  *)
(* of the latest check.                                                    *)
(***************************************************************************)
EXTENDS Naturals

CONSTANT MaxChecks      \* bound: how often the button is clicked

ASSUME ChecksAssumption == MaxChecks \in Nat

VARIABLES
    checks,      \* how many checks were begun; update_file_ is of the latest
    clickable,   \* updates_ can be clicked
    timers,      \* the checks whose timer is connected
    cancelled,   \* the checks whose cancellable is cancelled
    pending,     \* the checks whose answer has not come
    window       \* "open", "closing" until the worker is gone, or "closed"

checkVars == <<checks, clickable, timers, cancelled, pending, window>>

CheckInit ==
    /\ checks = 0
    /\ clickable = TRUE
    /\ timers = {} /\ cancelled = {} /\ pending = {}
    /\ window = "open"

\* A new file and a new timer; or an exception on the way.
BeginCheck ==
    /\ clickable /\ checks < MaxChecks /\ window # "closed"
    /\ checks' = checks + 1
    /\ \/ /\ clickable' = FALSE
          /\ timers' = timers \cup {checks'} /\ pending' = pending \cup {checks'}
       \/ UNCHANGED <<clickable, timers, pending>>
    /\ UNCHANGED window

\* Faulty: the cancellable of the first check serves them all.
CheckUpdatesUnrenewed ==
    /\ BeginCheck
    /\ cancelled' = IF cancelled = {} THEN {} ELSE cancelled \cup {checks'}

\* A new cancellable too.
CheckUpdates == BeginCheck /\ UNCHANGED cancelled

\* Eight seconds have passed.
Timeout(i) ==
    /\ i \in timers /\ window # "closed"
    /\ timers' = timers \ {i}
    /\ cancelled' = cancelled \cup {checks}
    /\ clickable' = TRUE
    /\ UNCHANGED <<checks, pending, window>>

\* update_loaded looks at the cancellable, the timer and the file of the latest
\* check, whichever check the answer is of; good or not, of this file or another,
\* the button is given back.
Answered(i) ==
    /\ i \in pending /\ window # "closed"
    /\ pending' = pending \ {i}
    /\ clickable' = (clickable \/ checks \notin cancelled)
    /\ UNCHANGED <<checks, cancelled, window>>

\* Faulty: the timer runs on after an answer.
UpdateLoadedTicking(i) == Answered(i) /\ UNCHANGED timers

UpdateLoaded(i) == Answered(i) /\ timers' = timers \ {checks}

\* The user closes the window; while the worker runs it stays, to be closed by
\* the poll that finds the worker gone.
CloseWindow ==
    /\ window # "closed"
    /\ timers' = timers \ {checks}
    /\ cancelled' = IF checks = 0 THEN cancelled ELSE cancelled \cup {checks}
    /\ window' \in {"closing", "closed"}
    /\ UNCHANGED <<checks, clickable, pending>>

PendingClose == CloseWindow /\ window = "closing" /\ window' = "closed"

CheckNext ==
    \/ CheckUpdates \/ CloseWindow
    \/ \E i \in 1 .. MaxChecks : Timeout(i) \/ UpdateLoaded(i)

\* The main loop runs a timer that is due, and a closing window closes
\* (CloseCompletes of StudyWindow).  An answer may never come.
CheckFairness ==
    /\ WF_checkVars(\E i \in 1 .. MaxChecks : Timeout(i))
    /\ WF_checkVars(PendingClose)

CheckSpec == CheckInit /\ [][CheckNext]_checkVars /\ CheckFairness

-----------------------------------------------------------------------------
\* The timer's callback holds the window by a bare pointer and the window knows
\* one connection only: a button that can be clicked means that no timer is
\* connected, or the next check would lose its connection; and none outlives the
\* window.
NoTimerLost ==
    /\ clickable \/ window = "closed" => timers = {}
    /\ timers \subseteq {checks}

\* Whatever answers come, late, or not at all: the button that a check takes away
\* is given back, or the window closes.
ButtonReturns == ~clickable ~> (clickable \/ window = "closed")
=============================================================================
