----------------------------- MODULE EventStream -----------------------------
(***************************************************************************)
(* What the desktop may rely on in the events it is given for one request: *)
(* the work is announced once, its count only grows and stays within the   *)
(* announced goal, and one verdict ends the stream.  Work is complete only *)
(* if it was announced, and only an announced stream has counts or rows.   *)
(***************************************************************************)
EXTENDS Naturals

VARIABLES
    announced,  \* the stream has started
    goal,       \* the announced amount of work, 0 before it is known: a shooting tells
                \* it with its first count
    count,      \* the amount reported
    verdict     \* "none", or the terminal that ended the stream

vars == <<announced, goal, count, verdict>>

Init == announced = FALSE /\ goal = 0 /\ count = 0 /\ verdict = "none"

Announce == /\ ~announced /\ verdict = "none"
            /\ announced' = TRUE
            /\ goal' \in Nat
            /\ UNCHANGED <<count, verdict>>

Advance == /\ announced /\ verdict = "none"
           /\ goal' \in Nat /\ (goal # 0 => goal' = goal)
           /\ count' \in count..goal'
           /\ UNCHANGED <<announced, verdict>>

End == /\ verdict = "none"
       /\ verdict' \in {"complete", "cancelled", "error"}
       /\ verdict' = "complete" => announced
       /\ UNCHANGED <<announced, goal, count>>

Next == Announce \/ Advance \/ End

Spec == Init /\ [][Next]_vars
=============================================================================
