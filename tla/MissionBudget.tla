---------------------------- MODULE MissionBudget ----------------------------
(***************************************************************************)
(* The work bound of a mission grid, which four parts of the program       *)
(* compute on their own: the form that submits it (mission_request of      *)
(* Main.cpp), the worker that announces it (process_mission of             *)
(* Worker.cpp), the search that does it (search_mission of                 *)
(* MissionSearch.cpp) and the report that is saved of it                   *)
(* (validate_study_report of StudyReport.cpp); the client looks at what    *)
(* was announced.  Each guards its products and sums of unsigned integers  *)
(* in its own way and order.                                               *)
(***************************************************************************)
EXTENDS Integers

CONSTANTS
    MaxIntervals,   \* the steps one grid may have (100000)
    MaxCells,       \* the cells one mission may ask for (100000)
    Wrap            \* the integers of a size_t (2^64)

ASSUME BudgetAssumption ==
    /\ MaxIntervals \in Nat /\ MaxCells \in Nat /\ Wrap \in Nat
    /\ MaxIntervals + 1 < Wrap /\ MaxCells < Wrap

VARIABLES
    intervals,   \* the steps of the launch grid and of the three flight grids
    cap,         \* the request's max_cells
    entry,       \* who sees the request first
    gate,        \* who sees it next, or "saved", or "refused"
    refuser,     \* who has refused it
    announced,   \* the worker's total_cells
    searched     \* the total_upper_bound_cells of the search

vars == <<intervals, cap, entry, gate, refuser, announced, searched>>

Gates == {"form", "worker", "client", "search", "report"}

\* The form's requests, and those of any other writer of worker commands.
Init ==
    /\ intervals \in [1 .. 4 -> 0 .. MaxIntervals + 1]
    /\ cap \in 0 .. MaxCells + 1
    /\ entry \in {"form", "worker"}
    /\ gate = entry
    /\ refuser = "none"
    /\ announced = 0 /\ searched = 0

\* Unsigned arithmetic.
Times(a, b) == (a * b) % Wrap
Plus(a, b) == (a + b) % Wrap
Minus(a, b) == IF b <= a THEN a - b ELSE Wrap + a - b

\* grid_count, cells and count: the number of points of a grid.
Points(i) == intervals[i] + 1
Bounded == \A i \in 1 .. 4 : intervals[i] <= MaxIntervals

CapAdmitted == cap \in 1 .. MaxCells

-----------------------------------------------------------------------------
\* The loop over the legs, in the form and in the worker.
Nothing == [fits |-> FALSE, product |-> 0, total |-> 0]

\* Faulty: the product is formed before it is compared.
AddLegUnguarded(work, points) ==
    LET product == Times(work.product, points) IN
    IF ~work.fits \/ product > cap \/ work.total > Minus(cap, product)
    THEN Nothing
    ELSE [fits |-> TRUE, product |-> product, total |-> Plus(work.total, product)]

AddLeg(work, points) ==
    LET product == Times(work.product, points) IN
    IF ~work.fits \/ work.product > cap \div points \/ work.total > Minus(cap, product)
    THEN Nothing
    ELSE [fits |-> TRUE, product |-> product, total |-> Plus(work.total, product)]

Loop == AddLeg(AddLeg(AddLeg([fits |-> TRUE, product |-> Points(1), total |-> 0],
                             Points(2)), Points(3)), Points(4))

\* bounded_multiply and bounded_add throw unless these hold.
MultiplyFits(a, b) == b = 0 \/ a <= cap \div b
AddFits(a, b) == b <= cap /\ a <= Minus(cap, b)

First == Times(Points(1), Points(2))
Second == Times(First, Points(3))
Third == Times(Second, Points(4))

ProductsFit ==
    MultiplyFits(Points(1), Points(2)) /\ MultiplyFits(First, Points(3)) /\ MultiplyFits(Second, Points(4))

SearchFits == ProductsFit /\ AddFits(First, Second) /\ AddFits(Plus(First, Second), Third)

ReportFits ==
    /\ ProductsFit
    /\ First <= cap /\ Second <= cap /\ Third <= cap
    /\ First <= Minus(cap, Second)
    /\ Plus(First, Second) <= Minus(cap, Third)
    /\ announced = Plus(Plus(First, Second), Third)

-----------------------------------------------------------------------------
\* A gate lets the request pass to the next one or refuses it.
Pass(this, admitted, next) ==
    /\ gate = this
    /\ gate' = IF admitted THEN next ELSE "refused"
    /\ refuser' = IF admitted THEN refuser ELSE this
    /\ UNCHANGED <<intervals, cap, entry>>

Form ==
    /\ Pass("form", Bounded /\ CapAdmitted /\ Loop.fits, "worker")
    /\ UNCHANGED <<announced, searched>>

Worker ==
    /\ Pass("worker", CapAdmitted /\ Bounded /\ Loop.fits, "client")
    /\ announced' = IF gate' = "client" THEN Loop.total ELSE announced
    /\ UNCHANGED searched

\* The client's look at the started event.
Client ==
    /\ Pass("client", announced # 0 /\ announced <= MaxCells, "search")
    /\ UNCHANGED <<announced, searched>>

Search ==
    /\ Pass("search", Bounded /\ CapAdmitted /\ SearchFits, "report")
    /\ searched' = IF gate' = "report" THEN Plus(Plus(First, Second), Third) ELSE searched
    /\ UNCHANGED announced

Report ==
    /\ Pass("report", Bounded /\ CapAdmitted /\ ReportFits, "saved")
    /\ UNCHANGED <<announced, searched>>

Next == Form \/ Worker \/ Client \/ Search \/ Report

Spec == Init /\ [][Next]_vars

-----------------------------------------------------------------------------
TypeOK ==
    /\ intervals \in [1 .. 4 -> 0 .. MaxIntervals + 1]
    /\ cap \in 0 .. MaxCells + 1
    /\ entry \in {"form", "worker"}
    /\ gate \in Gates \cup {"saved", "refused"}
    /\ refuser \in Gates \cup {"none"}
    /\ announced \in Nat /\ searched \in Nat

\* The cells of a mission, in the integers.
Cells ==
    LET first == Points(1) * Points(2)
        second == first * Points(3)
    IN first + second + second * Points(4)

Admissible == Bounded /\ CapAdmitted /\ Cells <= cap

\* The four computations agree, and none of them wraps: what the first of them
\* admits is announced, searched and saved with the exact number of cells, and
\* what it refuses does ask for more than its cap.  A search that was paid for is
\* never refused by the report at its end.
GatesAgree ==
    /\ gate = "refused" => refuser = entry /\ ~Admissible
    /\ gate \notin {"refused", entry} => Admissible
    /\ gate \in {"client", "search", "report", "saved"} => announced = Cells
    /\ gate \in {"report", "saved"} => searched = announced
=============================================================================
