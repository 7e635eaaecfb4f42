------------------------------ MODULE CellRun ------------------------------
(***************************************************************************)
(* What the worker relies on while search_mission runs: cells are counted  *)
(* one by one up to the announced total, retained routes never shrink and  *)
(* stay within their cap, a cell yields one route at most, both counts are *)
(* reported as they change, and the call ends complete, cancelled or with  *)
(* an exception.  A cancellation     *)
(* raised meanwhile lets at most one more cell begin.                      *)
(***************************************************************************)
EXTENDS Naturals

CONSTANTS
    Total,      \* the announced upper bound of cells
    MaxRoutes   \* request.max_routes

VARIABLES
    sampled,    \* out.sampled_cells
    retained,   \* out.routes.size()
    closed,     \* the last cell completed a route that is being assembled
    cancelled,  \* the worker's cancel flag
    late,       \* the cells that have begun since it was raised
    outcome     \* "running", "complete", "cancelled", or "raised"

vars == <<sampled, retained, closed, cancelled, late, outcome>>

Init == /\ sampled = 0 /\ retained = 0 /\ outcome = "running"
        /\ closed = FALSE /\ cancelled = FALSE /\ late = 0

\* The flag is raised by another thread, at any time.
RaiseCancel == /\ ~cancelled
               /\ cancelled' = TRUE
               /\ UNCHANGED <<sampled, retained, closed, late, outcome>>

\* One cell screened and reported.
Cell == /\ outcome = "running" /\ ~closed /\ sampled < Total /\ late = 0
        /\ sampled' = sampled + 1
        /\ closed' \in BOOLEAN
        /\ late' = IF cancelled THEN 1 ELSE 0
        /\ UNCHANGED <<retained, cancelled, outcome>>

\* The route is retained, swapped for a worse one, or worse itself.
Retain == /\ outcome = "running" /\ closed
          /\ closed' = FALSE
          /\ retained' \in {retained, retained + 1}
          /\ retained' \in 1..MaxRoutes
          /\ UNCHANGED <<sampled, cancelled, late, outcome>>

\* The legs do not make a route.
Drop == /\ outcome = "running" /\ closed
        /\ closed' = FALSE
        /\ UNCHANGED <<sampled, retained, cancelled, late, outcome>>

Return == /\ outcome = "running"
          /\ outcome' \in {"complete", "cancelled", "raised"}
          /\ outcome' = "raised" \/ ~closed
          /\ outcome' = "cancelled" => cancelled
          /\ closed' = FALSE
          /\ UNCHANGED <<sampled, retained, cancelled, late>>

Next == RaiseCancel \/ Cell \/ Retain \/ Drop \/ Return

Spec == Init /\ [][Next]_vars
=============================================================================
