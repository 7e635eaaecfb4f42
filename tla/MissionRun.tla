----------------------------- MODULE MissionRun -----------------------------
(***************************************************************************)
(* A mission from the form to the saved report: the gates of MissionBudget *)
(* and, behind the gate of the search, the walk of MissionSearch over the  *)
(* grid it has counted.  One grid is walked, under the cap it just meets;  *)
(* of the others only the counts are followed.  The report is made when    *)
(* search_mission has returned, and not at all when it has raised.         *)
(***************************************************************************)
EXTENDS MissionBudget

CONSTANTS Launches, Flights, MaxRoutes, Ranks     \* of MissionSearch

VARIABLES pc, leg, at, sampled, routes, peak, stopped, cancelled, late, hits, found

searchVars == <<pc, leg, at, sampled, routes, peak, stopped, cancelled, late, hits, found>>

Walk == INSTANCE MissionSearch

ASSUME GridAssumption ==
    /\ Launches \in Nat \ {0} /\ MaxRoutes \in Nat \ {0}
    /\ Flights \in [1..3 -> Nat \ {0}]
    /\ Ranks \subseteq Nat

MissionInit == Init /\ Walk!Init

Walked ==
    /\ Points(1) = Launches /\ \A l \in 1..3 : Points(l + 1) = Flights[l]
    /\ cap = Cells

Gate ==
    /\ gate = "report" /\ Walked => pc = "done"
    /\ Next
    /\ UNCHANGED searchVars

Search_Mission ==
    /\ gate = "report" /\ Walked
    /\ Walk!Next
    /\ UNCHANGED vars

MissionNext == Gate \/ Search_Mission

MissionSpec == MissionInit /\ [][MissionNext]_<<vars, searchVars>>

-----------------------------------------------------------------------------
\* At any time, and so also in the result of a cancelled search, the routes kept
\* are the best of those assembled so far, in order, as many as are allowed.
KeepsTheBest == Walk!KeepsTheBest

\* The announced total, the counts that only grow, the one late cell at most: what
\* the worker relies on.
ImplementsCellRun == Walk!ImplementsCellRun
=============================================================================
