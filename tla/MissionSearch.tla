--------------------------- MODULE MissionSearch ---------------------------
(***************************************************************************)
(* search_mission (MissionSearch.cpp): a nested grid over launch dates and *)
(* the flight times of three legs.  A leg without a candidate prunes the   *)
(* legs below it; a full triple is assembled into a route, and the best    *)
(* max_routes routes are kept.  The flag behind cancelled() is raised by   *)
(* the worker's reader thread at any time.                                 *)
(* better() orders routes totally, ties by their unique id, so a route is  *)
(* its rank in that order.                                                 *)
(***************************************************************************)
EXTENDS Naturals, Sequences, FiniteSets, FiniteSetsExt, SequencesExt

CONSTANTS
    Launches,   \* launch dates of the grid
    Flights,    \* flight times of each of the three legs
    MaxRoutes,  \* request.max_routes
    Ranks       \* bound: the routes there are, by rank

VARIABLES
    pc,         \* where search_mission is
    leg,        \* the innermost loop entered, 1..3
    at,         \* li, i, j and k
    sampled,    \* out.sampled_cells
    routes,     \* out.routes
    peak,       \* out.peak_retained_routes
    stopped,    \* out.cancelled
    cancelled,  \* what cancelled() answers
    late,       \* history: the cells begun since `cancelled` was raised
    hits,       \* history: candidates found for each leg
    found       \* history: every route assembled

outVars == <<sampled, routes, peak, stopped>>
vars == <<pc, leg, at, outVars, cancelled, late, hits, found>>

Legs == 1..3
Loops == 0..3
Size(l) == IF l = 0 THEN Launches ELSE Flights[l]

\* bounded_multiply and bounded_add of the three levels.
Total == LET first == Launches * Flights[1] IN
         LET second == first * Flights[2] IN first + second + second * Flights[3]

Init ==
    /\ pc = "preflight" /\ leg = 1 /\ at = [l \in Loops |-> 0]
    /\ sampled = 0 /\ routes = <<>> /\ peak = 0 /\ stopped = FALSE
    /\ cancelled = FALSE /\ late = 0
    /\ hits = [l \in Legs |-> 0] /\ found = {}

RaiseCancel ==
    /\ ~cancelled
    /\ cancelled' = TRUE
    /\ UNCHANGED <<pc, leg, at, outVars, late, hits, found>>

Goto(l) == pc' = l /\ UNCHANGED <<leg, at>>

\* The request and the assembler's constraints are checked before any cell.
Preflight ==
    /\ pc = "preflight"
    /\ Goto("cell") \/ Goto("raised")
    /\ UNCHANGED <<outVars, cancelled, late, hits, found>>

\* stopped(), before every cell of every loop.
Stop ==
    /\ pc = "cell" /\ cancelled
    /\ stopped' = TRUE
    /\ Goto("done")
    /\ UNCHANGED <<sampled, routes, peak, cancelled, late, hits, found>>

\* Faulty: no look at the flag.
GoOnRegardless ==
    /\ pc = "cell"
    /\ Goto("screen")
    /\ UNCHANGED <<outVars, cancelled, late, hits, found>>

GoOn ==
    /\ pc = "cell" /\ ~cancelled
    /\ Goto("screen")
    /\ UNCHANGED <<outVars, cancelled, late, hits, found>>

\* The innermost loop that has another index is stepped; a new launch date enters
\* the loop of the first leg again.  When no loop has one, the result is returned.
Advance ==
    /\ pc = "advance"
    /\ LET more == {l \in 0..leg : at[l] + 1 < Size(l)}
           l == Max(more)
       IN  IF more = {} THEN Goto("done")
           ELSE /\ pc' = "cell"
                /\ at' = IF l = 0 THEN [at EXCEPT ![0] = @ + 1, ![1] = 0] ELSE [at EXCEPT ![l] = @ + 1]
                /\ leg' = Max({l, 1})
    /\ UNCHANGED <<outVars, cancelled, late, hits, found>>

Descend == /\ pc' = "cell"
           /\ leg' = leg + 1
           /\ at' = [at EXCEPT ![leg + 1] = 0]

\* screen(): the cell is counted and reported, then pruned or followed.
Screen ==
    /\ pc = "screen"
    /\ sampled' = sampled + 1
    /\ late' = IF cancelled THEN late + 1 ELSE late
    /\ \/ Goto("advance") /\ UNCHANGED hits
       \/ /\ hits' = [hits EXCEPT ![leg] = @ + 1]
          /\ IF leg < 3 THEN Descend ELSE Goto("assemble")
    /\ UNCHANGED <<routes, peak, stopped, cancelled, found>>

\* A leg or a route may also raise a SearchError, which nobody here catches.
Raise ==
    /\ pc \in {"screen", "assemble"}
    /\ Goto("raised")
    /\ UNCHANGED <<outVars, cancelled, late, hits, found>>

AssembleNothing ==
    /\ pc = "assemble"
    /\ Goto("advance")
    /\ UNCHANGED <<outVars, cancelled, late, hits, found>>

Sorted(S) == LET Places == 1..Cardinality(S) IN
    CHOOSE s \in [Places -> S] : \A i, j \in Places : i < j => s[i] < s[j]

\* Faulty: the swapped route stays at the end.
RetainedUnsorted(r) ==
    IF Len(routes) < MaxRoutes THEN Sorted(Range(routes) \cup {r})
    ELSE IF r < Last(routes) THEN Append(Front(routes), r)
    ELSE routes

\* Room: pushed and sorted.  Full: swapped for the last if better, and sorted.
Retained(r) ==
    IF Len(routes) < MaxRoutes THEN Sorted(Range(routes) \cup {r})
    ELSE IF r < Last(routes) THEN Sorted((Range(routes) \ {Last(routes)}) \cup {r})
    ELSE routes

Assemble ==
    /\ pc = "assemble"
    /\ \E r \in Ranks \ found :
          /\ found' = found \cup {r}
          /\ routes' = Retained(r)
    /\ peak' = Max({peak, Len(routes')})
    /\ Goto("advance")
    /\ UNCHANGED <<sampled, stopped, cancelled, late, hits>>

-----------------------------------------------------------------------------
Step == Preflight \/ Stop \/ GoOn \/ Screen \/ Raise \/ AssembleNothing \/ Assemble \/ Advance

Next == RaiseCancel \/ Step

Spec == Init /\ [][Next]_vars

-----------------------------------------------------------------------------
\* At any time, and so also in the result of a cancelled search, the routes kept
\* are the best of those assembled so far, in order, as many as are allowed.
KeepsTheBest ==
    /\ routes = SubSeq(Sorted(found), 1, Min({MaxRoutes, Cardinality(found)}))
    /\ peak = Len(routes)

\* What the worker relies on.
Run == INSTANCE CellRun WITH
    retained <- Len(routes),
    closed   <- pc = "assemble",
    outcome  <- IF pc = "raised" THEN "raised"
                ELSE IF pc # "done" THEN "running"
                ELSE IF stopped THEN "cancelled" ELSE "complete"

\* The announced total, the counts that only grow, the one late cell at most.
ImplementsCellRun == Run!Spec
=============================================================================
