---------------------------- MODULE MissionWorker ----------------------------
(***************************************************************************)
(* process_mission (Worker.cpp): the handler of the command start_mission, *)
(* with or without a persisted ephemeris.  search_mission is any behaviour *)
(* of CellRun, which MissionSearch implements.                             *)
(***************************************************************************)
EXTENDS WorkerSession, FiniteSetsExt

CONSTANTS
    Total,      \* total: cells of the three legs
    MaxRoutes   \* request.max_routes

VARIABLES
    cache,          \* ephemeris_cache: "none" asked for, "absent", "present" or "unusable"
    cells,          \* out.sampled_cells of the call of search_mission under way
    retained,       \* its out.routes.size()
    closed,         \* a route is being assembled
    outcome,        \* how the call ended, "running" before
    sampled,        \* sampled, as the last progress callback left it
    lastSampled,    \* last_progress_sampled
    lastRoutes,     \* last_progress_routes
    sent            \* route events written

searchVars == <<cells, retained, closed, outcome>>
progressVars == <<sampled, lastSampled, lastRoutes>>
missionVars == <<cache, searchVars, progressVars, sent>>

Search == INSTANCE CellRun WITH sampled <- cells

Init == /\ cache \in {"none", "absent", "present", "unusable"}
        /\ cells = 0 /\ retained = 0 /\ closed = FALSE /\ outcome = "running"
        /\ sampled = 0 /\ lastSampled = 0 /\ lastRoutes = 0 /\ sent = 0

\* Faulty: a cancelled worker just exits.
CancelOrSilent(next) ==
    \/ cancelled /\ pc' = "exited" /\ UNCHANGED pipe
    \/ ~cancelled /\ next

\* if(cancelled()), the terminal with the cells sampled so far, or on.
CancelOr(next) ==
    \/ cancelled /\ SendAndExit(Event("cancelled", sampled, Total, "none"))
    \/ ~cancelled /\ next

ReadSource ==
    /\ pc = "reading"
    /\ \/ \E identity \in {"absent", "ours"} : SendAndExit(Error(identity))
       \/ Send(Event("started", 0, Total, "none")) /\ pc' = "started"
    /\ UNCHANGED <<readerVars, cancelled, workVars, cache, searchVars, progressVars, sent>>

Started ==
    /\ pc = "started"
    /\ CancelOr(Send(Event("progress", 0, Total, "none")) /\ pc' = "precompute")
    /\ UNCHANGED <<readerVars, cancelled, workVars, cache, searchVars, progressVars, sent>>

\* A cache that is there is loaded or rejected, never overwritten.
Precompute ==
    /\ pc = "precompute"
    /\ CancelOr(CASE cache = "unusable" -> SendAndExit(Error("ours"))
                  [] cache = "present"  -> pc' = "ready" /\ UNCHANGED pipe
                  [] OTHER -> pc' = "integrate" /\ UNCHANGED pipe)
    /\ UNCHANGED <<readerVars, cancelled, workVars, cache, searchVars, progressVars, sent>>

Integrate ==
    /\ pc = "integrate"
    /\ Begin
    /\ pc' = "integrating"
    /\ UNCHANGED <<readerVars, pipe, cancelled, cache, searchVars, progressVars, sent>>

\* A new ephemeris is saved where one was asked for.
Integrated ==
    /\ pc = "integrating"
    /\ Finish
    /\ \/ SendAndExit(Error("ours"))
       \/ cache = "none" /\ pc' = "ready" /\ UNCHANGED pipe
       \/ /\ cache = "absent"
          /\ CancelOr(\/ SendAndExit(Error("ours"))
                      \/ pc' = "ready" /\ UNCHANGED pipe)
    /\ cache' = IF pc' = "ready" /\ cache = "absent" THEN "present" ELSE cache
    /\ UNCHANGED <<readerVars, cancelled, searchVars, progressVars, sent>>

Ready ==
    /\ pc = "ready"
    /\ CancelOr(pc' = "searching" /\ UNCHANGED pipe)
    /\ UNCHANGED <<readerVars, cancelled, workVars, cache, searchVars, progressVars, sent>>

\* The first and the last cell, every hundredth of the total, and each route more.
Stride == Max({1, Total \div 100})

\* Faulty: the routes are counted as cells.
ProgressOfRoutes ==
    /\ sampled' = cells'
    /\ Send(Event("progress", IF retained' > lastRoutes THEN retained' ELSE cells', Total, "none"))
    /\ lastSampled' = cells'
    /\ lastRoutes' = retained'

\* Faulty: a route more is no reason to report.
ProgressByStride ==
    /\ sampled' = cells'
    /\ IF cells' \notin {1, Total} /\ cells' - lastSampled < Stride
       THEN UNCHANGED <<pipe, lastSampled, lastRoutes>>
       ELSE /\ Send(Event("progress", cells', Total, "none"))
            /\ lastSampled' = cells'
            /\ lastRoutes' = retained'

Progress ==
    /\ sampled' = cells'
    /\ IF /\ cells' \notin {1, Total}
          /\ cells' - lastSampled < Stride
          /\ retained' <= lastRoutes
       THEN UNCHANGED <<pipe, lastSampled, lastRoutes>>
       ELSE /\ Send(Event("progress", cells', Total, "none"))
            /\ lastSampled' = cells'
            /\ lastRoutes' = retained'

Cell ==
    /\ pc = "searching"
    /\ Search!Cell
    /\ Progress
    /\ overdue' = (overdue \/ cancelled)
    /\ UNCHANGED <<readerVars, pc, cache, sent>>

Retain ==
    /\ pc = "searching"
    /\ Search!Retain
    /\ Progress
    /\ UNCHANGED <<readerVars, pc, overdue, cache, sent>>

Drop ==
    /\ pc = "searching"
    /\ Search!Drop
    /\ UNCHANGED <<readerVars, pc, pipe, overdue, cache, progressVars, sent>>

SearchReturns ==
    /\ pc = "searching"
    /\ Search!Return
    /\ IF outcome' = "raised" THEN SendAndExit(Error("ours"))
       ELSE pc' = "routes" /\ UNCHANGED pipe
    /\ UNCHANGED <<readerVars, overdue, cache, progressVars, sent>>

Route ==
    /\ pc = "routes" /\ sent < retained
    /\ Send(Event("route", 0, 0, "none"))
    /\ sent' = sent + 1
    /\ UNCHANGED <<readerVars, pc, cancelled, workVars, cache, searchVars, progressVars>>

Terminal ==
    /\ pc = "routes" /\ sent = retained
    /\ SendAndExit(Event(outcome, cells, Total, "none"))
    /\ UNCHANGED <<readerVars, cancelled, workVars, cache, searchVars, progressVars, sent>>

-----------------------------------------------------------------------------
Work == Alive /\ (ReadSource \/ Started \/ Precompute \/ Integrate \/ Integrated \/ Ready
                  \/ Cell \/ Retain \/ Drop \/ SearchReturns \/ Route \/ Terminal)

-----------------------------------------------------------------------------
\* The last count the client shows lags the search by less than a stride.
ProgressKeepsUp ==
    pc \in {"searching", "routes"} =>
        /\ cells - lastSampled < Stride
        /\ lastRoutes = retained
=============================================================================
