--------------------------- MODULE WorkerProcess ---------------------------
(***************************************************************************)
(* One worker process, composed with the client that reads its lines:      *)
(* process_start_line (Worker.cpp) hands the request to the handler of its *)
(* command, which is the client's kind of result.  The client takes the    *)
(* lines of any other program the same way, which writes what it likes     *)
(* (AnyWorker).                                                            *)
(***************************************************************************)
EXTENDS AnyWorker, WorkerSession

CONSTANTS
    Budget,         \* limits.max_probe_evaluations of shoot_route
    RouteCells,     \* total of start_mission
    MaxRoutes,      \* request.max_routes
    SeedCells,      \* total of start
    MaxCandidates   \* q.max_candidates

ASSUME RequestAssumption ==
    /\ Budget \in 1..ProbeCap
    /\ RouteCells \in 1..CellCap("screened_route") /\ MaxRoutes \in Nat \ {0}
    /\ SeedCells \in 1..CellCap("screened_seed") /\ MaxCandidates \in Nat \ {0}

\* A process runs one handler; the others' variables keep their initial values.
VARIABLES
    probes, reported, lastReported,                         \* EvaluationWorker
    cache, cells, retained, closed, lastSampled, lastRoutes, sent, \* MissionWorker
    refine, emitted,                                        \* SeedWorker
    outcome,                                                \* of the call under way
    sampled                                                 \* of either grid

evaluationOnly == <<probes, reported, lastReported>>
missionOnly == <<cache, cells, retained, closed, lastSampled, lastRoutes, sent>>
seedOnly == <<refine, emitted>>
handlerVars == <<evaluationOnly, missionOnly, seedOnly, outcome, sampled>>
vars == <<sessionVars, handlerVars>>

Evaluation == INSTANCE EvaluationWorker
Mission == INSTANCE MissionWorker WITH Total <- RouteCells
Seed == INSTANCE SeedWorker WITH Total <- SeedCells

ProcessInit ==
    /\ kind \in Kinds /\ SessionInit
    /\ Evaluation!Init /\ Mission!Init /\ Seed!Init
    /\ kind # "screened_route" \/ pc = "foreign" => cache = "none"
    /\ kind # "screened_seed" \/ pc = "foreign" => ~refine

EvaluateOrShoot ==
    /\ kind \in Numerical /\ Evaluation!Work
    /\ UNCHANGED <<missionOnly, seedOnly, sampled>>

StartMission ==
    /\ kind = "screened_route" /\ Mission!Work
    /\ UNCHANGED <<evaluationOnly, seedOnly>>

Start ==
    /\ kind = "screened_seed" /\ Seed!Work
    /\ UNCHANGED <<evaluationOnly, missionOnly, outcome>>

Work == EvaluateOrShoot \/ StartMission \/ Start

OtherProgram ==
    /\ ~Ours /\ Next
    /\ UNCHANGED <<pc, pipe, cancelled, workVars, handlerVars>>

Reader == Read /\ UNCHANGED handlerVars
Canceller == RaiseCancel /\ UNCHANGED handlerVars

ProcessNext == Work \/ OtherProgram \/ Reader \/ Canceller

\* The numerics return and the client reads; nobody has to cancel.
ProcessSpec == ProcessInit /\ [][ProcessNext]_vars /\ WF_vars(Work) /\ WF_vars(Reader)

-----------------------------------------------------------------------------
\* The last count the client shows lags a mission's search by less than a stride,
\* and no retained route goes unreported.
ProgressKeepsUp == Mission!ProgressKeepsUp
=============================================================================
