--------------------------- MODULE EventValidator ---------------------------
(***************************************************************************)
(* WorkerEventValidator::accept_line (Desktop/WorkerClient.cpp): which     *)
(* event of the worker the client accepts after those before it, for each  *)
(* kind of result it may be waiting for.                                   *)
(* An event keeps its type, its counts and its status.  What the validator *)
(* checks on the line alone is `valid`.                                    *)
(***************************************************************************)
EXTENDS Naturals

Screening  == {"screened_seed", "screened_route"}
Numerical  == {"fixed_impulse_evaluation", "bounded_shooting"}
Kinds      == Screening \cup Numerical

Types == {"started", "progress", "candidate", "refinement", "route",
          "complete", "cancelled", "error"}
Terminals == {"complete", "cancelled", "error"}

\* The rows a screening may send between its progress and its terminal.
Items(kind) == {t \in {"candidate", "refinement"} : kind = "screened_seed"} \cup
               {t \in {"route"} : kind = "screened_route"}

CellCap(kind) == IF kind = "screened_route" THEN 100000 ELSE 1000000
ProbeCap == 10000
ProgressCap == 128

CancelStatuses(kind) ==
    IF kind = "bounded_shooting"
    THEN {"before_numerical_work", "before_coarse_probe", "during_numerical_work"}
    ELSE {"before_numerical_work", "after_numerical_work"}

ShootingStatuses ==
    {"checkpointed_accepted", "strict_rejected", "budget_exhausted", "missing_venus",
     "venus_boundary_or_radius", "mars_stay_failed", "coarse_constraints_failed",
     "singular_jacobian", "unsafe_difference", "line_search_failed", "impulse_bound"}

\* `done` of `of` cells, probes or phases; `identity` stands for the snapshot hash
\* and the source confidence, "absent" when the event carries neither.
Event(type, done, of, status) ==
    [type |-> type, done |-> done, of |-> of, status |-> status,
     identity |-> "ours", valid |-> TRUE]

-----------------------------------------------------------------------------
\* A validator before its first line: total stands for total_cells_ and
\* shooting_total_, last for last_sampled_, last_completed_phases_ and
\* last_completed_probes_, events for shooting_progress_events_.
Fresh == [started |-> FALSE, terminal |-> FALSE, total |-> 0, last |-> 0,
          phaseZero |-> FALSE, events |-> 0]

\* Faulty: an event after the terminal is let through.
MisplacedOnlyAtStart(kind, v, e) ==
    \/ e.type \notin {"started", "progress"} \cup Items(kind) \cup Terminals
    \/ e.type = "started" /\ v.started
    \/ /\ ~v.started
       /\ e.type \notin {"started", "error"}
       /\ ~(kind \in Numerical /\ e.type = "cancelled")

Misplaced(kind, v, e) ==
    \/ e.type \notin {"started", "progress"} \cup Items(kind) \cup Terminals
    \/ v.terminal
    \/ e.type = "started" /\ v.started
    \/ /\ ~v.started
       /\ e.type \notin {"started", "error"}
       /\ ~(kind \in Numerical /\ e.type = "cancelled")

Foreign(v, e) ==
    /\ e.type # "error" \/ v.started \/ e.identity # "absent"
    /\ e.identity # "ours"

\* Schema, claims, frame, labels, ranked order and numerical limits of one line.
Malformed(e) == ~e.valid

BadStart(kind, e) ==
    e.type = "started" /\ kind \in Screening /\ e.of \notin 1..CellCap(kind)

BadProgress(kind, v, e) ==
    /\ e.type = "progress"
    /\ \/ e.done < v.last \/ e.done > e.of
       \/ /\ kind = "bounded_shooting"
          /\ \/ e.of \notin 1..ProbeCap \/ e.done = 0
             \/ v.total # 0 /\ e.of # v.total
             \/ v.events >= ProgressCap
       \/ /\ kind = "fixed_impulse_evaluation"
          /\ e.of # 1 \/ (~v.phaseZero /\ e.done # 0)
       \/ kind \in Screening /\ e.of # v.total

BadCancel(kind, v, e) ==
    /\ e.type = "cancelled" /\ kind \in Numerical
    /\ \/ e.status \notin CancelStatuses(kind)
       \/ ~v.started /\ e.status # "before_numerical_work"
       \/ kind = "bounded_shooting" /\ v.started /\ e.done \notin v.last..v.total

\* Faulty: the probes a shooting claims are not held against those it reported.
BadCompleteUncounted(kind, v, e) ==
    /\ e.type = "complete"
    /\ \/ /\ kind = "bounded_shooting"
          /\ \/ v.events = 0 \/ v.last = 0
             \/ e.of # v.total
             \/ e.status \notin ShootingStatuses
       \/ kind = "fixed_impulse_evaluation" /\ ~(v.phaseZero /\ v.last = 1)

BadComplete(kind, v, e) ==
    /\ e.type = "complete"
    /\ \/ /\ kind = "bounded_shooting"
          /\ \/ v.events = 0 \/ v.last = 0
             \/ e.done # v.last \/ e.of # v.total
             \/ e.status \notin ShootingStatuses
       \/ kind = "fixed_impulse_evaluation" /\ ~(v.phaseZero /\ v.last = 1)

\* The call throws WorkerClientError, and the client gives the run up.
Refuses(kind, v, e) ==
    \/ Misplaced(kind, v, e) \/ Foreign(v, e) \/ Malformed(e) \/ BadStart(kind, e)
    \/ BadProgress(kind, v, e) \/ BadCancel(kind, v, e) \/ BadComplete(kind, v, e)

After(kind, v, e) ==
    LET progress == e.type = "progress" IN
    [started   |-> v.started \/ e.type = "started",
     terminal  |-> v.terminal \/ e.type \in Terminals,
     total     |-> IF \/ kind \in Screening /\ e.type = "started"
                      \/ kind = "bounded_shooting" /\ progress
                   THEN e.of ELSE v.total,
     last      |-> IF progress THEN e.done ELSE v.last,
     phaseZero |-> v.phaseZero \/ (kind = "fixed_impulse_evaluation" /\ progress /\ e.done = 0),
     events    |-> IF kind = "bounded_shooting" /\ progress THEN v.events + 1 ELSE v.events]
=============================================================================
