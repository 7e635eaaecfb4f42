-------------------------- MODULE ShootFixedRoute --------------------------
(***************************************************************************)
(* shoot_fixed_route (RouteEvaluate.cpp): a block-wise correction of four  *)
(* impulses by probes of the coarse trajectory.  Each iteration visits the *)
(* four blocks; blocks 0 and 2 take three difference probes for a Jacobian *)
(* and every corrected block a backtracking line search.  The flag behind  *)
(* cancelled() is raised by the worker's reader thread at any time.        *)
(* A probe is abstracted to the blocks whose residual is out of tolerance  *)
(* and to the first coarse constraint it breaks.                           *)
(***************************************************************************)
EXTENDS Naturals, Sequences

CONSTANTS
    MaxProbes,      \* limits.max_probe_evaluations
    MaxIterations,  \* limits.max_iterations
    Attempts,       \* 12 halvings of the line search
    Reasons         \* what coarse_reason may answer

ASSUME LimitsAssumption ==
    /\ MaxProbes \in Nat \ {0} /\ MaxIterations \in Nat \ {0} /\ Attempts \in Nat \ {0}
    /\ Reasons \subseteq {"missing_venus", "venus_boundary_or_radius", "mars_stay_failed",
                          "coarse_constraints_failed"}

VARIABLES
    pc,          \* where shoot_fixed_route is
    purpose,     \* which call of evaluate() is under way
    probes,      \* out.probe_evaluations
    iterations,  \* out.iterations
    block,       \* block
    step,        \* col of the Jacobian, or attempt of the line search
    changed,     \* changed
    probe,       \* out.final_probe
    probed,      \* history: the trial out.final_probe was computed from
    trial,       \* current_trial, by the number of accepted corrections
    strict,      \* out.strict_result has a value
    status,      \* out.status
    cancelled,   \* what cancelled() answers
    late,        \* history: the probes begun since `cancelled` was raised
    reports      \* history: the arguments of progress(), in order

flowVars   == <<pc, purpose, iterations, block, step, changed>>
resultVars == <<probe, probed, strict, status>>
countVars  == <<probes, late, reports>>
vars == <<flowVars, resultVars, countVars, trial, cancelled>>

Blocks == 0..3
DifferenceBlocks == {0, 2}
None == "none"
Probes == [open : SUBSET Blocks, reason : Reasons \cup {None}]
NoProbe == [open |-> {}, reason |-> None]

-----------------------------------------------------------------------------
Init ==
    /\ pc = "validate" /\ purpose = "initial"
    /\ probes = 0 /\ iterations = 0 /\ block = 0 /\ step = 0 /\ changed = FALSE
    /\ probe = NoProbe /\ probed = 0 /\ trial = 0
    /\ strict = FALSE /\ status = None
    /\ cancelled = FALSE /\ late = 0 /\ reports = <<>>

RaiseCancel ==
    /\ ~cancelled
    /\ cancelled' = TRUE
    /\ UNCHANGED <<flowVars, resultVars, countVars, trial>>

\* return out, with this status
ReturnWith(s) == /\ status' = s
                 /\ pc' = "done"
                 /\ UNCHANGED <<purpose, iterations, block, step, changed, probe, probed, strict>>
Goto(l) == /\ pc' = l
           /\ UNCHANGED <<purpose, iterations, block, step, changed, resultVars>>
Call(p) == /\ pc' = "evaluate" /\ purpose' = p
           /\ UNCHANGED <<iterations, block, changed, resultVars>>

\* validate(): a request that does not answer its source is refused.
RequestOutcomes == {"evaluate", "raise"}

\* Limits, seed and request are checked before any probe.
Validate ==
    /\ pc = "validate"
    /\ \E next \in RequestOutcomes : Goto(next)
    /\ UNCHANGED <<countVars, trial, cancelled>>

(* evaluate() **************************************************************)

\* It declines after a cancellation or with the budget spent ...
EvaluateDeclines ==
    /\ pc = "evaluate"
    /\ \/ cancelled /\ ReturnWith("cancelled")
       \/ ~cancelled /\ probes >= MaxProbes /\ ReturnWith("budget_exhausted")
    /\ UNCHANGED <<countVars, trial, cancelled>>

\* Mutant: the budget counts probes from zero to MaxProbes.
EvaluateAgreesOnceMore ==
    /\ pc = "evaluate" /\ ~cancelled /\ probes <= MaxProbes
    /\ Goto("begin")
    /\ UNCHANGED <<countVars, trial, cancelled>>

EvaluateAgrees ==
    /\ pc = "evaluate" /\ ~cancelled /\ probes < MaxProbes
    /\ Goto("begin")
    /\ UNCHANGED <<countVars, trial, cancelled>>

\* ... and else counts the probe before it runs it; the flag may be up by now.
EvaluateBegins ==
    /\ pc = "begin"
    /\ probes' = probes + 1
    /\ late' = IF cancelled THEN late + 1 ELSE late
    /\ Goto("probing")
    /\ UNCHANGED <<reports, trial, cancelled>>

\* Mutant: a probe that throws is not reported.
EvaluateReportsResults ==
    /\ pc = "probing"
    /\ \/ reports' = Append(reports, probes) /\ Goto("probed")
       \/ UNCHANGED reports /\ Goto("probe_rejected")
    /\ UNCHANGED <<probes, late, trial, cancelled>>

\* probe_route_trial returns the diagnostics of a trajectory, throws the
\* RouteEvaluationError of one that is unsafe, or another exception.
ProbeOutcomes == {"probed", "probe_rejected", "raise"}

\* progress() is called in all cases.
EvaluateReports ==
    /\ pc = "probing"
    /\ reports' = Append(reports, probes)
    /\ \E next \in ProbeOutcomes : Goto(next)
    /\ UNCHANGED <<probes, late, trial, cancelled>>

\* An exception nobody here catches leaves shoot_fixed_route.
Raises ==
    /\ \/ pc = "raise"
       \/ pc = "probe_rejected" /\ purpose = "initial"
    /\ ReturnWith("raised")
    /\ UNCHANGED <<countVars, trial, cancelled>>

(* The seed ****************************************************************)

InitialProbed ==
    /\ pc = "probed" /\ purpose = "initial"
    /\ \E p \in Probes : probe' = p
    /\ probed' = trial
    /\ \/ /\ cancelled
          /\ status' = "cancelled" /\ pc' = "done"
       \/ /\ ~cancelled
          /\ pc' = IF probe'.reason = None THEN "strict_gate" ELSE "iterate"
          /\ UNCHANGED status
    /\ UNCHANGED <<purpose, iterations, block, step, changed, strict, countVars, trial, cancelled>>

(* strict_gate() ***********************************************************)

StrictGate ==
    /\ pc = "strict_gate"
    /\ \/ cancelled /\ ReturnWith("cancelled")
       \/ ~cancelled /\ Goto("strict_run")
    /\ UNCHANGED <<countVars, trial, cancelled>>

\* evaluate_core: the strict result, or the RouteEvaluationError of one of its
\* gates.
StrictOutcomes == {"checkpointed_accepted", "strict_rejected"}

\* The strict evaluation cannot be interrupted: the flag is read again after it.
StrictRun ==
    /\ pc = "strict_run"
    /\ \/ \E outcome \in StrictOutcomes :
             /\ strict' = (outcome = "checkpointed_accepted" /\ ~cancelled)
             /\ status' = IF cancelled THEN "cancelled" ELSE outcome
             /\ pc' = "done"
             /\ UNCHANGED <<purpose, iterations, block, step, changed, probe, probed>>
       \/ Goto("raise")
    /\ UNCHANGED <<countVars, trial, cancelled>>

(* Iterations and blocks ***************************************************)

\* Mutant: the last iteration always ends as an exhausted budget.
IterateToBudget ==
    /\ pc = "iterate"
    /\ \/ /\ iterations < MaxIterations
          /\ iterations' = iterations + 1
          /\ changed' = FALSE /\ block' = 0
          /\ pc' = "block"
          /\ UNCHANGED <<purpose, step, resultVars>>
       \/ iterations = MaxIterations /\ ReturnWith("budget_exhausted")
    /\ UNCHANGED <<countVars, trial, cancelled>>

\* The head of the iteration loop; past its last iteration coarse_reason of the
\* last probe is the status, or the budget if there is none.
Iterate ==
    /\ pc = "iterate"
    /\ \/ /\ iterations < MaxIterations
          /\ iterations' = iterations + 1
          /\ changed' = FALSE /\ block' = 0
          /\ pc' = "block"
          /\ UNCHANGED <<purpose, step, resultVars>>
       \/ /\ iterations = MaxIterations
          /\ ReturnWith(IF probe.reason = None THEN "budget_exhausted" ELSE probe.reason)
    /\ UNCHANGED <<countVars, trial, cancelled>>

\* Mutant: a block within tolerance is not passed.
EnterBlockOpen ==
    /\ pc = "block" /\ block \in probe.open
    /\ step' = 0
    /\ pc' = IF block \in DifferenceBlocks THEN "difference" ELSE "search"
    /\ UNCHANGED <<purpose, iterations, block, changed, resultVars, countVars, trial, cancelled>>

\* A block within tolerance is skipped; a difference block needs its Jacobian.
EnterBlock ==
    /\ pc = "block" /\ block \in Blocks
    /\ step' = 0
    /\ \/ /\ block \notin probe.open
          /\ block' = block + 1
          /\ UNCHANGED <<pc, purpose, iterations, changed, resultVars>>
       \/ /\ block \in probe.open
          /\ pc' = IF block \in DifferenceBlocks THEN "difference" ELSE "search"
          /\ UNCHANGED <<purpose, iterations, block, changed, resultVars>>
    /\ UNCHANGED <<countVars, trial, cancelled>>

\* One column: neither sign of the step may fit under the impulse cap.
Difference ==
    /\ pc = "difference" /\ step < 3
    /\ \/ ReturnWith("impulse_bound")
       \/ Call("difference") /\ UNCHANGED step
    /\ UNCHANGED <<countVars, trial, cancelled>>

DifferenceProbed ==
    /\ purpose = "difference"
    /\ \/ pc = "probe_rejected" /\ ReturnWith("unsafe_difference")
       \/ /\ pc = "probed"
          /\ step' = step + 1
          /\ pc' = "difference"
          /\ UNCHANGED <<purpose, iterations, block, changed, resultVars>>
    /\ UNCHANGED <<countVars, trial, cancelled>>

Solve ==
    /\ pc = "difference" /\ step = 3
    /\ \/ ReturnWith("singular_jacobian")
       \/ /\ step' = 0
          /\ pc' = "search"
          /\ UNCHANGED <<purpose, iterations, block, changed, resultVars>>
    /\ UNCHANGED <<countVars, trial, cancelled>>

\* An attempt over the impulse cap is passed over without a probe.
Search ==
    /\ pc = "search"
    /\ \/ step = Attempts /\ ReturnWith("line_search_failed")
       \/ /\ step < Attempts
          /\ step' = step + 1
          /\ \/ Call("search")
             \/ UNCHANGED <<pc, purpose, iterations, block, changed, resultVars>>
    /\ UNCHANGED <<countVars, trial, cancelled>>

\* Mutant: the correction is taken without its probe.
SearchProbedKeepsProbe ==
    /\ purpose = "search"
    /\ \/ /\ pc = "probed"
          /\ trial' = trial + 1
          /\ changed' = TRUE /\ block' = block + 1
          /\ pc' = "block"
          /\ UNCHANGED <<purpose, iterations, step, resultVars>>
       \/ pc \in {"probed", "probe_rejected"} /\ Goto("search") /\ UNCHANGED trial
    /\ UNCHANGED <<countVars, cancelled>>

\* A smaller residual is taken, with its trial and its probe; else halve again.
SearchProbed ==
    /\ purpose = "search"
    /\ \/ /\ pc = "probed"
          /\ \E p \in Probes : probe' = p
          /\ trial' = trial + 1
          /\ probed' = trial'
          /\ changed' = TRUE /\ block' = block + 1
          /\ pc' = "block"
          /\ UNCHANGED <<purpose, iterations, step, strict, status>>
       \/ pc \in {"probed", "probe_rejected"} /\ Goto("search") /\ UNCHANGED trial
    /\ UNCHANGED <<countVars, cancelled>>

IterationEnds ==
    /\ pc = "block" /\ block = 4
    /\ \/ probe.reason = None /\ Goto("strict_gate")
       \/ probe.reason # None /\ ~changed /\ ReturnWith(probe.reason)
       \/ probe.reason # None /\ changed /\ Goto("iterate")
    /\ UNCHANGED <<countVars, trial, cancelled>>

-----------------------------------------------------------------------------
Step == \/ Validate \/ EvaluateDeclines \/ EvaluateAgrees \/ EvaluateBegins \/ EvaluateReports \/ Raises
        \/ InitialProbed \/ StrictGate \/ StrictRun
        \/ Iterate \/ EnterBlock \/ Difference \/ DifferenceProbed \/ Solve
        \/ Search \/ SearchProbed \/ IterationEnds

Next == RaiseCancel \/ Step

Spec == Init /\ [][Next]_vars

\* The function runs to its return; nobody has to raise the flag.
FairSpec == Spec /\ WF_vars(Step)

-----------------------------------------------------------------------------
CorrectionStatuses == {"impulse_bound", "unsafe_difference", "singular_jacobian",
                       "line_search_failed"}

\* Every probe is reported exactly once and in order, the one that throws too,
\* and none is missing when the function returns.
ReportsExact ==
    /\ \A i \in 1..Len(reports) : reports[i] = i
    /\ Len(reports) = IF pc = "probing" THEN probes - 1 ELSE probes

\* The diagnostics that are reported are those of the trial that is reported, and
\* that the strict gate evaluates.
DiagnosticsOfTrial == probes > 1 \/ pc = "strict_gate" => probed = trial

\* A status says of the last accepted probe what it claims: a coarse reason is its
\* reason, the strict gate was reached only without one, a correction failed in a
\* block out of tolerance, and the budget is exhausted only with every probe spent.
StatusExplained ==
    /\ status \in Reasons => probe.reason = status
    /\ status \in StrictOutcomes => probe.reason = None
    /\ status \in CorrectionStatuses => block \in probe.open
    /\ status = "budget_exhausted" => probes = MaxProbes
    /\ strict <=> status = "checkpointed_accepted"

\* The function returns whatever the probes answer.
Terminates == <>(pc = "done")

\* What the worker relies on.
Run == INSTANCE ProbeRun WITH
    Budget   <- MaxProbes,
    Statuses <- Reasons \cup StrictOutcomes \cup CorrectionStatuses \cup {"budget_exhausted"},
    reported <- Len(reports),
    outcome  <- IF pc = "done" THEN status ELSE "running"

\* The probe budget, the order of reports and the one late probe at most.
ImplementsProbeRun == Run!Spec
=============================================================================
