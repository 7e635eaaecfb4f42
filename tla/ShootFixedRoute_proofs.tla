----------------------- MODULE ShootFixedRoute_proofs -----------------------
(***************************************************************************)
(* shoot_fixed_route for every probe budget, iteration limit and number of *)
(* halvings, and whatever its probes answer.                               *)
(*                                                                         *)
(* Inv is inductive.  Counted follows the probes through evaluate();       *)
(* Explained says of each place of the code what is known there of the     *)
(* last accepted probe, so that the status returned from there is true.    *)
(***************************************************************************)
EXTENDS ShootFixedRoute, SequenceTheorems, TLAPS

Evaluating == {"evaluate", "begin", "probing", "probed", "probe_rejected"}
Correcting == {"difference", "search"}
Gates == {"strict_gate", "strict_run"}
Places == {"validate", "raise", "iterate", "block", "done"} \cup Evaluating \cup Correcting \cup Gates
Statuses == Reasons \cup StrictOutcomes \cup CorrectionStatuses \cup {"budget_exhausted"}

ShootTypeOK ==
    /\ pc \in Places
    /\ purpose \in {"initial"} \cup Correcting
    /\ probes \in Nat /\ late \in Nat /\ reports \in Seq(Nat)
    /\ block \in Nat
    /\ probe.reason \in Reasons \cup {None}
    /\ status \in Statuses \cup {None, "cancelled", "raised"}
    /\ strict \in BOOLEAN /\ cancelled \in BOOLEAN

\* evaluate() agrees only below the budget and before a cancellation, counts, and
\* reports; everything after its first return has at least one probe behind it.
Counted ==
    /\ ReportsExact
    /\ probes <= MaxProbes
    /\ pc = "begin" => probes < MaxProbes /\ late = 0
    /\ late <= 1
    /\ late > 0 => cancelled
    /\ pc \in {"probing", "probed", "probe_rejected"} => probes > 0
    /\ pc \in {"iterate", "block"} \cup Correcting \cup Gates => probes > 0
    /\ purpose # "initial" => probes > 0

\* A correction is of a block out of tolerance, an iteration of a route that breaks
\* a constraint, the strict gate of one that breaks none.
Explained ==
    /\ pc = "validate" => purpose = "initial"
    /\ pc # "done" => status = None /\ ~strict
    /\ pc \in Gates => probe.reason = None
    /\ pc = "iterate" => probe.reason # None
    /\ pc \in Correcting => block \in probe.open
    /\ pc \in Evaluating /\ purpose # "initial" => block \in probe.open
    /\ StatusExplained

Inv == ShootTypeOK /\ Counted /\ Explained /\ probed = trial

-----------------------------------------------------------------------------
\* What coarse_reason answers is no other status.
LEMMA StatusesDiffer ==
    /\ None \notin Statuses /\ "cancelled" \notin Statuses /\ "raised" \notin Statuses
    /\ "running" \notin Statuses
    /\ Reasons \cap (StrictOutcomes \cup CorrectionStatuses \cup {"budget_exhausted"}) = {}
  BY LimitsAssumption DEF Statuses, None, StrictOutcomes, CorrectionStatuses

LEMMA InvInit == Init => Inv
  <1> SUFFICES ASSUME Init PROVE Inv
    OBVIOUS
  <1> USE DEF Init
  <1>1. ShootTypeOK
    <2>1. reports \in Seq(Nat) BY EmptySeq
    <2> QED BY <2>1 DEF ShootTypeOK, Places, NoProbe, Correcting
  <1>2. Counted
    BY LimitsAssumption DEF Counted, ReportsExact, Correcting, Gates
  <1>3. Explained
    <2>1. StatusExplained
      BY StatusesDiffer DEF StatusExplained, Statuses, StrictOutcomes
    <2> QED BY <2>1 DEF Explained, Gates, Correcting, Evaluating
  <1> QED BY <1>1, <1>2, <1>3 DEF Inv

-----------------------------------------------------------------------------
\* The types, action by action.
LEMMA TypeStep == ShootTypeOK /\ [Next]_vars => ShootTypeOK'
  <1> SUFFICES ASSUME ShootTypeOK, [Next]_vars PROVE ShootTypeOK'
    OBVIOUS
  <1> USE DEF ShootTypeOK, Places, Statuses, Evaluating, Correcting, Gates,
              ReturnWith, Goto, Call, flowVars, resultVars, countVars
  <1>1. CASE UNCHANGED vars
    BY <1>1 DEF vars
  <1>2. CASE RaiseCancel
    BY <1>2 DEF RaiseCancel
  <1>3. CASE Validate
    BY <1>3 DEF Validate, RequestOutcomes
  <1>4. CASE EvaluateDeclines
    BY <1>4 DEF EvaluateDeclines
  <1>5. CASE EvaluateAgrees
    BY <1>5 DEF EvaluateAgrees
  <1>6. CASE EvaluateBegins
    BY <1>6 DEF EvaluateBegins
  <1>7. CASE EvaluateReports
    BY <1>7 DEF EvaluateReports, ProbeOutcomes
  <1>8. CASE Raises
    BY <1>8 DEF Raises
  <1>9. CASE InitialProbed
    BY <1>9 DEF InitialProbed, Probes
  <1>10. CASE StrictGate
    BY <1>10 DEF StrictGate
  <1>11. CASE StrictRun
    BY <1>11 DEF StrictRun, StrictOutcomes
  <1>12. CASE Iterate
    BY <1>12 DEF Iterate
  <1>13. CASE EnterBlock
    BY <1>13 DEF EnterBlock, Blocks
  <1>14. CASE Difference
    BY <1>14 DEF Difference, CorrectionStatuses
  <1>15. CASE DifferenceProbed
    BY <1>15 DEF DifferenceProbed, CorrectionStatuses
  <1>16. CASE Solve
    BY <1>16 DEF Solve, CorrectionStatuses
  <1>17. CASE Search
    BY <1>17 DEF Search, CorrectionStatuses
  <1>18. CASE SearchProbed
    BY <1>18 DEF SearchProbed, Probes
  <1>19. CASE IterationEnds
    BY <1>19 DEF IterationEnds
  <1> QED BY <1>1, <1>2, <1>3, <1>4, <1>5, <1>6, <1>7, <1>8, <1>9, <1>10, <1>11, <1>12,
             <1>13, <1>14, <1>15, <1>16, <1>17, <1>18, <1>19 DEF Next, Step
-----------------------------------------------------------------------------
\* The probes, their budget and their reports, action by action.
LEMMA CountedStep == ShootTypeOK /\ Counted /\ [Next]_vars => Counted'
  <1> SUFFICES ASSUME ShootTypeOK, Counted, [Next]_vars PROVE Counted'
    OBVIOUS
  <1> USE DEF Counted, ReportsExact, Correcting, Gates, ReturnWith, Goto, Call,
              flowVars, resultVars, countVars
  <1>0. probes \in Nat /\ late \in Nat /\ reports \in Seq(Nat)
    BY DEF ShootTypeOK
  <1>1. CASE UNCHANGED vars
    BY <1>1 DEF vars
  <1>2. CASE RaiseCancel
    BY <1>2 DEF RaiseCancel
  <1>3. CASE Validate
    BY <1>3 DEF Validate, RequestOutcomes
  <1>4. CASE EvaluateDeclines
    BY <1>4 DEF EvaluateDeclines
  <1>5. CASE EvaluateAgrees
    BY <1>0, <1>5, LimitsAssumption DEF EvaluateAgrees
  <1>6. CASE EvaluateBegins
    BY <1>0, <1>6, LimitsAssumption DEF EvaluateBegins
  <1>7. CASE EvaluateReports
    <2>1. /\ pc = "probing" /\ pc' \in ProbeOutcomes /\ reports' = Append(reports, probes)
          /\ UNCHANGED <<purpose, probes, late, cancelled>>
      BY <1>7 DEF EvaluateReports
    <2>2. Len(reports') = probes
      BY <1>0, <2>1
    <2>3. \A i \in 1..Len(reports') : reports'[i] = i
      BY <1>0, <2>1
    <2> QED BY <2>1, <2>2, <2>3 DEF ProbeOutcomes
  <1>8. CASE Raises
    BY <1>8 DEF Raises
  <1>9. CASE InitialProbed
    BY <1>9 DEF InitialProbed
  <1>10. CASE StrictGate
    BY <1>10 DEF StrictGate
  <1>11. CASE StrictRun
    BY <1>11 DEF StrictRun
  <1>12. CASE Iterate
    BY <1>12 DEF Iterate
  <1>13. CASE EnterBlock
    BY <1>13 DEF EnterBlock
  <1>14. CASE Difference
    BY <1>14 DEF Difference
  <1>15. CASE DifferenceProbed
    BY <1>15 DEF DifferenceProbed
  <1>16. CASE Solve
    BY <1>16 DEF Solve
  <1>17. CASE Search
    BY <1>17 DEF Search
  <1>18. CASE SearchProbed
    BY <1>18 DEF SearchProbed
  <1>19. CASE IterationEnds
    BY <1>19 DEF IterationEnds
  <1> QED BY <1>1, <1>2, <1>3, <1>4, <1>5, <1>6, <1>7, <1>8, <1>9, <1>10, <1>11, <1>12,
             <1>13, <1>14, <1>15, <1>16, <1>17, <1>18, <1>19 DEF Next, Step

-----------------------------------------------------------------------------
\* What is known of the last accepted probe, action by action.
LEMMA ExplainedStep == ShootTypeOK /\ Counted /\ Explained /\ [Next]_vars => Explained'
  <1> SUFFICES ASSUME ShootTypeOK, Counted, Explained, [Next]_vars PROVE Explained'
    OBVIOUS
  <1> USE StatusesDiffer
      DEF Explained, StatusExplained, Statuses, Evaluating, Correcting, Gates, StrictOutcomes,
          ReturnWith, Goto, Call, flowVars, resultVars, countVars
  <1>0. probes \in Nat /\ probes <= MaxProbes /\ probe.reason \in Reasons \cup {None}
        /\ strict \in BOOLEAN
    BY DEF ShootTypeOK, Counted
  <1>1. CASE UNCHANGED vars
    BY <1>1 DEF vars
  <1>2. CASE RaiseCancel
    BY <1>2 DEF RaiseCancel
  <1>3. CASE Validate
    BY <1>3 DEF Validate, RequestOutcomes
  <1>4. CASE EvaluateDeclines
    BY <1>0, <1>4, LimitsAssumption DEF EvaluateDeclines, CorrectionStatuses
  <1>5. CASE EvaluateAgrees
    BY <1>5 DEF EvaluateAgrees
  <1>6. CASE EvaluateBegins
    BY <1>6 DEF EvaluateBegins
  <1>7. CASE EvaluateReports
    BY <1>7 DEF EvaluateReports, ProbeOutcomes
  <1>8. CASE Raises
    BY <1>8 DEF Raises
  <1>9. CASE InitialProbed
    BY <1>9 DEF InitialProbed
  <1>10. CASE StrictGate
    BY <1>10 DEF StrictGate
  <1>11. CASE StrictRun
    <2>1. CASE pc' = "raise"
      BY <1>11, <2>1 DEF StrictRun, CorrectionStatuses
    <2>2. CASE pc' # "raise"
      <3>1. PICK outcome \in StrictOutcomes :
               /\ pc = "strict_run" /\ pc' = "done"
               /\ strict' = (outcome = "checkpointed_accepted" /\ ~cancelled)
               /\ status' = IF cancelled THEN "cancelled" ELSE outcome
               /\ UNCHANGED probe
        BY <1>11, <2>2 DEF StrictRun
      <3>2. strict' <=> status' = "checkpointed_accepted"
        BY <3>1
      <3> QED BY <3>1, <3>2 DEF CorrectionStatuses
    <2> QED BY <2>1, <2>2
  <1>12. CASE Iterate
    BY <1>0, <1>12 DEF Iterate
  <1>13. CASE EnterBlock
    BY <1>13 DEF EnterBlock
  <1>14. CASE Difference
    BY <1>14 DEF Difference, CorrectionStatuses
  <1>15. CASE DifferenceProbed
    BY <1>15 DEF DifferenceProbed, CorrectionStatuses
  <1>16. CASE Solve
    BY <1>16 DEF Solve, CorrectionStatuses
  <1>17. CASE Search
    BY <1>17 DEF Search, CorrectionStatuses
  <1>18. CASE SearchProbed
    BY <1>18 DEF SearchProbed
  <1>19. CASE IterationEnds
    BY <1>0, <1>19 DEF IterationEnds
  <1> QED BY <1>1, <1>2, <1>3, <1>4, <1>5, <1>6, <1>7, <1>8, <1>9, <1>10, <1>11, <1>12,
             <1>13, <1>14, <1>15, <1>16, <1>17, <1>18, <1>19 DEF Next, Step

\* The diagnostics kept are always those of the trial kept.
LEMMA TrialStep == probed = trial /\ [Next]_vars => probed' = trial'
  BY DEF Next, Step, RaiseCancel, Validate, EvaluateDeclines, EvaluateAgrees, EvaluateBegins,
         EvaluateReports, Raises, InitialProbed, StrictGate, StrictRun, Iterate, EnterBlock,
         Difference, DifferenceProbed, Solve, Search, SearchProbed, IterationEnds,
         ReturnWith, Goto, Call, vars, flowVars, resultVars, countVars

\* The invariant holds of every behaviour.
LEMMA Invariance == Spec => []Inv
  <1>1. Inv /\ [Next]_vars => Inv'
    BY TypeStep, CountedStep, ExplainedStep, TrialStep DEF Inv
  <1> QED BY <1>1, InvInit, PTL DEF Spec

-----------------------------------------------------------------------------
\* Every count from one on is reported once, in order, by the time its probe has
\* returned or thrown: the worker, which forwards them, never shows a gap.
THEOREM ReportsInOrder == Spec => []ReportsExact
  <1>1. Inv => ReportsExact BY DEF Inv, Counted
  <1> QED BY <1>1, Invariance, PTL

\* The diagnostics that leave shoot_fixed_route are those of the trial that
\* leaves with them, however many probes were rejected in between.
THEOREM DiagnosticsBelong == Spec => []DiagnosticsOfTrial
  <1>1. Inv => DiagnosticsOfTrial BY DEF Inv, DiagnosticsOfTrial
  <1> QED BY <1>1, Invariance, PTL

\* Whatever way shoot_fixed_route returns, its status is true of the result.
THEOREM StatusIsTrue == Spec => []StatusExplained
  <1>1. Inv => StatusExplained BY DEF Inv, Explained
  <1> QED BY <1>1, Invariance, PTL

-----------------------------------------------------------------------------
\* The steps of the code that a ProbeRun does not see.
Unseen ==
    \/ Validate \/ EvaluateAgrees \/ Iterate \/ EnterBlock \/ Difference \/ DifferenceProbed
    \/ Solve \/ Search \/ SearchProbed \/ IterationEnds \/ InitialProbed \/ StrictGate
    \/ StrictRun \/ Raises \/ EvaluateDeclines

\* An unseen step counts and reports nothing; if it returns, it returns a status of
\* an uncancelled run that has probed, an exception, or the cancellation.
LEMMA UnseenStep ==
    ASSUME ShootTypeOK, Counted, Unseen
    PROVE  /\ pc # "done" /\ pc # "probing"
           /\ UNCHANGED <<probes, reports, late, cancelled>>
           /\ pc' = "done" =>
                 \/ status' = "raised"
                 \/ status' = "cancelled" /\ cancelled
                 \/ status' \in Statuses /\ probes > 0
  <1> USE DEF Counted, Correcting, Gates, ReturnWith, Goto, Call, countVars, Statuses
  <1>0. probe.reason \in Reasons \cup {None} /\ probes \in Nat
    BY DEF ShootTypeOK
  <1>1. CASE Validate
    BY <1>1 DEF Validate, RequestOutcomes
  <1>2. CASE EvaluateAgrees \/ EvaluateDeclines
    BY <1>0, <1>2, LimitsAssumption DEF EvaluateAgrees, EvaluateDeclines
  <1>3. CASE Iterate \/ EnterBlock \/ IterationEnds
    BY <1>0, <1>3 DEF Iterate, EnterBlock, IterationEnds
  <1>4. CASE Difference \/ DifferenceProbed \/ Solve
    BY <1>4 DEF Difference, DifferenceProbed, Solve, CorrectionStatuses
  <1>5. CASE Search \/ SearchProbed
    BY <1>5 DEF Search, SearchProbed, CorrectionStatuses
  <1>6. CASE InitialProbed
    BY <1>6 DEF InitialProbed
  <1>7. CASE StrictGate \/ StrictRun
    BY <1>7 DEF StrictGate, StrictRun, StrictOutcomes
  <1>8. CASE Raises
    BY <1>8 DEF Raises
  <1> QED BY <1>1, <1>2, <1>3, <1>4, <1>5, <1>6, <1>7, <1>8 DEF Unseen

\* What the worker relies on: shoot_fixed_route stays within the probe budget,
\* reports each probe before the next begins and before it returns, begins at most
\* one after a cancellation, and says "cancelled" only if it was.
THEOREM RunRefinement == Spec => ImplementsProbeRun
  <1>1. Init => Run!Init
    BY DEF Init, Run!Init
  <1>2. Inv /\ Inv' /\ [Next]_vars => [Run!Next]_(Run!vars)
    <2> SUFFICES ASSUME Inv, Inv', [Next]_vars PROVE [Run!Next]_(Run!vars)
      OBVIOUS
    <2> DEFINE outcome == IF pc = "done" THEN status ELSE "running"
    <2>0. /\ ShootTypeOK /\ Counted /\ Explained /\ ReportsExact
          /\ probes \in Nat /\ reports \in Seq(Nat)
      BY DEF Inv, Counted, ShootTypeOK
    <2>1. CASE UNCHANGED vars
      BY <2>1 DEF vars, flowVars, resultVars, countVars, Run!vars
    <2>2. CASE RaiseCancel
      BY <2>2 DEF RaiseCancel, flowVars, resultVars, countVars, Run!Next, Run!RaiseCancel
    <2>3. CASE EvaluateBegins
      <3>1. /\ pc = "begin" /\ pc' = "probing"
            /\ probes' = probes + 1 /\ late' = IF cancelled THEN late + 1 ELSE late
            /\ UNCHANGED <<reports, cancelled>>
        BY <2>3 DEF EvaluateBegins, Goto
      <3>2. probes < MaxProbes /\ late = 0 /\ Len(reports) = probes
        BY <2>0, <3>1 DEF Counted, ReportsExact
      <3> QED BY <3>1, <3>2 DEF Run!Next, Run!BeginProbe
    <2>4. CASE EvaluateReports
      <3>1. /\ pc = "probing" /\ pc' # "done" /\ reports' = Append(reports, probes)
            /\ UNCHANGED <<probes, late, cancelled>>
        BY <2>4 DEF EvaluateReports, Goto, ProbeOutcomes
      <3>2. Len(reports) = probes - 1 /\ Len(reports') = probes
        BY <2>0, <3>1 DEF ReportsExact
      <3> QED BY <2>0, <3>1, <3>2 DEF Run!Next, Run!Report
    <2>5. CASE Unseen
      <3>1. /\ pc # "done" /\ pc # "probing"
            /\ UNCHANGED <<probes, reports, late, cancelled>>
            /\ pc' = "done" =>
                  \/ status' = "raised"
                  \/ status' = "cancelled" /\ cancelled
                  \/ status' \in Statuses /\ probes > 0
        BY <2>0, <2>5, UnseenStep
      <3>2. Len(reports) = probes
        BY <2>0, <3>1 DEF ReportsExact
      <3>3. CASE pc' # "done"
        BY <3>1, <3>3 DEF Run!vars
      <3>4. CASE pc' = "done"
        BY <3>1, <3>2, <3>4, StatusesDiffer DEF Run!Next, Run!Return, Statuses
      <3> QED BY <3>3, <3>4
    <2> QED BY <2>1, <2>2, <2>3, <2>4, <2>5 DEF Next, Step, Unseen
  <1> QED BY <1>1, <1>2, Invariance, PTL DEF Spec, ImplementsProbeRun, Run!Spec
=============================================================================
