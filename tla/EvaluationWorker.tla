-------------------------- MODULE EvaluationWorker --------------------------
(***************************************************************************)
(* process_evaluation (Worker.cpp): the handler of the commands            *)
(* evaluate_route and shoot_route.  shoot_fixed_route is any behaviour of  *)
(* ProbeRun, which ShootFixedRoute implements.  WorkerProcess composes the *)
(* handlers with the client that reads them.                               *)
(***************************************************************************)
EXTENDS WorkerSession, FiniteSetsExt

CONSTANT Budget     \* limits.max_probe_evaluations

VARIABLES
    probes,         \* the probes of the call of shoot_fixed_route under way
    reported,       \* the count of its last progress call
    lastReported,   \* last_reported
    outcome         \* how the call ended, "running" before

shotVars == <<probes, reported, outcome>>
evaluationVars == <<shotVars, lastReported>>

Shot == INSTANCE ProbeRun WITH Statuses <- ShootingStatuses

Init == probes = 0 /\ reported = 0 /\ outcome = "running" /\ lastReported = 0

Shooting == kind = "bounded_shooting"

\* Faulty: a cancelled worker waits.
CancelOrWaits(status, next) == ~cancelled /\ next

\* if(cancelled()), the terminal and the end, or on to the next stage.
CancelOr(status, next) ==
    \/ cancelled /\ SendAndExit(Event("cancelled", probes, 0, status))
    \/ ~cancelled /\ next

\* Before the snapshot is read its errors have no identity to carry.
SourceRefused == SendAndExit(Error("absent"))

\* evaluation_request and the limits are checked against the source.
RequestRefused == SendAndExit(Error("ours"))

ReadSource ==
    /\ pc = "reading"
    /\ \/ SourceRefused \/ RequestRefused
       \/ pc' = "admitted" /\ UNCHANGED pipe
    /\ UNCHANGED <<readerVars, cancelled, workVars, shotVars, lastReported>>

Admit ==
    /\ pc = "admitted"
    /\ CancelOr("before_numerical_work",
            /\ Send(Event("started", 0, 0, "none"))
            /\ pc' = IF Shooting THEN "prepare" ELSE "phaseZero")
    /\ UNCHANGED <<readerVars, cancelled, workVars, shotVars, lastReported>>

(* shoot_route *************************************************************)
Prepare ==
    /\ pc = "prepare"
    /\ Begin
    /\ pc' = "preparing"
    /\ UNCHANGED <<readerVars, pipe, cancelled, shotVars, lastReported>>

Prepared ==
    /\ pc = "preparing"
    /\ Finish
    /\ \/ SendAndExit(Error("ours"))
       \/ CancelOr("before_coarse_probe", pc' = "shooting" /\ UNCHANGED pipe)
    /\ UNCHANGED <<readerVars, cancelled, shotVars, lastReported>>

BeginProbe ==
    /\ pc = "shooting"
    /\ Shot!BeginProbe
    /\ UNCHANGED <<readerVars, pc, pipe, overdue, lastReported>>

\* Faulty: too coarse, the last count of a run is not reported.
IntervalOf32 == Max({1, (Budget + 31) \div 32})

\* At least every 64th part of the budget is reported, its first and last probe.
Interval == Max({1, (Budget + 63) \div 64})

Progress(n) ==
    IF n \notin {1, Budget} /\ n - lastReported < Interval
    THEN UNCHANGED <<pipe, lastReported>>
    ELSE /\ Send(Event("progress", n, Budget, "none"))
         /\ lastReported' = n

ProbeReported ==
    /\ pc = "shooting"
    /\ Shot!Report
    /\ Progress(probes)
    /\ Finish
    /\ UNCHANGED <<readerVars, pc>>

\* The strict evaluation may have been under way.
ShotReturns ==
    /\ pc = "shooting"
    /\ Shot!Return
    /\ pc' = "shot"
    /\ Finish
    /\ UNCHANGED <<readerVars, pipe, lastReported>>

\* Faulty: a cancellation during the last probe is overlooked.
ShotVerdictOfStatus ==
    /\ pc = "shot"
    /\ CASE outcome = "raised" -> SendAndExit(Error("ours"))
         [] outcome = "cancelled" -> SendAndExit(Event("cancelled", probes, 0, "during_numerical_work"))
         [] OTHER -> pc' = "reporting" /\ UNCHANGED pipe
    /\ UNCHANGED <<readerVars, cancelled, workVars, shotVars, lastReported>>

ShotVerdict ==
    /\ pc = "shot"
    /\ CASE outcome = "raised" -> SendAndExit(Error("ours"))
         [] outcome = "cancelled" \/ (cancelled /\ outcome # "raised") ->
                SendAndExit(Event("cancelled", probes, 0, "during_numerical_work"))
         [] OTHER -> pc' = "reporting" /\ UNCHANGED pipe
    /\ UNCHANGED <<readerVars, cancelled, workVars, shotVars, lastReported>>

FinalProgress ==
    /\ pc = "reporting"
    /\ IF probes > lastReported THEN Progress(probes) ELSE UNCHANGED <<pipe, lastReported>>
    /\ pc' = "completing"
    /\ UNCHANGED <<readerVars, cancelled, workVars, shotVars>>

(* evaluate_route **********************************************************)
PhaseZero ==
    /\ pc = "phaseZero"
    /\ Send(Event("progress", 0, 1, "none"))
    /\ pc' = "evaluate"
    /\ UNCHANGED <<readerVars, cancelled, workVars, shotVars, lastReported>>

CheckEvaluate ==
    /\ pc = "evaluate"
    /\ CancelOr("before_numerical_work", pc' = "evaluateNow" /\ UNCHANGED pipe)
    /\ UNCHANGED <<readerVars, cancelled, workVars, shotVars, lastReported>>

Evaluate ==
    /\ pc = "evaluateNow"
    /\ Begin
    /\ pc' = "evaluating"
    /\ UNCHANGED <<readerVars, pipe, cancelled, shotVars, lastReported>>

Evaluated ==
    /\ pc = "evaluating"
    /\ Finish
    /\ \/ SendAndExit(Error("ours"))
       \/ CancelOr("after_numerical_work", pc' = "phaseOne" /\ UNCHANGED pipe)
    /\ UNCHANGED <<readerVars, cancelled, shotVars, lastReported>>

PhaseOne ==
    /\ pc = "phaseOne"
    /\ Send(Event("progress", 1, 1, "none"))
    /\ pc' = "completing"
    /\ UNCHANGED <<readerVars, cancelled, workVars, shotVars, lastReported>>

Complete ==
    /\ pc = "completing"
    /\ SendAndExit(IF Shooting THEN Event("complete", probes, Budget, outcome)
                   ELSE Event("complete", 0, 0, "none"))
    /\ UNCHANGED <<readerVars, cancelled, workVars, shotVars, lastReported>>

-----------------------------------------------------------------------------
Work == Alive /\ (ReadSource \/ Admit
                  \/ Prepare \/ Prepared \/ BeginProbe \/ ProbeReported \/ ShotReturns
                  \/ ShotVerdict \/ FinalProgress
                  \/ PhaseZero \/ CheckEvaluate \/ Evaluate \/ Evaluated \/ PhaseOne
                  \/ Complete)
=============================================================================
