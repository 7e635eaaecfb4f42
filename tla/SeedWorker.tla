----------------------------- MODULE SeedWorker -----------------------------
(***************************************************************************)
(* process_start_line (Worker.cpp) for the command start: a grid of single *)
(* legs screened cell by cell, and the best seed refined.                  *)
(***************************************************************************)
EXTENDS WorkerSession, FiniteSetsExt

CONSTANTS
    Total,          \* nlaunch*nflight
    MaxCandidates   \* q.max_candidates

VARIABLES
    refine,     \* refine_enabled
    sampled,    \* sampled
    emitted     \* emitted: retained.size(), up to max_candidates

gridVars == <<refine, sampled, emitted>>

Init == refine \in BOOLEAN /\ sampled = 0 /\ emitted = 0

CancelOr(next) ==
    \/ cancelled /\ SendAndExit(Event("cancelled", sampled, Total, "none"))
    \/ ~cancelled /\ next

Frame == UNCHANGED <<readerVars, cancelled, gridVars>>
Goto(l) == pc' = l /\ UNCHANGED pipe

ReadSource ==
    /\ pc = "reading"
    /\ \/ \E identity \in {"absent", "ours"} : SendAndExit(Error(identity))
       \/ Send(Event("started", 0, Total, "none")) /\ pc' = "started"
    /\ Frame /\ UNCHANGED workVars

Started ==
    /\ pc = "started"
    /\ CancelOr(Send(Event("progress", 0, Total, "none")) /\ pc' = "precompute")
    /\ Frame /\ UNCHANGED workVars

\* A look at the flag, and nothing else, before a stage.
Checks == [precompute |-> "integrate", cell |-> "screen", refineCheck |-> "refine"]

Check ==
    /\ pc \in DOMAIN Checks
    /\ CancelOr(Goto(Checks[pc]))
    /\ Frame /\ UNCHANGED workVars

Stages == [integrate |-> "integrating", preflight |-> "preflighting",
           screen |-> "screening", refine |-> "refining"]

BeginStage ==
    /\ pc \in DOMAIN Stages
    /\ Begin
    /\ Goto(Stages[pc])
    /\ Frame

\* Faulty: the integration is not followed by a look at the flag.
IntegratedRegardless ==
    /\ pc = "integrating"
    /\ Finish
    /\ SendAndExit(Error("ours")) \/ Goto("preflight")
    /\ Frame

\* The ephemeris, then the search options against it: each may raise.
Integrated ==
    /\ pc = "integrating"
    /\ Finish
    /\ SendAndExit(Error("ours")) \/ CancelOr(Goto("preflight"))
    /\ Frame

Preflighted ==
    /\ pc = "preflighting"
    /\ Finish
    /\ SendAndExit(Error("ours")) \/ CancelOr(Goto("cell"))
    /\ Frame

\* A cell with a candidate sends it while there is room for one more.
Screened ==
    /\ pc = "screening"
    /\ Finish
    /\ \/ SendAndExit(Error("ours")) /\ UNCHANGED <<sampled, emitted>>
       \/ /\ sampled' = sampled + 1
          /\ pc' = "report"
          /\ \/ UNCHANGED <<pipe, emitted>>
             \/ /\ emitted < MaxCandidates
                /\ Send(Event("candidate", 0, 0, "none"))
                /\ emitted' = emitted + 1
    /\ UNCHANGED <<readerVars, cancelled, refine>>

\* The first and the last cell, and every twentieth of the total.
Due(n) == n \in {1, Total} \/ n % Max({1, Total \div 20}) = 0

Report ==
    /\ pc = "report"
    /\ IF Due(sampled) THEN Send(Event("progress", sampled, Total, "none")) ELSE UNCHANGED pipe
    /\ pc' = IF sampled = Total THEN "ranked" ELSE "cell"
    /\ Frame /\ UNCHANGED workVars

Ranked ==
    /\ pc = "ranked"
    /\ CancelOr(Goto(IF refine /\ emitted > 0 THEN "refinement" ELSE "completing"))
    /\ Frame /\ UNCHANGED workVars

SendRefinement == Send(Event("refinement", 0, 0, "none")) /\ pc' = "completing"

\* Faulty: the phase starts its own count.
RefinementCountsAnew ==
    /\ pc = "refinement"
    /\ Send(Event("progress", 0, Total, "none")) /\ pc' = "refineCheck"
    /\ Frame /\ UNCHANGED workVars

\* The states the best seed is refined from are queried first, which may raise.
Refinement ==
    /\ pc = "refinement"
    /\ \/ Send(Event("progress", sampled, Total, "none")) /\ pc' = "refineCheck"
       \/ CancelOr(SendRefinement)
    /\ Frame /\ UNCHANGED workVars

\* A refinement that failed is reported as one that succeeded is.
Refined ==
    /\ pc = "refining"
    /\ Finish
    /\ CancelOr(SendRefinement)
    /\ Frame

Complete ==
    /\ pc = "completing"
    /\ SendAndExit(Event("complete", sampled, Total, "none"))
    /\ Frame /\ UNCHANGED workVars

-----------------------------------------------------------------------------
Work == Alive /\ (ReadSource \/ Started \/ Check \/ BeginStage \/ Integrated \/ Preflighted
                  \/ Screened \/ Report \/ Ranked \/ Refinement \/ Refined \/ Complete)
=============================================================================
