------------------------------ MODULE ProbeRun ------------------------------
(***************************************************************************)
(* What the worker relies on while shoot_fixed_route runs: probes are      *)
(* counted one by one within a budget, each count is reported once, and    *)
(* the call ends with a status or an exception, never leaving a probe      *)
(* unreported.  A cancellation raised meanwhile lets at most one more      *)
(* probe begin.                                                            *)
(***************************************************************************)
EXTENDS Naturals

CONSTANTS
    Budget,     \* limits.max_probe_evaluations
    Statuses    \* every status a result may carry but "cancelled"

VARIABLES
    probes,     \* out.probe_evaluations
    reported,   \* the count of the last progress call
    cancelled,  \* the worker's cancel flag
    late,       \* the probes that have begun since it was raised
    outcome     \* "running", a status, or "raised" for an exception

vars == <<probes, reported, cancelled, late, outcome>>

Init == /\ probes = 0 /\ reported = 0 /\ outcome = "running"
        /\ cancelled = FALSE /\ late = 0

\* The flag is raised by another thread, at any time.
RaiseCancel == /\ ~cancelled
               /\ cancelled' = TRUE
               /\ UNCHANGED <<probes, reported, late, outcome>>

BeginProbe ==
    /\ outcome = "running" /\ reported = probes /\ probes < Budget
    /\ late = 0
    /\ probes' = probes + 1
    /\ late' = IF cancelled THEN 1 ELSE 0
    /\ UNCHANGED <<reported, cancelled, outcome>>

Report == /\ outcome = "running" /\ reported < probes
          /\ reported' = probes
          /\ UNCHANGED <<probes, cancelled, late, outcome>>

Return ==
    /\ outcome = "running" /\ reported = probes
    /\ outcome' \in Statuses \cup {"cancelled", "raised"}
    /\ outcome' = "cancelled" => cancelled
    /\ outcome' \in Statuses => probes > 0
    /\ UNCHANGED <<probes, reported, cancelled, late>>

Next == RaiseCancel \/ BeginProbe \/ Report \/ Return

Spec == Init /\ [][Next]_vars
=============================================================================
