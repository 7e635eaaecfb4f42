---------------------------- MODULE Integrators ----------------------------
(***************************************************************************)
(* The two integrators of the program.  A route is propagated through an   *)
(* ephemeris that was returned before and is not changed any more, so they *)
(* never run at once: a behaviour is one call of integrate or one of       *)
(* propagate.                                                              *)
(***************************************************************************)
EXTENDS Propagation

CONSTANTS Segments, StepTicks, MaxDepth, MinTicks, Tolerance   \* of EphemerisIntegration

ASSUME IntegrationAssumption ==
    /\ Segments \in Nat \ {0} /\ StepTicks \in Nat \ {0} /\ StepTicks % 6 = 0
    /\ MaxDepth \in Nat /\ MinTicks \in Nat /\ Tolerance \in Nat

\* A double is halved exactly, so ticks are fine enough for every halving of
\* step(): part[d] is the length of an interval halved d times.
HalvesExactly(ticks) ==
    \E part \in [0 .. MaxDepth -> 0 .. ticks] :
        /\ part[0] = ticks
        /\ \A d \in 1 .. MaxDepth : part[d - 1] > MinTicks => part[d - 1] = 2 * part[d]

ASSUME HalvingAssumption == HalvesExactly(StepTicks) /\ HalvesExactly(StepTicks \div 6)

VARIABLES
    contact, pass, work, now, segment, sub, samples, splits, fits, measured, certified,
    returned    \* what integrate returns or throws

ephemerisVars == <<contact, pass, work, now, segment, sub, samples, splits, fits,
                   measured, certified, returned>>

Ephemeris == INSTANCE EphemerisIntegration WITH outcome <- returned

\* No call of propagate, and none of integrate.
NotPropagated ==
    /\ burnTimes = [i \in 1 .. Burns |-> End] /\ burns = [i \in 1 .. Burns |-> i]
    /\ asked = NoInterval /\ inside = {}
    /\ pc = "done" /\ t = Start /\ h = MaxStep /\ index = 0 /\ applied = <<>> /\ final = Start
    /\ monitor = NoMonitor /\ accepted = 0 /\ outcome = "none"

NotIntegrated ==
    /\ contact = <<>> /\ pass = "none" /\ work = <<>> /\ now = 0
    /\ segment = 0 /\ sub = 0 /\ samples = <<>> /\ splits = 0 /\ fits = {} /\ measured = 0
    /\ certified = <<>> /\ returned = [verdict |-> "not called", at |-> 0]

CallInit == \/ Init /\ NotIntegrated
            \/ Ephemeris!Init /\ NotPropagated

Propagate == Next /\ UNCHANGED ephemerisVars
Integrate == Ephemeris!Next /\ UNCHANGED vars

\* One thread runs the call.
CallSpec == /\ CallInit /\ [][Propagate \/ Integrate]_<<vars, ephemerisVars>>
            /\ WF_vars(Propagate) /\ WF_ephemerisVars(Integrate)

-----------------------------------------------------------------------------
\* However the intervals were halved, what integrate returns was sampled, certified
\* and measured everywhere, and a collision is named at its time.
OutcomeIsTrue == Ephemeris!OutcomeIsTrue

\* Every call ends: a rejected step of propagate shrinks the next one, down to the
\* minimum, an accepted one brings the end nearer, and integrate halves an interval
\* no deeper than its bound.
CallEnds == <>(pc = "done" /\ returned.verdict # "none")
=============================================================================
