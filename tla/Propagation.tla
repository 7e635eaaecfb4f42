---------------------------- MODULE Propagation ----------------------------
(***************************************************************************)
(* propagate of Spacecraft.cpp: the adaptive integration of a spacecraft   *)
(* from a start to an end, through impulses at given times, with a test    *)
(* for unsafe entry and a monitor of the radius over one interval.         *)
(*                                                                         *)
(* Time is counted in ticks, the distance of two neighbouring doubles: a   *)
(* rounded sum is at most one tick off.  Instead of a trajectory there is  *)
(* the set of ticks at which it is inside a clearance surface; what a      *)
(* trial step makes of the tolerance, and what the interval bound can      *)
(* prove of a clear interval, are chosen freely.                           *)
(***************************************************************************)
EXTENDS Integers, Sequences, FiniteSets

CONSTANTS
    Start, End,     \* start_ut_s and end_ut_s
    CoverageEnd,    \* the last tick of the ephemeris
    MinStep,        \* min_step_s
    MaxStep,        \* max_step_s
    MaxAccepted,    \* max_accepted_steps
    Burns,          \* the number of burns
    MaxInside       \* bounds the ticks spent inside a clearance surface

ASSUME PropagationAssumption ==
    /\ Start \in Nat /\ End \in Nat /\ Start <= End
    /\ CoverageEnd \in Nat /\ End <= CoverageEnd
    /\ MinStep \in Nat \ {0} /\ MaxStep \in Nat /\ MinStep <= MaxStep
    /\ MaxAccepted \in Nat \ {0} /\ Burns \in Nat /\ MaxInside \in Nat

VARIABLES
    burnTimes,   \* the time of each burn of the settings
    burns,       \* the burns by their place in the settings, sorted by time
    asked,       \* the interval of settings.radius_monitor, or NoInterval
    inside,      \* the ticks at which the trajectory is inside a surface
    pc,          \* the part of the loop
    t, h,        \* the time reached and the step to try
    index,       \* burn_index
    applied,     \* result.burns
    final,       \* result.final_ut_s, the time of the unsafe entry if there is one
    monitor,     \* result.monitored_radius, or NoMonitor
    accepted,    \* result.accepted_steps
    outcome      \* what propagate returns or throws

given == <<burnTimes, burns, asked, inside>>
vars == <<burnTimes, burns, asked, inside,
          pc, t, h, index, applied, final, monitor, accepted, outcome>>

Span == Start .. End
NoInterval == [from |-> End, to |-> Start]
NoMonitor == [endpoints |-> 0, watched |-> {}]

MinOf(a, b) == IF a <= b THEN a ELSE b
MaxOf(a, b) == IF a >= b THEN a ELSE b

-----------------------------------------------------------------------------
\* What std::stable_sort makes of the burns, a permutation of their places.
Precedes(times, i, j) == times[i] < times[j] \/ (times[i] = times[j] /\ i < j)
Orders ==
    {order \in [1 .. Burns -> 1 .. Burns] :
        \A k \in 1 .. Burns : \E i \in 1 .. Burns : order[i] = k}
StablySorted(times) ==
    {order \in Orders :
        \A i, j \in 1 .. Burns : i < j => Precedes(times, order[i], order[j])}

\* validate: the ends of the monitored interval are burns or ends of the run.
Boundaries(times) == {Start, End} \cup {times[i] : i \in 1 .. Burns}
Intervals(times) ==
    {m \in [from : Boundaries(times), to : Boundaries(times)] : m.from < m.to}

Init ==
    /\ burnTimes \in [1 .. Burns -> Span]
    /\ burns \in StablySorted(burnTimes)
    /\ asked \in Intervals(burnTimes) \cup {NoInterval}
    /\ inside \in {s \in SUBSET Span : Cardinality(s) <= MaxInside}
    /\ pc = "start"
    /\ t = Start /\ h = MaxStep
    /\ index = 0 /\ applied = <<>>
    /\ final = Start
    /\ monitor = NoMonitor
    /\ accepted = 0
    /\ outcome = "none"

-----------------------------------------------------------------------------
TimeOf(i) == burnTimes[burns[i]]

\* The next time the step must not cross, and the step that respects it.
Target == IF index < Burns THEN MinOf(End, TimeOf(index + 1)) ELSE End
Step == MinOf(h, Target - t)

\* t + dt.  The difference target - t is exact when t is nought or at least
\* half the target, and then so is the sum; otherwise it may miss the target.
\* A step short of the target ends wherever its sum says.
Exact == t = 0 \/ Target <= 2 * t
Sums == IF Step = Target - t /\ ~Exact
        THEN {Target - 1, Target, Target + 1}
        ELSE {t + Step}

\* Where an accepted step leaves t.
AdvanceUnsnapped(sum) == sum   \* faulty: the sum is taken as it is
Advance(sum) == IF Target - t = Step THEN Target ELSE sum

\* The steps a rejected and an accepted trial may ask for.
ShrunkOrGrown == Step \div 10 .. 5 * Step   \* faulty: the factor of an accepted trial
Shrunk == Step \div 10 .. Step \div 2
Clamp(x) == MinOf(MaxOf(x, MinStep), MaxStep)
Grown == {Clamp(x) : x \in Step \div 5 .. 5 * Step}

\* clear_interval_bound proves nothing of an interval that is not clear.
ClearUpTo(u) == \A v \in t .. u : v \notin inside
BoundsUnproved == BOOLEAN   \* faulty: as if the trial's points were enough
Bounds == {FALSE} \cup {ClearUpTo(t + Step)}

\* events: the first entry it brackets between its five points.  It sees an
\* entry when the last point is inside; one between two points it may miss.
Unseen == -1
Entries == {u \in t + 1 .. t + Step : u \in inside /\ u - 1 \notin inside}
Sightings == Entries \cup (IF t + Step \in inside THEN {} ELSE {Unseen})

Goto(l) == pc' = l /\ outcome' = outcome
Finish(what) == pc' = "done" /\ outcome' = what

-----------------------------------------------------------------------------
\* The clearance of the initial state.
CheckStart ==
    /\ pc = "start"
    /\ IF Start \in inside THEN Finish("unsafe") ELSE Goto("burns")
    /\ UNCHANGED <<given, t, h, index, applied, final, monitor, accepted>>

\* One turn of the loop over the burns at t.
BurnDue == index < Burns /\ TimeOf(index + 1) = t

ApplyBurn ==
    /\ pc = "burns" /\ BurnDue
    /\ index' = index + 1
    /\ IF t \in inside
       THEN /\ Finish("burn inside")
            /\ UNCHANGED applied
       ELSE /\ applied' = Append(applied, [burn |-> burns[index + 1], at |-> t])
            /\ Goto("burns")
    /\ UNCHANGED <<given, t, h, final, monitor, accepted>>

\* The monitor's first point, taken after the burns at its start, and the end
\* of the loop.
Observe ==
    /\ pc = "burns" /\ ~BurnDue
    /\ monitor' = IF asked # NoInterval /\ t = asked.from /\ monitor = NoMonitor
                  THEN [NoMonitor EXCEPT !.endpoints = 1]
                  ELSE monitor
    /\ IF t >= End THEN Finish("success") ELSE Goto("step")
    /\ UNCHANGED <<given, t, h, index, applied, final, accepted>>

-----------------------------------------------------------------------------
\* A step that cannot be tried, or whose trial leaves the ephemeris or is not
\* finite.
NoProgress == Step <= 0

CannotTry ==
    /\ pc = "step"
    /\ IF NoProgress THEN Finish("no progress") ELSE Finish("trial failed")
    /\ UNCHANGED <<given, t, h, index, applied, final, monitor, accepted>>

\* The estimated error is above the tolerance.
RejectError ==
    /\ pc = "step" /\ ~NoProgress
    /\ \E f \in Shrunk :
        /\ h' = f
        /\ IF f < MinStep THEN Finish("minimum step") ELSE Goto("step")
    /\ UNCHANGED <<given, t, index, applied, final, monitor, accepted>>

\* The bound does not prove the step clear and its end is inside.
EnterSurface ==
    /\ pc = "step" /\ ~NoProgress
    /\ FALSE \in Bounds
    /\ t + Step \in inside
    /\ \E at \in Sightings : at # Unseen /\ final' = at
    /\ Finish("unsafe")
    /\ UNCHANGED <<given, t, h, index, applied, monitor, accepted>>

\* The bound does not prove the step clear and its end is outside: half of it.
HalveStep ==
    /\ pc = "step" /\ ~NoProgress
    /\ FALSE \in Bounds
    /\ t + Step \notin inside
    /\ Step >= 2 * MinStep
    /\ h' = Step \div 2
    /\ Goto("step")
    /\ UNCHANGED <<given, t, index, applied, final, monitor, accepted>>

\* The same at the minimum step: longer and longer probes towards the target,
\* with no test of their error, either end inside or are given up.
LookAhead ==
    /\ pc = "step" /\ ~NoProgress
    /\ FALSE \in Bounds
    /\ t + Step \notin inside
    /\ Step < 2 * MinStep
    /\ \/ /\ \E at \in t + 1 .. Target : final' = at
          /\ Finish("unsafe")
       \/ /\ Finish("unresolved")
          /\ UNCHANGED final
    /\ UNCHANGED <<given, t, h, index, applied, monitor, accepted>>

\* monitor_step, and the monitor's last point.
MonitorAfterEarly(sum) ==   \* faulty: not the step that ends the interval
    IF asked # NoInterval /\ monitor # NoMonitor /\ sum < asked.to
    THEN [monitor EXCEPT !.watched = @ \cup (t .. t + Step - 1)]
    ELSE monitor
MonitorAfter(sum) ==
    IF asked # NoInterval /\ monitor # NoMonitor /\ sum <= asked.to
    THEN [endpoints |-> monitor.endpoints + (IF sum = asked.to THEN 1 ELSE 0),
          watched |-> monitor.watched \cup (t .. t + Step - 1)]
    ELSE monitor

\* The bound proves the step clear: it is taken.
Accept ==
    /\ pc = "step" /\ ~NoProgress
    /\ TRUE \in Bounds
    /\ IF accepted >= MaxAccepted
       THEN /\ Finish("accepted step limit")
            /\ UNCHANGED <<t, h, final, monitor, accepted>>
       ELSE \E sum \in {u \in Sums : u <= CoverageEnd}, grown \in Grown :
            /\ Unseen \in Sightings
            /\ monitor' = MonitorAfter(sum)
            /\ accepted' = accepted + 1
            /\ t' = Advance(sum) /\ final' = Advance(sum)
            /\ h' = grown
            /\ Goto("burns")
    /\ UNCHANGED <<given, index, applied>>

Next ==
    \/ CheckStart \/ ApplyBurn \/ Observe
    \/ CannotTry \/ RejectError \/ EnterSurface \/ HalveStep \/ LookAhead \/ Accept

Spec == Init /\ [][Next]_vars

-----------------------------------------------------------------------------
\* Whatever the sums round to, the burns are applied in the order of their
\* times and of the settings, each at its time, none twice, and the time never
\* passes one that has not been applied; a success has applied them all.
BurnsInOrder ==
    /\ applied = [i \in 1 .. Len(applied) |-> [burn |-> burns[i], at |-> TimeOf(i)]]
    /\ \A i, j \in 1 .. Len(applied) :
        i < j => Precedes(burnTimes, applied[i].burn, applied[j].burn)
    /\ \A i \in 1 .. Burns : TimeOf(i) < t => i <= Len(applied)
    /\ outcome = "success" => Len(applied) = Burns

\* Through every rejected, halved and probed step, the trajectory is clear up
\* to the last time reached, which an error reports as the last valid one; a
\* success has been clear to the end, and an unsafe entry lies after that time.
ClearToLastValid ==
    /\ Start \notin inside => \A u \in Start .. t : u \notin inside
    /\ outcome = "success" => t = End /\ final = End /\ Start \notin inside
    /\ outcome = "unsafe" => IF Start \in inside THEN final = Start ELSE final > t

\* The monitor of a successful run has seen both ends of its interval and
\* every step between them: what RouteEvaluate.cpp, the worker's client and
\* the test of the monitor count on.
MonitorCoversStay ==
    outcome = "success" /\ asked # NoInterval =>
        /\ monitor.endpoints = 2
        /\ monitor.watched = asked.from .. asked.to - 1

\* It has, wherever the interval lies a largest step from the origin of time.
MonitorCoversLateStay == MaxStep <= asked.from => MonitorCoversStay
=============================================================================
