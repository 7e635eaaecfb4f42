------------------------ MODULE EphemerisIntegration ------------------------
(***************************************************************************)
(* integrate of Ephemeris.cpp: a coarse pass that samples every body at    *)
(* the grid times, then a reference pass, carried from the initial state   *)
(* with a sixth of the step, that measures what the samples miss.  Both    *)
(* passes advance by step(), which halves an interval until it can certify *)
(* that no two bodies touch in it; its recursion is a stack of intervals.  *)
(*                                                                         *)
(* Time is in ticks from the start.  Instead of trajectories there are the *)
(* ticks at which two bodies touch, for each pass its own and at most one, *)
(* and the error found at a point of the reference pass is chosen freely.  *)
(***************************************************************************)
EXTENDS Integers, Sequences, FiniteSetsExt

CONSTANTS
    Segments,   \* the number of steps of the coverage
    StepTicks,   \* step_s, a multiple of six
    MaxDepth,    \* how often step() halves an interval (30)
    MinTicks,    \* the least interval it halves (1e-6 s)
    Tolerance    \* max_position_fit_error_m and max_velocity_fit_error_mps

VARIABLES
    contact,    \* pass -> the ticks at which two bodies touch
    pass,       \* "coarse" or "fine"
    work,       \* the intervals step() has yet to cross, the next one first
    now,        \* the time of the state current
    segment,    \* k
    sub,        \* the sixth of the segment that the reference pass has reached
    samples,    \* the times of the samples of a body
    splits,     \* metadata.safety_split_count
    fits,       \* history: the errors found, by segment and sixth
    measured,   \* metadata.measured_max_..._error
    certified,  \* history: pass -> the ticks certified clear
    outcome     \* what integrate returns or throws, and the time it names

vars == <<contact, pass, work, now, segment, sub, samples, splits, fits, measured,
          certified, outcome>>

Passes == {"coarse", "fine"}
Coverage == Segments * StepTicks
Sixth == StepTicks \div 6
Compared == {2, 3, 6}

Running == [verdict |-> "none", at |-> 0]
Stop(what, when) == outcome' = [verdict |-> what, at |-> when]

Whole(at, ticks) == <<[at |-> at, ticks |-> ticks, depth |-> 0]>>

Init ==
    /\ contact \in [Passes -> {{}} \cup {{u} : u \in 0 .. Coverage}]
    /\ (0 \in contact["coarse"]) = (0 \in contact["fine"])
    /\ pass = "coarse"
    /\ work = Whole(0, StepTicks)
    /\ now = 0 /\ segment = 0 /\ sub = 0
    /\ samples = <<0>>
    /\ splits = 0
    /\ fits = {} /\ measured = 0
    /\ certified = [p \in Passes |-> {}]
    /\ outcome = IF 0 \in contact["coarse"] THEN [verdict |-> "collision", at |-> 0] ELSE Running

-----------------------------------------------------------------------------
Interval == Head(work)
Ticks(i) == i.at .. i.at + i.ticks - 1
Touching(from, ticks) == {u \in from .. from + ticks : u \in contact[pass]}

\* certified_clear, of the state at hand: it may certify what is clear.
Certifiable == IF Touching(now, Interval.ticks) = {} THEN BOOLEAN ELSE {FALSE}

Exhausted == Interval.depth >= MaxDepth \/ Interval.ticks <= MinTicks

\* The two halves, as step() calls itself.
HalvesUnmoved(i) ==   \* faulty: the second half starts where the first does
    LET half == [at |-> i.at, ticks |-> i.ticks \div 2, depth |-> i.depth + 1]
    IN  <<half, half>>
Halves(i) ==
    LET half == [at |-> i.at, ticks |-> i.ticks \div 2, depth |-> i.depth + 1]
    IN  <<half, [half EXCEPT !.at = i.at + half.ticks]>>

Stepping == outcome = Running /\ work # <<>>

\* advance_raw over a certified interval.
Advance ==
    /\ Stepping
    /\ TRUE \in Certifiable
    /\ now' = now + Interval.ticks
    /\ certified' = [certified EXCEPT ![pass] = @ \cup Ticks([Interval EXCEPT !.at = now])]
    /\ work' = Tail(work)
    /\ UNCHANGED <<contact, pass, segment, sub, samples, splits, fits, measured, outcome>>

\* Only the coarse pass hands step() a counter.
Split ==
    /\ Stepping
    /\ FALSE \in Certifiable
    /\ ~Exhausted
    /\ work' = Halves(Interval) \o Tail(work)
    /\ splits' = IF pass = "coarse" THEN splits + 1 ELSE splits
    /\ UNCHANGED <<contact, pass, now, segment, sub, samples, fits, measured, certified, outcome>>

\* unresolved_or_collision: it names the earliest contact it samples, by the
\* time step() was called with, or none.
GiveUp ==
    /\ Stepping
    /\ FALSE \in Certifiable
    /\ Exhausted
    /\ \/ \E first \in 0 .. Interval.ticks :
            /\ now + first \in contact[pass]
            /\ Stop("collision", Interval.at + first)
       \/ Stop("unresolved", Interval.at)
    /\ UNCHANGED <<contact, pass, work, now, segment, sub, samples, splits, fits, measured, certified>>

\* An acceleration or a state that is not finite.
NotFinite ==
    /\ Stepping
    /\ Stop("not finite", now)
    /\ UNCHANGED <<contact, pass, work, now, segment, sub, samples, splits, fits, measured, certified>>

-----------------------------------------------------------------------------
Crossed == outcome = Running /\ work = <<>>

\* The coarse pass keeps a sample of each body at the end of each step.
Sample ==
    /\ Crossed /\ pass = "coarse" /\ segment < Segments
    /\ samples' = Append(samples, now)
    /\ segment' = segment + 1
    /\ work' = IF segment + 1 < Segments
               THEN Whole((segment + 1) * StepTicks, StepTicks) ELSE <<>>
    /\ UNCHANGED <<contact, pass, now, sub, splits, fits, measured, certified, outcome>>

\* The reference starts from the initial state again.
StartReference ==
    /\ Crossed /\ pass = "coarse" /\ segment = Segments
    /\ pass' = "fine"
    /\ now' = 0 /\ segment' = 0 /\ sub' = 1
    /\ work' = Whole(0, Sixth)
    /\ UNCHANGED <<contact, samples, splits, fits, measured, certified, outcome>>

Larger(a, b) == IF a >= b THEN a ELSE b

\* A sixth of a step: some of the points are compared with the fit between the
\* samples of the segment; then the next sixth.
Compare ==
    /\ Crossed /\ pass = "fine" /\ segment < Segments
    /\ IF sub \in Compared
       THEN \E error \in 0 .. Tolerance + 1 :
            /\ fits' = fits \cup {[segment |-> segment, sub |-> sub, at |-> now, error |-> error]}
            /\ measured' = Larger(measured, error)
       ELSE UNCHANGED <<fits, measured>>
    /\ sub' = IF sub = 6 THEN 1 ELSE sub + 1
    /\ segment' = IF sub = 6 THEN segment + 1 ELSE segment
    /\ work' = IF segment' < Segments
               THEN Whole((6 * segment' + sub' - 1) * Sixth, Sixth) ELSE <<>>
    /\ UNCHANGED <<contact, pass, now, samples, splits, certified, outcome>>

Return ==
    /\ Crossed /\ pass = "fine" /\ segment = Segments
    /\ IF measured > Tolerance THEN Stop("fit exceeded", 0) ELSE Stop("returned", 0)
    /\ UNCHANGED <<contact, pass, work, now, segment, sub, samples, splits, fits, measured, certified>>

Next ==
    \/ Advance \/ Split \/ GiveUp \/ NotFinite
    \/ Sample \/ StartReference \/ Compare \/ Return

Spec == Init /\ [][Next]_vars

-----------------------------------------------------------------------------
\* However the intervals of the two passes were halved: the ephemeris returned
\* has a sample at every grid time, both passes were certified clear at every
\* tick between start and end, and the error it states is the greatest found,
\* at the thirds, halves and ends of every segment, by a reference that never
\* restarted from a sample.  A collision is named at a time at which the pass
\* that met it has a contact, however deep in the halving it was met.
OutcomeIsTrue ==
    /\ outcome.verdict = "returned" =>
        /\ samples = [k \in 1 .. Segments + 1 |-> (k - 1) * StepTicks]
        /\ \A p \in Passes : certified[p] = 0 .. Coverage - 1
        /\ {<<f.segment, f.sub>> : f \in fits} = (0 .. Segments - 1) \X Compared
        /\ \A f \in fits : f.at = f.segment * StepTicks + f.sub * Sixth
        /\ measured = Max({f.error : f \in fits}) /\ measured <= Tolerance
    /\ outcome.verdict = "collision" => outcome.at \in contact[pass]
=============================================================================
