------------------------- MODULE Integrators_proofs -------------------------
(***************************************************************************)
(* propagate, for any burns, bounds and clearances: the burns are applied  *)
(* in order and none is passed, whatever the sums of times round to; the   *)
(* trajectory is clear up to the last time reached.  The monitor misses    *)
(* nothing of an interval at least a largest step after the origin of      *)
(* time, for there every sum is exact.                                     *)
(*                                                                         *)
(* integrate, for any grid and any bounds of the halving: the ephemeris it *)
(* returns was sampled, certified and measured everywhere.  The intervals  *)
(* that step() has yet to cross lie one behind the other up to the end of  *)
(* what it was called for.                                                 *)
(***************************************************************************)
EXTENDS Integrators, SequenceTheorems, TLAPS

TypeOK ==
    /\ burnTimes \in [1 .. Burns -> Span]
    /\ burns \in StablySorted(burnTimes)
    /\ asked \in Intervals(burnTimes) \cup {NoInterval}
    /\ inside \in SUBSET Span
    /\ pc \in {"start", "burns", "step", "done"}
    /\ t \in Span /\ h \in Nat
    /\ index \in 0 .. Burns
    /\ applied \in Seq([burn : 1 .. Burns, at : Span])
    /\ accepted \in Nat

\* While the loop runs.
InLoop ==
    /\ pc # "done" => /\ outcome = "none" /\ index = Len(applied) /\ final = t
                      /\ MinStep <= h /\ h <= MaxStep
    /\ pc = "start" => t = Start /\ index = 0
    /\ pc \in {"burns", "step"} => Start \notin inside
    /\ pc = "step" => t < End /\ \A i \in 1 .. Burns : index < i => t < TimeOf(i)

\* The burns applied are the first ones, and no other is due before t.
Applied ==
    /\ Len(applied) <= Burns
    /\ \A i \in 1 .. Len(applied) :
        applied[i] = [burn |-> burns[i], at |-> TimeOf(i)] /\ TimeOf(i) <= t
    /\ \A i \in 1 .. Burns : TimeOf(i) < t => i <= Len(applied)
    /\ outcome = "success" => Len(applied) = Burns

IInv == TypeOK /\ InLoop /\ Applied /\ ClearToLastValid

-----------------------------------------------------------------------------
LEMMA Numbers ==
    ASSUME TypeOK
    PROVE /\ Start \in Nat /\ End \in Nat /\ Burns \in Nat
          /\ MinStep \in Nat /\ 0 < MinStep /\ MaxStep \in Nat
          /\ t \in Nat /\ Start <= t /\ t <= End
          /\ h \in Nat /\ accepted \in Nat
          /\ index \in Nat /\ index <= Burns
<1>1. t \in Span /\ h \in Nat /\ accepted \in Nat /\ index \in 0 .. Burns
    BY DEF TypeOK
<1> QED BY <1>1, PropagationAssumption DEF Span

\* Times of burns and their order.
LEMMA BurnOrder ==
    ASSUME TypeOK
    PROVE /\ \A i \in 1 .. Burns : TimeOf(i) \in Span /\ burns[i] \in 1 .. Burns
          /\ \A i, j \in 1 .. Burns : i < j =>
                TimeOf(i) <= TimeOf(j) /\ Precedes(burnTimes, burns[i], burns[j])
          /\ \A k \in 1 .. Burns : \E i \in 1 .. Burns : burnTimes[k] = TimeOf(i)
          /\ Span \subseteq Nat
<1>1. Span \subseteq Nat BY PropagationAssumption DEF Span
<1>2. burns \in Orders /\ \A i, j \in 1 .. Burns : i < j => Precedes(burnTimes, burns[i], burns[j])
    BY DEF TypeOK, StablySorted
<1>3. \A i \in 1 .. Burns : TimeOf(i) \in Span /\ burns[i] \in 1 .. Burns
    BY <1>2 DEF TypeOK, Orders, TimeOf
<1>4. \A k \in 1 .. Burns : \E i \in 1 .. Burns : burnTimes[k] = TimeOf(i)
    BY <1>2 DEF Orders, TimeOf
<1>5. ASSUME NEW i \in 1 .. Burns, NEW j \in 1 .. Burns, i < j
      PROVE TimeOf(i) <= TimeOf(j)
    <2>1. Precedes(burnTimes, burns[i], burns[j]) BY <1>2, <1>5
    <2>2. TimeOf(i) \in Nat /\ TimeOf(j) \in Nat BY <1>1, <1>3
    <2> QED BY <2>1, <2>2 DEF Precedes, TimeOf
<1> QED BY <1>1, <1>2, <1>3, <1>4, <1>5

\* A step goes forward, not past the end and not past a burn to come.
LEMMA StepForward ==
    ASSUME IInv, pc = "step"
    PROVE /\ Target \in Int /\ t < Target /\ Target <= End
          /\ Step \in Int /\ 0 < Step /\ Step <= Target - t /\ Step <= h
          /\ ~NoProgress
          /\ \A i \in 1 .. Burns : index < i => Target <= TimeOf(i)
<1>1. /\ t \in Int /\ End \in Int /\ h \in Int /\ MinStep \in Int /\ 0 < MinStep
      /\ index \in 0 .. Burns /\ Burns \in Nat
    BY Numbers DEF IInv
<1>2. t < End /\ MinStep <= h /\ \A i \in 1 .. Burns : index < i => t < TimeOf(i)
    BY DEF IInv, InLoop
<1>3. \A i \in 1 .. Burns : TimeOf(i) \in Int BY BurnOrder DEF IInv
<1>4. /\ Target \in Int /\ t < Target /\ Target <= End
      /\ \A i \in 1 .. Burns : index < i => Target <= TimeOf(i)
    <2>1. CASE index < Burns
        <3>1. index + 1 \in 1 .. Burns BY <1>1, <2>1
        <3>2. TimeOf(index + 1) \in Int /\ t < TimeOf(index + 1) BY <1>1, <1>2, <1>3, <3>1
        <3>3. \A i \in 1 .. Burns : index < i => TimeOf(index + 1) <= TimeOf(i)
            BY <1>1, <1>3, <3>1, BurnOrder DEF IInv
        <3>4. Target = MinOf(End, TimeOf(index + 1)) BY <2>1 DEF Target
        <3> QED BY <1>1, <1>2, <1>3, <3>2, <3>3, <3>4 DEF MinOf
    <2>2. CASE ~(index < Burns)
        <3>1. Target = End BY <2>2 DEF Target
        <3>2. index = Burns BY <1>1, <2>2
        <3> QED BY <1>1, <1>2, <3>1, <3>2
    <2> QED BY <2>1, <2>2
<1>5. Step \in Int /\ 0 < Step /\ Step <= Target - t /\ Step <= h
    BY <1>1, <1>2, <1>4 DEF Step, MinOf
<1> QED BY <1>4, <1>5 DEF NoProgress

\* An accepted step ends where it was aimed, whatever the sum rounds to.
LEMMA AcceptedTime ==
    ASSUME IInv, pc = "step", NEW sum \in Sums
    PROVE Advance(sum) = t + Step
<1>1. t \in Int /\ Target \in Int /\ Step \in Int
    BY StepForward, PropagationAssumption DEF IInv, TypeOK, Span
<1>2. CASE Target - t = Step BY <1>1, <1>2 DEF Advance
<1>3. CASE Target - t # Step BY <1>1, <1>3 DEF Advance, Sums
<1> QED BY <1>2, <1>3

LEMMA GrownInRange ==
    ASSUME NEW x \in Int
    PROVE Clamp(x) \in Nat /\ MinStep <= Clamp(x) /\ Clamp(x) <= MaxStep
BY PropagationAssumption DEF Clamp, MinOf, MaxOf

-----------------------------------------------------------------------------
LEMMA InitHolds == Init => IInv
<1> SUFFICES ASSUME Init PROVE IInv
    OBVIOUS
<1>1. Start \in Span /\ Start \in Nat /\ MaxStep \in Nat /\ Burns \in Nat /\ MinStep <= MaxStep
    BY PropagationAssumption DEF Span
<1>2. TypeOK
    BY <1>1 DEF Init, TypeOK
<1>3. InLoop
    BY <1>1 DEF Init, InLoop
<1>4. Applied
    <2>1. \A i \in 1 .. Burns : ~(TimeOf(i) < t)
        BY <1>2, BurnOrder, <1>1 DEF Init, Span
    <2> QED BY <1>1, <2>1 DEF Init, Applied
<1>5. ClearToLastValid
    BY <1>1 DEF Init, ClearToLastValid
<1> QED BY <1>2, <1>3, <1>4, <1>5 DEF IInv

\* Actions that leave the burns, and the time reached, as they are.
LEMMA Resting ==
    ASSUME IInv, UNCHANGED <<given, t, index, applied>>,
           pc' \in {"burns", "step", "done"}, h' \in Nat, accepted' \in Nat,
           pc' # "done" => /\ outcome' = "none" /\ index = Len(applied) /\ final' = t
                           /\ MinStep <= h' /\ h' <= MaxStep,
           pc' # "done" => Start \notin inside,
           pc' = "step" => t < End /\ \A i \in 1 .. Burns : index < i => t < TimeOf(i),
           outcome' = "success" => t = End /\ final' = End /\ Len(applied) = Burns
                                   /\ Start \notin inside,
           outcome' = "unsafe" => IF Start \in inside THEN final' = Start ELSE final' > t
    PROVE IInv'
<1>1. TypeOK' BY DEF IInv, TypeOK, given
<1>2. InLoop' BY DEF InLoop, TimeOf, given
<1>3. Applied' BY DEF IInv, Applied, TimeOf, given
<1>4. ClearToLastValid' BY DEF IInv, ClearToLastValid, given
<1> QED BY <1>1, <1>2, <1>3, <1>4 DEF IInv

LEMMA CheckStartKeeps == ASSUME IInv, CheckStart PROVE IInv'
<1>1. /\ pc = "start" /\ outcome = "none" /\ t = Start /\ index = Len(applied) /\ final = t
      /\ MinStep <= h /\ h <= MaxStep /\ h \in Nat /\ accepted \in Nat
    BY DEF IInv, InLoop, TypeOK, CheckStart
<1>2. CASE Start \in inside BY <1>1, <1>2, Resting DEF CheckStart, Finish
<1>3. CASE Start \notin inside BY <1>1, <1>3, Resting DEF CheckStart, Goto
<1> QED BY <1>2, <1>3

LEMMA ApplyBurnKeeps == ASSUME IInv, ApplyBurn PROVE IInv'
<1>1. /\ pc = "burns" /\ outcome = "none" /\ index = Len(applied) /\ final = t
      /\ MinStep <= h /\ h <= MaxStep /\ Start \notin inside
    BY DEF IInv, InLoop, ApplyBurn
<1>2. /\ index \in Nat /\ Burns \in Nat /\ index + 1 \in 1 .. Burns
      /\ index + 1 \in 0 .. Burns /\ t \in Nat
    <2>1. index < Burns BY DEF ApplyBurn, BurnDue
    <2>2. index \in Nat /\ Burns \in Nat /\ t \in Nat BY Numbers DEF IInv
    <2> QED BY <2>1, <2>2
<1>3. TimeOf(index + 1) = t /\ burns[index + 1] \in 1 .. Burns
    BY <1>2, BurnOrder DEF ApplyBurn, BurnDue, IInv
<1> DEFINE record == [burn |-> burns[index + 1], at |-> t]
<1>4. CASE t \in inside
    <2>1. /\ UNCHANGED <<given, t, h, final, monitor, accepted, applied>>
          /\ index' = index + 1 /\ pc' = "done" /\ outcome' = "burn inside"
        BY <1>4 DEF ApplyBurn, Finish
    <2>2. TypeOK' BY <1>2, <2>1 DEF IInv, TypeOK, given
    <2>3. InLoop' BY <2>1 DEF InLoop
    <2>4. Applied' BY <2>1 DEF IInv, Applied, TimeOf, given
    <2>5. ClearToLastValid' BY <2>1 DEF IInv, ClearToLastValid, given
    <2> QED BY <2>2, <2>3, <2>4, <2>5 DEF IInv
<1>5. CASE t \notin inside
    <2>1. /\ UNCHANGED <<given, t, h, final, monitor, accepted>>
          /\ index' = index + 1 /\ pc' = "burns" /\ outcome' = "none"
          /\ applied' = Append(applied, record)
        BY <1>1, <1>5 DEF ApplyBurn, Goto
    <2>2. applied \in Seq([burn : 1 .. Burns, at : Span])
          /\ record \in [burn : 1 .. Burns, at : Span]
        BY <1>3 DEF IInv, TypeOK
    <2> HIDE DEF record
    <2>3. /\ applied' \in Seq([burn : 1 .. Burns, at : Span])
          /\ Len(applied') = index + 1 /\ applied'[index + 1] = record
          /\ \A i \in 1 .. Len(applied) : applied'[i] = applied[i]
        BY <1>1, <2>1, <2>2
    <2>4. TypeOK' BY <1>2, <2>1, <2>3 DEF IInv, TypeOK, given
    <2>5. InLoop' BY <1>1, <2>1, <2>3 DEF InLoop, given
    <2>6. Applied'
        <3>1. \A i \in 1 .. Burns : TimeOf(i)' = TimeOf(i) BY <2>1 DEF TimeOf, given
        <3>2. \A i \in 1 .. Len(applied') : i \in 1 .. Len(applied) \/ i = index + 1
            BY <1>1, <1>2, <2>3
        <3>3. ASSUME NEW i \in 1 .. Len(applied')
              PROVE applied'[i] = [burn |-> burns'[i], at |-> TimeOf(i)'] /\ TimeOf(i)' <= t'
            <4>1. i \in 1 .. Burns
                <5>1. i \in 1 .. index + 1 BY <2>3
                <5> QED BY <5>1, <1>2
            <4>2. burns' = burns /\ t' = t BY <2>1 DEF given
            <4>3. CASE i \in 1 .. Len(applied)
                BY <4>1, <4>2, <4>3, <3>1, <2>3 DEF IInv, Applied
            <4>4. CASE i = index + 1
                BY <4>1, <4>2, <4>4, <3>1, <2>3, <1>2, <1>3 DEF record
            <4> QED BY <3>2, <4>3, <4>4
        <3>4. \A i \in 1 .. Burns : TimeOf(i)' < t' => i <= Len(applied')
            BY <1>1, <1>2, <2>1, <2>3, <3>1 DEF IInv, Applied
        <3>5. Len(applied') <= Burns /\ outcome' # "success" BY <1>2, <2>1, <2>3
        <3> QED BY <3>3, <3>4, <3>5 DEF Applied
    <2>7. ClearToLastValid' BY <2>1 DEF IInv, ClearToLastValid, given
    <2> QED BY <2>4, <2>5, <2>6, <2>7 DEF IInv
<1> QED BY <1>4, <1>5

LEMMA ObserveKeeps == ASSUME IInv, Observe PROVE IInv'
<1>1. /\ pc = "burns" /\ outcome = "none" /\ index = Len(applied) /\ final = t
      /\ MinStep <= h /\ h <= MaxStep /\ h \in Nat /\ accepted \in Nat
      /\ Start \notin inside
    BY DEF IInv, InLoop, TypeOK, Observe
<1>2. t \in Span /\ t \in Nat /\ End \in Nat /\ index \in 0 .. Burns /\ Burns \in Nat /\ t <= End
    BY PropagationAssumption DEF IInv, TypeOK, Span
<1>3. ASSUME NEW i \in 1 .. Burns, index < i PROVE t < TimeOf(i)
    <2>1. index < Burns /\ index + 1 \in 1 .. Burns BY <1>2, <1>3
    <2>2. TimeOf(index + 1) # t BY <2>1 DEF Observe, BurnDue
    <2>3. ~(TimeOf(index + 1) < t) BY <1>1, <1>2, <2>1 DEF IInv, Applied
    <2>4. \A k \in 1 .. Burns : TimeOf(k) \in Nat BY BurnOrder DEF IInv
    <2>5. index + 1 = i \/ TimeOf(index + 1) <= TimeOf(i)
        BY <1>2, <1>3, <2>1, BurnOrder DEF IInv
    <2> QED BY <1>2, <1>3, <2>1, <2>2, <2>3, <2>4, <2>5
<1>4. CASE t >= End
    <2>1. t = End BY <1>2, <1>4
    <2>2. Len(applied) = Burns
        <3>1. \A i \in 1 .. Burns : TimeOf(i) <= End BY BurnOrder, <1>2 DEF IInv, Span
        <3>2. ~(index < Burns)
            <4> SUFFICES ASSUME index < Burns PROVE FALSE OBVIOUS
            <4>1. Burns \in 1 .. Burns BY <1>2
            <4>2. End < TimeOf(Burns) BY <4>1, <1>3, <2>1
            <4>3. TimeOf(Burns) \in Nat BY <4>1, BurnOrder DEF IInv
            <4> QED BY <4>1, <4>2, <4>3, <3>1, <1>2
        <3> QED BY <1>1, <1>2, <3>2
    <2> QED BY <1>1, <1>4, <2>1, <2>2, Resting DEF Observe, Finish
<1>5. CASE ~(t >= End)
    <2>1. t < End BY <1>2, <1>5
    <2> QED BY <1>1, <1>3, <1>5, <2>1, Resting DEF Observe, Goto
<1> QED BY <1>4, <1>5

\* Every way a step ends the run.
LEMMA StepEnds ==
    ASSUME IInv, pc = "step", UNCHANGED <<given, t, index, applied>>,
           pc' = "done", h' \in Nat, accepted' = accepted, outcome' # "success",
           outcome' = "unsafe" => final' > t
    PROVE IInv'
<1>1. Start \notin inside /\ accepted \in Nat BY DEF IInv, InLoop, TypeOK
<1> QED BY <1>1, Resting

\* Every way a step is tried again.
LEMMA StepAgain ==
    ASSUME IInv, pc = "step", UNCHANGED <<given, t, index, applied, final>>,
           pc' = "step", outcome' = outcome, h' \in Nat, MinStep <= h', h' <= MaxStep,
           accepted' = accepted
    PROVE IInv'
<1>1. /\ outcome = "none" /\ index = Len(applied) /\ final = t /\ Start \notin inside
      /\ t < End /\ (\A i \in 1 .. Burns : index < i => t < TimeOf(i))
      /\ accepted \in Nat
    BY DEF IInv, InLoop, TypeOK
<1> QED BY <1>1, Resting

LEMMA RejectedKeeps ==
    ASSUME IInv, CannotTry \/ RejectError \/ EnterSurface \/ HalveStep \/ LookAhead
    PROVE IInv'
<1>1. /\ pc = "step" /\ h \in Nat /\ h <= MaxStep /\ t \in Nat
      /\ MinStep \in Nat /\ 0 < MinStep /\ MaxStep \in Nat
    <2>1. pc = "step" BY DEF CannotTry, RejectError, EnterSurface, HalveStep, LookAhead
    <2>2. h <= MaxStep BY <2>1 DEF IInv, InLoop
    <2> QED BY <2>1, <2>2, Numbers DEF IInv
<1>2. Step \in Int /\ 0 < Step /\ Step <= h /\ Target \in Int BY <1>1, StepForward
<1>3. CASE CannotTry BY <1>1, <1>3, StepEnds DEF CannotTry, Finish
<1>4. CASE RejectError
    <2>1. PICK f \in Shrunk : /\ h' = f
                              /\ IF f < MinStep THEN Finish("minimum step") ELSE Goto("step")
        BY <1>4 DEF RejectError
    <2>2. UNCHANGED <<given, t, index, applied, final, monitor, accepted>>
        BY <1>4 DEF RejectError
    <2>3. f \in Nat /\ f <= MaxStep BY <1>1, <1>2 DEF Shrunk
    <2>4. CASE f < MinStep BY <1>1, <2>1, <2>2, <2>3, <2>4, StepEnds DEF Finish
    <2>5. CASE ~(f < MinStep)
        <3>1. MinStep <= f BY <1>1, <2>3, <2>5
        <3> QED BY <1>1, <2>1, <2>2, <2>3, <2>5, <3>1, StepAgain DEF Goto
    <2> QED BY <2>4, <2>5
<1>5. CASE EnterSurface
    <2>1. PICK at \in Sightings : at # Unseen /\ final' = at BY <1>5 DEF EnterSurface
    <2>2. at \in t + 1 .. t + Step BY <2>1 DEF Sightings, Entries
    <2>3. final' > t BY <1>1, <1>2, <2>1, <2>2
    <2> QED BY <1>1, <1>5, <2>3, StepEnds DEF EnterSurface, Finish
<1>6. CASE HalveStep
    <2>1. Step \div 2 \in Nat /\ MinStep <= Step \div 2 /\ Step \div 2 <= MaxStep
        BY <1>1, <1>2, <1>6 DEF HalveStep
    <2> QED BY <1>1, <1>6, <2>1, StepAgain DEF HalveStep, Goto
<1>7. CASE LookAhead
    <2>1. outcome' = "unsafe" => final' > t
        BY <1>1, <1>2, <1>7 DEF LookAhead, Finish
    <2> QED BY <1>1, <1>7, <2>1, StepEnds DEF LookAhead, Finish
<1> QED BY <1>3, <1>4, <1>5, <1>6, <1>7

LEMMA AcceptKeeps == ASSUME IInv, Accept PROVE IInv'
<1>1. /\ h \in Nat /\ t \in Nat /\ pc = "step" /\ accepted \in Nat
      /\ Start \in Nat /\ End \in Nat /\ Start <= t
    BY Numbers DEF IInv, Accept
<1>2. /\ Step \in Int /\ 0 < Step /\ Step <= Target - t /\ Target \in Int /\ Target <= End
      /\ \A i \in 1 .. Burns : index < i => Target <= TimeOf(i)
    BY <1>1, StepForward
<1>3. /\ outcome = "none" /\ index = Len(applied) /\ Start \notin inside
    BY <1>1 DEF IInv, InLoop
<1>4. CASE accepted >= MaxAccepted BY <1>1, <1>4, StepEnds DEF Accept, Finish
<1>5. CASE ~(accepted >= MaxAccepted)
    <2>1. PICK sum \in Sums, grown \in Grown :
            /\ accepted' = accepted + 1
            /\ t' = Advance(sum) /\ final' = Advance(sum)
            /\ h' = grown
            /\ Goto("burns")
        BY <1>5 DEF Accept
    <2>2. t' = t + Step /\ final' = t' BY <1>1, <2>1, AcceptedTime
    <2>3. h' \in Nat /\ MinStep <= h' /\ h' <= MaxStep
        <3>1. PICK x \in Step \div 5 .. 5 * Step : grown = Clamp(x) BY DEF Grown
        <3>2. x \in Int BY <1>2
        <3> QED BY <2>1, <3>1, <3>2, GrownInRange
    <2>4. /\ UNCHANGED <<given, index, applied>> /\ pc' = "burns" /\ outcome' = "none"
          /\ accepted' \in Nat
        BY <1>1, <1>3, <1>5, <2>1 DEF Accept, Goto
    <2>5. t' \in Span BY <1>1, <1>2, <2>2 DEF Span
    <2>6. TypeOK' BY <2>3, <2>4, <2>5 DEF IInv, TypeOK, given
    <2>7. InLoop' BY <1>3, <2>2, <2>3, <2>4 DEF InLoop, given
    <2>8. Applied'
        <3>1. \A i \in 1 .. Burns : TimeOf(i)' = TimeOf(i) /\ TimeOf(i) \in Nat
            BY <2>4, BurnOrder DEF TimeOf, given, IInv
        <3>2. t' \in Nat /\ t < t' /\ t' <= Target BY <1>1, <1>2, <2>2
        <3>3. Len(applied) <= Burns /\ index \in Nat /\ Burns \in Nat
            BY PropagationAssumption DEF IInv, Applied, TypeOK
        <3>4. ASSUME NEW i \in 1 .. Burns, TimeOf(i) < t' PROVE i <= Len(applied)
            <4>1. ~(index < i) BY <1>2, <3>1, <3>2, <3>4
            <4> QED BY <1>3, <3>3, <4>1
        <3>5. \A i \in 1 .. Len(applied) :
                applied[i] = [burn |-> burns[i], at |-> TimeOf(i)] /\ TimeOf(i) <= t'
            BY <1>1, <3>1, <3>2, <3>3 DEF IInv, Applied
        <3> QED BY <2>4, <3>1, <3>3, <3>4, <3>5 DEF Applied, given
    <2>9. ClearToLastValid'
        <3>1. TRUE \in Bounds BY DEF Accept
        <3>2. \A u \in t .. t + Step : u \notin inside
            BY <3>1 DEF Bounds, ClearUpTo
        <3>3. \A u \in Start .. t : u \notin inside
            BY <1>3 DEF IInv, ClearToLastValid
        <3>4. \A u \in Start .. t + Step : u \notin inside
            BY <1>1, <1>2, <3>2, <3>3
        <3> QED BY <1>3, <2>2, <2>4, <3>4 DEF ClearToLastValid, given
    <2> QED BY <2>6, <2>7, <2>8, <2>9 DEF IInv
<1> QED BY <1>4, <1>5

LEMMA StepKeeps == ASSUME IInv, [Next]_vars PROVE IInv'
<1>1. CASE Next
    BY <1>1, CheckStartKeeps, ApplyBurnKeeps, ObserveKeeps, RejectedKeeps, AcceptKeeps DEF Next
<1>2. CASE UNCHANGED vars
    <2>1. TypeOK' /\ InLoop' /\ Applied' /\ ClearToLastValid'
        BY <1>2 DEF vars, IInv, TypeOK, InLoop, Applied, ClearToLastValid, TimeOf
    <2> QED BY <2>1 DEF IInv
<1> QED BY <1>1, <1>2

LEMMA InvariantHolds == Spec => []IInv
<1> QED BY InitHolds, StepKeeps, PTL DEF Spec

LEMMA IInvBurns == IInv => BurnsInOrder
<1> SUFFICES ASSUME IInv PROVE BurnsInOrder OBVIOUS
<1>1. /\ applied \in Seq([burn : 1 .. Burns, at : Span]) /\ Len(applied) <= Burns
      /\ \A i \in 1 .. Len(applied) : applied[i] = [burn |-> burns[i], at |-> TimeOf(i)]
    BY DEF IInv, TypeOK, Applied
<1>2. /\ Len(applied) \in Nat /\ Burns \in Nat
      /\ applied \in [1 .. Len(applied) -> [burn : 1 .. Burns, at : Span]]
    BY <1>1, LenProperties, PropagationAssumption
<1>4. applied = [i \in 1 .. Len(applied) |-> [burn |-> burns[i], at |-> TimeOf(i)]]
    BY <1>1, <1>2
<1>3. ASSUME NEW i \in 1 .. Len(applied), NEW j \in 1 .. Len(applied), i < j
      PROVE Precedes(burnTimes, applied[i].burn, applied[j].burn)
    <2>1. i \in 1 .. Burns /\ j \in 1 .. Burns BY <1>1, <1>2
    <2>2. applied[i].burn = burns[i] /\ applied[j].burn = burns[j]
        <3>1. /\ applied[i] = [burn |-> burns[i], at |-> TimeOf(i)]
              /\ applied[j] = [burn |-> burns[j], at |-> TimeOf(j)]
            BY <1>1
        <3> QED BY <3>1
    <2>3. Precedes(burnTimes, burns[i], burns[j]) BY <1>3, <2>1, BurnOrder DEF IInv
    <2> QED BY <2>2, <2>3
<1> QED BY <1>3, <1>4 DEF BurnsInOrder, IInv, Applied

\* Whatever the number of burns, the step bounds and the rounding of the sums:
\* no burn is lost, repeated or applied out of order or away from its time.
THEOREM NoBurnLost == Spec => []BurnsInOrder
<1> QED BY InvariantHolds, IInvBurns, PTL

\* For any set of unsafe times, of any size: what has been accepted is clear.
THEOREM AcceptedIsClear == Spec => []ClearToLastValid
<1>1. IInv => ClearToLastValid BY DEF IInv
<1> QED BY <1>1, InvariantHolds, PTL

-----------------------------------------------------------------------------
\* The monitored interval lies at least a largest step after the origin.
LateStay == asked # NoInterval /\ MaxStep <= asked.from

LEMMA LateSums ==
    ASSUME IInv, pc = "step", MaxStep <= t
    PROVE Sums = {t + Step}
<1>1. /\ Target \in Int /\ Step \in Int /\ Step <= h /\ h <= MaxStep /\ h \in Nat
      /\ t \in Nat /\ MaxStep \in Nat
    BY StepForward, Numbers DEF IInv, InLoop
<1>2. CASE Step = Target - t
    <2>1. Target <= 2 * t BY <1>1, <1>2
    <2> QED BY <1>2, <2>1 DEF Sums, Exact
<1>3. CASE Step # Target - t BY <1>3 DEF Sums
<1> QED BY <1>2, <1>3

\* The ends of the interval are times that no step crosses.
LEMMA IntervalEnds ==
    ASSUME IInv, asked # NoInterval
    PROVE /\ asked.from \in Nat /\ asked.to \in Nat
          /\ asked.from < asked.to /\ asked.to <= End /\ Start <= asked.from
          /\ pc = "step" => \A b \in {asked.from, asked.to} : t < b => Target <= b
<1>1. asked \in Intervals(burnTimes) BY DEF IInv, TypeOK
<1>2. /\ asked.from \in Boundaries(burnTimes) /\ asked.to \in Boundaries(burnTimes)
      /\ asked.from < asked.to
    BY <1>1 DEF Intervals
<1>3. ASSUME NEW b \in Boundaries(burnTimes)
      PROVE b \in Nat /\ Start <= b /\ b <= End /\ (pc = "step" /\ t < b => Target <= b)
    <2>1. Start \in Nat /\ End \in Nat /\ Start <= End /\ t \in Nat /\ Start <= t
        BY Numbers, PropagationAssumption DEF IInv
    <2>2. CASE b = Start BY <2>1, <2>2
    <2>3. CASE b = End BY <2>1, <2>3, StepForward
    <2>4. CASE \E k \in 1 .. Burns : b = burnTimes[k]
        <3>1. PICK i \in 1 .. Burns : b = TimeOf(i) BY <2>4, BurnOrder DEF IInv
        <3>2. b \in Nat /\ Start <= b /\ b <= End BY <2>1, <3>1, BurnOrder DEF IInv, Span
        <3>3. ASSUME pc = "step", t < b PROVE Target <= b
            <4>1. index \in Nat /\ index <= Burns /\ index = Len(applied) /\ Burns \in Nat
                BY <3>3, Numbers DEF IInv, InLoop
            <4>2. ~(i <= index)
                <5> SUFFICES ASSUME i <= index PROVE FALSE OBVIOUS
                <5>1. i \in 1 .. Len(applied) BY <4>1
                <5>2. TimeOf(i) <= t BY <5>1 DEF IInv, Applied
                <5> QED BY <2>1, <3>1, <3>2, <3>3, <5>2
            <4>3. index < i BY <4>1, <4>2
            <4> QED BY <3>1, <3>3, <4>3, StepForward
        <3> QED BY <3>2, <3>3
    <2> QED BY <2>2, <2>3, <2>4 DEF Boundaries
<1> QED BY <1>2, <1>3

\* What the monitor has seen by the time t.
Watched(at, place) ==
    IF at < asked.from \/ (at = asked.from /\ place \in {"start", "burns"})
    THEN NoMonitor
    ELSE [endpoints |-> IF at < asked.to THEN 1 ELSE 2,
          watched |-> asked.from .. MinOf(at, asked.to) - 1]

MonitorKept ==
    LateStay /\ (pc # "done" \/ outcome = "success") => monitor = Watched(t, pc)

LEMMA AcceptWatches ==
    ASSUME IInv, MonitorKept, Accept, LateStay, pc' # "done"
    PROVE monitor' = Watched(t', "burns")
<1>1. /\ pc = "step" /\ monitor = Watched(t, "step")
      /\ asked # NoInterval /\ MaxStep <= asked.from
    BY DEF MonitorKept, LateStay, Accept
<1>2. PICK sum \in Sums : monitor' = MonitorAfter(sum) /\ t' = Advance(sum)
    BY DEF Accept, Finish
<1>3. t' = t + Step BY <1>1, <1>2, AcceptedTime
<1>4. /\ t \in Nat /\ Step \in Int /\ 0 < Step /\ Step <= Target - t /\ Target \in Int
      /\ asked.from \in Nat /\ asked.to \in Nat /\ asked.from < asked.to
      /\ t < asked.from => Target <= asked.from
      /\ t < asked.to => Target <= asked.to
    BY <1>1, StepForward, IntervalEnds, Numbers DEF IInv
<1>5. CASE t < asked.from
    <2>1. monitor = NoMonitor BY <1>1, <1>5 DEF Watched
    <2>2. monitor' = NoMonitor BY <1>2, <2>1 DEF MonitorAfter
    <2>3. t' <= asked.from /\ t' \in Int BY <1>3, <1>4, <1>5
    <2> QED BY <1>4, <2>2, <2>3 DEF Watched
<1>6. ASSUME ~(t < asked.from) PROVE sum = t + Step
    <2>1. MaxStep <= t BY <1>1, <1>4, <1>6, PropagationAssumption
    <2> QED BY <1>1, <1>2, <2>1, LateSums
<1>7. CASE ~(t < asked.from) /\ t < asked.to
    <2>1. monitor = [endpoints |-> 1, watched |-> asked.from .. t - 1]
        BY <1>1, <1>4, <1>7 DEF Watched, MinOf
    <2>2. monitor # NoMonitor
        <3>1. monitor.endpoints = 1 BY <2>1
        <3>2. NoMonitor.endpoints = 0 BY DEF NoMonitor
        <3> QED BY <3>1, <3>2
    <2>3. t + Step <= asked.to BY <1>4, <1>7
    <2>4. monitor' = [endpoints |-> 1 + (IF t + Step = asked.to THEN 1 ELSE 0),
                      watched |-> (asked.from .. t - 1) \cup (t .. t + Step - 1)]
        <3>1. monitor' = MonitorAfter(t + Step) BY <1>2, <1>6, <1>7
        <3> QED BY <1>1, <2>1, <2>2, <2>3, <3>1 DEF MonitorAfter
    <2>5. (asked.from .. t - 1) \cup (t .. t + Step - 1) = asked.from .. t + Step - 1
        BY <1>4, <1>7
    <2>6. Watched(t', "burns") =
            [endpoints |-> IF t + Step < asked.to THEN 1 ELSE 2,
             watched |-> asked.from .. t + Step - 1]
        <3>1. asked.from < t + Step /\ t + Step \in Int BY <1>4, <1>7
        <3>2. MinOf(t + Step, asked.to) = t + Step BY <1>4, <2>3 DEF MinOf
        <3> QED BY <1>3, <1>4, <3>1, <3>2 DEF Watched
    <2>7. 1 + (IF t + Step = asked.to THEN 1 ELSE 0) = IF t + Step < asked.to THEN 1 ELSE 2
        BY <1>4, <2>3
    <2> QED BY <2>4, <2>5, <2>6, <2>7
<1>8. CASE ~(t < asked.to)
    <2>1. monitor' = monitor BY <1>2, <1>4, <1>6, <1>8 DEF MonitorAfter
    <2>2. monitor = [endpoints |-> 2, watched |-> asked.from .. asked.to - 1]
        BY <1>1, <1>4, <1>8 DEF Watched, MinOf
    <2>3. Watched(t', "burns") = [endpoints |-> 2, watched |-> asked.from .. asked.to - 1]
        BY <1>3, <1>4, <1>8 DEF Watched, MinOf
    <2> QED BY <2>1, <2>2, <2>3
<1> QED BY <1>4, <1>5, <1>7, <1>8

LEMMA MonitorStep == ASSUME IInv, MonitorKept, [Next]_vars PROVE MonitorKept'
<1> SUFFICES ASSUME LateStay', pc' # "done" \/ outcome' = "success"
             PROVE monitor' = Watched(t, pc)'
    BY DEF MonitorKept
<1>1. asked' = asked /\ LateStay /\ asked # NoInterval
    <2>1. asked' = asked
        BY DEF Next, vars, given, CheckStart, ApplyBurn, Observe, CannotTry, RejectError,
               EnterSurface, HalveStep, LookAhead, Accept
    <2> QED BY <2>1 DEF LateStay, NoInterval
<1>2. /\ t \in Nat /\ asked.from \in Nat /\ asked.to \in Nat /\ asked.from < asked.to
      /\ Start <= asked.from
    BY <1>1, IntervalEnds, Numbers DEF IInv
<1>3. CASE CheckStart
    <2>1. pc = "start" /\ pc' = "burns" /\ t' = t /\ monitor' = monitor
        BY <1>3 DEF CheckStart, Finish, Goto
    <2>2. monitor = Watched(t, "start") BY <1>1, <2>1 DEF MonitorKept
    <2> QED BY <1>1, <2>1, <2>2 DEF Watched
<1>4. CASE ApplyBurn
    <2>1. pc = "burns" /\ pc' = "burns" /\ t' = t /\ monitor' = monitor
        BY <1>4 DEF ApplyBurn, Finish, Goto
    <2>2. monitor = Watched(t, "burns") BY <1>1, <2>1 DEF MonitorKept
    <2> QED BY <1>1, <2>1, <2>2 DEF Watched
<1>5. CASE Observe
    <2>1. pc = "burns" /\ pc' \in {"step", "done"} /\ t' = t
        BY <1>5 DEF Observe, Finish, Goto
    <2>2. monitor = Watched(t, "burns") BY <1>1, <2>1 DEF MonitorKept
    <2>3. CASE t < asked.from
        <3>1. monitor' = monitor BY <1>2, <1>5, <2>3 DEF Observe
        <3> QED BY <1>1, <2>1, <2>2, <2>3, <3>1 DEF Watched
    <2>4. CASE t = asked.from
        <3>1. monitor = NoMonitor BY <2>2, <2>4 DEF Watched
        <3>2. monitor' = [endpoints |-> 1, watched |-> {}]
            BY <1>1, <1>5, <2>4, <3>1 DEF Observe, NoMonitor
        <3>3. asked.from .. asked.from - 1 = {} BY <1>2
        <3>4. MinOf(t, asked.to) = t /\ t < asked.to BY <1>2, <2>4 DEF MinOf
        <3>5. pc' \notin {"start", "burns"} BY <2>1
        <3>6. ~(t < asked.from) BY <1>2, <2>4
        <3>7. Watched(t, pc') = [endpoints |-> 1, watched |-> asked.from .. t - 1]
            BY <3>4, <3>5, <3>6 DEF Watched
        <3>8. Watched(t, pc)' = Watched(t, pc') BY <1>1, <2>1 DEF Watched
        <3> QED BY <2>4, <3>2, <3>3, <3>7, <3>8
    <2>5. CASE t > asked.from
        <3>1. monitor' = monitor BY <1>2, <1>5, <2>5 DEF Observe
        <3> QED BY <1>1, <1>2, <2>1, <2>2, <2>5, <3>1 DEF Watched
    <2> QED BY <1>2, <2>3, <2>4, <2>5
<1>6. CASE CannotTry \/ EnterSurface \/ LookAhead
    BY <1>6 DEF CannotTry, EnterSurface, LookAhead, Finish
<1>7. CASE RejectError \/ HalveStep
    <2>1. pc = "step" /\ pc' = "step" /\ t' = t /\ monitor' = monitor
        BY <1>7 DEF RejectError, HalveStep, Finish, Goto
    <2>2. monitor = Watched(t, "step") BY <1>1, <2>1 DEF MonitorKept
    <2> QED BY <1>1, <2>1, <2>2 DEF Watched
<1>8. CASE Accept
    <2>1. pc' = "burns" BY <1>8 DEF Accept, Finish, Goto
    <2>2. monitor' = Watched(t', "burns") BY <1>1, <1>8, <2>1, AcceptWatches
    <2> QED BY <1>1, <2>1, <2>2 DEF Watched
<1>9. CASE UNCHANGED vars
    <2>1. monitor = Watched(t, pc) /\ t' = t /\ pc' = pc /\ monitor' = monitor
        BY <1>1, <1>9 DEF vars, MonitorKept
    <2> QED BY <1>1, <2>1 DEF Watched
<1> QED BY <1>3, <1>4, <1>5, <1>6, <1>7, <1>8, <1>9 DEF Next

\* Whatever the steps, the tolerances and the burns: the monitor of a run that
\* succeeds has seen both ends and the whole of an interval that lies at least a
\* largest step after the origin of time.
THEOREM LateStaysMonitored == Spec => []MonitorCoversLateStay
<1>1. IInv /\ MonitorKept => MonitorCoversLateStay
    <2> SUFFICES ASSUME IInv, MonitorKept, outcome = "success", LateStay
                 PROVE monitor.endpoints = 2 /\ monitor.watched = asked.from .. asked.to - 1
        BY DEF MonitorCoversLateStay, MonitorCoversStay, LateStay
    <2>1. t = End /\ t \in Nat BY Numbers DEF IInv, ClearToLastValid
    <2>2. asked.from \in Nat /\ asked.to \in Nat /\ asked.from < asked.to /\ asked.to <= t
        BY <2>1, IntervalEnds DEF LateStay
    <2>3. monitor = Watched(t, pc) BY DEF MonitorKept
    <2>4. monitor = [endpoints |-> 2, watched |-> asked.from .. asked.to - 1]
        <3>1. ~(t < asked.from) /\ t # asked.from /\ ~(t < asked.to) BY <2>1, <2>2
        <3>2. MinOf(t, asked.to) = asked.to BY <2>1, <2>2 DEF MinOf
        <3> QED BY <2>3, <3>1, <3>2 DEF Watched
    <2> QED BY <2>4
<1>2. Init => MonitorKept
    <2> SUFFICES ASSUME Init, asked # NoInterval PROVE monitor = Watched(t, pc)
        BY DEF MonitorKept, LateStay
    <2>1. IInv BY InitHolds
    <2>2. t \in Nat /\ asked.from \in Nat /\ t <= asked.from
        BY <2>1, IntervalEnds, Numbers DEF IInv, Init
    <2> QED BY <2>2 DEF Init, Watched
<1>3. IInv /\ MonitorKept /\ [Next]_vars => MonitorKept'
    BY MonitorStep
<1>4. Spec => []MonitorKept
    BY <1>2, <1>3, InvariantHolds, PTL DEF Spec
<1> QED BY <1>1, <1>4, InvariantHolds, PTL

-----------------------------------------------------------------------------
(***************************************************************************)
(* The ephemeris.                                                          *)
(***************************************************************************)
\* The lengths that step() makes of an interval of so many ticks.
Parts(ticks) ==
    CHOOSE part \in [0 .. MaxDepth -> 0 .. ticks] :
        /\ part[0] = ticks
        /\ \A d \in 1 .. MaxDepth : part[d - 1] > MinTicks => part[d - 1] = 2 * part[d]

\* The interval handed to step(), and its end; at the end of the last one the pass is over.
Unit == IF pass = "coarse" THEN StepTicks ELSE Ephemeris!Sixth
EndOf(p, k, c) ==
    IF k = Segments THEN Ephemeris!Coverage
    ELSE IF p = "coarse" THEN k * StepTicks + StepTicks
    ELSE (6 * k + c - 1) * Ephemeris!Sixth + Ephemeris!Sixth
Upto == EndOf(pass, segment, sub)

Pieces == [at : Nat, ticks : Nat, depth : 0 .. MaxDepth]

\* The intervals lie one behind the other.
Joined(w, from, to) ==
    IF w = <<>> THEN from = to
    ELSE /\ w[1].at = from
         /\ \A i \in 1 .. Len(w) - 1 : w[i + 1].at = w[i].at + w[i].ticks
         /\ w[Len(w)].at + w[Len(w)].ticks = to

Errors == [segment : 0 .. Segments - 1, sub : Ephemeris!Compared, at : Nat, error : Nat]

CallTypeOK ==
    /\ pass \in Ephemeris!Passes
    /\ work \in Seq(Pieces)
    /\ now \in Nat
    /\ segment \in 0 .. Segments
    /\ sub \in IF pass = "coarse" THEN {0} ELSE 1 .. 6
    /\ fits \in SUBSET Errors
    /\ measured \in Nat
    /\ certified \in [Ephemeris!Passes -> SUBSET Nat]

\* What step() has left to cross reaches to the end of what it was called for.
Remaining ==
    /\ Joined(work, now, Upto)
    /\ \A i \in 1 .. Len(work) : work[i].ticks = Parts(Unit)[work[i].depth]

\* A pass has certified all it has crossed; the reference comes after the coarse pass.
Crossings ==
    /\ certified[pass] = 0 .. now - 1
    /\ pass = "fine" => certified["coarse"] = 0 .. Ephemeris!Coverage - 1
    /\ pass = "coarse" => certified["fine"] = {}

Samples ==
    samples = [k \in 1 .. (IF pass = "coarse" THEN segment ELSE Segments) + 1 |-> (k - 1) * StepTicks]

\* A point of the reference that has been compared.
Past(k, c) == pass = "fine" /\ (k < segment \/ (k = segment /\ c < sub))

Fits ==
    /\ \A f \in fits : Past(f.segment, f.sub) /\ f.at = f.segment * StepTicks + f.sub * Ephemeris!Sixth
    /\ \A k \in 0 .. Segments - 1, c \in Ephemeris!Compared :
        Past(k, c) => \E f \in fits : f.segment = k /\ f.sub = c

Greatest ==
    /\ \A f \in fits : f.error <= measured
    /\ fits # {} => \E f \in fits : f.error = measured
    /\ fits = {} => measured = 0

Called == CallTypeOK /\ Remaining /\ Crossings /\ Samples /\ Fits /\ Greatest /\ OutcomeIsTrue

CallInv == NotIntegrated \/ Called
-----------------------------------------------------------------------------
LEMMA Grid ==
    /\ Segments \in Nat /\ 0 < Segments /\ StepTicks \in Nat /\ 0 < StepTicks
    /\ Ephemeris!Sixth \in Nat /\ StepTicks = 6 * Ephemeris!Sixth
    /\ Ephemeris!Coverage \in Nat
    /\ MaxDepth \in Nat /\ MinTicks \in Nat /\ Tolerance \in Nat
<1>1. /\ Segments \in Nat /\ 0 < Segments /\ StepTicks \in Nat /\ 0 < StepTicks
      /\ MaxDepth \in Nat /\ MinTicks \in Nat /\ Tolerance \in Nat /\ StepTicks % 6 = 0
    BY IntegrationAssumption
<1>2. Ephemeris!Sixth \in Nat /\ StepTicks = 6 * Ephemeris!Sixth
    BY <1>1 DEF Ephemeris!Sixth
<1>3. Ephemeris!Coverage \in Nat BY <1>1 DEF Ephemeris!Coverage
<1> QED BY <1>1, <1>2, <1>3

LEMMA UnitParts ==
    /\ Unit \in Nat
    /\ Parts(Unit) \in [0 .. MaxDepth -> 0 .. Unit]
    /\ Parts(Unit)[0] = Unit
    /\ \A d \in 1 .. MaxDepth :
        Parts(Unit)[d - 1] > MinTicks => Parts(Unit)[d - 1] = 2 * Parts(Unit)[d]
<1>1. Unit \in Nat /\ HalvesExactly(Unit)
    BY Grid, HalvingAssumption DEF Unit, Ephemeris!Sixth
<1>2. \E part \in [0 .. MaxDepth -> 0 .. Unit] :
        /\ part[0] = Unit
        /\ \A d \in 1 .. MaxDepth : part[d - 1] > MinTicks => part[d - 1] = 2 * part[d]
    BY <1>1 DEF HalvesExactly
<1> QED BY <1>1, <1>2 DEF Parts

\* The times at which the calls of step() end.
LEMMA Ends ==
    /\ \A k \in 0 .. Segments : EndOf("coarse", k, 0) \in Nat
    /\ \A k \in 0 .. Segments, c \in 1 .. 6 : EndOf("fine", k, c) \in Nat
    /\ \A k \in 0 .. Segments - 1 :
        /\ EndOf("coarse", k, 0) = (k + 1) * StepTicks
        /\ EndOf("coarse", k + 1, 0) =
            IF k + 1 < Segments THEN (k + 1) * StepTicks + StepTicks ELSE (k + 1) * StepTicks
    /\ \A k \in 0 .. Segments - 1, c \in 1 .. 6 :
        EndOf("fine", k, c) = k * StepTicks + c * Ephemeris!Sixth
<1> DEFINE S == Ephemeris!Sixth
<1>1. /\ Segments \in Nat /\ StepTicks \in Nat /\ S \in Nat /\ StepTicks = 6 * S
      /\ Ephemeris!Coverage \in Nat /\ Ephemeris!Coverage = Segments * StepTicks
    BY Grid DEF Ephemeris!Coverage
<1> HIDE DEF S
<1>2. ASSUME NEW k \in 0 .. Segments - 1, NEW c \in 1 .. 6
      PROVE (6 * k + c - 1) * S + S = k * StepTicks + c * S
    <2>1. k \in Int /\ c \in Int BY <1>1
    <2>2. (6 * k + c - 1) * S + S = (6 * k + c) * S BY <1>1, <2>1
    <2>3. (6 * k + c) * S = k * (6 * S) + c * S BY <1>1, <2>1
    <2> QED BY <1>1, <2>2, <2>3
<1>3. ASSUME NEW k \in 0 .. Segments - 1, NEW c \in 1 .. 6
      PROVE /\ EndOf("fine", k, c) = k * StepTicks + c * S
            /\ k * StepTicks + c * S \in Nat
    <2>1. k # Segments /\ k \in Nat /\ c \in Nat BY <1>1
    <2>2. EndOf("fine", k, c) = (6 * k + c - 1) * S + S BY <2>1 DEF EndOf, S
    <2>3. k * StepTicks \in Nat /\ c * S \in Nat BY <1>1, <2>1
    <2> QED BY <1>2, <2>2, <2>3
<1>4. ASSUME NEW k \in 0 .. Segments - 1
      PROVE /\ EndOf("coarse", k, 0) = (k + 1) * StepTicks
            /\ (k + 1) * StepTicks \in Nat
            /\ EndOf("coarse", k + 1, 0) =
                IF k + 1 < Segments THEN (k + 1) * StepTicks + StepTicks ELSE (k + 1) * StepTicks
    <2>1. k # Segments /\ k \in Nat BY <1>1
    <2>2. k * StepTicks + StepTicks = (k + 1) * StepTicks /\ (k + 1) * StepTicks \in Nat BY <1>1, <2>1
    <2>3. EndOf("coarse", k, 0) = (k + 1) * StepTicks BY <2>1, <2>2 DEF EndOf
    <2>4. CASE k + 1 < Segments BY <1>1, <2>1, <2>4 DEF EndOf
    <2>5. CASE ~(k + 1 < Segments)
        <3>1. k + 1 = Segments BY <1>1, <2>1, <2>5
        <3> QED BY <1>1, <2>5, <3>1 DEF EndOf
    <2> QED BY <2>2, <2>3, <2>4, <2>5
<1>5. \A p, c : EndOf(p, Segments, c) \in Nat BY <1>1 DEF EndOf
<1>6. ASSUME NEW k \in 0 .. Segments PROVE k = Segments \/ k \in 0 .. Segments - 1
    BY <1>1
<1>7. \A k \in 0 .. Segments : EndOf("coarse", k, 0) \in Nat
    BY <1>4, <1>5, <1>6
<1>8. \A k \in 0 .. Segments, c \in 1 .. 6 : EndOf("fine", k, c) \in Nat
    BY <1>3, <1>5, <1>6
<1> QED BY <1>3, <1>4, <1>7, <1>8 DEF S

LEMMA JoinedTail ==
    ASSUME NEW w \in Seq(Pieces), w # <<>>, NEW from \in Nat, NEW to \in Nat, Joined(w, from, to)
    PROVE /\ Head(w) \in Pieces /\ Head(w) = w[1] /\ Head(w).at = from
          /\ Tail(w) \in Seq(Pieces) /\ Len(Tail(w)) = Len(w) - 1 /\ Len(w) \in Nat
          /\ \A i \in 1 .. Len(Tail(w)) : Tail(w)[i] = w[i + 1] /\ i + 1 \in 1 .. Len(w)
          /\ 1 \in 1 .. Len(w)
          /\ Joined(Tail(w), from + Head(w).ticks, to)
<1>1. /\ Len(w) \in Nat /\ 1 <= Len(w) /\ Head(w) = w[1] /\ Head(w) \in Pieces
      /\ Tail(w) \in Seq(Pieces) /\ Len(Tail(w)) = Len(w) - 1
      /\ \A i \in 1 .. Len(Tail(w)) : Tail(w)[i] = w[i + 1]
    BY HeadTailProperties, EmptySeq, ElementOfSeq
<1>2. /\ w[1].at = from /\ w[Len(w)].at + w[Len(w)].ticks = to
      /\ \A i \in 1 .. Len(w) - 1 : w[i + 1].at = w[i].at + w[i].ticks
    BY DEF Joined
<1>3. Joined(Tail(w), from + Head(w).ticks, to)
    <2>1. CASE Len(w) = 1
        <3>1. Len(Tail(w)) = 0 BY <1>1, <2>1
        <3>2. Tail(w) = <<>> BY <1>1, <3>1, EmptySeq
        <3> QED BY <1>1, <1>2, <2>1, <3>2 DEF Joined
    <2>2. CASE 1 < Len(w)
        <3>1. Tail(w) # <<>> /\ 1 \in 1 .. Len(Tail(w)) /\ Len(Tail(w)) \in 1 .. Len(Tail(w))
            BY <1>1, <2>2
        <3>2. Tail(w)[1] = w[1 + 1] /\ w[1 + 1].at = w[1].at + w[1].ticks
            <4>1. 1 \in 1 .. Len(w) - 1 BY <1>1, <2>2
            <4>2. w[1 + 1].at = w[1].at + w[1].ticks BY <1>2, <4>1
            <4>3. Tail(w)[1] = w[1 + 1] BY <1>1, <3>1
            <4> QED BY <4>2, <4>3
        <3>3. Tail(w)[Len(Tail(w))] = w[Len(w)]
            <4>1. Len(Tail(w)) + 1 = Len(w) BY <1>1
            <4> QED BY <1>1, <3>1, <4>1
        <3>4. ASSUME NEW i \in 1 .. Len(Tail(w)) - 1
              PROVE Tail(w)[i + 1].at = Tail(w)[i].at + Tail(w)[i].ticks
            <4>1. i \in 1 .. Len(Tail(w)) /\ i + 1 \in 1 .. Len(Tail(w)) /\ i + 1 \in 1 .. Len(w) - 1
                BY <1>1
            <4>2. Tail(w)[i] = w[i + 1] /\ Tail(w)[i + 1] = w[i + 1 + 1] BY <1>1, <4>1
            <4> QED BY <1>2, <4>1, <4>2
        <3> QED BY <1>1, <1>2, <3>1, <3>2, <3>3, <3>4 DEF Joined
    <2> QED BY <1>1, <2>1, <2>2
<1>4. \A i \in 1 .. Len(Tail(w)) : i + 1 \in 1 .. Len(w) BY <1>1
<1> QED BY <1>1, <1>2, <1>3, <1>4

\* An interval put before the others.
LEMMA JoinedFront ==
    ASSUME NEW w \in Seq(Pieces), NEW first \in Pieces, NEW to \in Nat,
           Joined(w, first.at + first.ticks, to)
    PROVE /\ <<first>> \o w \in Seq(Pieces)
          /\ Len(<<first>> \o w) = Len(w) + 1 /\ Len(w) \in Nat
          /\ (<<first>> \o w)[1] = first
          /\ \A i \in 1 .. Len(w) : (<<first>> \o w)[i + 1] = w[i]
          /\ Joined(<<first>> \o w, first.at, to)
<1> DEFINE v == <<first>> \o w
<1>1. /\ v \in Seq(Pieces) /\ Len(v) = Len(w) + 1 /\ Len(w) \in Nat
      /\ v[1] = first /\ \A i \in 1 .. Len(w) : v[i + 1] = w[i]
    OBVIOUS
<1> HIDE DEF v
<1>2. v # <<>> BY <1>1
<1>3. CASE w = <<>>
    <2>1. Len(w) = 0 /\ first.at + first.ticks = to BY <1>3 DEF Joined
    <2>2. Len(v) = 1 BY <1>1, <2>1
    <2> QED BY <1>1, <1>2, <2>1, <2>2 DEF Joined, v
<1>4. CASE w # <<>>
    <2>1. /\ w[1].at = first.at + first.ticks /\ w[Len(w)].at + w[Len(w)].ticks = to
          /\ \A i \in 1 .. Len(w) - 1 : w[i + 1].at = w[i].at + w[i].ticks
        BY <1>4 DEF Joined
    <2>2. 1 <= Len(w) BY <1>1, <1>4, EmptySeq
    <2>3. v[Len(v)] = w[Len(w)] BY <1>1, <2>2
    <2>4. ASSUME NEW i \in 1 .. Len(v) - 1 PROVE v[i + 1].at = v[i].at + v[i].ticks
        <3>1. CASE i = 1
            <4>1. v[1 + 1] = w[1] BY <1>1, <2>2
            <4> QED BY <1>1, <2>1, <3>1, <4>1
        <3>2. CASE i # 1
            <4>1. i - 1 \in 1 .. Len(w) - 1 /\ i - 1 \in 1 .. Len(w) /\ i \in 1 .. Len(w)
                BY <1>1, <3>2
            <4>2. v[i + 1] = w[i] BY <1>1, <4>1
            <4>3. v[i - 1 + 1] = w[i - 1] /\ i - 1 + 1 = i BY <1>1, <4>1
            <4>4. w[i - 1 + 1].at = w[i - 1].at + w[i - 1].ticks BY <2>1, <4>1
            <4> QED BY <4>2, <4>3, <4>4
        <3> QED BY <3>1, <3>2
    <2> QED BY <1>1, <1>2, <2>1, <2>3, <2>4 DEF Joined, v
<1> QED BY <1>1, <1>3, <1>4 DEF v

LEMMA WholeJoined ==
    ASSUME NEW at \in Nat, NEW ticks \in Nat, Parts(ticks)[0] = ticks
    PROVE /\ Ephemeris!Whole(at, ticks) \in Seq(Pieces)
          /\ Joined(Ephemeris!Whole(at, ticks), at, at + ticks)
          /\ \A i \in 1 .. Len(Ephemeris!Whole(at, ticks)) :
                Ephemeris!Whole(at, ticks)[i].ticks = Parts(ticks)[Ephemeris!Whole(at, ticks)[i].depth]
<1> DEFINE one == [at |-> at, ticks |-> ticks, depth |-> 0]
           w == Ephemeris!Whole(at, ticks)
<1>1. one \in Pieces BY Grid DEF Pieces
<1>2. w = <<one>> BY DEF Ephemeris!Whole
<1>3. one.at = at /\ one.ticks = ticks /\ one.depth = 0 OBVIOUS
<1> HIDE DEF one, w
<1>4. w \in Seq(Pieces) /\ Len(w) = 1 /\ w[1] = one /\ w # <<>> BY <1>1, <1>2
<1>5. Joined(w, at, at + ticks) BY <1>3, <1>4 DEF Joined
<1>6. \A i \in 1 .. Len(w) : w[i].ticks = Parts(ticks)[w[i].depth]
    <2>1. \A i \in 1 .. Len(w) : i = 1 BY <1>4
    <2> QED BY <1>3, <1>4, <2>1
<1> QED BY <1>4, <1>5, <1>6 DEF w

-----------------------------------------------------------------------------
LEMMA CalledFacts ==
    ASSUME CallTypeOK
    PROVE Upto \in Nat /\ now \in Nat /\ segment \in Nat /\ segment <= Segments
<1>1. /\ pass \in {"coarse", "fine"} /\ now \in Nat /\ segment \in 0 .. Segments
      /\ sub \in IF pass = "coarse" THEN {0} ELSE 1 .. 6
    BY DEF CallTypeOK, Ephemeris!Passes
<1>2. CASE pass = "coarse"
    <2>1. sub = 0 BY <1>1, <1>2
    <2> QED BY <1>1, <1>2, <2>1, Ends, Grid DEF Upto
<1>3. CASE pass = "fine"
    <2>1. sub \in 1 .. 6 BY <1>1, <1>3
    <2> QED BY <1>1, <1>3, <2>1, Ends, Grid DEF Upto
<1> QED BY <1>1, <1>2, <1>3

LEMMA InitCalled == Ephemeris!Init => Called
<1> SUFFICES ASSUME Ephemeris!Init PROVE Called
    OBVIOUS
<1>1. /\ pass = "coarse" /\ work = Ephemeris!Whole(0, StepTicks) /\ now = 0 /\ segment = 0
      /\ sub = 0 /\ samples = <<0>> /\ fits = {} /\ measured = 0
      /\ certified = [p \in Ephemeris!Passes |-> {}]
      /\ returned = IF 0 \in contact["coarse"] THEN [verdict |-> "collision", at |-> 0]
                    ELSE Ephemeris!Running
    BY DEF Ephemeris!Init
<1>2. Unit = StepTicks BY <1>1 DEF Unit
<1>3. Parts(StepTicks)[0] = StepTicks BY <1>2, UnitParts
<1>4. Upto = StepTicks /\ 0 + StepTicks = StepTicks
    <2>1. 0 \in 0 .. Segments - 1 BY Grid
    <2>2. EndOf("coarse", 0, 0) = (0 + 1) * StepTicks BY <2>1, Ends
    <2>3. (0 + 1) * StepTicks = StepTicks /\ 0 + StepTicks = StepTicks BY Grid
    <2> QED BY <1>1, <2>2, <2>3 DEF Upto
<1>5. CallTypeOK
    <2>1. work \in Seq(Pieces) BY <1>1, <1>3, WholeJoined, Grid
    <2>2. pass \in Ephemeris!Passes BY <1>1 DEF Ephemeris!Passes
    <2>3. segment \in 0 .. Segments BY <1>1, Grid
    <2> QED BY <1>1, <2>1, <2>2, <2>3 DEF CallTypeOK
<1>6. Remaining
    <2> DEFINE w == Ephemeris!Whole(0, StepTicks)
    <2>1. /\ Joined(w, 0, 0 + StepTicks)
          /\ \A i \in 1 .. Len(w) : w[i].ticks = Parts(StepTicks)[w[i].depth]
        BY <1>3, WholeJoined, Grid
    <2>2. work = w BY <1>1
    <2> HIDE DEF w
    <2>3. Joined(work, now, Upto) BY <1>1, <1>4, <2>1, <2>2
    <2>4. \A i \in 1 .. Len(work) : work[i].ticks = Parts(Unit)[work[i].depth]
        BY <1>2, <2>1, <2>2
    <2> QED BY <2>3, <2>4 DEF Remaining
<1>7. Crossings
    <2>1. certified[pass] = {} /\ certified["fine"] = {} BY <1>1 DEF Ephemeris!Passes
    <2>2. now - 1 = -1 /\ 0 .. -1 = {} BY <1>1
    <2> QED BY <1>1, <2>1, <2>2 DEF Crossings
<1>8. Samples
    <2>1. (1 - 1) * StepTicks = 0 /\ 0 + 1 = 1 BY Grid
    <2>2. \A k \in 1 .. 1 : k = 1 OBVIOUS
    <2>3. [k \in 1 .. 1 |-> (k - 1) * StepTicks] = [k \in 1 .. 1 |-> 0]
        BY <2>1, <2>2
    <2>4. <<0>> = [k \in 1 .. 1 |-> 0] BY <2>2
    <2> QED BY <1>1, <2>1, <2>3, <2>4 DEF Samples
<1>9. Fits /\ Greatest
    BY <1>1 DEF Fits, Greatest, Past
<1>10. OutcomeIsTrue
    BY <1>1 DEF OutcomeIsTrue, Ephemeris!OutcomeIsTrue, Ephemeris!Running
<1> QED BY <1>5, <1>6, <1>7, <1>8, <1>9, <1>10 DEF Called

LEMMA AdvanceCalled ==
    ASSUME Called, Ephemeris!Advance
    PROVE Called'
<1>1. /\ work # <<>> /\ returned = Ephemeris!Running
      /\ now' = now + Head(work).ticks /\ work' = Tail(work)
      /\ certified' = [certified EXCEPT ![pass] = @ \cup Ephemeris!Ticks([Head(work) EXCEPT !.at = now])]
      /\ UNCHANGED <<contact, pass, segment, sub, samples, splits, fits, measured, returned>>
    BY DEF Ephemeris!Advance, Ephemeris!Stepping, Ephemeris!Interval
<1>2. CallTypeOK /\ Remaining /\ Crossings /\ Samples /\ Fits /\ Greatest
    BY DEF Called
<1>3. Upto \in Nat /\ now \in Nat /\ work \in Seq(Pieces) /\ Upto' = Upto /\ Unit' = Unit
    BY <1>1, <1>2, CalledFacts DEF CallTypeOK, Upto, Unit
<1>4. /\ Head(work) \in Pieces /\ Tail(work) \in Seq(Pieces)
      /\ Head(work).at = now
      /\ \A i \in 1 .. Len(Tail(work)) : Tail(work)[i] = work[i + 1] /\ i + 1 \in 1 .. Len(work)
      /\ Joined(Tail(work), now + Head(work).ticks, Upto)
    BY <1>1, <1>2, <1>3, JoinedTail DEF Remaining
<1>5. PICK n \in Nat : n = Head(work).ticks BY <1>4 DEF Pieces
<1>6. now + n \in Nat BY <1>3, <1>5
<1>7. Ephemeris!Ticks([Head(work) EXCEPT !.at = now]) = now .. now + n - 1
    <2>1. [Head(work) EXCEPT !.at = now] = Head(work)
        BY <1>4 DEF Pieces
    <2> QED BY <1>4, <1>5, <2>1 DEF Ephemeris!Ticks
<1>8. (0 .. now - 1) \cup (now .. now + n - 1) = 0 .. now + n - 1
    BY <1>3, <1>5
<1>9. certified'[pass] = 0 .. now + n - 1 /\ \A p \in Ephemeris!Passes : p # pass => certified'[p] = certified[p]
    <2>1. certified[pass] = 0 .. now - 1 /\ certified \in [Ephemeris!Passes -> SUBSET Nat] /\ pass \in Ephemeris!Passes
        BY <1>2 DEF Crossings, CallTypeOK
    <2>2. certified'[pass] = (0 .. now - 1) \cup (now .. now + n - 1)
        BY <1>1, <1>7, <2>1
    <2> QED BY <1>1, <1>8, <2>1, <2>2
<1>10. CallTypeOK'
    <2>1. certified' \in [Ephemeris!Passes -> SUBSET Nat]
        <3>1. 0 .. now + n - 1 \subseteq Nat OBVIOUS
        <3>2. DOMAIN certified' = Ephemeris!Passes /\ certified' = [p \in Ephemeris!Passes |-> certified'[p]]
            BY <1>1, <1>2 DEF CallTypeOK
        <3>3. \A p \in Ephemeris!Passes : certified'[p] \in SUBSET Nat
            BY <1>2, <1>9, <3>1 DEF CallTypeOK
        <3> QED BY <3>2, <3>3
    <2>2. now' \in Nat BY <1>1, <1>5, <1>6
    <2> QED BY <1>1, <1>2, <1>4, <2>1, <2>2 DEF CallTypeOK
<1>11. Remaining'
    <2>1. Joined(work, now, Upto)' BY <1>1, <1>3, <1>4
    <2>2. \A i \in 1 .. Len(Tail(work)) : Tail(work)[i].ticks = Parts(Unit)[Tail(work)[i].depth]
        BY <1>2, <1>4 DEF Remaining
    <2> QED BY <1>1, <1>3, <2>1, <2>2 DEF Remaining
<1>12. Crossings'
    <2>1. certified'[pass'] = 0 .. now' - 1
        <3>1. pass' = pass /\ certified'[pass] = 0 .. now + n - 1 BY <1>1, <1>9
        <3>2. PICK m \in Nat : m = now + n BY <1>6
        <3>3. now' = m /\ m - 1 = now + n - 1 BY <1>1, <1>3, <1>5, <3>2
        <3> QED BY <3>1, <3>3
    <2>2. pass = "fine" => certified'["coarse"] = certified["coarse"]
        BY <1>9 DEF Ephemeris!Passes
    <2> QED BY <1>1, <1>2, <2>1, <2>2 DEF Crossings
<1>13. Samples' /\ Fits' /\ Greatest'
    BY <1>1, <1>2 DEF Samples, Fits, Greatest, Past
<1>14. OutcomeIsTrue'
    BY <1>1 DEF OutcomeIsTrue, Ephemeris!OutcomeIsTrue, Ephemeris!Running
<1> QED BY <1>10, <1>11, <1>12, <1>13, <1>14 DEF Called

LEMMA SplitCalled ==
    ASSUME Called, Ephemeris!Split
    PROVE Called'
<1>1. /\ work # <<>> /\ returned = Ephemeris!Running
      /\ ~(Head(work).depth >= MaxDepth \/ Head(work).ticks <= MinTicks)
      /\ work' = Ephemeris!Halves(Head(work)) \o Tail(work)
      /\ UNCHANGED <<contact, pass, now, segment, sub, samples, fits, measured, certified, returned>>
    BY DEF Ephemeris!Split, Ephemeris!Stepping, Ephemeris!Interval, Ephemeris!Exhausted
<1>2. CallTypeOK /\ Remaining /\ Crossings /\ Samples /\ Fits /\ Greatest
    BY DEF Called
<1>3. Upto \in Nat /\ now \in Nat /\ work \in Seq(Pieces) /\ Upto' = Upto /\ Unit' = Unit
    BY <1>1, <1>2, CalledFacts DEF CallTypeOK, Upto, Unit
<1>4. /\ Head(work) \in Pieces /\ Tail(work) \in Seq(Pieces) /\ Head(work) = work[1]
      /\ Head(work).at = now /\ 1 \in 1 .. Len(work)
      /\ \A i \in 1 .. Len(Tail(work)) : Tail(work)[i] = work[i + 1] /\ i + 1 \in 1 .. Len(work)
      /\ Joined(Tail(work), now + Head(work).ticks, Upto)
    BY <1>1, <1>2, <1>3, JoinedTail DEF Remaining
<1>5. PICK n \in Nat, d \in 0 .. MaxDepth : n = Head(work).ticks /\ d = Head(work).depth
    BY <1>4 DEF Pieces
<1>6. d < MaxDepth /\ MinTicks < n /\ d + 1 \in 1 .. MaxDepth /\ d + 1 \in 0 .. MaxDepth
    BY <1>1, <1>5, Grid
<1>7. PICK part \in Nat : part = Parts(Unit)[d + 1] /\ n = 2 * part
    <2>1. n = Parts(Unit)[d] BY <1>2, <1>4, <1>5 DEF Remaining
    <2>2. Parts(Unit)[d + 1] \in Nat BY <1>6, UnitParts
    <2>3. d + 1 - 1 = d BY <1>5
    <2>4. Parts(Unit)[d + 1 - 1] = 2 * Parts(Unit)[d + 1] BY <1>6, <2>1, <2>3, UnitParts
    <2> QED BY <2>1, <2>2, <2>3, <2>4
<1> DEFINE left == [at |-> now, ticks |-> part, depth |-> d + 1]
           right == [at |-> now + part, ticks |-> part, depth |-> d + 1]
           rest == <<right>> \o Tail(work)
           both == <<left>> \o rest
<1>8. left \in Pieces /\ right \in Pieces
    BY <1>3, <1>6, <1>7 DEF Pieces
<1>9. work' = both
    <2>1. n \div 2 = part BY <1>7
    <2>2. Ephemeris!Halves(Head(work)) = <<left, right>>
        BY <1>4, <1>5, <2>1 DEF Ephemeris!Halves
    <2>3. <<left, right>> \o Tail(work) = <<left>> \o (<<right>> \o Tail(work))
        <3>1. <<left, right>> = <<left>> \o <<right>> OBVIOUS
        <3>2. <<left>> \in Seq(Pieces) /\ <<right>> \in Seq(Pieces) BY <1>8
        <3> HIDE DEF left, right
        <3> QED BY <1>4, <3>1, <3>2, ConcatAssociative
    <2> QED BY <1>1, <2>2, <2>3
<1>10. /\ left.at = now /\ left.ticks = part /\ left.depth = d + 1
       /\ right.at = now + part /\ right.ticks = part /\ right.depth = d + 1
       /\ right.at + right.ticks = now + n /\ left.at + left.ticks = now + part
    BY <1>3, <1>7
<1> HIDE DEF left, right, rest, both
<1>11. /\ rest \in Seq(Pieces) /\ Len(rest) = Len(Tail(work)) + 1 /\ Len(Tail(work)) \in Nat
       /\ rest[1] = right /\ \A i \in 1 .. Len(Tail(work)) : rest[i + 1] = Tail(work)[i]
       /\ Joined(rest, now + part, Upto)
    <2>1. Joined(Tail(work), right.at + right.ticks, Upto) BY <1>4, <1>5, <1>10
    <2>2. /\ <<right>> \o Tail(work) \in Seq(Pieces)
          /\ Len(<<right>> \o Tail(work)) = Len(Tail(work)) + 1 /\ Len(Tail(work)) \in Nat
          /\ (<<right>> \o Tail(work))[1] = right
          /\ \A i \in 1 .. Len(Tail(work)) : (<<right>> \o Tail(work))[i + 1] = Tail(work)[i]
          /\ Joined(<<right>> \o Tail(work), right.at, Upto)
        BY <1>3, <1>4, <1>8, <2>1, JoinedFront
    <2> QED BY <1>10, <2>2 DEF rest
<1>12. /\ both \in Seq(Pieces) /\ Len(both) = Len(rest) + 1 /\ Len(rest) \in Nat
       /\ both[1] = left /\ \A i \in 1 .. Len(rest) : both[i + 1] = rest[i]
       /\ Joined(both, now, Upto)
    <2>1. Joined(rest, left.at + left.ticks, Upto) BY <1>10, <1>11
    <2> QED BY <1>3, <1>8, <1>10, <1>11, <2>1, JoinedFront DEF both
<1>13. ASSUME NEW i \in 1 .. Len(both) PROVE both[i].ticks = Parts(Unit)[both[i].depth]
    <2>1. CASE i = 1 BY <1>7, <1>10, <1>12, <2>1
    <2>2. CASE i = 2
        <3>1. 1 \in 1 .. Len(rest) /\ 1 + 1 = 2 BY <1>11
        <3>2. both[2] = right BY <1>11, <1>12, <3>1
        <3> QED BY <1>7, <1>10, <2>2, <3>2
    <2>3. CASE i # 1 /\ i # 2
        <3>1. /\ i - 2 \in 1 .. Len(Tail(work)) /\ i - 1 \in 1 .. Len(rest)
              /\ i - 1 + 1 = i /\ i - 2 + 1 = i - 1
            <4>1. PICK k \in Nat : k = Len(Tail(work)) BY <1>11
            <4>2. Len(rest) = k + 1 /\ Len(both) = k + 1 + 1 BY <1>11, <1>12, <4>1
            <4>3. i \in 1 .. k + 2 BY <4>1, <4>2
            <4>4. /\ i - 2 \in 1 .. k /\ i - 1 \in 1 .. k + 1
                  /\ i - 1 + 1 = i /\ i - 2 + 1 = i - 1
                BY <2>3, <4>1, <4>3
            <4> QED BY <4>1, <4>2, <4>4
        <3>2. both[i] = Tail(work)[i - 2] BY <1>11, <1>12, <3>1
        <3>3. Tail(work)[i - 2] = work[i - 1] /\ i - 1 \in 1 .. Len(work) BY <1>4, <3>1
        <3> QED BY <1>2, <3>2, <3>3 DEF Remaining
    <2> QED BY <2>1, <2>2, <2>3
<1>14. CallTypeOK'
    BY <1>1, <1>2, <1>9, <1>12 DEF CallTypeOK
<1>15. Remaining'
    BY <1>1, <1>3, <1>9, <1>12, <1>13 DEF Remaining
<1>16. Crossings' /\ Samples' /\ Fits' /\ Greatest'
    BY <1>1, <1>2 DEF Crossings, Samples, Fits, Greatest, Past
<1>17. OutcomeIsTrue'
    BY <1>1 DEF OutcomeIsTrue, Ephemeris!OutcomeIsTrue, Ephemeris!Running
<1> QED BY <1>14, <1>15, <1>16, <1>17 DEF Called

\* An action that only decides the outcome.
LEMMA StopCalled ==
    ASSUME Called, UNCHANGED <<contact, pass, work, now, segment, sub, samples, splits, fits, measured, certified>>,
           OutcomeIsTrue'
    PROVE Called'
<1>1. CallTypeOK' BY DEF Called, CallTypeOK
<1>2. Remaining' BY DEF Called, Remaining, Upto, Unit
<1>3. Crossings' /\ Samples' BY DEF Called, Crossings, Samples
<1>4. Fits' /\ Greatest' BY DEF Called, Fits, Greatest, Past
<1> QED BY <1>1, <1>2, <1>3, <1>4 DEF Called

LEMMA GiveUpCalled ==
    ASSUME Called, Ephemeris!GiveUp \/ Ephemeris!NotFinite
    PROVE Called'
<1>1. CASE Ephemeris!GiveUp
    <2>1. /\ work # <<>>
          /\ \/ \E first \in 0 .. Head(work).ticks :
                /\ now + first \in contact[pass]
                /\ returned' = [verdict |-> "collision", at |-> Head(work).at + first]
             \/ returned' = [verdict |-> "unresolved", at |-> Head(work).at]
          /\ UNCHANGED <<contact, pass, work, now, segment, sub, samples, splits, fits, measured, certified>>
        BY <1>1 DEF Ephemeris!GiveUp, Ephemeris!Stepping, Ephemeris!Interval, Ephemeris!Stop
    <2>2. Head(work).at = now
        BY <2>1, CalledFacts, JoinedTail DEF Called, Remaining, CallTypeOK
    <2>3. OutcomeIsTrue' BY <2>1, <2>2 DEF OutcomeIsTrue, Ephemeris!OutcomeIsTrue
    <2> QED BY <2>1, <2>3, StopCalled
<1>2. CASE Ephemeris!NotFinite
    <2>1. OutcomeIsTrue'
        BY <1>2 DEF Ephemeris!NotFinite, Ephemeris!Stop, OutcomeIsTrue, Ephemeris!OutcomeIsTrue
    <2> QED BY <1>2, <2>1, StopCalled DEF Ephemeris!NotFinite
<1> QED BY <1>1, <1>2

LEMMA SampleCalled ==
    ASSUME Called, Ephemeris!Sample
    PROVE Called'
<1>1. /\ work = <<>> /\ returned = Ephemeris!Running
      /\ pass = "coarse" /\ segment < Segments
      /\ samples' = Append(samples, now) /\ segment' = segment + 1
      /\ work' = IF segment + 1 < Segments
                 THEN Ephemeris!Whole((segment + 1) * StepTicks, StepTicks) ELSE <<>>
      /\ UNCHANGED <<contact, pass, now, sub, splits, fits, measured, certified, returned>>
    BY DEF Ephemeris!Sample, Ephemeris!Crossed
<1>2. CallTypeOK /\ Remaining /\ Crossings /\ Samples /\ Fits /\ Greatest
    BY DEF Called
<1>3. PICK k \in 0 .. Segments - 1 : k = segment
    BY <1>1, <1>2, Grid, CalledFacts
<1>4. PICK end \in Nat : end = (k + 1) * StepTicks
    <2>1. k + 1 \in Nat BY <1>3, Grid
    <2> QED BY <2>1, Grid
<1>5. now = end
    <2>1. sub = 0 BY <1>1, <1>2 DEF CallTypeOK
    <2>2. Upto = EndOf("coarse", k, 0) BY <1>1, <1>3, <2>1 DEF Upto
    <2>3. Joined(<<>>, now, Upto) BY <1>1, <1>2 DEF Remaining
    <2>4. now = Upto BY <2>3 DEF Joined
    <2> QED BY <1>4, <2>2, <2>4, Ends
<1>6. Upto' = (IF k + 1 < Segments THEN end + StepTicks ELSE end) /\ Unit' = Unit /\ Unit = StepTicks
    <2>1. sub' = 0 /\ pass' = "coarse" /\ segment' = k + 1 BY <1>1, <1>2, <1>3 DEF CallTypeOK
    <2>2. Upto' = EndOf("coarse", k + 1, 0) BY <2>1 DEF Upto
    <2> QED BY <1>1, <1>4, <2>1, <2>2, Ends DEF Unit
<1>7. Parts(StepTicks)[0] = StepTicks BY <1>6, UnitParts
<1> DEFINE w == Ephemeris!Whole(end, StepTicks)
<1>8. /\ w \in Seq(Pieces) /\ Joined(w, end, end + StepTicks)
      /\ \A i \in 1 .. Len(w) : w[i].ticks = Parts(StepTicks)[w[i].depth]
    BY <1>7, WholeJoined, Grid
<1>9. work' = IF k + 1 < Segments THEN w ELSE <<>> BY <1>1, <1>3, <1>4
<1> HIDE DEF w
<1>10. CallTypeOK'
    <2>1. work' \in Seq(Pieces) BY <1>8, <1>9
    <2>2. k + 1 \in 0 .. Segments BY <1>3, Grid
    <2>3. segment' \in 0 .. Segments BY <1>1, <1>3, <2>2
    <2> QED BY <1>1, <1>2, <2>1, <2>3 DEF CallTypeOK
<1>11. Remaining'
    <2>1. CASE k + 1 < Segments
        <3>1. work' = w /\ Upto' = end + StepTicks /\ now' = end BY <1>1, <1>5, <1>6, <1>9, <2>1
        <3> QED BY <1>6, <1>8, <3>1 DEF Remaining
    <2>2. CASE ~(k + 1 < Segments)
        <3>1. work' = <<>> /\ Upto' = end /\ now' = end BY <1>1, <1>5, <1>6, <1>9, <2>2
        <3>2. Joined(<<>>, end, end) BY DEF Joined
        <3>3. \A i \in 1 .. Len(<<>>) : FALSE
            <4>1. Len(<<>>) = 0 OBVIOUS
            <4> QED BY <4>1
        <3> QED BY <3>1, <3>2, <3>3 DEF Remaining
    <2> QED BY <2>1, <2>2
<1>12. Crossings' BY <1>1, <1>2 DEF Crossings
<1>13. Samples'
    <2>1. samples = [j \in 1 .. k + 1 |-> (j - 1) * StepTicks]
        BY <1>1, <1>2, <1>3 DEF Samples
    <2>2. \A j \in 1 .. k + 1 : (j - 1) * StepTicks \in Nat
        BY <1>3, Grid
    <2>3. samples \in Seq(Nat) /\ Len(samples) = k + 1
        BY <1>3, <2>1, <2>2, Grid
    <2>4. /\ Len(samples') = k + 2 /\ samples' \in Seq(Nat)
          /\ samples'[k + 2] = end /\ \A j \in 1 .. k + 1 : samples'[j] = samples[j]
        <3>1. /\ samples' \in Seq(Nat) /\ Len(samples') = Len(samples) + 1
              /\ samples'[Len(samples) + 1] = now
              /\ \A j \in 1 .. Len(samples) : samples'[j] = samples[j]
            BY <1>1, <1>2, <2>3, AppendProperties DEF CallTypeOK
        <3>2. k + 1 + 1 = k + 2 BY <1>3
        <3> QED BY <1>5, <2>3, <3>1, <3>2
    <2>5. samples' = [j \in 1 .. k + 2 |-> samples'[j]]
        BY <2>4
    <2>6. \A j \in 1 .. k + 2 : samples'[j] = (j - 1) * StepTicks
        <3> SUFFICES ASSUME NEW j \in 1 .. k + 2 PROVE samples'[j] = (j - 1) * StepTicks
            OBVIOUS
        <3>1. CASE j = k + 2
            <4>1. j - 1 = k + 1 BY <1>3, <3>1
            <4> QED BY <1>4, <2>4, <3>1, <4>1
        <3>2. CASE j # k + 2
            <4>1. j \in 1 .. k + 1 BY <1>3, <3>2
            <4> QED BY <2>1, <2>4, <4>1
        <3> QED BY <3>1, <3>2
    <2>7. pass' = "coarse" /\ segment' + 1 = k + 2
        <3>1. k + 1 + 1 = k + 2 /\ segment' = k + 1 BY <1>1, <1>3
        <3> QED BY <1>1, <3>1
    <2>8. samples' = [j \in 1 .. k + 2 |-> (j - 1) * StepTicks]
        BY <2>5, <2>6
    <2> QED BY <2>7, <2>8 DEF Samples
<1>14. Fits' /\ Greatest'
    BY <1>1, <1>2 DEF Fits, Greatest, Past
<1>15. OutcomeIsTrue'
    BY <1>1 DEF OutcomeIsTrue, Ephemeris!OutcomeIsTrue, Ephemeris!Running
<1> QED BY <1>10, <1>11, <1>12, <1>13, <1>14, <1>15 DEF Called

\* A pass that is over has reached the end.
LEMMA PassOver ==
    ASSUME Called, work = <<>>, segment = Segments
    PROVE now = Ephemeris!Coverage
<1>1. Upto = Ephemeris!Coverage BY DEF Upto, EndOf
<1> QED BY <1>1 DEF Called, Remaining, Joined

LEMMA StartReferenceCalled ==
    ASSUME Called, Ephemeris!StartReference
    PROVE Called'
<1>1. /\ work = <<>> /\ returned = Ephemeris!Running
      /\ pass = "coarse" /\ segment = Segments
      /\ pass' = "fine" /\ now' = 0 /\ segment' = 0 /\ sub' = 1
      /\ work' = Ephemeris!Whole(0, Ephemeris!Sixth)
      /\ UNCHANGED <<contact, samples, splits, fits, measured, certified, returned>>
    BY DEF Ephemeris!StartReference, Ephemeris!Crossed
<1>2. CallTypeOK /\ Remaining /\ Crossings /\ Samples /\ Fits /\ Greatest
    BY DEF Called
<1> DEFINE S == Ephemeris!Sixth
           w == Ephemeris!Whole(0, S)
<1>3. S \in Nat BY Grid
<1>4. Unit' = S /\ Parts(S)[0] = S
    <2>1. Unit' = S BY <1>1 DEF Unit
    <2>2. (Parts(Unit)[0] = Unit)' BY UnitParts, PTL
    <2> QED BY <2>1, <2>2
<1>5. Upto' = S
    <2>1. Upto' = EndOf("fine", 0, 1) BY <1>1 DEF Upto
    <2>2. 0 \in 0 .. Segments - 1 /\ 1 \in 1 .. 6 BY Grid
    <2>3. EndOf("fine", 0, 1) = 0 * StepTicks + 1 * S BY <2>2, Ends
    <2>4. 0 * StepTicks = 0 /\ 1 * S = S /\ 0 + S = S BY <1>3, Grid
    <2> QED BY <2>1, <2>3, <2>4
<1>6. /\ w \in Seq(Pieces) /\ Joined(w, 0, 0 + S)
      /\ \A i \in 1 .. Len(w) : w[i].ticks = Parts(S)[w[i].depth]
    BY <1>3, <1>4, WholeJoined
<1>7. 0 + S = S BY <1>3
<1>8. work' = w BY <1>1
<1> HIDE DEF S, w
<1>9. CallTypeOK'
    <2>1. pass' \in Ephemeris!Passes BY <1>1 DEF Ephemeris!Passes
    <2>2. segment' \in 0 .. Segments BY <1>1, Grid
    <2> QED BY <1>1, <1>2, <1>6, <1>8, <2>1, <2>2 DEF CallTypeOK
<1>10. Remaining'
    <2>1. Joined(work, now, Upto)' BY <1>1, <1>5, <1>6, <1>7, <1>8
    <2>2. \A i \in 1 .. Len(work') : work'[i].ticks = Parts(Unit')[work'[i].depth]
        BY <1>4, <1>6, <1>8
    <2> QED BY <2>1, <2>2 DEF Remaining
<1>11. Crossings'
    <2>1. certified["coarse"] = 0 .. Ephemeris!Coverage - 1
        BY <1>1, <1>2, PassOver DEF Crossings
    <2>2. certified["fine"] = {} BY <1>1, <1>2 DEF Crossings
    <2>3. 0 .. 0 - 1 = {} OBVIOUS
    <2>4. certified["fine"] = 0 .. now' - 1 BY <1>1, <2>2, <2>3
    <2> QED BY <1>1, <2>1, <2>4 DEF Crossings
<1>12. Samples' BY <1>1, <1>2 DEF Samples
<1>13. fits = {}
    BY <1>1, <1>2 DEF Fits, Past
<1>14. Fits'
    <2>1. ASSUME NEW k \in 0 .. Segments - 1, NEW c \in Ephemeris!Compared PROVE ~Past(k, c)'
        <3>1. ~(k < 0) /\ ~(c < 1) BY Grid DEF Ephemeris!Compared
        <3> QED BY <1>1, <3>1 DEF Past
    <2> QED BY <1>1, <1>13, <2>1 DEF Fits
<1>15. Greatest' BY <1>1, <1>2 DEF Greatest
<1>16. OutcomeIsTrue'
    BY <1>1 DEF OutcomeIsTrue, Ephemeris!OutcomeIsTrue, Ephemeris!Running
<1> QED BY <1>9, <1>10, <1>11, <1>12, <1>14, <1>15, <1>16 DEF Called

LEMMA CompareCalled ==
    ASSUME Called, Ephemeris!Compare
    PROVE Called'
<1>1. /\ work = <<>> /\ returned = Ephemeris!Running
      /\ pass = "fine" /\ segment < Segments
      /\ IF sub \in Ephemeris!Compared
         THEN \E error \in 0 .. Tolerance + 1 :
              /\ fits' = fits \cup {[segment |-> segment, sub |-> sub, at |-> now, error |-> error]}
              /\ measured' = Ephemeris!Larger(measured, error)
         ELSE UNCHANGED <<fits, measured>>
      /\ sub' = IF sub = 6 THEN 1 ELSE sub + 1
      /\ segment' = IF sub = 6 THEN segment + 1 ELSE segment
      /\ work' = IF segment' < Segments
                 THEN Ephemeris!Whole((6 * segment' + sub' - 1) * Ephemeris!Sixth, Ephemeris!Sixth)
                 ELSE <<>>
      /\ UNCHANGED <<contact, pass, now, samples, splits, certified, returned>>
    BY DEF Ephemeris!Compare, Ephemeris!Crossed
<1>2. CallTypeOK /\ Remaining /\ Crossings /\ Samples /\ Fits /\ Greatest
    BY DEF Called
<1> DEFINE S == Ephemeris!Sixth
<1>3. S \in Nat /\ StepTicks = 6 * S /\ StepTicks \in Nat /\ Segments \in Nat
    BY Grid
<1>4. PICK k \in 0 .. Segments - 1, c \in 1 .. 6 : k = segment /\ c = sub
    <2>1. segment \in 0 .. Segments - 1 BY <1>1, <1>2, Grid, CalledFacts
    <2> QED BY <1>1, <1>2, <2>1 DEF CallTypeOK
<1>5. now = k * StepTicks + c * S /\ now \in Nat
    <2>1. Upto = EndOf("fine", k, c) BY <1>1, <1>4 DEF Upto
    <2>2. Joined(<<>>, now, Upto) BY <1>1, <1>2 DEF Remaining
    <2>3. now = Upto BY <2>2 DEF Joined
    <2>4. EndOf("fine", k, c) = k * StepTicks + c * S BY Ends
    <2> QED BY <1>2, <2>1, <2>3, <2>4 DEF CallTypeOK
\* The sixth that comes next, and where it begins.
<1>6. PICK l \in 0 .. Segments, d \in 1 .. 6 :
        /\ l = segment' /\ d = sub'
        /\ (l = k /\ d = c + 1) \/ (l = k + 1 /\ c = 6 /\ d = 1)
    <2>1. CASE c = 6
        <3>1. k + 1 \in 0 .. Segments /\ 1 \in 1 .. 6 BY <1>3
        <3> QED BY <1>1, <1>4, <2>1, <3>1
    <2>2. CASE c # 6
        <3>1. k \in 0 .. Segments /\ c + 1 \in 1 .. 6 BY <1>3, <2>2
        <3> QED BY <1>1, <1>4, <2>2, <3>1
    <2> QED BY <2>1, <2>2
<1>7. 6 * l + d - 1 = 6 * k + c
    <2>1. (l = k /\ d = c + 1) \/ (l = k + 1 /\ c = 6 /\ d = 1) BY <1>6
    <2>2. k \in Int /\ c \in Int BY <1>3
    <2>3. CASE l = k /\ d = c + 1
        <3>1. 6 * k + (c + 1) - 1 = 6 * k + c BY <2>2
        <3> QED BY <2>3, <3>1
    <2>4. CASE l = k + 1 /\ c = 6 /\ d = 1
        <3>1. 6 * (k + 1) + 1 - 1 = 6 * k + 6 BY <2>2
        <3> QED BY <2>4, <3>1
    <2> QED BY <2>1, <2>3, <2>4
<1>8. (6 * k + c) * S = k * StepTicks + c * S
    <2>1. k \in Int /\ c \in Int BY <1>3
    <2>2. (6 * k + c) * S = k * (6 * S) + c * S BY <1>3, <2>1
    <2> QED BY <1>3, <2>2
<1> DEFINE w == Ephemeris!Whole(now, S)
<1>9. work' = IF l < Segments THEN w ELSE <<>>
    <2>1. (6 * l + d - 1) * S = now BY <1>5, <1>7, <1>8
    <2>2. work' = IF l < Segments THEN Ephemeris!Whole((6 * l + d - 1) * S, S) ELSE <<>>
        BY <1>1, <1>6
    <2> QED BY <2>1, <2>2
<1>10. Unit' = S /\ Unit = S /\ Parts(S)[0] = S
    BY <1>1, UnitParts DEF Unit
<1>11. /\ w \in Seq(Pieces) /\ Joined(w, now, now + S)
       /\ \A i \in 1 .. Len(w) : w[i].ticks = Parts(S)[w[i].depth]
    BY <1>3, <1>5, <1>10, WholeJoined
<1> HIDE DEF S, w
<1>12. Upto' = IF l < Segments THEN now + S ELSE now
    <2>1. Upto' = EndOf("fine", l, d) BY <1>1, <1>6 DEF Upto
    <2>2. CASE l < Segments
        <3>1. l # Segments BY <1>3, <2>2
        <3>2. EndOf("fine", l, d) = (6 * l + d - 1) * S + S
            BY <3>1 DEF EndOf, S
        <3>3. (6 * l + d - 1) * S = now BY <1>5, <1>7, <1>8
        <3> QED BY <2>1, <2>2, <3>2, <3>3
    <2>3. CASE ~(l < Segments)
        <3>1. l = Segments /\ c = 6 /\ Segments = k + 1 BY <1>3, <1>6, <2>3
        <3>2. EndOf("fine", l, d) = Segments * StepTicks BY <3>1 DEF EndOf, Ephemeris!Coverage
        <3>3. k * StepTicks + 6 * S = (k + 1) * StepTicks
            <4>1. k \in Int BY <1>3
            <4>2. k * StepTicks + StepTicks = (k + 1) * StepTicks BY <1>3, <4>1
            <4> QED BY <1>3, <4>2
        <3>4. now = Segments * StepTicks BY <1>5, <3>1, <3>3
        <3> QED BY <2>1, <2>3, <3>2, <3>4
    <2> QED BY <2>2, <2>3
<1>13. PICK found :
        /\ fits' = fits \cup found /\ measured' \in Nat
        /\ sub \notin Ephemeris!Compared => found = {}
        /\ sub \in Ephemeris!Compared => \E error \in 0 .. Tolerance + 1 :
            /\ found = {[segment |-> k, sub |-> c, at |-> now, error |-> error]}
            /\ measured' = Ephemeris!Larger(measured, error)
        /\ sub \notin Ephemeris!Compared => measured' = measured
    <2>1. measured \in Nat BY <1>2 DEF CallTypeOK
    <2>2. CASE sub \in Ephemeris!Compared
        <3>1. PICK error \in 0 .. Tolerance + 1 :
                /\ fits' = fits \cup {[segment |-> k, sub |-> c, at |-> now, error |-> error]}
                /\ measured' = Ephemeris!Larger(measured, error)
            BY <1>1, <1>4, <2>2
        <3>2. error \in Nat BY Grid
        <3>3. Ephemeris!Larger(measured, error) \in Nat BY <2>1, <3>2 DEF Ephemeris!Larger
        <3>4. measured' \in Nat BY <3>1, <3>3
        <3> WITNESS {[segment |-> k, sub |-> c, at |-> now, error |-> error]}
        <3> QED BY <2>2, <3>1, <3>4
    <2>3. CASE sub \notin Ephemeris!Compared
        <3>1. fits' = fits \cup {} /\ measured' = measured BY <1>1, <2>3
        <3> WITNESS {}
        <3> QED BY <2>1, <2>3, <3>1
    <2> QED BY <2>2, <2>3
<1>14. CallTypeOK'
    <2>1. found \in SUBSET Errors
        <3>1. CASE sub \in Ephemeris!Compared
            <4>1. PICK error \in 0 .. Tolerance + 1 :
                    found = {[segment |-> k, sub |-> c, at |-> now, error |-> error]}
                BY <1>13, <3>1
            <4>2. error \in Nat BY Grid
            <4> QED BY <1>4, <1>5, <3>1, <4>1, <4>2 DEF Errors
        <3>2. CASE sub \notin Ephemeris!Compared BY <1>13, <3>2
        <3> QED BY <3>1, <3>2
    <2>2. work' \in Seq(Pieces) BY <1>9, <1>11
    <2>3. fits' \in SUBSET Errors BY <1>2, <1>13, <2>1 DEF CallTypeOK
    <2> QED BY <1>1, <1>2, <1>6, <1>13, <2>2, <2>3 DEF CallTypeOK
<1>15. Remaining'
    <2>1. CASE l < Segments
        <3>1. work' = w /\ Upto' = now + S /\ now' = now BY <1>1, <1>9, <1>12, <2>1
        <3> QED BY <1>10, <1>11, <3>1 DEF Remaining
    <2>2. CASE ~(l < Segments)
        <3>1. work' = <<>> /\ Upto' = now /\ now' = now BY <1>1, <1>9, <1>12, <2>2
        <3>2. Joined(<<>>, now, now) BY DEF Joined
        <3>3. \A i \in 1 .. Len(<<>>) : FALSE
            <4>1. Len(<<>>) = 0 OBVIOUS
            <4> QED BY <4>1
        <3> QED BY <3>1, <3>2, <3>3 DEF Remaining
    <2> QED BY <2>1, <2>2
<1>16. Crossings' /\ Samples' BY <1>1, <1>2 DEF Crossings, Samples
\* What has been compared now: what had been before, and this sixth.
<1>17. \A j \in 0 .. Segments - 1, b \in 1 .. 6 :
        Past(j, b)' <=> (Past(j, b) \/ (j = k /\ b = c))
    <2> SUFFICES ASSUME NEW j \in 0 .. Segments - 1, NEW b \in 1 .. 6
                 PROVE Past(j, b)' <=> (Past(j, b) \/ (j = k /\ b = c))
        OBVIOUS
    <2>1. Past(j, b)' <=> (j < l \/ (j = l /\ b < d))
        BY <1>1, <1>6 DEF Past
    <2>2. Past(j, b) <=> (j < k \/ (j = k /\ b < c))
        BY <1>1, <1>4 DEF Past
    <2>3. (j < l \/ (j = l /\ b < d)) <=> (j < k \/ (j = k /\ b < c) \/ (j = k /\ b = c))
        BY <1>3, <1>6
    <2> QED BY <2>1, <2>2, <2>3
<1>18. Ephemeris!Compared \subseteq 1 .. 6 BY DEF Ephemeris!Compared
<1>19. Fits'
    <2>1. ASSUME NEW f \in fits'
          PROVE Past(f.segment, f.sub)' /\ f.at = f.segment * StepTicks + f.sub * S
        <3>1. CASE f \in fits
            <4>1. f.segment \in 0 .. Segments - 1 /\ f.sub \in 1 .. 6
                BY <1>2, <1>18, <3>1 DEF CallTypeOK, Errors
            <4>2. Past(f.segment, f.sub) /\ f.at = f.segment * StepTicks + f.sub * S
                BY <1>2, <3>1 DEF Fits, S
            <4> QED BY <1>17, <4>1, <4>2
        <3>2. CASE f \in found
            <4>1. f.segment = k /\ f.sub = c /\ f.at = now
                <5>1. PICK error \in 0 .. Tolerance + 1 :
                        found = {[segment |-> k, sub |-> c, at |-> now, error |-> error]}
                    BY <1>13, <3>2
                <5> QED BY <3>2, <5>1
            <4>2. Past(k, c)' BY <1>17
            <4> QED BY <1>5, <4>1, <4>2
        <3> QED BY <1>13, <3>1, <3>2
    <2>2. ASSUME NEW j \in 0 .. Segments - 1, NEW b \in Ephemeris!Compared, Past(j, b)'
          PROVE \E f \in fits' : f.segment = j /\ f.sub = b
        <3>1. b \in 1 .. 6 BY <1>18
        <3>2. CASE Past(j, b)
            <4>1. \E f \in fits : f.segment = j /\ f.sub = b BY <1>2, <3>2 DEF Fits
            <4> QED BY <1>13, <4>1
        <3>3. CASE j = k /\ b = c
            <4>1. PICK error \in 0 .. Tolerance + 1 :
                    found = {[segment |-> k, sub |-> c, at |-> now, error |-> error]}
                BY <1>4, <1>13, <3>3
            <4> DEFINE g == [segment |-> k, sub |-> c, at |-> now, error |-> error]
            <4>2. g.segment = j /\ g.sub = b /\ g \in fits' BY <1>13, <3>3, <4>1
            <4> HIDE DEF g
            <4> QED BY <4>2
        <3> QED BY <1>17, <2>2, <3>1, <3>2, <3>3
    <2> QED BY <2>1, <2>2 DEF Fits, S
<1>20. Greatest'
    <2>1. CASE sub \notin Ephemeris!Compared
        <3>1. fits' = fits /\ measured' = measured BY <1>13, <2>1
        <3> QED BY <1>2, <3>1 DEF Greatest
    <2>2. CASE sub \in Ephemeris!Compared
        <3>1. PICK error \in 0 .. Tolerance + 1 :
                /\ found = {[segment |-> k, sub |-> c, at |-> now, error |-> error]}
                /\ measured' = Ephemeris!Larger(measured, error)
            BY <1>13, <2>2
        <3> DEFINE g == [segment |-> k, sub |-> c, at |-> now, error |-> error]
        <3>2. g.error = error /\ g \in fits' /\ fits' = fits \cup {g} BY <1>13, <3>1
        <3> HIDE DEF g
        <3>3. error \in Nat /\ measured \in Nat BY <1>2, Grid DEF CallTypeOK
        <3>4. \A f \in fits : f.error \in Nat /\ f.error <= measured
            BY <1>2 DEF CallTypeOK, Errors, Greatest
        <3>5. PICK m \in Nat : m = Ephemeris!Larger(measured, error) /\ measured <= m /\ error <= m
                               /\ (m = measured \/ m = error) /\ (m = measured => error <= measured)
            BY <3>3 DEF Ephemeris!Larger
        <3>6. \A f \in fits' : f.error <= m
            <4>1. \A f \in fits : f.error <= m BY <3>3, <3>4, <3>5
            <4> QED BY <3>2, <3>5, <4>1
        <3>7. \E f \in fits' : f.error = m
            <4>1. CASE m = error BY <3>2, <4>1
            <4>2. CASE m = measured
                <5>1. CASE fits = {}
                    <6>1. measured = 0 BY <1>2, <5>1 DEF Greatest
                    <6>2. error = m BY <3>3, <3>5, <4>2, <6>1
                    <6> QED BY <3>2, <6>2
                <5>2. CASE fits # {}
                    <6>1. \E f \in fits : f.error = measured BY <1>2, <5>2 DEF Greatest
                    <6> QED BY <3>2, <4>2, <6>1
                <5> QED BY <5>1, <5>2
            <4> QED BY <3>5, <4>1, <4>2
        <3>8. measured' = m /\ fits' # {} BY <3>1, <3>2, <3>5
        <3> QED BY <3>6, <3>7, <3>8 DEF Greatest
    <2> QED BY <2>1, <2>2
<1>21. OutcomeIsTrue'
    BY <1>1 DEF OutcomeIsTrue, Ephemeris!OutcomeIsTrue, Ephemeris!Running
<1> QED BY <1>14, <1>15, <1>16, <1>19, <1>20, <1>21 DEF Called

LEMMA ReturnCalled ==
    ASSUME Called, Ephemeris!Return
    PROVE Called'
<1>1. /\ work = <<>> /\ pass = "fine" /\ segment = Segments
      /\ returned' = [verdict |-> IF measured > Tolerance THEN "fit exceeded" ELSE "returned", at |-> 0]
      /\ UNCHANGED <<contact, pass, work, now, segment, sub, samples, splits, fits, measured, certified>>
    BY DEF Ephemeris!Return, Ephemeris!Crossed, Ephemeris!Stop
<1>2. CallTypeOK /\ Crossings /\ Samples /\ Fits /\ Greatest
    BY DEF Called
<1>3. samples = [k \in 1 .. Segments + 1 |-> (k - 1) * StepTicks]
    BY <1>1, <1>2 DEF Samples
<1>4. \A p \in Ephemeris!Passes : certified[p] = 0 .. Ephemeris!Coverage - 1
    BY <1>1, <1>2, PassOver DEF Crossings, Ephemeris!Passes
<1>5. Segments \in Nat /\ 0 < Segments BY Grid
<1>6. \A k \in 0 .. Segments - 1, c \in Ephemeris!Compared :
        \E f \in fits : f.segment = k /\ f.sub = c
    <2>1. \A k \in 0 .. Segments - 1 : k < Segments BY <1>5
    <2> QED BY <1>1, <1>2, <2>1 DEF Fits, Past
<1>7. \A f \in fits : /\ f.segment \in 0 .. Segments - 1 /\ f.sub \in Ephemeris!Compared
                      /\ f.error \in Nat
                      /\ f.at = f.segment * StepTicks + f.sub * Ephemeris!Sixth
    BY <1>2 DEF CallTypeOK, Errors, Fits
<1>8. {<<f.segment, f.sub>> : f \in fits} = (0 .. Segments - 1) \X Ephemeris!Compared
    <2>1. ASSUME NEW k \in 0 .. Segments - 1, NEW c \in Ephemeris!Compared
          PROVE <<k, c>> \in {<<f.segment, f.sub>> : f \in fits}
        <3>1. PICK f \in fits : f.segment = k /\ f.sub = c BY <1>6
        <3> QED BY <3>1
    <2>2. \A f \in fits : <<f.segment, f.sub>> \in (0 .. Segments - 1) \X Ephemeris!Compared
        BY <1>7
    <2> QED BY <2>1, <2>2
<1>9. measured = Ephemeris!Max({f.error : f \in fits})
    <2>1. PICK f \in fits : f.error = measured
        <3>1. 0 \in 0 .. Segments - 1 /\ 2 \in Ephemeris!Compared BY <1>5 DEF Ephemeris!Compared
        <3>2. fits # {} BY <1>6, <3>1
        <3> QED BY <1>2, <3>2 DEF Greatest
    <2> DEFINE E == {g.error : g \in fits}
    <2>2. measured \in E /\ E \subseteq Nat BY <1>7, <2>1
    <2>3. \A e \in E : e <= measured BY <1>2 DEF Greatest
    <2> HIDE DEF E
    <2>4. \A e \in E : measured >= e BY <2>2, <2>3
    <2>5. ASSUME NEW m \in E, \A e \in E : m >= e PROVE m = measured
        <3>1. m \in Nat /\ measured \in Nat /\ m >= measured /\ measured >= m BY <2>2, <2>4, <2>5
        <3> QED BY <3>1
    <2>6. Ephemeris!Max(E) = CHOOSE m \in E : \A e \in E : m >= e
        BY DEF Ephemeris!Max
    <2>7. measured = Ephemeris!Max(E) BY <2>2, <2>4, <2>5, <2>6
    <2> QED BY <2>7 DEF E
<1>10. returned'.verdict = "returned" => measured <= Tolerance
    <2>1. CASE measured > Tolerance BY <1>1, <2>1
    <2>2. CASE ~(measured > Tolerance)
        <3>1. measured \in Nat /\ Tolerance \in Nat BY <1>2, Grid DEF CallTypeOK
        <3> QED BY <2>2, <3>1
    <2> QED BY <2>1, <2>2
<1>11. returned'.verdict # "collision" BY <1>1
<1>12. OutcomeIsTrue'
    BY <1>1, <1>3, <1>4, <1>7, <1>8, <1>9, <1>10, <1>11 DEF OutcomeIsTrue, Ephemeris!OutcomeIsTrue
<1> QED BY <1>1, <1>12, StopCalled DEF Ephemeris!Return

\* A call of propagate does not touch the ephemeris; without a call, integrate does nothing.
LEMMA CallStep ==
    ASSUME CallInv, [Propagate \/ Integrate]_<<vars, ephemerisVars>>
    PROVE CallInv'
<1>1. CASE UNCHANGED ephemerisVars
    <2>1. /\ CallTypeOK' = CallTypeOK /\ Crossings' = Crossings /\ Samples' = Samples
          /\ Fits' = Fits /\ Greatest' = Greatest
        BY <1>1 DEF ephemerisVars, CallTypeOK, Crossings, Samples, Fits, Greatest, Past
    <2>2. Remaining' = Remaining BY <1>1 DEF ephemerisVars, Remaining, Upto, Unit
    <2>3. OutcomeIsTrue' = OutcomeIsTrue
        BY <1>1 DEF ephemerisVars, OutcomeIsTrue, Ephemeris!OutcomeIsTrue
    <2>4. NotIntegrated' = NotIntegrated BY <1>1 DEF ephemerisVars, NotIntegrated
    <2> QED BY <2>1, <2>2, <2>3, <2>4 DEF CallInv, Called
<1>2. CASE Ephemeris!Next
    <2>1. returned = Ephemeris!Running
        BY <1>2 DEF Ephemeris!Next, Ephemeris!Advance, Ephemeris!Split, Ephemeris!GiveUp,
           Ephemeris!NotFinite, Ephemeris!Sample, Ephemeris!StartReference, Ephemeris!Compare,
           Ephemeris!Return, Ephemeris!Stepping, Ephemeris!Crossed
    <2>2. Called BY <2>1 DEF CallInv, NotIntegrated, Ephemeris!Running
    <2>3. Called'
        BY <1>2, <2>2, AdvanceCalled, SplitCalled, GiveUpCalled, SampleCalled,
           StartReferenceCalled, CompareCalled, ReturnCalled DEF Ephemeris!Next
    <2> QED BY <2>3 DEF CallInv
<1> QED BY <1>1, <1>2 DEF Propagate, Integrate

\* However often an interval is halved, however many segments there are and
\* whatever the errors found: an ephemeris that is returned was sampled, certified
\* and measured everywhere, and a collision is named at a time of contact.
THEOREM EphemerisIsTrue == CallSpec => []OutcomeIsTrue
<1>1. CallInit => CallInv
    BY InitCalled DEF CallInit, CallInv
<1>2. CallInv => OutcomeIsTrue
    <2>1. ASSUME NotIntegrated PROVE OutcomeIsTrue
        <3>1. returned.verdict = "not called" BY <2>1 DEF NotIntegrated
        <3> QED BY <3>1 DEF OutcomeIsTrue, Ephemeris!OutcomeIsTrue
    <2> QED BY <2>1 DEF CallInv, Called
<1>3. CallInv /\ [Propagate \/ Integrate]_<<vars, ephemerisVars>> => CallInv'
    BY CallStep
<1> QED BY <1>1, <1>2, <1>3, PTL DEF CallSpec
=============================================================================
