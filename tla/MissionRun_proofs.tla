------------------------- MODULE MissionRun_proofs -------------------------
(***************************************************************************)
(* A mission of any size.  Part 1: the four computations of its cells      *)
(* agree with each other and with the exact number, for integers of any    *)
(* width; a guard by division is as good as one on the exact product, and  *)
(* a guarded product or sum does not wrap.  Part 2: whatever order routes  *)
(* are met in, the best are kept.  Part 3: the walk over the grid counts   *)
(* its cells within the announced total.                                   *)
(***************************************************************************)
EXTENDS MissionRun, SequenceTheorems, FiniteSetTheorems, TLAPS

(* Part 1: the gates *******************************************************)

\* Guarding a product by a division.
LEMMA DivisionGuard ==
    ASSUME NEW a \in Nat, NEW b \in Nat, b > 0, NEW c \in Nat
    PROVE a <= c \div b <=> a * b <= c
<1> DEFINE q == c \div b
<1>1. q \in Nat /\ q * b <= c /\ c < (q + 1) * b
  <2>1. q \in Int /\ b * q <= c /\ c < b * q + b
    OBVIOUS
  <2>2. q >= 0
    OBVIOUS
  <2> QED BY <2>1, <2>2
<1> HIDE DEF q
<1>2. ASSUME a <= q PROVE a * b <= c
  <2>1. a * b <= q * b BY <1>1, <1>2
  <2> QED BY <1>1, <2>1
<1>3. ASSUME a > q PROVE a * b > c
  <2>1. a >= q + 1 BY <1>1, <1>3
  <2>2. a * b >= (q + 1) * b BY <1>1, <2>1
  <2> QED BY <1>1, <2>2
<1>4. a <= q <=> a * b <= c BY <1>1, <1>2, <1>3
<1> QED BY <1>4 DEF q

LEMMA ProductOfNaturals ==
    ASSUME NEW a \in Nat, NEW b \in Nat, a > 0, b > 0
    PROVE a * b \in Nat /\ a * b > 0
OBVIOUS

\* Arithmetic below the width is exact.
LEMMA Exact ==
    ASSUME NEW a \in Nat, NEW b \in Nat
    PROVE /\ a * b \in Nat /\ a * b < Wrap => Times(a, b) = a * b
          /\ a + b < Wrap => Plus(a, b) = a + b
          /\ b <= a => Minus(a, b) = a - b
BY BudgetAssumption DEF Times, Plus, Minus

-----------------------------------------------------------------------------
\* The loop over the legs keeps the exact product and sum, or nothing fits.
LEMMA LegExact ==
    ASSUME CapAdmitted, NEW p \in Nat, NEW t \in Nat, NEW n \in Nat,
           p > 0, n > 0, t <= cap
    PROVE AddLeg([fits |-> TRUE, product |-> p, total |-> t], n) =
              IF t + p * n <= cap
              THEN [fits |-> TRUE, product |-> p * n, total |-> t + p * n]
              ELSE Nothing
<1> DEFINE work == [fits |-> TRUE, product |-> p, total |-> t]
<1>1. cap \in Nat /\ cap < Wrap BY BudgetAssumption DEF CapAdmitted
<1>2. p * n \in Nat /\ p * n > 0 BY ProductOfNaturals
<1>3. p <= cap \div n <=> p * n <= cap BY <1>1, DivisionGuard
<1>4. cap \div n \in Int BY <1>1
<1>5. CASE p * n > cap
  <2>1. AddLeg(work, n) = Nothing BY <1>1, <1>2, <1>3, <1>4, <1>5 DEF AddLeg
  <2> QED BY <1>1, <1>2, <1>5, <2>1
<1>6. CASE p * n <= cap
  <2>1. Times(p, n) = p * n BY <1>1, <1>2, <1>6, Exact, BudgetAssumption
  <2>2. Minus(cap, p * n) = cap - p * n BY <1>1, <1>2, <1>6, Exact
  <2>3. CASE t > cap - p * n
    <3>1. AddLeg(work, n) = Nothing BY <2>1, <2>2, <2>3 DEF AddLeg
    <3> QED BY <1>1, <1>2, <2>3, <3>1
  <2>4. CASE t <= cap - p * n
    <3>1. Plus(t, p * n) = t + p * n
      BY <1>1, <1>2, <2>4, Exact, BudgetAssumption
    <3>2. AddLeg(work, n) = [fits |-> TRUE, product |-> p * n, total |-> t + p * n]
      <4>1. ~ (p > cap \div n) BY <1>3, <1>4, <1>6
      <4>2. ~ (t > Minus(cap, Times(p, n))) BY <1>1, <1>2, <2>1, <2>2, <2>4
      <4>3. work.fits /\ work.product = p /\ work.total = t OBVIOUS
      <4> HIDE DEF work
      <4> QED BY <2>1, <3>1, <4>1, <4>2, <4>3 DEF AddLeg
    <3> QED BY <1>1, <1>2, <2>4, <3>2
  <2> QED BY <1>1, <1>2, <2>3, <2>4
<1> QED BY <1>1, <1>2, <1>5, <1>6

LEMMA NothingStays == ASSUME NEW n PROVE AddLeg(Nothing, n) = Nothing
BY DEF AddLeg, Nothing

LEMMA PointsType == ASSUME TypeOK, NEW i \in 1 .. 4 PROVE Points(i) \in Nat /\ Points(i) > 0
BY BudgetAssumption DEF TypeOK, Points

\* The exact products of the legs.
One == Points(1) * Points(2)
Two == One * Points(3)
Three == Two * Points(4)

LEMMA LegsType ==
    ASSUME TypeOK
    PROVE /\ One \in Nat /\ One > 0 /\ Two \in Nat /\ Two > 0 /\ Three \in Nat /\ Three > 0
          /\ Cells = One + Two + Three
<1>1. One \in Nat /\ One > 0 BY PointsType, ProductOfNaturals DEF One
<1>2. Two \in Nat /\ Two > 0 BY <1>1, PointsType, ProductOfNaturals DEF Two
<1>3. Three \in Nat /\ Three > 0 BY <1>2, PointsType, ProductOfNaturals DEF Three
<1> QED BY <1>1, <1>2, <1>3 DEF Cells, One, Two, Three

\* What the form and the worker compute.
LEMMA LoopExact ==
    ASSUME TypeOK, CapAdmitted
    PROVE /\ Loop.fits <=> Cells <= cap
          /\ Loop.fits => Loop.total = Cells
<1> DEFINE Start == [fits |-> TRUE, product |-> Points(1), total |-> 0]
           After1 == AddLeg(Start, Points(2))
           After2 == AddLeg(After1, Points(3))
<1>1. /\ \A i \in 1 .. 4 : Points(i) \in Nat /\ Points(i) > 0
      /\ cap \in Nat
  BY PointsType DEF CapAdmitted
<1>2. /\ One \in Nat /\ One > 0 /\ Two \in Nat /\ Two > 0 /\ Three \in Nat /\ Three > 0
      /\ Cells = One + Two + Three
  BY LegsType
<1>3. After1 = IF One <= cap THEN [fits |-> TRUE, product |-> One, total |-> One] ELSE Nothing
  <2>1. After1 = IF 0 + Points(1) * Points(2) <= cap
                 THEN [fits |-> TRUE, product |-> Points(1) * Points(2),
                       total |-> 0 + Points(1) * Points(2)]
                 ELSE Nothing
    BY <1>1, LegExact
  <2>2. 0 + Points(1) * Points(2) = One BY <1>2 DEF One
  <2> QED BY <2>1, <2>2 DEF One
<1>4. After2 = IF One + Two <= cap THEN [fits |-> TRUE, product |-> Two, total |-> One + Two]
               ELSE Nothing
  <2>1. CASE One <= cap
    <3>1. After1 = [fits |-> TRUE, product |-> One, total |-> One] BY <1>3, <2>1
    <3>2. AddLeg([fits |-> TRUE, product |-> One, total |-> One], Points(3)) =
              IF One + One * Points(3) <= cap
              THEN [fits |-> TRUE, product |-> One * Points(3), total |-> One + One * Points(3)]
              ELSE Nothing
      BY <1>1, <1>2, <2>1, LegExact
    <3> QED BY <3>1, <3>2 DEF Two
  <2>2. CASE One > cap
    <3>1. After1 = Nothing BY <1>1, <1>2, <1>3, <2>2
    <3> QED BY <1>1, <1>2, <2>2, <3>1, NothingStays
  <2> QED BY <1>1, <1>2, <2>1, <2>2
<1>5. Loop = IF Cells <= cap THEN [fits |-> TRUE, product |-> Three, total |-> Cells]
             ELSE Nothing
  <2>0. Loop = AddLeg(After2, Points(4)) BY DEF Loop
  <2>1. CASE One + Two <= cap
    <3>1. After2 = [fits |-> TRUE, product |-> Two, total |-> One + Two] BY <1>4, <2>1
    <3>2. AddLeg([fits |-> TRUE, product |-> Two, total |-> One + Two], Points(4)) =
              IF One + Two + Two * Points(4) <= cap
              THEN [fits |-> TRUE, product |-> Two * Points(4), total |-> One + Two + Two * Points(4)]
              ELSE Nothing
      BY <1>1, <1>2, <2>1, LegExact
    <3> QED BY <1>2, <2>0, <3>1, <3>2 DEF Three
  <2>2. CASE One + Two > cap
    <3>1. After2 = Nothing BY <1>1, <1>2, <1>4, <2>2
    <3>2. Cells > cap BY <1>1, <1>2, <2>2
    <3> QED BY <1>1, <1>2, <2>0, <3>1, <3>2, NothingStays
  <2> QED BY <1>1, <1>2, <2>1, <2>2
<1> QED BY <1>5 DEF Nothing

\* What the search and the report compute.
LEMMA GuardExact ==
    ASSUME CapAdmitted, NEW p \in Nat, NEW n \in Nat, p > 0, n > 0
    PROVE /\ MultiplyFits(p, n) <=> p * n <= cap
          /\ MultiplyFits(p, n) => Times(p, n) = p * n
<1>1. cap \in Nat /\ cap < Wrap BY BudgetAssumption DEF CapAdmitted
<1>2. p * n \in Nat BY ProductOfNaturals
<1>3. MultiplyFits(p, n) <=> p * n <= cap
  BY <1>1, DivisionGuard DEF MultiplyFits
<1> QED BY <1>1, <1>2, <1>3, Exact, BudgetAssumption

LEMMA SearchExact ==
    ASSUME TypeOK, CapAdmitted
    PROVE /\ SearchFits <=> Cells <= cap
          /\ SearchFits => Plus(Plus(First, Second), Third) = Cells
          /\ Cells <= cap /\ announced = Cells => ReportFits
          /\ ReportFits => Cells <= cap
<1>1. /\ \A i \in 1 .. 4 : Points(i) \in Nat /\ Points(i) > 0
      /\ cap \in Nat /\ cap < Wrap /\ Wrap \in Nat
  BY PointsType, BudgetAssumption DEF CapAdmitted
<1>2. /\ One \in Nat /\ One > 0 /\ Two \in Nat /\ Two > 0 /\ Three \in Nat /\ Three > 0
      /\ Cells = One + Two + Three
  BY LegsType
<1>3. /\ MultiplyFits(Points(1), Points(2)) <=> One <= cap
      /\ One <= cap => First = One
  BY <1>1, GuardExact DEF One, First
<1>4. ASSUME One <= cap
      PROVE /\ MultiplyFits(First, Points(3)) <=> Two <= cap
            /\ Two <= cap => Second = Two
  BY <1>1, <1>2, <1>3, <1>4, GuardExact DEF Two, Second
<1>5. ASSUME One <= cap, Two <= cap
      PROVE /\ MultiplyFits(Second, Points(4)) <=> Three <= cap
            /\ Three <= cap => Third = Three
  BY <1>1, <1>2, <1>4, <1>5, GuardExact DEF Three, Third
<1>6. ProductsFit <=> One <= cap /\ Two <= cap /\ Three <= cap
  BY <1>3, <1>4, <1>5 DEF ProductsFit
<1>7. ProductsFit => First = One /\ Second = Two /\ Third = Three
  BY <1>3, <1>4, <1>5, <1>6
<1>8. Cells <= cap => ProductsFit
  BY <1>1, <1>2, <1>6
<1>9. ASSUME ProductsFit
      PROVE /\ Minus(cap, Second) = cap - Two /\ Minus(cap, Third) = cap - Three
            /\ One + Two <= cap => Plus(First, Second) = One + Two
            /\ Cells <= cap => Plus(Plus(First, Second), Third) = Cells
  <2>1. First = One /\ Second = Two /\ Third = Three /\ Two <= cap /\ Three <= cap
    BY <1>6, <1>7, <1>9
  <2>2. Minus(cap, Two) = cap - Two /\ Minus(cap, Three) = cap - Three
    BY <1>1, <1>2, <2>1, Exact
  <2>3. One + Two <= cap => Plus(One, Two) = One + Two
    BY <1>1, <1>2, Exact
  <2>4. ASSUME Cells <= cap PROVE Plus(One + Two, Three) = Cells
    BY <1>1, <1>2, <2>4, Exact
  <2> QED BY <1>1, <1>2, <2>1, <2>2, <2>3, <2>4
<1>10. SearchFits <=> Cells <= cap
  <2>1. ASSUME ProductsFit PROVE AddFits(First, Second) <=> One + Two <= cap
    BY <1>1, <1>2, <1>6, <1>7, <1>9, <2>1 DEF AddFits
  <2>2. ASSUME ProductsFit, One + Two <= cap
        PROVE AddFits(Plus(First, Second), Third) <=> Cells <= cap
    BY <1>1, <1>2, <1>6, <1>7, <1>9, <2>2 DEF AddFits
  <2>3. Cells <= cap => One + Two <= cap
    BY <1>1, <1>2
  <2> QED BY <1>8, <2>1, <2>2, <2>3 DEF SearchFits
<1>11. SearchFits => Plus(Plus(First, Second), Third) = Cells
  BY <1>8, <1>9, <1>10
<1>12. ASSUME Cells <= cap, announced = Cells PROVE ReportFits
  <2>1. ProductsFit /\ First = One /\ Second = Two /\ Third = Three
        /\ One <= cap /\ Two <= cap /\ Three <= cap
    BY <1>6, <1>7, <1>8, <1>12
  <2>2. One <= cap - Two /\ One + Two <= cap - Three
    BY <1>1, <1>2, <1>12
  <2>3. Plus(First, Second) = One + Two
    BY <1>1, <1>2, <1>9, <2>1, <2>2
  <2> QED BY <1>9, <1>12, <2>1, <2>2, <2>3 DEF ReportFits
<1>13. ASSUME ReportFits PROVE Cells <= cap
  <2>1. ProductsFit /\ First <= Minus(cap, Second) /\ Plus(First, Second) <= Minus(cap, Third)
    BY <1>13 DEF ReportFits
  <2>2. First = One /\ Second = Two /\ Third = Three
    BY <1>7, <2>1
  <2>3. One + Two <= cap
    BY <1>1, <1>2, <1>9, <2>1, <2>2
  <2> QED BY <1>1, <1>2, <1>9, <2>1, <2>2, <2>3
<1> QED BY <1>10, <1>11, <1>12, <1>13

-----------------------------------------------------------------------------
\* Only a request that enters at the form is seen by it.
Entered == gate = "form" => entry = "form"

BudgetInv == TypeOK /\ Entered /\ GatesAgree

LEMMA BudgetPreserved == ASSUME BudgetInv, [Next]_vars PROVE BudgetInv'
<1>0. TypeOK /\ Entered /\ GatesAgree BY DEF BudgetInv
<1>1. CASE UNCHANGED vars
  BY <1>0, <1>1 DEF vars, BudgetInv, TypeOK, Entered, GatesAgree, Admissible, Bounded, CapAdmitted,
                    Cells, Points
<1>2. CASE Next
  <2>1. UNCHANGED <<intervals, cap, entry>>
    BY <1>2 DEF Next, Form, Worker, Client, Search, Report, Pass
  <2>2. Admissible' = Admissible /\ Cells' = Cells
    BY <2>1 DEF Admissible, Bounded, CapAdmitted, Cells, Points
  <2>3. Cells \in Nat /\ Cells > 0
    BY <1>0, LegsType
  <2>4. CapAdmitted => (Loop.fits <=> Cells <= cap) /\ (Loop.fits => Loop.total = Cells)
    BY <1>0, LoopExact
  <2>5. CASE Form
    <3>1. gate = "form" /\ entry = "form"
      BY <1>0, <2>5 DEF Form, Pass, Entered
    <3> QED BY <1>0, <2>1, <2>2, <2>4, <2>5, <3>1
            DEF Form, Pass, BudgetInv, TypeOK, Entered, GatesAgree, Admissible, Gates
  <2>6. CASE Worker
    <3>1. gate = "worker" /\ (Admissible \/ entry = "worker")
      BY <1>0, <2>6 DEF Worker, Pass, GatesAgree
    <3>2. CapAdmitted /\ Bounded /\ Loop.fits <=> Admissible
      BY <2>4 DEF Admissible
    <3>3. /\ gate' = IF Admissible THEN "client" ELSE "refused"
          /\ refuser' = IF Admissible THEN refuser ELSE "worker"
          /\ announced' = IF Admissible THEN Cells ELSE announced
          /\ searched' = searched
      BY <2>4, <2>6, <3>2 DEF Worker, Pass, Admissible
    <3> QED BY <1>0, <2>1, <2>2, <2>3, <3>1, <3>3 DEF BudgetInv, TypeOK, Entered, GatesAgree, Gates
  <2>7. CASE Client
    <3>1. gate = "client" /\ Admissible /\ announced = Cells
      BY <1>0, <2>7 DEF Client, Pass, GatesAgree, TypeOK
    <3>2. announced # 0 /\ announced <= MaxCells
      BY <2>3, <3>1, BudgetAssumption DEF Admissible, CapAdmitted
    <3>3. gate' = "search" /\ UNCHANGED <<refuser, announced, searched>>
      BY <2>7, <3>2 DEF Client, Pass
    <3> QED BY <1>0, <2>1, <2>2, <3>1, <3>3 DEF BudgetInv, TypeOK, Entered, GatesAgree, Gates
  <2>8. CASE Search
    <3>1. gate = "search" /\ Admissible /\ announced = Cells
      BY <1>0, <2>8 DEF Search, Pass, GatesAgree, TypeOK
    <3>2. SearchFits /\ Plus(Plus(First, Second), Third) = Cells
      BY <1>0, <3>1, SearchExact DEF Admissible
    <3>3. gate' = "report" /\ searched' = Cells /\ UNCHANGED <<refuser, announced>>
      BY <2>8, <3>1, <3>2 DEF Search, Pass, Admissible
    <3> QED BY <1>0, <2>1, <2>2, <2>3, <3>1, <3>3 DEF BudgetInv, TypeOK, Entered, GatesAgree, Gates
  <2>9. CASE Report
    <3>1. gate = "report" /\ Admissible /\ announced = Cells /\ searched = Cells
      BY <1>0, <2>9 DEF Report, Pass, GatesAgree, TypeOK
    <3>2. ReportFits
      BY <1>0, <3>1, SearchExact DEF Admissible
    <3>3. gate' = "saved" /\ UNCHANGED <<refuser, announced, searched>>
      BY <2>9, <3>1, <3>2 DEF Report, Pass, Admissible
    <3> QED BY <1>0, <2>1, <2>2, <3>1, <3>3 DEF BudgetInv, TypeOK, Entered, GatesAgree, Gates
  <2> QED BY <1>2, <2>5, <2>6, <2>7, <2>8, <2>9 DEF Next
<1> QED BY <1>1, <1>2

\* Whatever grid is asked for under whatever cap, and however wide the integers
\* are: the form, the worker, the search and the report admit the same missions,
\* with the exact number of cells (mission_request, process_mission,
\* search_mission, validate_study_report).
THEOREM SameWorkEverywhere == MissionSpec => []GatesAgree
<1>1. MissionInit => BudgetInv
  BY DEF MissionInit, Init, BudgetInv, TypeOK, Entered, GatesAgree, Gates
<1>2. BudgetInv => GatesAgree
  BY DEF BudgetInv
<1>3. BudgetInv /\ [MissionNext]_<<vars, searchVars>> => BudgetInv'
  <2>1. [MissionNext]_<<vars, searchVars>> => [Next]_vars
    BY DEF MissionNext, Gate, Search_Mission
  <2> QED BY <2>1, BudgetPreserved
<1> QED BY <1>1, <1>2, <1>3, PTL DEF MissionSpec

-----------------------------------------------------------------------------
(* Part 2: the routes kept *************************************************)

Increasing(s) == \A i, j \in 1..Len(s) : i < j => s[i] < s[j]

\* s is the elements of S in order.
Enumerates(s, S) ==
    /\ s \in Seq(S) /\ Increasing(s)
    /\ \A x \in S : \E i \in 1..Len(s) : s[i] = x

Below(T, U) == \A x \in T, y \in U : x < y

LEMMA LeastNatural == ASSUME NEW T \in SUBSET Nat, T # {} PROVE \E m \in T : \A x \in T : m <= x
  <1>1. PICK m \in T : \A x \in T : <<x, m>> \notin OpToRel(<, Nat)
    BY NatLessThanWellFounded, WFMin
  <1>2. ASSUME NEW x \in T PROVE m <= x
    <2>1. m \in Nat /\ x \in Nat OBVIOUS
    <2>2. OpToRel(<, Nat) = {ss \in Nat \X Nat : ss[1] < ss[2]} BY DEF OpToRel
    <2>3. ~(x < m)
      <3> SUFFICES ASSUME x < m PROVE FALSE
        OBVIOUS
      <3>1. <<x, m>> \in {ss \in Nat \X Nat : ss[1] < ss[2]} BY <2>1
      <3> QED BY <1>1, <2>2, <3>1
    <2> QED BY <2>1, <2>3
  <1> QED BY <1>2

LEMMA EnumerationType ==
    ASSUME NEW S \in SUBSET Nat, NEW s, Enumerates(s, S)
    PROVE  /\ Len(s) \in Nat /\ \A i \in 1..Len(s) : s[i] \in S
           /\ IsFiniteSet(S) /\ Cardinality(S) = Len(s)
  <1>1. s \in Seq(S) /\ Len(s) \in Nat /\ s \in [1..Len(s) -> S]
        /\ \A i \in 1..Len(s) : s[i] \in S
    BY LenProperties, ElementOfSeq DEF Enumerates
  <1>2. s \in Injection(1..Len(s), S)
    <2>1. ASSUME NEW i \in 1..Len(s), NEW j \in 1..Len(s), s[i] = s[j] PROVE i = j
      <3>1. s[i] \in Nat BY <1>1
      <3>2. ~(s[i] < s[i]) BY <3>1
      <3>3. ~(i < j) /\ ~(j < i) BY <2>1, <3>2 DEF Enumerates, Increasing
      <3> QED BY <1>1, <3>3
    <2> QED BY <1>1, <2>1 DEF Injection, IsInjective
  <1>3. s \in Surjection(1..Len(s), S) BY <1>1 DEF Enumerates, Surjection
  <1>4. ExistsBijection(1..Len(s), S) BY <1>2, <1>3 DEF Bijection, ExistsBijection
  <1> QED BY <1>1, <1>4, FS_CountingElements, FS_NatBijection

LEMMA EnumerationUnique ==
    ASSUME NEW S \in SUBSET Nat, NEW s, NEW t, Enumerates(s, S), Enumerates(t, S)
    PROVE  s = t
  <1> DEFINE n == Len(s)
             D == {i \in 1..n : s[i] # t[i]}
  <1>1. /\ n \in Nat /\ Len(t) = n /\ s \in Seq(S) /\ t \in Seq(S)
        /\ \A i \in 1..n : s[i] \in S /\ t[i] \in S
        /\ \A i \in 1..n : s[i] \in Nat /\ t[i] \in Nat
    BY EnumerationType DEF Enumerates
  <1>2. \A x \in S : (\E i \in 1..n : s[i] = x) /\ \E i \in 1..n : t[i] = x
    BY <1>1 DEF Enumerates
  <1>3. \A i, j \in 1..n : i < j => s[i] < s[j] /\ t[i] < t[j]
    BY <1>1 DEF Enumerates, Increasing
  <1>4. ASSUME D # {} PROVE FALSE
    <2>1. D \in SUBSET Nat BY <1>1
    <2>2. PICK m \in D : \A x \in D : m <= x BY <1>4, <2>1, LeastNatural
    <2>3. m \in 1..n /\ s[m] # t[m] OBVIOUS
    <2>4. \A i \in 1..n : i < m => s[i] = t[i]
      <3>1. ASSUME NEW i \in 1..n, i < m, s[i] # t[i] PROVE FALSE
        <4>1. i \in D BY <3>1
        <4>2. m <= i BY <2>2, <4>1
        <4> HIDE DEF D, n
        <4> QED BY <1>1, <2>3, <3>1, <4>2
      <3> QED BY <3>1
    <2> HIDE DEF D, n
    <2>5. CASE s[m] < t[m]
      <3>1. PICK j \in 1..n : t[j] = s[m] BY <1>1, <1>2, <2>3
      <3>2. j < m \/ j = m \/ m < j BY <1>1, <2>3
      <3>3. ~(j < m)
        <4> SUFFICES ASSUME j < m PROVE FALSE
          OBVIOUS
        <4>1. s[j] = s[m] /\ s[j] < s[m] BY <1>3, <2>3, <2>4, <3>1
        <4> QED BY <1>1, <2>3, <4>1
      <3>4. ~(m < j)
        <4> SUFFICES ASSUME m < j PROVE FALSE
          OBVIOUS
        <4>1. t[m] < t[j] BY <1>3, <2>3
        <4> QED BY <1>1, <2>3, <2>5, <3>1, <4>1
      <3> QED BY <2>3, <3>1, <3>2, <3>3, <3>4
    <2>6. CASE t[m] < s[m]
      <3>1. PICK j \in 1..n : s[j] = t[m] BY <1>1, <1>2, <2>3
      <3>2. j < m \/ j = m \/ m < j BY <1>1, <2>3
      <3>3. ~(j < m)
        <4> SUFFICES ASSUME j < m PROVE FALSE
          OBVIOUS
        <4>1. t[j] = t[m] /\ t[j] < t[m] BY <1>3, <2>3, <2>4, <3>1
        <4> QED BY <1>1, <2>3, <4>1
      <3>4. ~(m < j)
        <4> SUFFICES ASSUME m < j PROVE FALSE
          OBVIOUS
        <4>1. s[m] < s[j] BY <1>3, <2>3
        <4> QED BY <1>1, <2>3, <2>6, <3>1, <4>1
      <3> QED BY <2>3, <3>1, <3>2, <3>3, <3>4
    <2> QED BY <1>1, <2>3, <2>5, <2>6
  <1>5. \A i \in 1..n : s[i] = t[i] BY <1>4
  <1> QED BY <1>1, <1>5, SeqEqual

LEMMA EnumerationJoins ==
    ASSUME NEW S \in SUBSET Nat, NEW T \in SUBSET Nat, Below(S, T),
           NEW s, NEW t, Enumerates(s, S), Enumerates(t, T)
    PROVE  Enumerates(s \o t, S \cup T)
  <1> DEFINE U == S \cup T
             m == Len(s)
             n == Len(t)
             u == s \o t
  <1>1. m \in Nat /\ n \in Nat /\ (\A i \in 1..m : s[i] \in S) /\ \A i \in 1..n : t[i] \in T
    BY EnumerationType
  <1>2. s \in Seq(U) /\ t \in Seq(U) BY SeqMonotonic DEF Enumerates
  <1>3. /\ u \in Seq(U) /\ Len(u) = m + n
        /\ \A i \in 1..(m + n) : u[i] = IF i <= m THEN s[i] ELSE t[i - m]
    BY <1>2, ConcatProperties
  <1>4. /\ \A i, j \in 1..m : i < j => s[i] < s[j]
        /\ \A i, j \in 1..n : i < j => t[i] < t[j]
        /\ \A x \in S : \E i \in 1..m : s[i] = x
        /\ \A x \in T : \E i \in 1..n : t[i] = x
    BY DEF Enumerates, Increasing
  <1> HIDE DEF m, n, u
  <1>5. ASSUME NEW i \in 1..(m + n), NEW j \in 1..(m + n), i < j PROVE u[i] < u[j]
    <2>1. CASE j <= m
      <3>1. i \in 1..m /\ j \in 1..m /\ i <= m BY <1>1, <1>5, <2>1
      <3> QED BY <1>3, <1>4, <1>5, <2>1, <3>1
    <2>2. CASE i <= m /\ ~(j <= m)
      <3>1. i \in 1..m /\ j - m \in 1..n BY <1>1, <2>2
      <3>2. s[i] < t[j - m] BY <1>1, <3>1 DEF Below
      <3> QED BY <1>3, <2>2, <3>2
    <2>3. CASE ~(i <= m) /\ ~(j <= m)
      <3>1. i - m \in 1..n /\ j - m \in 1..n /\ i - m < j - m BY <1>1, <1>5, <2>3
      <3>2. t[i - m] < t[j - m] BY <1>4, <3>1
      <3> QED BY <1>3, <2>3, <3>2
    <2> QED BY <1>1, <1>5, <2>1, <2>2, <2>3
  <1>6. ASSUME NEW x \in U PROVE \E i \in 1..(m + n) : u[i] = x
    <2>1. CASE x \in S
      <3>1. PICK i \in 1..m : s[i] = x BY <1>4, <2>1
      <3>2. i \in 1..(m + n) /\ i <= m BY <1>1
      <3> QED BY <1>3, <3>1, <3>2
    <2>2. CASE x \in T
      <3>1. PICK i \in 1..n : t[i] = x BY <1>4, <2>2
      <3>2. m + i \in 1..(m + n) /\ ~(m + i <= m) /\ (m + i) - m = i BY <1>1
      <3>3. u[m + i] = t[i] BY <1>3, <3>2
      <3> QED BY <3>1, <3>2, <3>3
    <2> QED BY <2>1, <2>2
  <1> QED BY <1>3, <1>5, <1>6 DEF Enumerates, Increasing, u

LEMMA EnumerationExists ==
    ASSUME NEW S \in SUBSET Nat, IsFiniteSet(S)
    PROVE  \E s : Enumerates(s, S)
  <1> DEFINE Bad == {T \in FiniteSubsetsOf(S) : ~\E s : Enumerates(s, T)}
  <1>1. ASSUME Bad # {} PROVE FALSE
    <2>1. PICK T \in Bad : \A U \in Bad : <<U, T>> \notin StrictSubsetOrdering(S)
      BY <1>1, FS_StrictSubsetOrderingWellFounded, WFMin
    <2>2. T \in SUBSET S /\ IsFiniteSet(T) BY DEF FiniteSubsetsOf
    <2>3. ASSUME NEW U \in SUBSET T, U # T PROVE \E s : Enumerates(s, U)
      <3>1. U \in FiniteSubsetsOf(S) BY <2>2, FS_Subset DEF FiniteSubsetsOf
      <3>2. <<U, T>> \in StrictSubsetOrdering(S) BY <2>2, <2>3 DEF StrictSubsetOrdering
      <3> QED BY <2>1, <3>1, <3>2
    <2>4. CASE T = {}
      <3>1. Enumerates(<<>>, {}) BY EmptySeq DEF Enumerates, Increasing
      <3> QED BY <2>4, <3>1
    <2>5. CASE T # {}
      <3>1. PICK x \in T : TRUE BY <2>5
      <3> DEFINE L == {y \in T : y < x}
                 H == {y \in T : x < y}
      <3>2. x \in Nat /\ T \in SUBSET Nat BY <2>2
      <3>3. L \in SUBSET T /\ L # T /\ H \in SUBSET T /\ H # T BY <3>2
      <3>4. PICK p : Enumerates(p, L) BY <2>3, <3>3
      <3>5. PICK q : Enumerates(q, H) BY <2>3, <3>3
      <3>6. Enumerates(<<x>>, {x})
        <4>1. <<x>> \in Seq({x}) /\ Len(<<x>>) = 1 /\ <<x>>[1] = x OBVIOUS
        <4> QED BY <4>1 DEF Enumerates, Increasing
      <3>7. Below({x}, H) BY DEF Below
      <3>8. Enumerates(<<x>> \o q, {x} \cup H)
        BY <3>2, <3>3, <3>5, <3>6, <3>7, EnumerationJoins
      <3>9. Below(L, {x} \cup H) BY <3>2 DEF Below
      <3>10. L \in SUBSET Nat /\ {x} \cup H \in SUBSET Nat BY <3>2
      <3>11. Enumerates(p \o (<<x>> \o q), L \cup ({x} \cup H))
        BY <3>4, <3>8, <3>9, <3>10, EnumerationJoins
      <3>12. L \cup ({x} \cup H) = T
        <4>1. \A y \in T : y < x \/ y = x \/ x < y BY <3>2
        <4> QED BY <4>1
      <3> QED BY <3>11, <3>12
    <2> QED BY <2>4, <2>5
  <1>2. S \in FiniteSubsetsOf(S) BY DEF FiniteSubsetsOf
  <1> QED BY <1>1, <1>2

LEMMA CardinalitySame == \A S : Walk!Cardinality(S) = Cardinality(S)
  BY DEF Walk!Cardinality, Cardinality

LEMMA SortedEnumerates ==
    ASSUME NEW S \in SUBSET Nat, IsFiniteSet(S)
    PROVE  Enumerates(Walk!Sorted(S), S)
  <1> DEFINE n == Cardinality(S)
             P(s) == \A i, j \in 1..n : i < j => s[i] < s[j]
             f == Walk!Sorted(S)
  <1>1. PICK s : Enumerates(s, S) BY EnumerationExists
  <1>2. n \in Nat /\ Len(s) = n /\ s \in Seq(S) BY <1>1, EnumerationType DEF Enumerates
  <1>3. s \in [1..n -> S] /\ P(s) BY <1>1, <1>2, LenProperties DEF Enumerates, Increasing
  <1>4. f = CHOOSE t \in [1..n -> S] : P(t) BY CardinalitySame DEF Walk!Sorted
  <1> HIDE DEF f, n
  <1>5. f \in [1..n -> S] /\ P(f) BY <1>3, <1>4
  <1>6. f \in Seq(S) /\ Len(f) = n BY <1>2, <1>5
  <1>7. f \in Injection(1..n, S)
    <2>1. ASSUME NEW i \in 1..n, NEW j \in 1..n, f[i] = f[j] PROVE i = j
      <3>1. f[i] \in Nat BY <1>5
      <3>2. ~(f[i] < f[i]) BY <3>1
      <3>3. ~(i < j) /\ ~(j < i) BY <1>5, <2>1, <3>2
      <3> QED BY <1>2, <3>3
    <2> QED BY <1>5, <2>1 DEF Injection, IsInjective
  <1>8. Cardinality(1..n) = n BY <1>2, FS_Interval
  <1>9. f \in Surjection(1..n, S) BY <1>7, <1>8, FS_Injection DEF n
  <1> QED BY <1>5, <1>6, <1>9 DEF Enumerates, Increasing, Surjection, f

LEMMA SortedOf ==
    ASSUME NEW S \in SUBSET Nat, NEW s, Enumerates(s, S)
    PROVE  Walk!Sorted(S) = s
  BY EnumerationType, SortedEnumerates, EnumerationUnique

\* The least elements of a set come first in its order.
LEMMA SortedPrefix ==
    ASSUME NEW F \in SUBSET Nat, IsFiniteSet(F), NEW T \in SUBSET F, Below(T, F \ T)
    PROVE  Walk!Sorted(T) = SubSeq(Walk!Sorted(F), 1, Cardinality(T))
  <1> DEFINE s == Walk!Sorted(T)
             t == Walk!Sorted(F \ T)
             n == Cardinality(T)
  <1>1. IsFiniteSet(T) /\ IsFiniteSet(F \ T) BY FS_Subset
  <1>2. Enumerates(s, T) /\ Enumerates(t, F \ T) BY <1>1, SortedEnumerates
  <1>3. Enumerates(s \o t, T \cup (F \ T)) BY <1>2, EnumerationJoins
  <1>4. T \cup (F \ T) = F OBVIOUS
  <1>5. Walk!Sorted(F) = s \o t BY <1>3, <1>4, SortedOf
  <1>6. n \in Nat /\ Len(s) = n /\ Len(t) \in Nat BY <1>2, EnumerationType
  <1>7. s \in Seq(F) /\ t \in Seq(F) BY <1>2, SeqMonotonic DEF Enumerates
  <1> HIDE DEF s, t, n
  <1>8. /\ Len(s \o t) = n + Len(t)
        /\ \A i \in 1..(n + Len(t)) : (s \o t)[i] = IF i <= n THEN s[i] ELSE t[i - n]
    BY <1>6, <1>7, ConcatProperties
  <1>9. \A i \in 1..n : (s \o t)[i] = s[i] /\ s[i] \in F
    BY <1>6, <1>7, <1>8, ElementOfSeq
  <1>10. /\ SubSeq(s \o t, 1, n) \in Seq(F)
         /\ Len(SubSeq(s \o t, 1, n)) = IF 1 <= n THEN n - 1 + 1 ELSE 0
         /\ \A i \in 1..(n - 1 + 1) : SubSeq(s \o t, 1, n)[i] = (s \o t)[1 + i - 1]
    BY <1>6, <1>9, SubSeqProperties
  <1>11. Len(SubSeq(s \o t, 1, n)) = n /\ \A i \in 1..n : SubSeq(s \o t, 1, n)[i] = s[i]
    BY <1>6, <1>9, <1>10
  <1>12. SubSeq(s \o t, 1, n) = s BY <1>6, <1>7, <1>10, <1>11, SeqEqual
  <1> QED BY <1>5, <1>12 DEF s, n

\* T are the routes kept: the least ranks of those found.
Best(T) ==
    /\ T \in SUBSET found /\ Below(T, found \ T)
    /\ routes = Walk!Sorted(T)
    /\ Cardinality(T) = IF Cardinality(found) < MaxRoutes THEN Cardinality(found) ELSE MaxRoutes

Kept ==
    /\ found \in SUBSET Nat /\ IsFiniteSet(found)
    /\ \E T \in SUBSET found : Best(T)
    /\ peak = Len(routes)

LEMMA MaxOfTwo ==
    ASSUME NEW a \in Nat, NEW b \in Nat, a <= b
    PROVE  Walk!Max({a, b}) = b
  BY DEF Walk!Max

LEMMA MinOfTwo ==
    ASSUME NEW a \in Nat, NEW b \in Nat
    PROVE  Walk!Min({a, b}) = IF b < a THEN b ELSE a
  <1>1. CASE b < a BY <1>1 DEF Walk!Min
  <1>2. CASE ~(b < a) BY <1>2 DEF Walk!Min
  <1> QED BY <1>1, <1>2

LEMMA KeptBest ==
    ASSUME Kept
    PROVE  KeepsTheBest /\ Len(routes) \in Nat
  <1>1. PICK T : Best(T) BY DEF Kept
  <1> DEFINE n == Cardinality(found)
  <1>2. T \in SUBSET Nat /\ IsFiniteSet(T) /\ n \in Nat
    BY <1>1, FS_Subset, FS_CardinalityType DEF Kept, Best
  <1>3. Len(routes) = Cardinality(T) /\ Cardinality(T) \in Nat
    BY <1>1, <1>2, SortedEnumerates, EnumerationType DEF Best
  <1>4. routes = SubSeq(Walk!Sorted(found), 1, Cardinality(T))
    BY <1>1, SortedPrefix DEF Kept, Best
  <1>5. Walk!Min({MaxRoutes, Walk!Cardinality(found)}) = Cardinality(T)
    <2>1. Walk!Min({MaxRoutes, n}) = IF n < MaxRoutes THEN n ELSE MaxRoutes
      BY <1>2, MinOfTwo, GridAssumption
    <2> QED BY <1>1, <2>1, CardinalitySame DEF Best
  <1> QED BY <1>3, <1>4, <1>5 DEF Kept, KeepsTheBest, Walk!KeepsTheBest

\* What a new route does to those kept.
LEMMA RetainedKeeps ==
    ASSUME Kept, NEW r \in Nat, r \notin found, found' = found \cup {r},
           routes' = Walk!Retained(r), peak' = Walk!Max({peak, Len(routes')})
    PROVE  /\ Kept'
           /\ Len(routes') \in {Len(routes), Len(routes) + 1} /\ Len(routes') \in 1..MaxRoutes
  <1>1. PICK T : Best(T) BY DEF Kept
  <1> DEFINE n == Cardinality(found)
             m == Cardinality(T)
             last == Walk!Last(routes)
  <1>2. T \in SUBSET Nat /\ IsFiniteSet(T) /\ n \in Nat /\ T \in SUBSET found
    BY <1>1, FS_Subset, FS_CardinalityType DEF Kept, Best
  <1>3. Enumerates(routes, T) BY <1>1, <1>2, SortedEnumerates DEF Best
  <1>4. Len(routes) = m /\ m \in Nat /\ \A i \in 1..m : routes[i] \in T
    BY <1>2, <1>3, EnumerationType
  <1>5. m = (IF n < MaxRoutes THEN n ELSE MaxRoutes) /\ MaxRoutes \in Nat /\ MaxRoutes > 0
    BY <1>1, GridAssumption DEF Best
  <1>6. Walk!Range(routes) = T
    <2>1. DOMAIN routes = 1..m BY <1>3, <1>4, LenProperties DEF Enumerates
    <2> QED BY <1>3, <1>4, <2>1 DEF Walk!Range, Enumerates
  <1>7. /\ found' \in SUBSET Nat /\ IsFiniteSet(found') /\ Cardinality(found') = n + 1
    BY FS_AddElement DEF Kept
  <1>8. ASSUME NEW U \in SUBSET Nat, U \subseteq found', Below(U, found' \ U),
               routes' = Walk!Sorted(U), IsFiniteSet(U),
               Cardinality(U) = IF n + 1 < MaxRoutes THEN n + 1 ELSE MaxRoutes
        PROVE  /\ Kept'
               /\ Len(routes') \in {Len(routes), Len(routes) + 1} /\ Len(routes') \in 1..MaxRoutes
    <2>1. Len(routes') = Cardinality(U) BY <1>8, SortedEnumerates, EnumerationType
    <2>2. Best(U)' BY <1>7, <1>8 DEF Best
    <2> HIDE DEF n, m
    <2>3. Len(routes') \in Nat /\ m <= Len(routes') /\ Len(routes') <= m + 1
      BY <1>2, <1>5, <1>8, <2>1
    <2>4. Len(routes') \in 1..MaxRoutes BY <1>2, <1>5, <1>8, <2>1
    <2>5. peak' = Len(routes') BY <1>4, <2>3, MaxOfTwo DEF Kept
    <2>6. Kept' BY <1>7, <1>8, <2>2, <2>5 DEF Kept
    <2>7. Len(routes') = m \/ Len(routes') = m + 1 BY <1>4, <2>3
    <2> QED BY <1>4, <2>4, <2>6, <2>7
  <1>9. CASE Len(routes) < MaxRoutes
    <2>1. m = n
      <3> HIDE DEF m, n
      <3> QED BY <1>2, <1>4, <1>5, <1>9
    <2>2. T = found BY <1>2, <2>1, FS_Subset DEF Kept
    <2>3. routes' = Walk!Sorted(T \cup {r}) BY <1>6, <1>9 DEF Walk!Retained
    <2>4. Below(T \cup {r}, found' \ (T \cup {r})) BY <2>2 DEF Below
    <2>5. Cardinality(T \cup {r}) = IF n + 1 < MaxRoutes THEN n + 1 ELSE MaxRoutes
      <3>1. Cardinality(T \cup {r}) = n + 1 BY <1>7, <2>2
      <3>2. n < MaxRoutes BY <1>4, <1>9, <2>1
      <3> HIDE DEF n
      <3> QED BY <1>2, <1>5, <3>1, <3>2
    <2> QED BY <1>2, <1>7, <1>8, <2>2, <2>3, <2>4, <2>5
  <1>10. CASE ~(Len(routes) < MaxRoutes)
    <2>1. m = MaxRoutes /\ ~(n < MaxRoutes)
      <3> HIDE DEF m, n
      <3> QED BY <1>2, <1>4, <1>5, <1>10
    <2>2. last = routes[m] BY <1>4 DEF Walk!Last
    <2> HIDE DEF last
    <2>3. m \in 1..m
      <3> HIDE DEF m
      <3> QED BY <1>4, <1>5, <2>1
    <2>4. last \in T BY <1>4, <2>2, <2>3
    <2>5. ASSUME NEW x \in T, x # last PROVE x < last
      <3>1. PICK i \in 1..m : routes[i] = x BY <1>3, <1>4 DEF Enumerates
      <3>2. i < m
        <4>1. i # m BY <2>2, <2>5, <3>1
        <4> HIDE DEF m
        <4> QED BY <1>4, <4>1
      <3> QED BY <1>3, <1>4, <2>2, <2>3, <3>1, <3>2 DEF Enumerates, Increasing
    <2>6. \A x \in T, y \in found \ T : x < y BY <1>1 DEF Best, Below
    <2>7. last \in Nat /\ found \in SUBSET Nat BY <1>2, <2>4 DEF Kept
    <2>8. CASE r < last
      <3> DEFINE U == (T \ {last}) \cup {r}
      <3>1. routes' = Walk!Sorted(U) BY <1>6, <1>10, <2>8 DEF Walk!Retained, last
      <3>2. U \subseteq found' /\ U \in SUBSET Nat BY <1>2
      <3>3. Below(U, found' \ U)
        <4>1. ASSUME NEW x \in U, NEW y \in found' \ U PROVE x < y
          <5>1. y = last \/ y \in found \ T OBVIOUS
          <5>2. x = r \/ (x \in T /\ x # last) OBVIOUS
          <5>3. x \in Nat /\ y \in Nat BY <1>2, <1>7, <3>2
          <5>4. y = last => x < y BY <2>5, <2>8, <5>2
          <5>5. y \in found \ T => x < y
            <6> SUFFICES ASSUME y \in found \ T PROVE x < y
              OBVIOUS
            <6>1. last < y BY <2>4, <2>6
            <6>2. x \in T => x < y BY <2>6
            <6> QED BY <2>7, <2>8, <5>2, <5>3, <6>1, <6>2
          <5> QED BY <5>1, <5>4, <5>5
        <4> QED BY <4>1 DEF Below
      <3>4. IsFiniteSet(U) /\ Cardinality(U) = MaxRoutes
        <4>1. IsFiniteSet(T \ {last}) /\ Cardinality(T \ {last}) = m - 1
          BY <1>2, <2>4, FS_RemoveElement
        <4>2. r \notin T \ {last} BY <1>2
        <4>3. IsFiniteSet(U) /\ Cardinality(U) = (m - 1) + 1 BY <4>1, <4>2, FS_AddElement
        <4> HIDE DEF m
        <4> QED BY <1>4, <2>1, <4>3
      <3>5. MaxRoutes = IF n + 1 < MaxRoutes THEN n + 1 ELSE MaxRoutes
        <4> HIDE DEF n
        <4> QED BY <1>2, <1>5, <2>1
      <3> HIDE DEF U
      <3> QED BY <1>8, <3>1, <3>2, <3>3, <3>4, <3>5
    <2>9. CASE ~(r < last)
      <3>1. routes' = Walk!Sorted(T)
        BY <1>1, <1>10, <2>9 DEF Walk!Retained, Best, last
      <3>2. last < r
        <4>1. last # r BY <1>2, <2>4
        <4> QED BY <2>7, <2>9, <4>1
      <3>3. ASSUME NEW x \in T, NEW y \in found' \ T PROVE x < y
        <4>1. x \in Nat BY <1>2
        <4>2. x = last \/ x < last BY <2>5
        <4> QED BY <2>6, <2>7, <3>2, <4>1, <4>2
      <3>4. Below(T, found' \ T) BY <3>3 DEF Below
      <3>5. m = IF n + 1 < MaxRoutes THEN n + 1 ELSE MaxRoutes
        <4> HIDE DEF n, m
        <4> QED BY <1>2, <1>5, <2>1
      <3> QED BY <1>2, <1>8, <3>1, <3>4, <3>5
    <2> QED BY <2>8, <2>9
  <1> QED BY <1>9, <1>10

-----------------------------------------------------------------------------
(* Part 3: the walk over the grid ******************************************)

\* The cells of one cell of a leg and of all below it, and of one launch date.
Cells2 == 1 + Flights[3]
Cells1 == 1 + Flights[2] * Cells2
Cells0 == Flights[1] * Cells1

\* The cells of the full grid before the one at hand, by the loop it is in.
Before1 == at[0] * Cells0 + at[1] * Cells1
Before2 == Before1 + 1 + at[2] * Cells2
Before3 == Before2 + 1 + at[3]
Before == IF leg = 1 THEN Before1 ELSE IF leg = 2 THEN Before2 ELSE Before3

Steps == {"preflight", "cell", "screen", "assemble", "advance", "done", "raised"}

WalkType ==
    /\ pc \in Steps /\ leg \in 1..3 /\ at \in [0..3 -> Nat]
    /\ sampled \in Nat /\ cancelled \in BOOLEAN /\ stopped \in BOOLEAN

Inside == \A l \in 0..3 : l <= leg => at[l] < Walk!Size(l)

WalkInv ==
    /\ WalkType
    /\ pc = "preflight" => sampled = 0 /\ leg = 1 /\ \A l \in 0..3 : at[l] = 0
    /\ pc \in {"cell", "screen", "assemble", "advance"} => Inside
    /\ pc \in {"cell", "screen"} => sampled <= Before
    /\ pc \in {"assemble", "advance"} => sampled <= Before + 1
    /\ pc = "assemble" => leg = 3
    /\ late = 0 \/ (cancelled /\ pc # "screen")
    /\ stopped => pc = "done"
    /\ Kept

LEMMA Block ==
    ASSUME NEW a \in Nat, NEW f \in Nat, NEW w \in Nat, a < f
    PROVE  a * w + w <= f * w /\ a * w \in Nat /\ f * w \in Nat
  <1> DEFINE d == f - (a + 1)
  <1>1. d \in Nat /\ f = a + 1 + d OBVIOUS
  <1> HIDE DEF d
  <1>2. f * w = a * w + w + d * w BY <1>1
  <1>3. a * w \in Nat /\ d * w \in Nat BY <1>1
  <1> QED BY <1>2, <1>3

LEMMA GridType ==
    /\ Cells2 \in Nat /\ Cells1 \in Nat /\ Cells0 \in Nat /\ Walk!Total \in Nat
    /\ Cells2 = 1 + Flights[3] /\ Cells1 = 1 + Flights[2] * Cells2
    /\ Walk!Total = Launches * Cells0
  <1>1. /\ Launches \in Nat /\ Flights[1] \in Nat /\ Flights[2] \in Nat /\ Flights[3] \in Nat
    BY GridAssumption
  <1>2. Cells2 \in Nat /\ Cells2 = 1 + Flights[3] BY <1>1 DEF Cells2
  <1>3. Flights[2] * Cells2 \in Nat BY <1>1, <1>2
  <1>4. Cells1 \in Nat /\ Cells1 = 1 + Flights[2] * Cells2 BY <1>3 DEF Cells1
  <1>5. Cells0 \in Nat BY <1>1, <1>4 DEF Cells0
  <1>7. Walk!Total = Launches * Cells0
    <2>1. Walk!Total = Launches * Flights[1] + Launches * Flights[1] * Flights[2]
                         + Launches * Flights[1] * Flights[2] * Flights[3]
      BY DEF Walk!Total
    <2>2. Launches * Flights[1] + Launches * Flights[1] * Flights[2]
            + Launches * Flights[1] * Flights[2] * Flights[3]
          = Launches * (Flights[1] * (1 + Flights[2] * (1 + Flights[3])))
      <3>1. PICK f \in Nat : f = Flights[1] BY <1>1
      <3>2. PICK g \in Nat : g = Flights[2] BY <1>1
      <3>3. PICK h \in Nat : h = Flights[3] BY <1>1
      <3>4. Launches * f + Launches * f * g + Launches * f * g * h
            = Launches * (f * (1 + g * (1 + h)))
        BY <1>1
      <3> QED BY <3>1, <3>2, <3>3, <3>4
    <2> QED BY <2>1, <2>2 DEF Cells0, Cells1, Cells2
  <1>8. Launches * Cells0 \in Nat BY <1>1, <1>5
  <1> QED BY <1>2, <1>4, <1>5, <1>7, <1>8

\* Where each loop's next index begins, and how far the walk has got before it.
LEMMA Ends ==
    ASSUME WalkType, Inside
    PROVE  /\ Before1 \in Nat /\ Before2 \in Nat /\ Before3 \in Nat
           /\ Before + 1 <= Before1 + Cells1
           /\ leg >= 2 => Before + 1 <= Before2 + Cells2
           /\ Before1 + Cells1 <= at[0] * Cells0 + Cells0
           /\ at[0] * Cells0 + Cells0 <= Walk!Total
  <1>1. /\ Launches \in Nat /\ Flights[1] \in Nat /\ Flights[2] \in Nat /\ Flights[3] \in Nat
        /\ at[0] \in Nat /\ at[1] \in Nat /\ at[2] \in Nat /\ at[3] \in Nat
        /\ leg \in 1..3
    BY GridAssumption DEF WalkType
  <1>2. /\ at[0] < Launches /\ at[1] < Flights[1]
        /\ leg >= 2 => at[2] < Flights[2]
        /\ leg = 3 => at[3] < Flights[3]
    BY <1>1 DEF Inside, Walk!Size
  <1>3. /\ Cells2 \in Nat /\ Cells1 \in Nat /\ Cells0 \in Nat
        /\ Cells2 = 1 + Flights[3] /\ Cells1 = 1 + Flights[2] * Cells2
        /\ Walk!Total = Launches * Cells0
    BY GridType
  <1>4. at[0] * Cells0 + Cells0 <= Walk!Total /\ at[0] * Cells0 \in Nat
    BY <1>1, <1>2, <1>3, Block
  <1>5. at[1] * Cells1 + Cells1 <= Cells0 /\ at[1] * Cells1 \in Nat
    BY <1>1, <1>2, <1>3, Block DEF Cells0
  <1>6. at[2] * Cells2 \in Nat /\ Flights[2] * Cells2 \in Nat
    BY <1>1, <1>3
  <1>7. leg >= 2 => at[2] * Cells2 + Cells2 <= Flights[2] * Cells2
    BY <1>1, <1>2, <1>3, Block
  <1>8. Before1 = at[0] * Cells0 + at[1] * Cells1 /\ Before1 \in Nat BY <1>4, <1>5 DEF Before1
  <1>9. Before2 = Before1 + 1 + at[2] * Cells2 /\ Before2 \in Nat BY <1>6, <1>8 DEF Before2
  <1>10. Before3 = Before2 + 1 + at[3] /\ Before3 \in Nat BY <1>1, <1>9 DEF Before3
  <1>11. Before1 + Cells1 <= at[0] * Cells0 + Cells0
    BY <1>3, <1>4, <1>5, <1>8
  <1>12. leg >= 2 => Before2 + Cells2 <= Before1 + Cells1
    BY <1>1, <1>3, <1>6, <1>7, <1>8, <1>9
  <1>13. leg = 3 => Before3 + 1 <= Before2 + Cells2
    BY <1>1, <1>2, <1>3, <1>9, <1>10
  <1>14. leg = 2 => Before2 + 1 <= Before2 + Cells2
    BY <1>1, <1>3, <1>9
  <1>15. leg = 1 => Before1 + 1 <= Before1 + Cells1
    BY <1>1, <1>3, <1>6, <1>8
  <1> QED BY <1>1, <1>3, <1>4, <1>8, <1>9, <1>10, <1>11, <1>12, <1>13, <1>14, <1>15 DEF Before

\* A loop with an index left is entered at it, or further out.
LEMMA MaxOfLoops == ASSUME NEW S \in SUBSET (0..3), S # {} PROVE Walk!Max(S) \in S
  <1>1. S \in SUBSET Nat OBVIOUS
  <1> DEFINE R == {3 - x : x \in S}
  <1>2. R \in SUBSET Nat /\ R # {}
    <2>1. \A x \in S : 3 - x \in Nat OBVIOUS
    <2> QED BY <2>1
  <1>3. PICK m \in R : \A x \in R : m <= x BY <1>2, LeastNatural
  <1>4. PICK y \in S : m = 3 - y OBVIOUS
  <1>5. \A x \in S : y >= x
    <2> SUFFICES ASSUME NEW x \in S PROVE y >= x
      OBVIOUS
    <2>1. 3 - y <= 3 - x BY <1>3, <1>4
    <2>2. x \in Nat /\ y \in Nat BY <1>1
    <2> QED BY <2>1, <2>2
  <1> QED BY <1>5 DEF Walk!Max

LEMMA AdvanceKeeps ==
    ASSUME WalkType, Inside, sampled <= Before + 1, Walk!Advance
    PROVE  /\ WalkType'
           /\ \/ pc' = "done" /\ UNCHANGED <<leg, at>>
              \/ pc' = "cell" /\ Inside' /\ sampled' <= Before'
  <1> DEFINE more == {l \in 0..leg : at[l] + 1 < Walk!Size(l)}
             l == Walk!Max(more)
  <1>0. UNCHANGED <<sampled, cancelled, stopped>> BY DEF Walk!Advance, Walk!outVars
  <1>1. leg \in 1..3 /\ at \in [0..3 -> Nat] /\ sampled \in Nat BY DEF WalkType
  <1>2. CASE more = {}
    <2>1. pc' = "done" /\ UNCHANGED <<leg, at>> BY <1>2 DEF Walk!Advance, Walk!Goto
    <2> QED BY <1>0, <2>1 DEF WalkType, Steps
  <1>3. CASE more # {}
    <2>1. more \in SUBSET (0..3) BY <1>1
    <2>2. l \in more BY <1>3, <2>1, MaxOfLoops
    <2>3. /\ pc' = "cell"
          /\ at' = IF l = 0 THEN [at EXCEPT ![0] = @ + 1, ![1] = 0] ELSE [at EXCEPT ![l] = @ + 1]
          /\ leg' = Walk!Max({l, 1})
      BY <1>3 DEF Walk!Advance
    <2> HIDE DEF l
    <2>4. l \in 0..3 /\ l <= leg /\ at[l] + 1 < Walk!Size(l) BY <1>1, <2>2
    <2>5. leg' = IF l = 0 THEN 1 ELSE l
      <3>1. CASE l = 0
        <4>1. Walk!Max({0, 1}) = 1 BY MaxOfTwo
        <4> QED BY <2>3, <3>1, <4>1
      <3>2. CASE l # 0
        <4>1. l \in Nat /\ 1 <= l BY <2>4, <3>2
        <4>2. {l, 1} = {1, l} OBVIOUS
        <4>3. Walk!Max({1, l}) = l BY <4>1, MaxOfTwo
        <4> QED BY <2>3, <3>2, <4>2, <4>3
      <3> QED BY <3>1, <3>2
    <2>6. at' \in [0..3 -> Nat] BY <1>1, <2>3, <2>4
    <2>7. WalkType' BY <1>0, <1>1, <2>3, <2>4, <2>5, <2>6 DEF WalkType, Steps
    <2>8. Inside'
      <3>1. CASE l = 0
        <4>1. leg' = 1 /\ at'[0] = at[0] + 1 /\ at'[1] = 0 BY <1>1, <2>3, <2>5, <3>1
        <4>2. at[0] + 1 < Launches /\ 0 < Flights[1]
          BY <2>4, <3>1, GridAssumption DEF Walk!Size
        <4>3. \A k \in 0..3 : k <= leg' => k = 0 \/ k = 1 BY <4>1
        <4> QED BY <4>1, <4>2, <4>3 DEF Inside, Walk!Size
      <3>2. CASE l # 0
        <4>1. leg' = l /\ at' = [at EXCEPT ![l] = @ + 1] BY <2>3, <2>5, <3>2
        <4>2. ASSUME NEW k \in 0..3, k <= l PROVE at'[k] < Walk!Size(k)
          <5>1. CASE k = l BY <1>1, <2>4, <4>1, <5>1
          <5>2. CASE k # l
            <6>1. at'[k] = at[k] /\ k <= leg BY <1>1, <2>4, <4>1, <4>2, <5>2
            <6> QED BY <6>1 DEF Inside
          <5> QED BY <5>1, <5>2
        <4> QED BY <4>1, <4>2 DEF Inside, Walk!Size
      <3> QED BY <3>1, <3>2
    <2>9. sampled <= Before'
      <3>0. /\ Before1 \in Nat /\ Before2 \in Nat /\ Before3 \in Nat
            /\ Before + 1 <= Before1 + Cells1
            /\ leg >= 2 => Before + 1 <= Before2 + Cells2
            /\ Before1 + Cells1 <= at[0] * Cells0 + Cells0
        BY Ends
      <3>1. Before \in Nat /\ sampled \in Nat BY <1>1, <3>0 DEF Before
      <3>2. /\ Cells2 \in Nat /\ Cells1 \in Nat /\ Cells0 \in Nat
            /\ \A a \in Nat : /\ (a + 1) * Cells0 = a * Cells0 + Cells0
                               /\ (a + 1) * Cells1 = a * Cells1 + Cells1
                               /\ (a + 1) * Cells2 = a * Cells2 + Cells2
                               /\ a * Cells0 \in Nat /\ a * Cells1 \in Nat /\ a * Cells2 \in Nat
        <4>1. Cells2 \in Nat /\ Cells1 \in Nat /\ Cells0 \in Nat BY GridType
        <4>2. \A a, c \in Nat : (a + 1) * c = a * c + c /\ a * c \in Nat OBVIOUS
        <4> QED BY <4>1, <4>2
      <3>3. at[0] \in Nat /\ at[1] \in Nat /\ at[2] \in Nat /\ at[3] \in Nat BY <1>1
      <3>4. CASE l = 0
        <4>1. leg' = 1 /\ at'[0] = at[0] + 1 /\ at'[1] = 0 BY <1>1, <2>3, <2>5, <3>4
        <4>2. Before' = (at[0] + 1) * Cells0 + 0 * Cells1
          BY <4>1 DEF Before, Before1, Cells0, Cells1, Cells2
        <4>3. 0 * Cells1 = 0 BY <3>2
        <4>4. Before' = at[0] * Cells0 + Cells0 BY <3>2, <3>3, <4>2, <4>3
        <4> QED BY <3>0, <3>1, <3>2, <3>3, <4>4
      <3>5. CASE l = 1
        <4>1. leg' = 1 /\ at'[0] = at[0] /\ at'[1] = at[1] + 1 BY <1>1, <2>3, <2>5, <3>5
        <4>2. Before' = at[0] * Cells0 + (at[1] + 1) * Cells1
          BY <4>1 DEF Before, Before1, Cells0, Cells1, Cells2
        <4>3. Before' = Before1 + Cells1 BY <3>2, <3>3, <4>2 DEF Before1
        <4> QED BY <3>0, <3>1, <3>2, <4>3
      <3>6. CASE l = 2
        <4>1. leg' = 2 /\ at'[0] = at[0] /\ at'[1] = at[1] /\ at'[2] = at[2] + 1
          BY <1>1, <2>3, <2>5, <3>6
        <4>2. Before' = Before1 + 1 + (at[2] + 1) * Cells2
          BY <4>1 DEF Before, Before2, Before1, Cells0, Cells1, Cells2
        <4>3. Before' = Before2 + Cells2 BY <3>0, <3>2, <3>3, <4>2 DEF Before2
        <4>4. leg >= 2 BY <1>1, <2>4, <3>6
        <4> QED BY <3>0, <3>1, <3>2, <4>3, <4>4
      <3>7. CASE l = 3
        <4>1. leg' = 3 /\ at'[0] = at[0] /\ at'[1] = at[1] /\ at'[2] = at[2] /\ at'[3] = at[3] + 1
          BY <1>1, <2>3, <2>5, <3>7
        <4>2. Before' = Before2 + 1 + (at[3] + 1)
          BY <4>1 DEF Before, Before3, Before2, Before1, Cells0, Cells1, Cells2
        <4>3. Before' = Before3 + 1 BY <3>0, <3>3, <4>2 DEF Before3
        <4>4. leg = 3 BY <1>1, <2>4, <3>7
        <4> QED BY <3>1, <4>3, <4>4 DEF Before
      <3> QED BY <2>4, <3>4, <3>5, <3>6, <3>7
    <2> QED BY <1>0, <2>3, <2>7, <2>8, <2>9
  <1> QED BY <1>2, <1>3

RunStep == [Walk!Run!Next]_Walk!Run!vars

\* What Walk!Run!vars is made of.
Outcome == IF pc = "raised" THEN "raised"
           ELSE IF pc # "done" THEN "running"
           ELSE IF stopped THEN "cancelled" ELSE "complete"

LEMMA Stutters ==
    ASSUME UNCHANGED <<sampled, routes, cancelled, late>>,
           Outcome' = Outcome, (pc = "assemble")' = (pc = "assemble")
    PROVE  RunStep
  BY DEF RunStep, Walk!Run!vars, Outcome

LEMMA KeptFrame ==
    ASSUME Kept, UNCHANGED <<found, routes, peak>>
    PROVE  Kept'
  <1>1. PICK T \in SUBSET found : Best(T) BY DEF Kept
  <1>2. Best(T)' BY <1>1 DEF Best
  <1>3. T \in SUBSET found' OBVIOUS
  <1> QED BY <1>2, <1>3 DEF Kept

LEMMA PreflightKeeps == WalkInv /\ Walk!Preflight => WalkInv' /\ RunStep
  <1> SUFFICES ASSUME WalkInv, Walk!Preflight PROVE WalkInv' /\ RunStep
    OBVIOUS
  <1>1. /\ pc = "preflight" /\ pc' \in {"cell", "raised"}
        /\ UNCHANGED <<leg, at, sampled, routes, peak, stopped, cancelled, late, found>>
    BY DEF Walk!Preflight, Walk!Goto, Walk!outVars
  <1>2. /\ sampled = 0 /\ leg = 1 /\ \A l \in 0..3 : at[l] = 0
        /\ WalkType /\ stopped = FALSE
    BY <1>1 DEF WalkInv, WalkType
  <1>3. WalkType' BY <1>1, <1>2 DEF WalkType, Steps
  <1>4. Inside
    <2>1. Launches > 0 /\ Flights[1] > 0 BY GridAssumption
    <2>2. \A l \in 0..3 : l <= leg => l = 0 \/ l = 1 BY <1>2
    <2> QED BY <1>2, <2>1, <2>2 DEF Inside, Walk!Size
  <1>5. Inside' BY <1>1, <1>4 DEF Inside, Walk!Size
  <1>6. sampled' <= Before'
    <2>1. Before' = Before BY <1>1 DEF Before, Before1, Before2, Before3, Cells0, Cells1, Cells2
    <2>2. Before \in Nat BY <1>2, <1>4, Ends DEF Before
    <2> QED BY <1>1, <1>2, <2>1, <2>2
  <1>7. Kept' BY <1>1, KeptFrame DEF WalkInv
  <1>8. WalkInv' BY <1>1, <1>2, <1>3, <1>5, <1>6, <1>7 DEF WalkInv
  <1>9. RunStep
    <2>1. CASE pc' = "cell" BY <1>1, <2>1, Stutters DEF Outcome
    <2>2. CASE pc' = "raised"
      <3>1. Walk!Run!Return BY <1>1, <2>2 DEF Walk!Run!Return
      <3> QED BY <3>1 DEF RunStep, Walk!Run!Next
    <2> QED BY <1>1, <2>1, <2>2
  <1> QED BY <1>8, <1>9

LEMMA CancelKeeps == WalkInv /\ Walk!RaiseCancel => WalkInv' /\ RunStep
  <1> SUFFICES ASSUME WalkInv, Walk!RaiseCancel PROVE WalkInv' /\ RunStep
    OBVIOUS
  <1>1. /\ ~cancelled /\ cancelled' = TRUE
        /\ UNCHANGED <<pc, leg, at, sampled, routes, peak, stopped, late, found>>
    BY DEF Walk!RaiseCancel, Walk!outVars
  <1>2. WalkType' BY <1>1 DEF WalkInv, WalkType
  <1>3. Before' = Before /\ (Inside => Inside')
    BY <1>1 DEF Before, Before1, Before2, Before3, Cells0, Cells1, Cells2, Inside, Walk!Size
  <1>4. Kept' BY <1>1, KeptFrame DEF WalkInv
  <1>5. WalkInv' BY <1>1, <1>2, <1>3, <1>4 DEF WalkInv
  <1>6. Walk!Run!RaiseCancel BY <1>1 DEF Walk!Run!RaiseCancel
  <1> QED BY <1>5, <1>6 DEF RunStep, Walk!Run!Next

LEMMA StopKeeps == WalkInv /\ (Walk!Stop \/ Walk!GoOn) => WalkInv' /\ RunStep
  <1> SUFFICES ASSUME WalkInv, Walk!Stop \/ Walk!GoOn PROVE WalkInv' /\ RunStep
    OBVIOUS
  <1>1. /\ pc = "cell"
        /\ UNCHANGED <<leg, at, sampled, routes, peak, cancelled, late, found>>
        /\ \/ pc' = "done" /\ cancelled /\ stopped' = TRUE
           \/ pc' = "screen" /\ ~cancelled /\ stopped' = stopped
    BY DEF Walk!Stop, Walk!GoOn, Walk!Goto, Walk!outVars
  <1>2. WalkType /\ Inside /\ sampled <= Before /\ ~stopped BY <1>1 DEF WalkInv
  <1>3. WalkType' BY <1>1, <1>2 DEF WalkType, Steps
  <1>4. Before' = Before /\ Inside'
    BY <1>1, <1>2 DEF Before, Before1, Before2, Before3, Cells0, Cells1, Cells2, Inside, Walk!Size
  <1>5. Kept' BY <1>1, KeptFrame DEF WalkInv
  <1>6. WalkInv'
    <2>1. CASE pc' = "done" BY <1>1, <1>3, <1>5, <2>1 DEF WalkInv
    <2>2. CASE pc' = "screen"
      <3>1. late = 0 /\ ~stopped' BY <1>1, <1>2, <2>2 DEF WalkInv
      <3>2. sampled' <= Before' BY <1>1, <1>2, <1>4
      <3> QED BY <1>1, <1>3, <1>4, <1>5, <2>2, <3>1, <3>2 DEF WalkInv
    <2> QED BY <1>1, <2>1, <2>2
  <1>7. RunStep
    <2>1. CASE pc' = "screen" BY <1>1, <2>1, Stutters DEF Outcome
    <2>2. CASE pc' = "done"
      <3>1. Walk!Run!Return BY <1>1, <2>2 DEF Walk!Run!Return
      <3> QED BY <3>1 DEF RunStep, Walk!Run!Next
    <2> QED BY <1>1, <2>1, <2>2
  <1> QED BY <1>6, <1>7

LEMMA AdvanceStep == WalkInv /\ Walk!Advance => WalkInv' /\ RunStep
  <1> SUFFICES ASSUME WalkInv, Walk!Advance PROVE WalkInv' /\ RunStep
    OBVIOUS
  <1>1. /\ pc = "advance"
        /\ UNCHANGED <<sampled, routes, peak, stopped, cancelled, late, found>>
    BY DEF Walk!Advance, Walk!outVars
  <1>2. WalkType /\ Inside /\ sampled <= Before + 1 /\ ~stopped BY <1>1 DEF WalkInv
  <1>3. /\ WalkType'
        /\ \/ pc' = "done" /\ UNCHANGED <<leg, at>>
           \/ pc' = "cell" /\ Inside' /\ sampled' <= Before'
    BY <1>2, AdvanceKeeps
  <1>4. Kept' BY <1>1, KeptFrame DEF WalkInv
  <1>5. WalkInv' BY <1>1, <1>2, <1>3, <1>4 DEF WalkInv
  <1>6. RunStep
    <2>1. CASE pc' = "cell" BY <1>1, <2>1, Stutters DEF Outcome
    <2>2. CASE pc' = "done"
      <3>1. Walk!Run!Return BY <1>1, <1>2, <2>2 DEF Walk!Run!Return
      <3> QED BY <3>1 DEF RunStep, Walk!Run!Next
    <2> QED BY <1>3, <2>1, <2>2
  <1> QED BY <1>5, <1>6

\* The cell at hand is one of those announced.
LEMMA ScreenKeeps == WalkInv /\ Walk!Screen => WalkInv' /\ RunStep
  <1> SUFFICES ASSUME WalkInv, Walk!Screen PROVE WalkInv' /\ RunStep
    OBVIOUS
  <1>1. /\ pc = "screen" /\ sampled' = sampled + 1
        /\ late' = IF cancelled THEN late + 1 ELSE late
        /\ UNCHANGED <<routes, peak, stopped, cancelled, found>>
        /\ \/ pc' = "advance" /\ UNCHANGED <<leg, at>>
           \/ pc' = "assemble" /\ UNCHANGED <<leg, at>> /\ ~(leg < 3)
           \/ leg < 3 /\ pc' = "cell" /\ leg' = leg + 1 /\ at' = [at EXCEPT ![leg + 1] = 0]
    BY DEF Walk!Screen, Walk!Goto, Walk!Descend
  <1>2. WalkType /\ Inside /\ sampled <= Before /\ ~stopped /\ late = 0 BY <1>1 DEF WalkInv
  <1>3. leg \in 1..3 /\ at \in [0..3 -> Nat] /\ sampled \in Nat BY <1>2 DEF WalkType
  <1>4. /\ Before1 \in Nat /\ Before2 \in Nat /\ Before3 \in Nat
        /\ Before + 1 <= Before1 + Cells1
        /\ Before1 + Cells1 <= at[0] * Cells0 + Cells0
        /\ at[0] * Cells0 + Cells0 <= Walk!Total
    BY <1>2, Ends
  <1>5. Before \in Nat BY <1>4 DEF Before
  <1>6. sampled < Walk!Total
    <2>1. Cells1 \in Nat /\ Cells0 \in Nat /\ Walk!Total \in Nat BY GridType
    <2>2. at[0] \in Nat BY <1>3
    <2>3. at[0] * Cells0 \in Nat BY <2>1, <2>2
    <2> QED BY <1>2, <1>3, <1>4, <1>5, <2>1, <2>3
  <1>7. Kept' BY <1>1, KeptFrame DEF WalkInv
  <1>8. late' = 0 \/ cancelled' BY <1>1, <1>2
  <1>9. Walk!Run!Cell /\ pc' \in Steps
    BY <1>1, <1>2, <1>6 DEF Walk!Run!Cell, Steps
  <1>10. CASE pc' \in {"advance", "assemble"}
    <2>1. UNCHANGED <<leg, at>> /\ (pc' = "assemble" => leg = 3) BY <1>1, <1>3, <1>10
    <2>2. WalkType' BY <1>1, <1>2, <1>9, <2>1 DEF WalkType
    <2>3. Before' = Before /\ Inside'
      BY <1>2, <2>1 DEF Before, Before1, Before2, Before3, Cells0, Cells1, Cells2, Inside, Walk!Size
    <2>4. sampled' <= Before' + 1 BY <1>1, <1>2, <1>3, <1>5, <2>3
    <2> QED BY <1>1, <1>2, <1>7, <1>8, <1>9, <1>10, <2>1, <2>2, <2>3, <2>4
            DEF WalkInv, RunStep, Walk!Run!Next
  <1>11. CASE leg < 3 /\ pc' = "cell" /\ leg' = leg + 1 /\ at' = [at EXCEPT ![leg + 1] = 0]
    <2>1. leg' \in 1..3 /\ at' \in [0..3 -> Nat] BY <1>3, <1>11
    <2>2. WalkType' BY <1>1, <1>2, <1>3, <1>9, <2>1 DEF WalkType
    <2>3. Inside'
      <3>1. ASSUME NEW l \in 0..3, l <= leg + 1 PROVE at'[l] < Walk!Size(l)
        <4>1. CASE l = leg + 1
          <5>1. at'[l] = 0 BY <1>3, <1>11, <4>1
          <5>2. Walk!Size(l) = Flights[l] /\ Flights[l] \in Nat \ {0}
            BY <1>3, <4>1, GridAssumption DEF Walk!Size
          <5> QED BY <5>1, <5>2
        <4>2. CASE l # leg + 1
          <5>1. at'[l] = at[l] /\ l <= leg BY <1>3, <1>11, <3>1, <4>2
          <5> QED BY <1>2, <5>1 DEF Inside
        <4> QED BY <4>1, <4>2
      <3> QED BY <1>11, <3>1 DEF Inside, Walk!Size
    <2>4. Before' = Before + 1
      <3>1. CASE leg = 1
        <4>1. leg' = 2 /\ at'[0] = at[0] /\ at'[1] = at[1] /\ at'[2] = 0 BY <1>3, <1>11, <3>1
        <4>2. Before' = Before1 + 1 + 0 * Cells2
          BY <4>1 DEF Before, Before2, Before1, Cells0, Cells1, Cells2
        <4>3. 0 * Cells2 = 0 BY GridType
        <4>4. Before = Before1 BY <3>1 DEF Before
        <4> QED BY <1>4, <4>2, <4>3, <4>4
      <3>2. CASE leg = 2
        <4>1. leg' = 3 /\ at'[0] = at[0] /\ at'[1] = at[1] /\ at'[2] = at[2] /\ at'[3] = 0
          BY <1>3, <1>11, <3>2
        <4>2. Before' = Before2 + 1 + 0
          BY <4>1 DEF Before, Before3, Before2, Before1, Cells0, Cells1, Cells2
        <4>3. Before = Before2 BY <3>2 DEF Before
        <4> QED BY <1>4, <4>2, <4>3
      <3> QED BY <1>3, <1>11, <3>1, <3>2
    <2>5. sampled' <= Before' BY <1>1, <1>2, <1>3, <1>5, <2>4
    <2> QED BY <1>1, <1>2, <1>7, <1>8, <1>9, <1>11, <2>2, <2>3, <2>5 DEF WalkInv, RunStep, Walk!Run!Next
  <1> QED BY <1>1, <1>10, <1>11

LEMMA RaiseKeeps == WalkInv /\ Walk!Raise => WalkInv' /\ RunStep
  <1> SUFFICES ASSUME WalkInv, Walk!Raise PROVE WalkInv' /\ RunStep
    OBVIOUS
  <1>1. /\ pc \in {"screen", "assemble"} /\ pc' = "raised"
        /\ UNCHANGED <<leg, at, sampled, routes, peak, stopped, cancelled, late, found>>
    BY DEF Walk!Raise, Walk!Goto, Walk!outVars
  <1>2. WalkType' /\ ~stopped BY <1>1 DEF WalkInv, WalkType, Steps
  <1>3. Kept' BY <1>1, KeptFrame DEF WalkInv
  <1>4. WalkInv' BY <1>1, <1>2, <1>3 DEF WalkInv
  <1>5. Walk!Run!Return BY <1>1 DEF Walk!Run!Return
  <1> QED BY <1>4, <1>5 DEF RunStep, Walk!Run!Next

LEMMA DropKeeps == WalkInv /\ Walk!AssembleNothing => WalkInv' /\ RunStep
  <1> SUFFICES ASSUME WalkInv, Walk!AssembleNothing PROVE WalkInv' /\ RunStep
    OBVIOUS
  <1>1. /\ pc = "assemble" /\ pc' = "advance"
        /\ UNCHANGED <<leg, at, sampled, routes, peak, stopped, cancelled, late, found>>
    BY DEF Walk!AssembleNothing, Walk!Goto, Walk!outVars
  <1>2. WalkType' /\ ~stopped /\ Inside /\ sampled <= Before + 1
    BY <1>1 DEF WalkInv, WalkType, Steps
  <1>3. Before' = Before /\ Inside'
    BY <1>1, <1>2 DEF Before, Before1, Before2, Before3, Cells0, Cells1, Cells2, Inside, Walk!Size
  <1>4. Kept' BY <1>1, KeptFrame DEF WalkInv
  <1>5. WalkInv' BY <1>1, <1>2, <1>3, <1>4 DEF WalkInv
  <1>6. Walk!Run!Drop BY <1>1 DEF Walk!Run!Drop
  <1> QED BY <1>5, <1>6 DEF RunStep, Walk!Run!Next

LEMMA AssembleKeeps == WalkInv /\ Walk!Assemble => WalkInv' /\ RunStep
  <1> SUFFICES ASSUME WalkInv, Walk!Assemble PROVE WalkInv' /\ RunStep
    OBVIOUS
  <1>1. /\ pc = "assemble" /\ pc' = "advance"
        /\ UNCHANGED <<leg, at, sampled, stopped, cancelled, late>>
        /\ peak' = Walk!Max({peak, Len(routes')})
    BY DEF Walk!Assemble, Walk!Goto
  <1>2. PICK r \in Ranks \ found : found' = found \cup {r} /\ routes' = Walk!Retained(r)
    BY DEF Walk!Assemble
  <1>3. r \in Nat /\ r \notin found BY GridAssumption
  <1>4. WalkType' /\ ~stopped /\ Inside /\ sampled <= Before + 1 /\ Kept
    BY <1>1 DEF WalkInv, WalkType, Steps
  <1>5. Before' = Before /\ Inside'
    BY <1>1, <1>4 DEF Before, Before1, Before2, Before3, Cells0, Cells1, Cells2, Inside, Walk!Size
  <1>6. /\ Kept'
        /\ Len(routes') \in {Len(routes), Len(routes) + 1} /\ Len(routes') \in 1..MaxRoutes
    BY <1>1, <1>2, <1>3, <1>4, RetainedKeeps
  <1>7. WalkInv' BY <1>1, <1>4, <1>5, <1>6 DEF WalkInv
  <1>8. Walk!Run!Retain BY <1>1, <1>6 DEF Walk!Run!Retain
  <1> QED BY <1>7, <1>8 DEF RunStep, Walk!Run!Next

LEMMA WalkStep == WalkInv /\ [MissionNext]_<<vars, searchVars>> => WalkInv' /\ RunStep
  <1> SUFFICES ASSUME WalkInv, [MissionNext]_<<vars, searchVars>> PROVE WalkInv' /\ RunStep
    OBVIOUS
  <1>1. CASE Walk!Next
    BY <1>1, PreflightKeeps, CancelKeeps, StopKeeps, AdvanceStep, ScreenKeeps, RaiseKeeps, DropKeeps,
       AssembleKeeps DEF Walk!Next, Walk!Step
  <1>2. CASE UNCHANGED searchVars
    <2>1. UNCHANGED <<pc, leg, at, sampled, routes, peak, stopped, cancelled, late, found>>
      BY <1>2 DEF searchVars
    <2>2. Kept' BY <2>1, KeptFrame DEF WalkInv
    <2>3. Before' = Before /\ (Inside => Inside') /\ (WalkType => WalkType')
      BY <2>1 DEF Before, Before1, Before2, Before3, Cells0, Cells1, Cells2, Inside, Walk!Size, WalkType
    <2>4. WalkInv' BY <2>1, <2>2, <2>3 DEF WalkInv
    <2> QED BY <2>1, <2>4, Stutters DEF Outcome
  <1> QED BY <1>1, <1>2 DEF MissionNext, Gate, Search_Mission

LEMMA WalkStart == MissionInit => WalkInv
  <1> SUFFICES ASSUME MissionInit PROVE WalkInv
    OBVIOUS
  <1>1. /\ pc = "preflight" /\ leg = 1 /\ at = [l \in 0..3 |-> 0] /\ sampled = 0 /\ routes = <<>>
        /\ peak = 0 /\ stopped = FALSE /\ cancelled = FALSE /\ late = 0 /\ found = {}
    BY DEF MissionInit, Walk!Init, Walk!Loops
  <1>2. WalkType
    <2>1. stopped \in BOOLEAN /\ cancelled \in BOOLEAN BY <1>1, Zenon
    <2>2. at \in [0..3 -> Nat] /\ sampled \in Nat /\ leg \in 1..3 BY <1>1
    <2> QED BY <1>1, <2>1, <2>2 DEF WalkType, Steps
  <1>3. Kept
    <2>1. Cardinality({}) = 0 /\ IsFiniteSet({}) BY FS_EmptySet
    <2>2. Enumerates(<<>>, {}) BY EmptySeq DEF Enumerates, Increasing
    <2>3. Walk!Sorted({}) = <<>> BY <2>2, SortedOf
    <2>4. Best({}) BY <1>1, <2>1, <2>3, GridAssumption DEF Best, Below
    <2> QED BY <1>1, <2>1, <2>4 DEF Kept
  <1> QED BY <1>1, <1>2, <1>3 DEF WalkInv

\* At any time, and so also in what a cancelled search returns, the routes kept are the best
\* of those assembled so far, in order, as many as are allowed (the retention at the end of
\* search_mission): for any grid, any routes and any order they are met in.
THEOREM BestRoutesKept == MissionSpec => []KeepsTheBest
  <1>1. WalkInv => KeepsTheBest BY KeptBest DEF WalkInv
  <1>2. WalkInv /\ [MissionNext]_<<vars, searchVars>> => WalkInv' BY WalkStep
  <1> QED BY <1>1, <1>2, WalkStart, PTL DEF MissionSpec

\* The walk counts its cells one by one up to the announced total, never shrinks what it
\* keeps, and lets at most one more cell begin after a cancellation.
THEOREM SearchRefinement == MissionSpec => ImplementsCellRun
  <1>1. MissionInit => Walk!Run!Init
    BY DEF MissionInit, Walk!Init, Walk!Run!Init
  <1>2. WalkInv /\ [MissionNext]_<<vars, searchVars>> => WalkInv' BY WalkStep
  <1>3. WalkInv /\ [MissionNext]_<<vars, searchVars>> => [Walk!Run!Next]_Walk!Run!vars
    BY WalkStep DEF RunStep
  <1> QED BY <1>1, <1>2, <1>3, WalkStart, PTL
          DEF MissionSpec, ImplementsCellRun, Walk!ImplementsCellRun, Walk!Run!Spec
=============================================================================
