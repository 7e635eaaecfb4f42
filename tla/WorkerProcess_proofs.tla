------------------------ MODULE WorkerProcess_proofs ------------------------
(***************************************************************************)
(* Part 1: the client's reader keeps its promises whatever the worker      *)
(* writes, and for every bound on the counts a line carries.               *)
(*                                                                         *)
(* ReaderInv is inductive.  It adds to the properties what they need of    *)
(* the past: a verdict was accepted exactly when the validator is closed,  *)
(* and the validator's few fields hold what the progress lines told, for   *)
(* each kind of result in its own way.                                     *)
(***************************************************************************)
EXTENDS WorkerProcess, FiniteSetsExt, SequenceTheorems, TLAPS

\* The fields accept_line keeps.
Validator == [started : BOOLEAN, terminal : BOOLEAN, total : Nat, last : Nat,
              phaseZero : BOOLEAN, events : 0..ProgressCap]

VerdictCloses == validator.terminal <=> verdict # "none"

\* A shooting's total is its announcement, made by its first progress line.
ShotsTold ==
    kind = "bounded_shooting" =>
        \/ validator.events = 0 /\ told = NothingTold
        \/ /\ validator.events > 0 /\ validator.last \in 1..validator.total
           /\ told.totals = {validator.total}

\* An evaluation that has told anything has told phase zero first.
PhasesTold ==
    kind = "fixed_impulse_evaluation" =>
        \/ ~validator.phaseZero /\ told = NothingTold
        \/ validator.phaseZero /\ told.first = 0 /\ told.totals = {1}

\* A screening's cells are those of its announcement.
CellsTold ==
    kind \in Screening =>
        /\ ~validator.started => validator.total = 0 /\ told = NothingTold
        /\ told.totals \subseteq {validator.total} /\ told.most <= validator.total

\* What the validator remembers is what the accepted lines told.
ToldRemembered ==
    /\ told.most = validator.last
    /\ ShotsTold /\ PhasesTold /\ CellsTold

ReaderInv == ReaderTypeOK /\ VerdictCloses /\ ToldRemembered /\ CompleteMeansDone

-----------------------------------------------------------------------------
\* A line has a type and two counts.
IsLine(e) == e.type \in Types /\ e.done \in Nat /\ e.of \in Nat

LEMMA LineFields ==
    ASSUME NEW e \in Lines
    PROVE  IsLine(e)
  BY CountAssumption DEF Lines, Counts, IsLine

\* A closed validator accepts nothing, and nothing but an error, or a
\* cancellation before the work, comes before the start (accept_line 538, 546, 573-576).
LEMMA InOrder ==
    ASSUME NEW k \in Kinds, NEW v \in Validator, NEW e, IsLine(e), ~Refuses(k, v, e)
    PROVE  /\ ~v.terminal
           /\ e.type = "started" => ~v.started
           /\ ~v.started => e.type \in {"started", "error", "cancelled"}
           /\ e.type = "complete" => v.started
  <1>1. ~Misplaced(k, v, e) BY DEF Refuses
  <1> QED BY <1>1 DEF IsLine, Misplaced, Types

\* What an accepted progress says of the counts (accept_line 577-606).
LEMMA ProgressAccepted ==
    ASSUME NEW k \in Kinds, NEW v \in Validator, NEW e, IsLine(e),
           ~Refuses(k, v, e), e.type = "progress"
    PROVE  /\ e.done \in v.last..e.of
           /\ k = "bounded_shooting" =>
                 /\ e.done > 0 /\ v.events + 1 \in 1..ProgressCap
                 /\ v.total # 0 => e.of = v.total
           /\ k = "fixed_impulse_evaluation" => e.of = 1
           /\ k \in Screening => e.of = v.total
  <1>1. ~BadProgress(k, v, e) BY DEF Refuses
  <1>2. v.last \in Nat /\ v.events \in 0..ProgressCap /\ ProgressCap = 128
    BY DEF Validator, ProgressCap
  <1>3. e.done \in Nat /\ e.of \in Nat BY DEF IsLine
  <1>4. e.done \in v.last..e.of BY <1>1, <1>2, <1>3 DEF BadProgress
  <1>5. k = "bounded_shooting" => e.done > 0 /\ v.events + 1 \in 1..ProgressCap
    BY <1>1, <1>2, <1>3 DEF BadProgress
  <1>6. k = "bounded_shooting" /\ v.total # 0 => e.of = v.total BY <1>1 DEF BadProgress
  <1>7. k = "fixed_impulse_evaluation" => e.of = 1 BY <1>1 DEF BadProgress
  <1>8. k \in Screening => e.of = v.total BY <1>1 DEF BadProgress
  <1> QED BY <1>4, <1>5, <1>6, <1>7, <1>8

\* The fields after an accepted line are again those of a validator.
LEMMA AfterType ==
    ASSUME NEW k \in Kinds, NEW v \in Validator, NEW e, IsLine(e), ~Refuses(k, v, e)
    PROVE  After(k, v, e) \in Validator
  <1> DEFINE a == After(k, v, e)
  <1>1. a.started \in BOOLEAN /\ a.terminal \in BOOLEAN /\ a.phaseZero \in BOOLEAN
    BY DEF After, Validator
  <1>2. a.total \in Nat /\ a.last \in Nat
    BY DEF IsLine, After, Validator
  <1>3. a.events \in 0..ProgressCap
    <2>1. v.events \in 0..ProgressCap BY DEF Validator
    <2>2. CASE k = "bounded_shooting" /\ e.type = "progress"
      BY <2>2, ProgressAccepted DEF After, ProgressCap
    <2>3. CASE ~(k = "bounded_shooting" /\ e.type = "progress")
      BY <2>1, <2>3 DEF After
    <2> QED BY <2>2, <2>3
  <1>4. a = [started |-> a.started, terminal |-> a.terminal, total |-> a.total,
             last |-> a.last, phaseZero |-> a.phaseZero, events |-> a.events]
    BY DEF After
  <1> QED BY <1>1, <1>2, <1>3, <1>4 DEF Validator

\* What a completed run is known to have reported (accept_line 609-639).
LEMMA CompleteAccepted ==
    ASSUME NEW k \in Kinds, NEW v \in Validator, NEW e, IsLine(e),
           ~Refuses(k, v, e), e.type = "complete"
    PROVE  /\ k = "bounded_shooting" => v.events # 0 /\ e.done = v.last /\ e.of = v.total
           /\ k = "fixed_impulse_evaluation" => v.phaseZero /\ v.last = 1
  <1>1. ~BadComplete(k, v, e) BY DEF Refuses
  <1> QED BY <1>1 DEF BadComplete

-----------------------------------------------------------------------------
\* The invariant holds before the first line.
LEMMA ReaderInvInit == Init => ReaderInv
  <1> SUFFICES ASSUME Init PROVE ReaderInv
    OBVIOUS
  <1>1. kind \in Kinds /\ validator = Fresh /\ refused = FALSE /\ verdict = "none"
    BY DEF Init, ReaderInit
  <1>2. ReaderTypeOK
    <2>1. Fresh \in Validator BY DEF Fresh, Validator, ProgressCap
    <2>2. refused \in BOOLEAN BY <1>1
    <2>3. verdict \in Terminals \cup {"none"} BY <1>1
    <2>4. /\ told \in [first : Nat, most : Nat, totals : SUBSET Nat]
          /\ claim \in [done : Nat, of : Nat]
      BY DEF Init, ReaderInit, NothingTold
    <2> QED BY <1>1, <2>1, <2>2, <2>3, <2>4 DEF ReaderTypeOK, Validator
  <1>3. VerdictCloses /\ CompleteMeansDone
    BY <1>1 DEF VerdictCloses, CompleteMeansDone, Fresh
  <1>4. ToldRemembered
    BY <1>1 DEF Init, ReaderInit, ToldRemembered, ShotsTold, PhasesTold, CellsTold,
                NothingTold, Fresh
  <1> QED BY <1>2, <1>3, <1>4 DEF ReaderInv

\* A refused line changes nothing but refused.
LEMMA RefusedLine ==
    ASSUME NEW e, Receive(e), Refuses(kind, validator, e)
    PROVE  refused' = TRUE /\ UNCHANGED <<kind, validator, verdict, told, claim>>
  BY DEF Receive, Refuses, Misplaced, Foreign, BadStart, BadProgress, BadCancel, BadComplete

\* An accepted line moves the validator on and keeps its verdict.
LEMMA AcceptedLine ==
    ASSUME NEW e, Receive(e), ~Refuses(kind, validator, e)
    PROVE  /\ refused' = FALSE /\ kind' = kind
           /\ validator' = After(kind, validator, e)
           /\ verdict' = IF e.type \in Terminals THEN e.type ELSE verdict
           /\ told' = IF e.type = "progress" THEN Telling(told, e) ELSE told
           /\ claim' = IF e.type \in Terminals THEN [done |-> e.done, of |-> e.of] ELSE claim
  BY DEF Receive

\* A progress line tells more, and no less, than was told.
LEMMA TellingMore ==
    ASSUME ReaderInv, NEW e, IsLine(e), e.type = "progress", ~Refuses(kind, validator, e)
    PROVE  /\ Telling(told, e) \in [first : Nat, most : Nat, totals : SUBSET Nat]
           /\ Telling(told, e).most = e.done
  <1>1. told \in [first : Nat, most : Nat, totals : SUBSET Nat] /\ told.most = validator.last
    BY DEF ReaderInv, ReaderTypeOK, ToldRemembered
  <1>2. kind \in Kinds /\ validator \in Validator BY DEF ReaderInv, ReaderTypeOK, Validator
  <1>3. e.done \in Nat /\ e.of \in Nat BY DEF IsLine
  <1>4. e.done \in validator.last..e.of BY <1>2, ProgressAccepted
  <1>5. validator.last \in Nat BY <1>2 DEF Validator
  <1> QED BY <1>1, <1>3, <1>4, <1>5 DEF Telling

\* The validator's fields follow what the lines tell.
LEMMA ToldStep ==
    ASSUME ReaderInv, NEW e, IsLine(e), Receive(e), ~Refuses(kind, validator, e)
    PROVE  ToldRemembered'
  <1>1. kind \in Kinds /\ validator \in Validator BY DEF ReaderInv, ReaderTypeOK, Validator
  <1>2. /\ kind' = kind /\ validator' = After(kind, validator, e)
        /\ told' = IF e.type = "progress" THEN Telling(told, e) ELSE told
    BY AcceptedLine
  <1>3. /\ told.most = validator.last /\ ShotsTold /\ PhasesTold /\ CellsTold
    BY DEF ReaderInv, ToldRemembered
  <1>4. e.done \in Nat /\ e.of \in Nat BY DEF IsLine
  <1>5. validator.last \in Nat /\ validator.total \in Nat /\ validator.events \in 0..ProgressCap
    BY <1>1 DEF Validator
  <1>6. CASE e.type = "progress"
    <2>1. e.done \in validator.last..e.of BY <1>1, <1>6, ProgressAccepted
    <2>2. told' = Telling(told, e) /\ told'.most = e.done /\ validator'.last = e.done
      BY <1>2, <1>6, TellingMore DEF After
    <2>3. ShotsTold'
      <3> SUFFICES ASSUME kind = "bounded_shooting" PROVE ShotsTold'
        BY <1>2 DEF ShotsTold
      <3>1. e.done > 0 /\ (validator.total # 0 => e.of = validator.total)
        BY <1>1, <1>6, ProgressAccepted
      <3>2. validator'.events = validator.events + 1 /\ validator'.total = e.of
        BY <1>2, <1>6 DEF After
      <3>3. told.totals \cup {e.of} = {e.of}
        BY <1>3, <1>5, <3>1 DEF ShotsTold, NothingTold
      <3>4. told'.totals = {e.of} BY <2>2, <3>3 DEF Telling
      <3> QED BY <1>4, <1>5, <2>1, <2>2, <3>1, <3>2, <3>4 DEF ShotsTold, ProgressCap
    <2>4. PhasesTold'
      <3> SUFFICES ASSUME kind = "fixed_impulse_evaluation" PROVE PhasesTold'
        BY <1>2 DEF PhasesTold
      <3>1. e.of = 1 /\ (~validator.phaseZero => e.done = 0)
        BY <1>1, <1>6 DEF Refuses, BadProgress
      <3>2. validator'.phaseZero
        BY <1>2, <1>6, <3>1 DEF After
      <3>3. told'.first = 0 /\ told'.totals = {1}
        BY <1>3, <2>2, <3>1 DEF PhasesTold, NothingTold, Telling
      <3> QED BY <3>2, <3>3 DEF PhasesTold
    <2>5. CellsTold'
      <3> SUFFICES ASSUME kind \in Screening PROVE CellsTold'
        BY <1>2 DEF CellsTold
      <3>1. e.of = validator.total BY <1>1, <1>6, ProgressAccepted
      <3>2. kind # "bounded_shooting" BY DEF Screening
      <3>3. validator'.total = validator.total /\ validator'.started = validator.started
        BY <1>1, <1>2, <1>6, <3>2 DEF After, Validator
      <3>4. validator.started BY <1>1, <1>6, InOrder
      <3>5. told'.totals \subseteq {validator.total}
        BY <1>3, <2>2, <3>1 DEF CellsTold, Telling
      <3> QED BY <1>5, <2>1, <2>2, <3>1, <3>3, <3>4, <3>5 DEF CellsTold
    <2> QED BY <2>2, <2>3, <2>4, <2>5 DEF ToldRemembered
  <1>7. CASE e.type # "progress"
    <2>1. /\ told' = told /\ validator'.last = validator.last
          /\ validator'.events = validator.events /\ validator'.phaseZero = validator.phaseZero
      BY <1>1, <1>2, <1>7 DEF After, Validator
    <2>2. ShotsTold'
      <3> SUFFICES ASSUME kind = "bounded_shooting" PROVE ShotsTold'
        BY <1>2 DEF ShotsTold
      <3>1. validator'.total = validator.total BY <1>2, <1>7 DEF After, Screening
      <3> QED BY <1>3, <2>1, <3>1 DEF ShotsTold
    <2>3. PhasesTold' BY <1>2, <1>3, <2>1 DEF PhasesTold
    <2>4. CellsTold'
      <3> SUFFICES ASSUME kind \in Screening PROVE CellsTold'
        BY <1>2 DEF CellsTold
      <3>1. CASE e.type = "started"
        <4>1. ~validator.started BY <1>1, <3>1, InOrder
        <4>2. told = NothingTold BY <1>3, <4>1 DEF CellsTold
        <4>3. validator'.started /\ validator'.total = e.of BY <1>2, <3>1 DEF After
        <4> QED BY <1>4, <2>1, <4>2, <4>3 DEF CellsTold, NothingTold
      <3>2. CASE e.type # "started"
        <4>1. validator'.started = validator.started /\ validator'.total = validator.total
          BY <1>1, <1>2, <1>7, <3>2 DEF After, Screening, Validator
        <4> QED BY <1>3, <2>1, <4>1 DEF CellsTold
      <3> QED BY <3>1, <3>2
    <2> QED BY <1>3, <2>1, <2>2, <2>3, <2>4 DEF ToldRemembered
  <1> QED BY <1>6, <1>7

\* Every line keeps the invariant.
LEMMA ReceiveKeeps ==
    ASSUME ReaderInv, NEW e, IsLine(e), Receive(e)
    PROVE  ReaderInv'
  <1>1. kind \in Kinds /\ validator \in Validator /\ verdict \in Terminals \cup {"none"}
    BY DEF ReaderInv, ReaderTypeOK, Validator
  <1>2. CASE Refuses(kind, validator, e)
    <2>1. refused' = TRUE /\ UNCHANGED <<kind, validator, verdict, told, claim>>
      BY <1>2, RefusedLine
    <2>2. ReaderTypeOK' BY <2>1 DEF ReaderInv, ReaderTypeOK
    <2>3. VerdictCloses' /\ CompleteMeansDone'
      BY <2>1 DEF ReaderInv, VerdictCloses, CompleteMeansDone
    <2>4. ToldRemembered'
      BY <2>1 DEF ReaderInv, ToldRemembered, ShotsTold, PhasesTold, CellsTold
    <2> QED BY <2>2, <2>3, <2>4 DEF ReaderInv
  <1>3. CASE ~Refuses(kind, validator, e)
    <2>1. /\ refused' = FALSE /\ kind' = kind
          /\ validator' = After(kind, validator, e)
          /\ verdict' = IF e.type \in Terminals THEN e.type ELSE verdict
          /\ told' = IF e.type = "progress" THEN Telling(told, e) ELSE told
          /\ claim' = IF e.type \in Terminals THEN [done |-> e.done, of |-> e.of] ELSE claim
      BY <1>3, AcceptedLine
    <2>2. ~validator.terminal BY <1>1, <1>3, InOrder
    <2>3. verdict = "none" BY <2>2 DEF ReaderInv, VerdictCloses
    <2>4. ReaderTypeOK'
      <3>1. validator' \in Validator BY <1>1, <1>3, <2>1, AfterType
      <3>2. told' \in [first : Nat, most : Nat, totals : SUBSET Nat]
        BY <1>3, <2>1, TellingMore DEF ReaderInv, ReaderTypeOK
      <3>3. claim' \in [done : Nat, of : Nat]
        BY <2>1 DEF IsLine, ReaderInv, ReaderTypeOK
      <3> QED BY <1>1, <2>1, <3>1, <3>2, <3>3 DEF ReaderTypeOK, Validator
    <2>5. VerdictCloses'
      <3>1. validator'.terminal <=> e.type \in Terminals BY <2>1, <2>2 DEF After
      <3>2. verdict' # "none" <=> e.type \in Terminals BY <2>1, <2>3 DEF Terminals
      <3> QED BY <3>1, <3>2 DEF VerdictCloses
    <2>6. ToldRemembered' BY <1>3, ToldStep
    <2>7. CompleteMeansDone'
      <3> SUFFICES ASSUME e.type = "complete" PROVE CompleteMeansDone'
        BY <2>1, <2>3 DEF CompleteMeansDone
      <3>1. validator.started BY <1>1, <1>3, InOrder
      <3>2. /\ validator'.started = validator.started /\ validator'.total = validator.total
            /\ told' = told /\ claim' = [done |-> e.done, of |-> e.of]
        BY <1>1, <2>1 DEF After, Validator, Terminals
      <3>3. /\ kind = "bounded_shooting" =>
                  validator.events # 0 /\ e.done = validator.last /\ e.of = validator.total
            /\ kind = "fixed_impulse_evaluation" => validator.phaseZero /\ validator.last = 1
        BY <1>1, <1>3, CompleteAccepted
      <3>4. told.most = validator.last /\ ShotsTold /\ PhasesTold /\ CellsTold
        BY DEF ReaderInv, ToldRemembered
      <3>5. kind = "bounded_shooting" =>
               /\ e.done = told.most /\ told.totals = {e.of} /\ e.done \in 1..e.of
        BY <3>3, <3>4 DEF ShotsTold
      <3>6. kind = "fixed_impulse_evaluation" => told = [first |-> 0, most |-> 1, totals |-> {1}]
        <4>1. told \in [first : Nat, most : Nat, totals : SUBSET Nat]
          BY DEF ReaderInv, ReaderTypeOK
        <4>2. told = [first |-> told.first, most |-> told.most, totals |-> told.totals]
          BY <4>1
        <4> QED BY <3>3, <3>4, <4>2 DEF PhasesTold
      <3>7. kind \in Screening =>
               told.totals \subseteq {validator.total} /\ told.most <= validator.total
        BY <3>4 DEF CellsTold
      <3> QED BY <2>1, <3>1, <3>2, <3>5, <3>6, <3>7 DEF CompleteMeansDone
    <2> QED BY <2>4, <2>5, <2>6, <2>7 DEF ReaderInv
  <1> QED BY <1>2, <1>3

LEMMA ReaderFrame == ReaderInv /\ UNCHANGED readerVars => ReaderInv'
  <1> SUFFICES ASSUME ReaderInv, UNCHANGED readerVars PROVE ReaderInv'
    OBVIOUS
  <1>1. ReaderTypeOK' BY DEF readerVars, ReaderInv, ReaderTypeOK
  <1>2. VerdictCloses' /\ CompleteMeansDone'
    BY DEF readerVars, ReaderInv, VerdictCloses, CompleteMeansDone
  <1>3. ToldRemembered'
    BY DEF readerVars, ReaderInv, ToldRemembered, ShotsTold, PhasesTold, CellsTold
  <1> QED BY <1>1, <1>2, <1>3 DEF ReaderInv

LEMMA ReaderInvStep == ReaderInv /\ [Next]_readerVars => ReaderInv'
  BY ReceiveKeeps, ReaderFrame, LineFields DEF Next

\* Whatever a worker writes, the invariant holds.
LEMMA ReaderInvariant == Spec => []ReaderInv
  BY ReaderInvInit, ReaderInvStep, PTL DEF Spec

-----------------------------------------------------------------------------
\* The validator's fields keep their types; a shooting's progress events stay
\* within the client's cap, so the counter the code increments is bounded.
THEOREM ReaderTypeCorrect == Spec => []ReaderTypeOK
  <1>1. ReaderInv => ReaderTypeOK BY DEF ReaderInv
  <1> QED BY <1>1, ReaderInvariant, PTL

\* Whatever lines arrive, and however wrong, a run the desktop takes as complete
\* was announced, and claims what its progress lines told: of a shooting the most
\* probes reported, of an evaluation its one phase from start to end.
THEOREM Completeness == Spec => []CompleteMeansDone
  <1>1. ReaderInv => CompleteMeansDone BY DEF ReaderInv
  <1> QED BY <1>1, ReaderInvariant, PTL

\* Every accepted line is a step of the stream, or none.
LEMMA ReceiveStreams ==
    ASSUME ReaderInv, NEW e, IsLine(e), Receive(e), ~Refuses(kind, validator, e)
    PROVE  [Stream!Next]_(Stream!vars)
  <1>1. kind \in Kinds /\ validator \in Validator
    BY DEF ReaderInv, ReaderTypeOK, Validator
  <1>2. /\ kind' = kind /\ validator' = After(kind, validator, e)
        /\ verdict' = IF e.type \in Terminals THEN e.type ELSE verdict
    BY AcceptedLine
  <1>3. ~validator.terminal /\ verdict = "none"
    BY <1>1, InOrder DEF ReaderInv, VerdictCloses
  <1>4. e.type \in Types /\ e.done \in Nat /\ e.of \in Nat BY DEF IsLine
  <1>5. CASE e.type = "started"
    <2>1. ~validator.started BY <1>1, <1>5, InOrder
    <2>2. validator'.started /\ validator'.last = validator.last /\ verdict' = verdict
      BY <1>2, <1>5 DEF After, Terminals
    <2>3. validator'.total \in Nat BY <1>1, <1>2, AfterType DEF Validator
    <2> QED BY <1>3, <2>1, <2>2, <2>3 DEF Stream!Announce, Stream!Next
  <1>6. CASE e.type = "progress"
    <2>1. validator.started BY <1>1, <1>6, InOrder
    <2>2. /\ e.done \in validator.last..e.of
          /\ kind = "bounded_shooting" => (validator.total # 0 => e.of = validator.total)
          /\ kind = "fixed_impulse_evaluation" => e.of = 1
          /\ kind \in Screening => e.of = validator.total
      BY <1>1, <1>6, ProgressAccepted
    <2>3. /\ validator'.started = validator.started /\ validator'.last = e.done
          /\ validator'.total = IF kind = "bounded_shooting" THEN e.of ELSE validator.total
          /\ verdict' = verdict
      BY <1>2, <1>6, <1>1 DEF After, Terminals, Validator
    <2> DEFINE goal == IF kind = "fixed_impulse_evaluation" /\ validator.started
                       THEN 1 ELSE validator.total
    <2>4. goal' = e.of
      <3>1. CASE kind = "bounded_shooting" BY <1>2, <2>3, <3>1
      <3>2. CASE kind = "fixed_impulse_evaluation" BY <1>2, <2>1, <2>2, <2>3, <3>2
      <3>3. CASE kind \in Screening BY <1>2, <2>2, <2>3, <3>3 DEF Screening
      <3> QED BY <1>1, <3>1, <3>2, <3>3 DEF Kinds, Numerical
    <2>5. goal # 0 => e.of = goal
      BY <1>1, <2>1, <2>2 DEF Kinds, Numerical, Screening
    <2> QED BY <1>3, <1>4, <2>1, <2>2, <2>3, <2>4, <2>5 DEF Stream!Advance, Stream!Next
  <1>7. CASE e.type \in Terminals
    <2>1. /\ validator'.started = validator.started /\ validator'.last = validator.last
          /\ validator'.total = validator.total /\ verdict' = e.type
      BY <1>1, <1>2, <1>7 DEF After, Terminals, Validator
    <2>2. e.type = "complete" => validator.started BY <1>1, InOrder
    <2> QED BY <1>2, <1>3, <1>7, <2>1, <2>2 DEF Stream!End, Stream!Next, Terminals
  <1>8. CASE e.type \in {"candidate", "refinement", "route"}
    <2>1. /\ validator'.started = validator.started /\ validator'.last = validator.last
          /\ validator'.total = validator.total /\ verdict' = verdict
      BY <1>1, <1>2, <1>8 DEF After, Terminals, Validator
    <2> QED BY <1>2, <2>1 DEF Stream!vars
  <1> QED BY <1>4, <1>5, <1>6, <1>7, <1>8 DEF Types, Terminals

LEMMA StreamInit == kind \in Kinds /\ ReaderInit => Stream!Init
  BY DEF ReaderInit, Fresh, Stream!Init

LEMMA StreamStep ==
    ASSUME ReaderInv, NEW e, IsLine(e), Receive(e)
    PROVE  [Stream!Next]_(Stream!vars)
  <1>1. CASE Refuses(kind, validator, e)
    BY <1>1, RefusedLine DEF Stream!vars
  <1>2. CASE ~Refuses(kind, validator, e)
    BY <1>2, ReceiveStreams
  <1> QED BY <1>1, <1>2

\* The accepted lines form a stream the desktop may rely on: announced once,
\* advancing within one goal, ended by one verdict.
THEOREM StreamRefinement == Spec => ImplementsEventStream
  <1>1. Init => Stream!Init
    BY StreamInit DEF Init
  <1>2. ReaderInv /\ [Next]_readerVars => [Stream!Next]_(Stream!vars)
    <2> SUFFICES ASSUME ReaderInv, [Next]_readerVars PROVE [Stream!Next]_(Stream!vars)
      OBVIOUS
    <2>1. CASE UNCHANGED readerVars
      BY <2>1 DEF readerVars, Stream!vars
    <2>2. CASE Next
      BY <2>2, StreamStep, LineFields DEF Next
    <2> QED BY <2>1, <2>2
  <1> QED BY <1>1, <1>2, ReaderInvariant, PTL DEF Spec, ImplementsEventStream, Stream!Spec

-----------------------------------------------------------------------------
(***************************************************************************)
(* Part 2: the worker and its pipe.                                        *)
(*                                                                         *)
(* What the client will make of the lines on their way is not in the       *)
(* state: Ahead(w) says that the client accepts them all, and that its     *)
(* validator is w when it has read the last.                               *)
(***************************************************************************)
Words == {"none", "before_numerical_work", "before_coarse_probe", "during_numerical_work",
          "after_numerical_work"} \cup ShootingStatuses
Line == [type : Types, done : Nat, of : Nat, status : Words, identity : {"ours", "absent"},
         valid : BOOLEAN]

Reads(f) ==
    /\ f \in [0..Len(pipe) -> Validator]
    /\ f[0] = validator
    /\ \A i \in 1..Len(pipe) :
          ~Refuses(kind, f[i - 1], pipe[i]) /\ f[i] = After(kind, f[i - 1], pipe[i])

Ahead(w) == \E f : Reads(f) /\ f[Len(pipe)] = w

\* Nothing is on its way: the client is where its validator is.
LEMMA AheadEmpty ==
    ASSUME validator \in Validator, pipe = <<>>
    PROVE  Ahead(validator)
  <1> DEFINE f == [i \in 0..0 |-> validator]
  <1>1. Reads(f) BY DEF Reads
  <1> QED BY <1>1 DEF Ahead

LEMMA AheadOfEmpty ==
    ASSUME NEW w, Ahead(w), pipe = <<>>
    PROVE  w = validator
  BY DEF Ahead, Reads

LEMMA AheadTyped ==
    ASSUME NEW w, Ahead(w), pipe \in Seq(Line)
    PROVE  w \in Validator
  <1>1. PICK f : Reads(f) /\ f[Len(pipe)] = w BY DEF Ahead
  <1>2. Len(pipe) \in 0..Len(pipe) BY LenProperties
  <1> QED BY <1>1, <1>2 DEF Reads

LEMMA AheadFrame ==
    ASSUME NEW w, Ahead(w), UNCHANGED <<kind, validator, pipe>>
    PROVE  Ahead(w)'
  BY DEF Ahead, Reads

\* A line that the client will accept, behind those it will accept before.
LEMMA AheadSend ==
    ASSUME NEW w, Ahead(w), pipe \in Seq(Line), kind \in Kinds,
           NEW e \in Line, Send(e), UNCHANGED <<kind, validator>>,
           ~Refuses(kind, w, e), NEW v, v = After(kind, w, e)
    PROVE  v \in Validator /\ Ahead(v)'
  <1>1. PICK f : Reads(f) /\ f[Len(pipe)] = w BY DEF Ahead
  <1> DEFINE n == Len(pipe)
             g == [i \in 0..(n + 1) |-> IF i <= n THEN f[i] ELSE v]
  <1>0. pipe' = Append(pipe, e) BY DEF Send
  <1>2. /\ n \in Nat /\ Len(pipe') = n + 1 /\ pipe'[n + 1] = e
        /\ \A i \in 1..n : pipe'[i] = pipe[i]
    BY <1>0, LenProperties, AppendProperties
  <1>3. w \in Validator BY AheadTyped
  <1>4. v \in Validator
    <2>1. IsLine(e) BY DEF IsLine, Line
    <2> QED BY <1>3, <2>1, AfterType
  <1>5. g \in [0..(n + 1) -> Validator]
    BY <1>1, <1>2, <1>4 DEF Reads
  <1>6. g[0] = validator BY <1>1, <1>2 DEF Reads
  <1>7. ASSUME NEW i \in 1..(n + 1)
        PROVE  ~Refuses(kind, g[i - 1], pipe'[i]) /\ g[i] = After(kind, g[i - 1], pipe'[i])
    <2>1. CASE i <= n
      <3>1. i \in 1..n /\ i - 1 \in 0..(n + 1) /\ i - 1 <= n /\ i \in 0..(n + 1) BY <1>2, <2>1
      <3>2. g[i - 1] = f[i - 1] /\ g[i] = f[i] /\ pipe'[i] = pipe[i] BY <1>2, <2>1, <3>1
      <3> QED BY <1>1, <3>1, <3>2 DEF Reads
    <2>2. CASE i = n + 1
      <3>1. g[i - 1] = f[n] /\ g[i] = v BY <1>2, <2>2
      <3> QED BY <1>1, <1>2, <2>2, <3>1
    <2> QED BY <1>2, <2>1, <2>2
  <1>8. PICK h : h = g OBVIOUS
  <1> HIDE DEF g
  <1>9. Reads(h)' BY <1>2, <1>5, <1>6, <1>7, <1>8 DEF Reads
  <1>10. h[Len(pipe')] = v BY <1>2, <1>8 DEF g
  <1> QED BY <1>4, <1>9, <1>10 DEF Ahead

\* The client reads the first of them.
LEMMA AheadRead ==
    ASSUME NEW w, Ahead(w), pipe \in Seq(Line), Read
    PROVE  ~refused' /\ Ahead(w)'
  <1>1. PICK f : Reads(f) /\ f[Len(pipe)] = w BY DEF Ahead
  <1> DEFINE n == Len(pipe)
             g == [i \in 0..(n - 1) |-> f[i + 1]]
  <1>2. pipe # <<>> /\ Receive(Head(pipe)) /\ pipe' = Tail(pipe) BY DEF Read
  <1>3. /\ n \in Nat \ {0} /\ Head(pipe) = pipe[1] /\ Len(pipe') = n - 1
        /\ \A i \in 1..(n - 1) : pipe'[i] = pipe[i + 1]
    BY <1>2, LenProperties, HeadTailProperties, EmptySeq
  <1>4. ~Refuses(kind, validator, pipe[1]) /\ f[1] = After(kind, validator, pipe[1])
    BY <1>1, <1>3 DEF Reads
  <1>5. ~refused' /\ kind' = kind /\ validator' = f[1]
    BY <1>2, <1>3, <1>4, AcceptedLine
  <1>6. g \in [0..(n - 1) -> Validator] BY <1>1, <1>3 DEF Reads
  <1>7. g[0] = validator' BY <1>3, <1>5
  <1>8. ASSUME NEW i \in 1..(n - 1)
        PROVE  ~Refuses(kind, g[i - 1], pipe'[i]) /\ g[i] = After(kind, g[i - 1], pipe'[i])
    <2>1. i + 1 \in 1..n /\ i - 1 \in 0..(n - 1) /\ i \in 0..(n - 1) /\ (i - 1) + 1 = i /\ (i + 1) - 1 = i
      BY <1>3
    <2>2. g[i - 1] = f[i] /\ g[i] = f[i + 1] /\ pipe'[i] = pipe[i + 1] BY <1>3, <2>1
    <2> QED BY <1>1, <2>1, <2>2 DEF Reads
  <1>9. PICK h : h = g OBVIOUS
  <1>10. h[Len(pipe')] = w BY <1>1, <1>3, <1>9
  <1> HIDE DEF g
  <1>11. Reads(h)' BY <1>3, <1>5, <1>6, <1>7, <1>8, <1>9 DEF Reads
  <1> QED BY <1>5, <1>10, <1>11 DEF Ahead

-----------------------------------------------------------------------------
\* A terminal has been written, read or not.
Said(type) == verdict = type \/ \E i \in 1..Len(pipe) : pipe[i].type = type

\* Only a cancelled worker says so, and a completed leg or evaluation did not
\* overlook a cancellation.
VerdictsTrue ==
    /\ Said("cancelled") => cancelled
    /\ Said("complete") => pc = "exited" /\ (kind # "screened_route" => ~overdue)

\* What all three handlers keep.
Common ==
    /\ kind \in Kinds /\ pipe \in Seq(Line)
    /\ late \in {0, 1} /\ cancelled \in BOOLEAN /\ overdue \in BOOLEAN
    /\ late = 1 => cancelled
    /\ overdue => cancelled
    /\ VerdictsTrue

\* A step that is about to write nothing, or a line that is true.
Speaks ==
    \/ UNCHANGED pipe
    \/ \E e \in Line :
          /\ Send(e)
          /\ e.type = "cancelled" => cancelled
          /\ e.type = "complete" => pc' = "exited" /\ (kind # "screened_route" => ~overdue')

\* The step begins a unit of work only if none was begun after a cancellation.
Works ==
    /\ pc # "exited" /\ pc' # "foreign" /\ UNCHANGED <<readerVars, cancelled>>
    /\ late' = late \/ (late = 0 /\ late' = IF cancelled THEN 1 ELSE 0)
    /\ overdue' \in {overdue, overdue \/ cancelled}
    /\ Speaks

LEMMA WorksKeepsCommon == Common /\ Works => Common'
  <1> SUFFICES ASSUME Common, Works PROVE Common'
    OBVIOUS
  <1>1. /\ kind' = kind /\ verdict' = verdict /\ cancelled' = cancelled
        /\ pc # "exited" /\ Speaks
    BY DEF Works, readerVars
  <1>2. /\ late' \in {0, 1} /\ (late' = 1 => cancelled')
        /\ overdue' \in BOOLEAN /\ (overdue' => cancelled')
    <2>1. CASE overdue' = overdue BY <2>1 DEF Works, Common
    <2>2. CASE overdue' = (overdue \/ cancelled) BY <2>2 DEF Works, Common
    <2> QED BY <2>1, <2>2 DEF Works
  <1>3. ~Said("complete") BY <1>1 DEF Common, VerdictsTrue
  <1>4. pipe' \in Seq(Line) /\ VerdictsTrue'
    <2>1. CASE UNCHANGED pipe
      BY <1>1, <1>3, <2>1 DEF Common, VerdictsTrue, Said
    <2>2. CASE ~UNCHANGED pipe
      <3>1. PICK e \in Line :
              /\ pipe' = Append(pipe, e)
              /\ e.type = "cancelled" => cancelled
              /\ e.type = "complete" => pc' = "exited" /\ (kind # "screened_route" => ~overdue')
        BY <1>1, <2>2 DEF Speaks, Send
      <3>2. /\ pipe' \in Seq(Line) /\ Len(pipe') = Len(pipe) + 1 /\ pipe'[Len(pipe) + 1] = e
            /\ \A i \in 1..Len(pipe) : pipe'[i] = pipe[i]
        BY <3>1, AppendProperties DEF Common
      <3>3. Len(pipe) \in Nat BY LenProperties DEF Common
      <3>4. ASSUME NEW type, Said(type)' PROVE Said(type) \/ e.type = type
        BY <1>1, <3>2, <3>3, <3>4 DEF Said
      <3>5. Said("cancelled")' => cancelled' BY <1>1, <3>1, <3>4 DEF Common, VerdictsTrue
      <3>6. Said("complete")' => pc' = "exited" /\ (kind' # "screened_route" => ~overdue')
        BY <1>1, <1>3, <3>1, <3>4
      <3> QED BY <3>2, <3>5, <3>6 DEF VerdictsTrue
    <2> QED BY <2>1, <2>2
  <1> QED BY <1>1, <1>2, <1>4 DEF Common

\* What the client reads was said before.
LEMMA ReadKeepsCommon == Common /\ Reader => Common'
  <1> SUFFICES ASSUME Common, Reader PROVE Common'
    OBVIOUS
  <1>1. /\ pipe # <<>> /\ Receive(Head(pipe)) /\ pipe' = Tail(pipe)
        /\ UNCHANGED <<kind, pc, cancelled, late, overdue>>
    BY DEF Reader, Read, Receive, workVars
  <1>2. /\ pipe' \in Seq(Line) /\ Len(pipe) \in Nat \ {0} /\ Len(pipe') = Len(pipe) - 1
        /\ \A i \in 1..Len(pipe') : pipe'[i] = pipe[i + 1]
        /\ Head(pipe) = pipe[1]
    BY <1>1, LenProperties, HeadTailProperties, EmptySeq DEF Common
  <1>3. verdict' \in {verdict, pipe[1].type} BY <1>1, <1>2 DEF Receive
  <1>4. ASSUME NEW type, Said(type)' PROVE Said(type)
    BY <1>2, <1>3, <1>4 DEF Said
  <1> QED BY <1>1, <1>2, <1>4 DEF Common, VerdictsTrue

-----------------------------------------------------------------------------
\* Which lines a screening's client takes.
LEMMA EventLine ==
    ASSUME NEW type \in Types, NEW n \in Nat, NEW m \in Nat, NEW s \in Words
    PROVE  /\ Event(type, n, m, s) \in Line
           /\ Event(type, n, m, s).type = type /\ Event(type, n, m, s).done = n
           /\ Event(type, n, m, s).of = m /\ Event(type, n, m, s).status = s
           /\ Event(type, n, m, s).identity = "ours" /\ Event(type, n, m, s).valid
  <1> DEFINE e == [type |-> type, done |-> n, of |-> m, status |-> s, identity |-> "ours",
                   valid |-> TRUE]
  <1>1. Event(type, n, m, s) = e BY DEF Event
  <1>2. e \in Line BY DEF Line
  <1>3. e.type = type /\ e.done = n /\ e.of = m /\ e.status = s /\ e.identity = "ours" /\ e.valid
    OBVIOUS
  <1> QED BY <1>1, <1>2, <1>3

LEMMA ErrorLine ==
    ASSUME NEW identity \in {"absent", "ours"}
    PROVE  /\ Error(identity) \in Line
           /\ Error(identity).type = "error" /\ Error(identity).identity = identity
           /\ Error(identity).valid
  <1>1. Error(identity) \in Line BY DEF Error, Event, Line, Words, Types
  <1> QED BY <1>1 DEF Error, Event

\* An error ends any stream; without the identity of the source, one not started.
LEMMA ErrorAccepted ==
    ASSUME NEW k \in Kinds, NEW w \in Validator, NEW identity \in {"absent", "ours"},
           ~w.terminal, identity = "absent" => ~w.started
    PROVE  /\ ~Refuses(k, w, Error(identity))
           /\ After(k, w, Error(identity)).terminal
  <1> DEFINE e == Error(identity)
  <1>1. e.type = "error" /\ e.identity = identity /\ e.valid BY ErrorLine
  <1> HIDE DEF e
  <1>2. ~Misplaced(k, w, e) /\ ~Foreign(w, e) /\ ~Malformed(e)
    BY <1>1 DEF Misplaced, Foreign, Malformed, Terminals
  <1>3. ~BadStart(k, e) /\ ~BadProgress(k, w, e) /\ ~BadCancel(k, w, e) /\ ~BadComplete(k, w, e)
    BY <1>1 DEF BadStart, BadProgress, BadCancel, BadComplete
  <1>4. After(k, w, e).terminal BY <1>1 DEF After, Terminals
  <1> QED BY <1>2, <1>3, <1>4 DEF Refuses, e

LEMMA StartAccepted ==
    ASSUME NEW k \in Kinds, NEW m \in Nat, k \in Screening => m \in 1..CellCap(k)
    PROVE  LET e == Event("started", 0, m, "none") IN
           /\ ~Refuses(k, Fresh, e)
           /\ After(k, Fresh, e).started /\ ~After(k, Fresh, e).terminal
           /\ After(k, Fresh, e).last = 0 /\ After(k, Fresh, e).events = 0
           /\ After(k, Fresh, e).phaseZero = FALSE
           /\ After(k, Fresh, e).total = IF k \in Screening THEN m ELSE 0
  <1> DEFINE e == Event("started", 0, m, "none")
  <1>1. e.type = "started" /\ e.of = m /\ e.identity = "ours" /\ e.valid
    BY EventLine DEF Types, Words
  <1> HIDE DEF e
  <1>2. ~Misplaced(k, Fresh, e)
    BY <1>1 DEF Misplaced, Fresh
  <1>5. ~Foreign(Fresh, e) /\ ~Malformed(e)
    BY <1>1 DEF Foreign, Malformed
  <1>3. ~BadStart(k, e) /\ ~BadProgress(k, Fresh, e) /\ ~BadCancel(k, Fresh, e)
        /\ ~BadComplete(k, Fresh, e)
    BY <1>1 DEF BadStart, BadProgress, BadCancel, BadComplete
  <1>4. /\ After(k, Fresh, e).started /\ ~After(k, Fresh, e).terminal
        /\ After(k, Fresh, e).last = 0 /\ After(k, Fresh, e).events = 0
        /\ After(k, Fresh, e).phaseZero = FALSE
        /\ After(k, Fresh, e).total = IF k \in Screening THEN m ELSE 0
    BY <1>1 DEF After, Terminals, Fresh
  <1> QED BY <1>2, <1>3, <1>4, <1>5 DEF Refuses, e

LEMMA ScreeningAccepts ==
    ASSUME NEW k \in Screening, NEW w \in Validator, w.started, ~w.terminal,
           NEW n \in Nat,
           NEW type \in {"progress", "complete", "cancelled"} \cup Items(k),
           type = "progress" => n \in w.last..w.total,
           NEW m \in Nat, type = "progress" => m = w.total
    PROVE  LET e == Event(type, n, m, "none") IN
           /\ ~Refuses(k, w, e)
           /\ After(k, w, e).started /\ After(k, w, e).total = w.total
           /\ After(k, w, e).last = IF type = "progress" THEN n ELSE w.last
           /\ After(k, w, e).terminal <=> type \in Terminals
  <1> DEFINE e == Event(type, n, m, "none")
  <1>0. type \in Types /\ k \in Kinds /\ k \notin Numerical
    BY DEF Items, Types, Kinds, Screening, Numerical
  <1>1. /\ e.type = type /\ e.done = n /\ e.of = m /\ e.identity = "ours" /\ e.valid
    BY <1>0, EventLine DEF Words
  <1> HIDE DEF e
  <1>2. ~Misplaced(k, w, e)
    BY <1>1 DEF Misplaced, Terminals, Items
  <1>6. ~Foreign(w, e) /\ ~Malformed(e)
    BY <1>1 DEF Foreign, Malformed
  <1>3. ~BadStart(k, e) /\ ~BadCancel(k, w, e) /\ ~BadComplete(k, w, e)
    BY <1>0, <1>1 DEF BadStart, BadCancel, BadComplete, Items, Numerical
  <1>4. ~BadProgress(k, w, e)
    BY <1>0, <1>1 DEF BadProgress, Numerical, Validator
  <1>5. /\ After(k, w, e).started /\ After(k, w, e).total = w.total
        /\ After(k, w, e).last = IF type = "progress" THEN n ELSE w.last
        /\ After(k, w, e).terminal <=> type \in Terminals
    BY <1>0, <1>1 DEF After, Items, Terminals, Numerical
  <1> QED BY <1>2, <1>3, <1>4, <1>5, <1>6 DEF Refuses, e
-----------------------------------------------------------------------------
(* The command start *******************************************************)

\* A stage is begun only right after a look at the flag; a cell is screened only
\* while there is one, and none before the start is told; the work is completed
\* only after a look at the flag.
SeedInv ==
    /\ sampled \in 0..SeedCells /\ emitted \in Nat
    /\ pc \in {"integrate", "preflight", "screen", "refine"} => late = 0
    /\ pc \in {"reading", "started", "precompute", "integrate", "integrating", "preflight",
               "preflighting", "cell", "screen", "screening"} => sampled < SeedCells
    /\ pc \in {"reading", "started"} => sampled = 0
    /\ pc = "completing" => ~overdue

LEMMA SeedTables ==
    /\ DOMAIN Seed!Checks = {"precompute", "cell", "refineCheck"}
    /\ Seed!Checks["precompute"] = "integrate" /\ Seed!Checks["cell"] = "screen"
    /\ Seed!Checks["refineCheck"] = "refine"
    /\ DOMAIN Seed!Stages = {"integrate", "preflight", "screen", "refine"}
    /\ Seed!Stages["integrate"] = "integrating" /\ Seed!Stages["preflight"] = "preflighting"
    /\ Seed!Stages["screen"] = "screening" /\ Seed!Stages["refine"] = "refining"
  BY DEF Seed!Checks, Seed!Stages

LEMMA CellsAssumption ==
    /\ SeedCells \in 1..CellCap("screened_seed") /\ SeedCells \in Nat \ {0}
    /\ RouteCells \in 1..CellCap("screened_route") /\ RouteCells \in Nat \ {0}
    /\ Budget \in Nat \ {0} /\ Budget <= ProbeCap
  <1>1. CellCap("screened_seed") \in Nat /\ CellCap("screened_route") \in Nat
    BY SMT DEF CellCap
  <1>2. ProbeCap \in Nat BY SMT DEF ProbeCap
  <1> QED BY <1>1, <1>2, SMT, RequestAssumption

LEMMA SpeakEvent ==
    ASSUME NEW type \in Types, NEW n \in Nat, NEW m \in Nat, NEW s \in Words,
           Send(Event(type, n, m, s)),
           type = "cancelled" => cancelled,
           type = "complete" => pc' = "exited" /\ (kind # "screened_route" => ~overdue')
    PROVE  Speaks
  <1> DEFINE e == Event(type, n, m, s)
  <1>1. e \in Line /\ e.type = type BY EventLine
  <1> HIDE DEF e
  <1>2. Send(e) BY DEF e
  <1> QED BY <1>1, <1>2 DEF Speaks

LEMMA SpeakError ==
    ASSUME NEW identity \in {"absent", "ours"}, Send(Error(identity))
    PROVE  Speaks
  BY ErrorLine DEF Speaks

\* Every action of the handler, with the lines it sends.
LEMMA SeedWorks ==
    ASSUME Common, SeedInv, kind = "screened_seed", Seed!Work
    PROVE  SeedInv' /\ Works
  <1> USE CellsAssumption
      DEF Common, SeedInv, Works, readerVars, Seed!readerVars, workVars, Seed!workVars,
          Seed!gridVars, Seed!Frame, Seed!Goto, Seed!CancelOr, Seed!SendAndExit, Seed!Send, Send,
          Seed!Event, Seed!Error, Seed!Begin, Seed!Finish
  <1>0. late \in Nat /\ sampled \in Nat /\ SeedCells \in Nat
    OBVIOUS
  <1>w. "none" \in Words /\ {"started", "progress", "candidate", "refinement", "complete",
                             "cancelled", "error"} \subseteq Types
    BY DEF Words, Types
  <1>1. CASE Seed!ReadSource
    <2>1. CASE pc' = "exited"
      BY <1>1, <2>1, SpeakError DEF Seed!ReadSource, Error, Event
    <2>2. CASE pc' # "exited"
      BY <1>0, <1>1, <1>w, <2>2, SpeakEvent DEF Seed!ReadSource, Event
    <2> QED BY <2>1, <2>2
  <1>2. CASE Seed!Started
    BY <1>0, <1>2, <1>w, SpeakEvent DEF Seed!Started, Event
  <1>3. CASE Seed!Check
    <2>1. /\ pc \in {"precompute", "cell", "refineCheck"} /\ UNCHANGED <<late, overdue, sampled, emitted>>
          /\ pc = "precompute" => sampled < SeedCells /\ Seed!Checks[pc] = "integrate"
          /\ pc = "cell" => sampled < SeedCells /\ Seed!Checks[pc] = "screen"
          /\ pc = "refineCheck" => Seed!Checks[pc] = "refine"
      BY <1>3, SeedTables DEF Seed!Check
    <2>2. CASE cancelled
      BY <1>0, <1>3, <1>w, <2>1, <2>2, SpeakEvent DEF Seed!Check, Event
    <2>3. CASE ~cancelled
      <3>1. late = 0 /\ pc' = Seed!Checks[pc] /\ UNCHANGED pipe
        BY <1>0, <1>3, <2>3 DEF Seed!Check
      <3>2. pc' \in {"integrate", "screen", "refine"} BY <2>1, <3>1
      <3>3. pc' \in {"integrate", "screen"} => sampled < SeedCells BY <2>1, <3>1
      <3> QED BY <1>3, <2>1, <3>1, <3>2, <3>3 DEF Seed!Check, Speaks
    <2> QED BY <2>2, <2>3
  <1>4. CASE Seed!BeginStage
    <2>1. /\ pc \in {"integrate", "preflight", "screen", "refine"}
          /\ pc' \in {"integrating", "preflighting", "screening", "refining"}
          /\ pc' = "refining" <=> pc = "refine"
      BY <1>4, SeedTables DEF Seed!BeginStage
    <2>2. UNCHANGED pipe /\ late = 0
      BY <1>4, <2>1 DEF Seed!BeginStage
    <2> QED BY <1>4, <2>1, <2>2 DEF Seed!BeginStage, Speaks
  <1>5. CASE Seed!Integrated
    BY <1>0, <1>5, <1>w, SpeakEvent, SpeakError DEF Seed!Integrated, Event, Error, Speaks
  <1>6. CASE Seed!Preflighted
    BY <1>0, <1>6, <1>w, SpeakEvent, SpeakError DEF Seed!Preflighted, Event, Error, Speaks
  <1>7. CASE Seed!Screened
    BY <1>0, <1>7, <1>w, SpeakEvent, SpeakError DEF Seed!Screened, Event, Error, Speaks
  <1>8. CASE Seed!Report
    BY <1>0, <1>8, <1>w, SpeakEvent DEF Seed!Report, Event, Speaks
  <1>9. CASE Seed!Ranked
    BY <1>0, <1>9, <1>w, SpeakEvent DEF Seed!Ranked, Event, Speaks
  <1>10. CASE Seed!Refinement
    BY <1>0, <1>10, <1>w, SpeakEvent DEF Seed!Refinement, Seed!SendRefinement, Event, Speaks
  <1>11. CASE Seed!Refined
    BY <1>0, <1>11, <1>w, SpeakEvent DEF Seed!Refined, Seed!SendRefinement, Event, Speaks
  <1>12. CASE Seed!Complete
    BY <1>0, <1>12, <1>w, SpeakEvent DEF Seed!Complete, Event
  <1> QED BY <1>1, <1>2, <1>3, <1>4, <1>5, <1>6, <1>7, <1>8, <1>9, <1>10, <1>11, <1>12
          DEF Seed!Work

-----------------------------------------------------------------------------
(* Which lines the two screenings write, and why their client takes them ****)

\* The validator is, when the client has read them all, where the handler is.
ScreenExpects(w, total) ==
    /\ pc = "reading" => w = Fresh
    /\ w.terminal <=> pc = "exited"
    /\ pc \notin {"reading", "exited"} => w.started /\ w.total = total /\ w.last <= sampled

\* A step says nothing, or a line in its place: the start first, then counts that are
\* the cells sampled, and rows, and one terminal when it exits.
ScreenTalks(total) ==
    /\ sampled \in Nat /\ sampled' \in Nat /\ sampled <= sampled' /\ pc' # "reading"
    /\ UNCHANGED readerVars
    /\ \/ /\ pc = "reading"
          /\ \/ \E identity \in {"absent", "ours"} : Send(Error(identity)) /\ pc' = "exited"
             \/ Send(Event("started", 0, total, "none")) /\ pc' # "exited"
       \/ pc # "reading" /\ UNCHANGED pipe /\ pc' # "exited"
       \/ pc # "reading" /\ Send(Error("ours")) /\ pc' = "exited"
       \/ /\ pc # "reading"
          /\ \E type \in {"progress", "complete", "cancelled"} \cup Items(kind), n \in Nat, m \in Nat :
                /\ Send(Event(type, n, m, "none"))
                /\ type = "progress" => n = sampled' /\ m = total /\ sampled' <= total
                /\ pc' = "exited" <=> type \in Terminals

LEMMA ScreenKeepsUp ==
    ASSUME kind \in Screening, pipe \in Seq(Line), pc # "exited",
           NEW total \in 1..CellCap(kind), NEW w, Ahead(w), ScreenExpects(w, total),
           ScreenTalks(total)
    PROVE  \E v : Ahead(v)' /\ ScreenExpects(v, total)'
  <1>1. w \in Validator /\ kind \in Kinds /\ UNCHANGED <<kind, validator>>
    BY AheadTyped DEF ScreenTalks, readerVars, Kinds
  <1>2. ~w.terminal BY DEF ScreenExpects
  <1>3. total \in Nat
    <2>1. CellCap(kind) \in Nat BY SMT DEF CellCap
    <2> QED BY <2>1
  <1>4. ASSUME NEW identity \in {"absent", "ours"}, Send(Error(identity)), pc' = "exited",
               identity = "absent" => pc = "reading"
        PROVE  \E v : Ahead(v)' /\ ScreenExpects(v, total)'
    <2>1. identity = "absent" => ~w.started BY <1>4 DEF ScreenExpects, Fresh
    <2>2. PICK v : v = After(kind, w, Error(identity)) OBVIOUS
    <2>3. ~Refuses(kind, w, Error(identity)) /\ v.terminal BY <1>1, <1>2, <2>1, <2>2, ErrorAccepted
    <2>4. Error(identity) \in Line BY ErrorLine
    <2>5. Ahead(v)' BY <1>1, <1>4, <2>2, <2>3, <2>4, AheadSend
    <2> QED BY <1>4, <2>3, <2>5 DEF ScreenExpects
  <1>5. ASSUME pc = "reading", Send(Event("started", 0, total, "none")), pc' # "exited"
        PROVE  \E v : Ahead(v)' /\ ScreenExpects(v, total)'
    <2> DEFINE e == Event("started", 0, total, "none")
    <2>1. w = Fresh BY <1>5 DEF ScreenExpects
    <2>2. e \in Line BY <1>3, EventLine DEF Types, Words
    <2>3. PICK v : v = After(kind, w, e) OBVIOUS
    <2>4. /\ ~Refuses(kind, w, e) /\ v.started /\ ~v.terminal /\ v.last = 0 /\ v.total = total
      BY <1>1, <1>3, <2>1, <2>3, StartAccepted
    <2>5. Send(e) BY <1>5
    <2> HIDE DEF e
    <2>6. Ahead(v)' BY <1>1, <2>2, <2>3, <2>4, <2>5, AheadSend
    <2> QED BY <1>5, <2>4, <2>6 DEF ScreenExpects, ScreenTalks
  <1>6. CASE pc # "reading" /\ UNCHANGED pipe /\ pc' # "exited"
    BY <1>1, <1>6, AheadFrame DEF ScreenExpects, ScreenTalks, Validator
  <1>7. ASSUME pc # "reading",
               NEW type \in {"progress", "complete", "cancelled"} \cup Items(kind),
               NEW n \in Nat, NEW m \in Nat,
               Send(Event(type, n, m, "none")),
               type = "progress" => n = sampled' /\ m = total /\ sampled' <= total,
               pc' = "exited" <=> type \in Terminals
        PROVE  \E v : Ahead(v)' /\ ScreenExpects(v, total)'
    <2> DEFINE e == Event(type, n, m, "none")
    <2>1. w.started /\ w.total = total /\ w.last <= sampled /\ w.last \in Nat
      BY <1>1, <1>7 DEF ScreenExpects, Validator
    <2>2. e \in Line BY <1>7, EventLine DEF Types, Words, Items
    <2>3. PICK v : v = After(kind, w, e) OBVIOUS
    <2>4. type = "progress" => n \in w.last..w.total /\ m = w.total
      BY <1>3, <1>7, <2>1 DEF ScreenTalks
    <2>5. /\ ~Refuses(kind, w, e) /\ v.started /\ v.total = total
          /\ v.last = IF type = "progress" THEN n ELSE w.last
          /\ v.terminal <=> type \in Terminals
      BY <1>1, <1>2, <1>7, <2>1, <2>3, <2>4, ScreeningAccepts
    <2>6. Send(e) BY <1>7
    <2> HIDE DEF e
    <2>7. Ahead(v)' BY <1>1, <2>2, <2>3, <2>5, <2>6, AheadSend
    <2>8. v.last <= sampled' BY <1>7, <2>1, <2>5 DEF ScreenTalks
    <2> QED BY <1>7, <2>5, <2>7, <2>8 DEF ScreenExpects, ScreenTalks
  <1> QED BY <1>4, <1>5, <1>6, <1>7 DEF ScreenTalks

\* What every step of a screening leaves of its past.
Moves ==
    sampled \in Nat /\ sampled' \in Nat /\ sampled <= sampled' /\ pc' # "reading"
    /\ UNCHANGED readerVars

LEMMA TalksQuiet ==
    ASSUME NEW total, Moves, pc # "reading", UNCHANGED pipe, pc' # "exited"
    PROVE  ScreenTalks(total)
  BY DEF ScreenTalks, Moves

LEMMA TalksError ==
    ASSUME NEW total, Moves, pc # "reading", Send(Error("ours")), pc' = "exited"
    PROVE  ScreenTalks(total)
  BY DEF ScreenTalks, Moves

LEMMA TalksEvent ==
    ASSUME NEW total, Moves, pc # "reading",
           NEW type \in {"progress", "complete", "cancelled"} \cup Items(kind),
           NEW n \in Nat, NEW m \in Nat, Send(Event(type, n, m, "none")),
           type = "progress" => n = sampled' /\ m = total /\ sampled' <= total,
           pc' = "exited" <=> type \in Terminals
    PROVE  ScreenTalks(total)
  BY DEF ScreenTalks, Moves

\* Every line of start is in its place.
LEMMA SeedTalks ==
    ASSUME Common, SeedInv, kind = "screened_seed", Seed!Work
    PROVE  ScreenTalks(SeedCells)
  <1> USE CellsAssumption DEF Common, SeedInv, Moves, readerVars, Seed!readerVars, Seed!gridVars, Seed!Frame,
      Seed!Goto, Seed!CancelOr, Seed!SendAndExit, Seed!Send, Send, Seed!Event, Seed!Error
  <1>0. sampled \in Nat /\ SeedCells \in Nat
    OBVIOUS
  <1>t. /\ "complete" \in Terminals /\ "cancelled" \in Terminals /\ "progress" \notin Terminals
        /\ "candidate" \in Items(kind) \ Terminals /\ "refinement" \in Items(kind) \ Terminals
    BY DEF Terminals, Items
  <1>f. Seed!ReadSource \/ Seed!Started \/ Seed!Check \/ Seed!BeginStage \/ Seed!Integrated
        \/ Seed!Preflighted \/ Seed!Screened \/ Seed!Report \/ Seed!Ranked
        \/ Seed!Refinement \/ Seed!Refined \/ Seed!Complete
    BY DEF Seed!Work
  <1>1. CASE Seed!ReadSource
    BY <1>0, <1>1 DEF Seed!ReadSource, ScreenTalks, Error, Event
  <1>2. CASE Seed!Started
    BY <1>0, <1>t, <1>2, TalksEvent DEF Seed!Started, Event
  <1>3. CASE Seed!Check
    <2>1. /\ pc \in {"precompute", "cell", "refineCheck"}
          /\ Seed!Checks[pc] \in {"integrate", "screen", "refine"}
          /\ UNCHANGED <<sampled, readerVars>>
      BY <1>3, SeedTables DEF Seed!Check
    <2>2. CASE cancelled BY <1>0, <1>t, <1>3, <2>1, <2>2, TalksEvent DEF Seed!Check, Event
    <2>3. CASE ~cancelled BY <1>0, <1>3, <2>1, <2>3, TalksQuiet DEF Seed!Check
    <2> QED BY <2>2, <2>3
  <1>4. CASE Seed!BeginStage
    <2>1. /\ pc \in {"integrate", "preflight", "screen", "refine"}
          /\ pc' \in {"integrating", "preflighting", "screening", "refining"}
      BY <1>4, SeedTables DEF Seed!BeginStage
    <2> QED BY <1>0, <1>4, <2>1, TalksQuiet DEF Seed!BeginStage
  <1>5. CASE Seed!Integrated
    BY <1>0, <1>t, <1>5, TalksQuiet, TalksEvent, TalksError DEF Seed!Integrated, Event, Error
  <1>6. CASE Seed!Preflighted
    BY <1>0, <1>t, <1>6, TalksQuiet, TalksEvent, TalksError DEF Seed!Preflighted, Event, Error
  <1>7. CASE Seed!Screened
    BY <1>0, <1>t, <1>7, TalksQuiet, TalksEvent, TalksError DEF Seed!Screened, Event, Error
  <1>8. CASE Seed!Report
    BY <1>0, <1>t, <1>8, TalksQuiet, TalksEvent DEF Seed!Report, Event
  <1>9. CASE Seed!Ranked
    BY <1>0, <1>t, <1>9, TalksQuiet, TalksEvent DEF Seed!Ranked, Event
  <1>10. CASE Seed!Refinement
    BY <1>0, <1>t, <1>10, TalksEvent DEF Seed!Refinement, Seed!SendRefinement, Event
  <1>11. CASE Seed!Refined
    BY <1>0, <1>t, <1>11, TalksEvent DEF Seed!Refined, Seed!SendRefinement, Event
  <1>12. CASE Seed!Complete
    BY <1>0, <1>t, <1>12, TalksEvent DEF Seed!Complete, Event
  <1> QED BY <1>f, <1>1, <1>2, <1>3, <1>4, <1>5, <1>6, <1>7, <1>8, <1>9, <1>10, <1>11, <1>12

-----------------------------------------------------------------------------
(* The command start_mission ***********************************************)

LEMMA MaxTwo ==
    ASSUME NEW a \in Nat, NEW b \in Nat
    PROVE  /\ Mission!Max({a, b}) \in {a, b} /\ Mission!Max({a, b}) >= a
           /\ Evaluation!Max({a, b}) \in {a, b} /\ Evaluation!Max({a, b}) >= a
  <1> DEFINE m == IF a >= b THEN a ELSE b
  <1>1. m \in {a, b} /\ \A y \in {a, b} : m >= y OBVIOUS
  <1> QED BY <1>1 DEF Mission!Max, Evaluation!Max

LEMMA StrideType == Mission!Stride \in Nat \ {0}
  <1>1. RouteCells \in Nat BY CellsAssumption
  <1>2. RouteCells \div 100 \in Nat BY <1>1
  <1>3. PICK q \in Nat : q = RouteCells \div 100 BY <1>2
  <1>4. Mission!Max({1, q}) \in {1, q} /\ Mission!Max({1, q}) >= 1 BY MaxTwo
  <1>5. Mission!Stride = Mission!Max({1, q}) BY <1>3 DEF Mission!Stride
  <1> QED BY <1>3, <1>4, <1>5

\* The search is no further than the announced total, and the client's last count
\* no further behind than a stride; the call ended before its routes are written.
MissionInv ==
    /\ cells \in 0..RouteCells /\ sampled = cells
    /\ lastSampled \in 0..cells /\ cells - lastSampled < Mission!Stride
    /\ retained \in Nat /\ lastRoutes = retained /\ sent \in Nat
    /\ pc \notin {"searching", "routes", "exited"} => cells = 0
    /\ pc = "integrate" => late = 0
    /\ pc = "routes" => outcome \in {"complete", "cancelled"}
    /\ pc = "routes" /\ outcome = "cancelled" => cancelled

\* What is reported is where the search is; what is not, is within the stride.
LEMMA MissionProgress ==
    ASSUME lastSampled \in Nat, retained \in Nat, lastRoutes = retained,
           cells' \in Nat, lastSampled <= cells', retained' \in {retained, retained + 1},
           Mission!Progress
    PROVE  /\ sampled' = cells' /\ lastSampled' \in 0..cells'
           /\ cells' - lastSampled' < Mission!Stride /\ lastRoutes' = retained'
           /\ UNCHANGED pipe \/ Send(Event("progress", cells', RouteCells, "none"))
  <1> DEFINE quiet == /\ cells' \notin {1, RouteCells}
                      /\ cells' - lastSampled < Mission!Stride
                      /\ retained' <= lastRoutes
  <1>1. sampled' = cells' BY DEF Mission!Progress
  <1>2. CASE quiet
    <2>1. UNCHANGED <<pipe, lastSampled, lastRoutes>> BY <1>2 DEF Mission!Progress
    <2>2. retained' = lastRoutes BY <1>2
    <2> QED BY <1>1, <1>2, <2>1, <2>2
  <1>3. CASE ~quiet
    <2>1. /\ lastSampled' = cells' /\ lastRoutes' = retained'
          /\ Send(Event("progress", cells', RouteCells, "none"))
      BY <1>3 DEF Mission!Progress, Mission!Send, Send, Mission!Event, Event
    <2> HIDE DEF quiet
    <2>2. \A n \in Nat : n - n < Mission!Stride /\ n \in 0..n BY StrideType
    <2>3. cells' - cells' < Mission!Stride /\ cells' \in 0..cells' BY <2>2, Zenon
    <2>4. lastSampled' \in 0..cells' /\ cells' - lastSampled' < Mission!Stride
      BY <2>1, <2>3, Zenon
    <2> QED BY <1>1, <2>1, <2>4
  <1> QED BY <1>2, <1>3

LEMMA MissionWorks ==
    ASSUME Common, MissionInv, kind = "screened_route", Mission!Work
    PROVE  MissionInv' /\ Works
  <1> USE CellsAssumption, StrideType
      DEF Common, MissionInv, Works, readerVars, Mission!readerVars, workVars, Mission!workVars,
          Mission!searchVars, Mission!progressVars, Mission!CancelOr, Mission!SendAndExit,
          Mission!Send, Send, Mission!Event, Mission!Error, Mission!Begin, Mission!Finish
  <1>0. /\ late \in Nat /\ cells \in Nat /\ RouteCells \in Nat /\ Mission!Stride \in Nat
        /\ lastSampled \in Nat
    OBVIOUS
  <1>w. "none" \in Words /\ {"started", "progress", "route", "complete",
                             "cancelled", "error"} \subseteq Types
    BY DEF Words, Types
  <1>f. Mission!ReadSource \/ Mission!Started \/ Mission!Precompute \/ Mission!Integrate
        \/ Mission!Integrated \/ Mission!Ready \/ Mission!Cell \/ Mission!Retain \/ Mission!Drop
        \/ Mission!SearchReturns \/ Mission!Route \/ Mission!Terminal
    BY DEF Mission!Work
  <1>1. CASE Mission!ReadSource
    <2>1. CASE pc' = "exited"
      BY <1>1, <2>1, SpeakError DEF Mission!ReadSource, Error, Event
    <2>2. CASE pc' # "exited"
      BY <1>0, <1>1, <1>w, <2>2, SpeakEvent DEF Mission!ReadSource, Event
    <2> QED BY <2>1, <2>2
  <1>2. CASE Mission!Started
    BY <1>0, <1>2, <1>w, SpeakEvent DEF Mission!Started, Event
  <1>3. CASE Mission!Precompute
    <2>1. CASE cancelled BY <1>0, <1>3, <1>w, <2>1, SpeakEvent DEF Mission!Precompute, Event
    <2>2. CASE ~cancelled
      <3>1. late = 0 BY <2>2
      <3>2. \/ UNCHANGED pipe /\ pc' \in {"ready", "integrate"}
            \/ Send(Error("ours")) /\ pc' = "exited"
        BY <1>3, <2>2 DEF Mission!Precompute, Event, Error
      <3> QED BY <1>0, <1>3, <3>1, <3>2, SpeakError DEF Mission!Precompute, Speaks
    <2> QED BY <2>1, <2>2
  <1>4. CASE Mission!Integrate
    BY <1>0, <1>4 DEF Mission!Integrate, Speaks
  <1>5. CASE Mission!Integrated
    BY <1>0, <1>5, <1>w, SpeakEvent, SpeakError DEF Mission!Integrated, Event, Error, Speaks
  <1>6. CASE Mission!Ready
    BY <1>0, <1>6, <1>w, SpeakEvent DEF Mission!Ready, Event, Speaks
  <1>7. CASE Mission!Cell
    <2>1. /\ pc = "searching" /\ Mission!Search!Cell /\ Mission!Progress
          /\ overdue' = (overdue \/ cancelled)
          /\ UNCHANGED <<kind, validator, refused, verdict, told, claim, pc, sent>>
      BY <1>7 DEF Mission!Cell
    <2>2. /\ cells < RouteCells /\ late = 0 /\ cells' = cells + 1
          /\ late' = IF cancelled THEN 1 ELSE 0
          /\ UNCHANGED <<retained, cancelled, outcome>>
      BY <2>1 DEF Mission!Search!Cell
    <2>3. cells' \in 0..RouteCells /\ lastSampled <= cells' /\ cells' \in Nat BY <1>0, <2>2
    <2>4. /\ sampled' = cells' /\ lastSampled' \in 0..cells'
          /\ cells' - lastSampled' < Mission!Stride /\ lastRoutes' = retained'
          /\ UNCHANGED pipe \/ Send(Event("progress", cells', RouteCells, "none"))
      BY <1>0, <2>1, <2>2, <2>3, MissionProgress
    <2>5. Speaks BY <1>0, <1>w, <2>3, <2>4, SpeakEvent DEF Speaks
    <2> QED BY <1>0, <2>1, <2>2, <2>3, <2>4, <2>5
  <1>8. CASE Mission!Retain
    <2>1. /\ pc = "searching" /\ Mission!Search!Retain /\ Mission!Progress
          /\ UNCHANGED <<kind, validator, refused, verdict, told, claim, pc, overdue, sent>>
      BY <1>8 DEF Mission!Retain
    <2>2. /\ retained' \in {retained, retained + 1} /\ UNCHANGED <<cells, cancelled, late, outcome>>
      BY <2>1 DEF Mission!Search!Retain
    <2>3. cells' \in 0..RouteCells /\ lastSampled <= cells' /\ cells' \in Nat BY <1>0, <2>2
    <2>4. /\ sampled' = cells' /\ lastSampled' \in 0..cells'
          /\ cells' - lastSampled' < Mission!Stride /\ lastRoutes' = retained'
          /\ UNCHANGED pipe \/ Send(Event("progress", cells', RouteCells, "none"))
      BY <1>0, <2>1, <2>2, <2>3, MissionProgress
    <2>5. sampled' = cells /\ lastSampled' \in 0..cells /\ cells - lastSampled' < Mission!Stride
      BY <2>2, <2>4, Zenon
    <2>6. Speaks
      <3>1. CASE UNCHANGED pipe BY ONLY <3>1 DEF Speaks
      <3>2. CASE Send(Event("progress", cells', RouteCells, "none"))
        <4>1. Send(Event("progress", cells, RouteCells, "none")) BY <2>2, <3>2, Zenon
        <4> QED BY ONLY <1>0, <1>w, <4>1, SpeakEvent
      <3> QED BY <2>4, <3>1, <3>2
    <2>7. Works BY <2>1, <2>2, <2>6
    <2>8. retained' \in Nat /\ lastRoutes' = retained'
      <3>1. \A n \in Nat : n + 1 \in Nat OBVIOUS
      <3> QED BY <2>2, <2>4, <3>1, Zenon
    <2>9. MissionInv' BY <2>1, <2>2, <2>5, <2>8
    <2> QED BY <2>7, <2>9
  <1>9. CASE Mission!Drop
    BY <1>0, <1>9 DEF Mission!Drop, Mission!Search!Drop, Speaks
  <1>10. CASE Mission!SearchReturns
    <2>1. /\ pc = "searching" /\ outcome' \in {"complete", "cancelled", "raised"}
          /\ outcome' = "cancelled" => cancelled
          /\ UNCHANGED <<kind, validator, refused, verdict, told, claim, cells, retained, cancelled, late,
                         overdue, sampled, lastSampled, lastRoutes, sent>>
          /\ \/ outcome' = "raised" /\ Send(Error("ours")) /\ pc' = "exited"
             \/ outcome' # "raised" /\ pc' = "routes" /\ UNCHANGED pipe
      BY <1>10 DEF Mission!SearchReturns, Mission!Search!Return, Error, Event
    <2>2. Speaks BY <2>1, SpeakError DEF Speaks
    <2> QED BY <1>0, <2>1, <2>2
  <1>11. CASE Mission!Route
    BY <1>0, <1>11, <1>w, SpeakEvent DEF Mission!Route, Event
  <1>12. CASE Mission!Terminal
    BY <1>0, <1>12, <1>w, SpeakEvent DEF Mission!Terminal, Event
  <1> QED BY <1>f, <1>1, <1>2, <1>3, <1>4, <1>5, <1>6, <1>7, <1>8, <1>9, <1>10, <1>11, <1>12

\* Every line of start_mission is in its place.
LEMMA MissionTalks ==
    ASSUME Common, MissionInv, kind = "screened_route", Mission!Work
    PROVE  ScreenTalks(RouteCells)
  <1> USE CellsAssumption DEF Common, MissionInv, Moves, readerVars, Mission!readerVars,
      Mission!searchVars, Mission!progressVars, Mission!CancelOr, Mission!SendAndExit,
      Mission!Send, Send, Mission!Event, Mission!Error
  <1>0. cells \in Nat /\ sampled \in Nat /\ RouteCells \in Nat /\ lastSampled \in Nat
    OBVIOUS
  <1>t. /\ "complete" \in Terminals /\ "cancelled" \in Terminals /\ "progress" \notin Terminals
        /\ "route" \in Items(kind) \ Terminals
    BY DEF Terminals, Items
  <1>f. Mission!ReadSource \/ Mission!Started \/ Mission!Precompute \/ Mission!Integrate
        \/ Mission!Integrated \/ Mission!Ready \/ Mission!Cell \/ Mission!Retain \/ Mission!Drop
        \/ Mission!SearchReturns \/ Mission!Route \/ Mission!Terminal
    BY DEF Mission!Work
  <1>1. CASE Mission!ReadSource
    BY <1>0, <1>1 DEF Mission!ReadSource, ScreenTalks, Error, Event
  <1>2. CASE Mission!Started
    BY <1>0, <1>t, <1>2, TalksEvent DEF Mission!Started, Event
  <1>3. CASE Mission!Precompute
    <2>1. CASE cancelled BY <1>0, <1>t, <1>3, <2>1, TalksEvent DEF Mission!Precompute, Event
    <2>2. CASE ~cancelled
      <3>1. \/ UNCHANGED pipe /\ pc' \in {"ready", "integrate"}
            \/ Send(Error("ours")) /\ pc' = "exited"
        BY <1>3, <2>2 DEF Mission!Precompute, Event, Error
      <3> QED BY <1>0, <1>3, <3>1, TalksQuiet, TalksError DEF Mission!Precompute
    <2> QED BY <2>1, <2>2
  <1>4. CASE Mission!Integrate
    BY <1>0, <1>4, TalksQuiet DEF Mission!Integrate
  <1>5. CASE Mission!Integrated
    BY <1>0, <1>t, <1>5, TalksQuiet, TalksEvent, TalksError DEF Mission!Integrated, Event, Error
  <1>6. CASE Mission!Ready
    BY <1>0, <1>t, <1>6, TalksQuiet, TalksEvent DEF Mission!Ready, Event
  <1>7. CASE Mission!Cell
    <2>1. /\ pc = "searching" /\ pc' = pc /\ UNCHANGED readerVars /\ UNCHANGED retained
          /\ Mission!Progress /\ cells < RouteCells /\ cells' = cells + 1
      BY <1>7 DEF Mission!Cell, Mission!Search!Cell
    <2>2. /\ sampled' = cells'
          /\ UNCHANGED pipe \/ Send(Event("progress", cells', RouteCells, "none"))
      BY <1>0, <2>1, MissionProgress
    <2> QED BY <1>0, <1>t, <2>1, <2>2, TalksQuiet, TalksEvent
  <1>8. CASE Mission!Retain
    <2>1. /\ pc = "searching" /\ pc' = pc /\ UNCHANGED readerVars /\ UNCHANGED cells
          /\ Mission!Progress /\ retained' \in {retained, retained + 1}
      BY <1>8 DEF Mission!Retain, Mission!Search!Retain
    <2>2. /\ sampled' = cells'
          /\ UNCHANGED pipe \/ Send(Event("progress", cells', RouteCells, "none"))
      BY <1>0, <2>1, MissionProgress
    <2> QED BY <1>0, <1>t, <2>1, <2>2, TalksQuiet, TalksEvent
  <1>9. CASE Mission!Drop
    BY <1>0, <1>9, TalksQuiet DEF Mission!Drop
  <1>10. CASE Mission!SearchReturns
    BY <1>0, <1>10, TalksQuiet, TalksError DEF Mission!SearchReturns, Error, Event
  <1>11. CASE Mission!Route
    BY <1>0, <1>t, <1>11, TalksEvent DEF Mission!Route, Event
  <1>12. CASE Mission!Terminal
    <2>1. outcome \in {"complete", "cancelled"} BY <1>12 DEF Mission!Terminal
    <2> QED BY <1>0, <1>t, <1>12, <2>1, TalksEvent DEF Mission!Terminal, Event
  <1> QED BY <1>f, <1>1, <1>2, <1>3, <1>4, <1>5, <1>6, <1>7, <1>8, <1>9, <1>10, <1>11, <1>12

-----------------------------------------------------------------------------
(* The commands evaluate_route and shoot_route *****************************)

Shooting == kind = "bounded_shooting"

\* The budgets of which every probe is reported.
Fine == Budget <= 64

\* A route is shot, or evaluated in one stage.
ShootingSteps == {"prepare", "preparing", "shooting", "shot", "reporting"}
PhaseSteps == {"phaseZero", "evaluate", "evaluateNow", "evaluating", "phaseOne"}

\* The counts of the shooting, how it ended, and what a look at the flag just told.
EvalInv ==
    /\ probes \in 0..Budget /\ reported \in 0..probes /\ probes <= reported + 1
    /\ lastReported \in 0..reported /\ (Fine => lastReported = reported)
    /\ pc \in {"reading", "admitted", "prepare", "preparing"} => probes = 0
    /\ pc \in {"prepare", "evaluateNow"} => late = 0
    /\ pc \in {"reporting", "phaseOne", "completing"} => ~overdue
    /\ pc \in ShootingSteps => Shooting
    /\ pc \in PhaseSteps => ~Shooting
    /\ outcome = "cancelled" => cancelled
    /\ pc \in {"shot", "reporting", "completing"} /\ Shooting =>
          /\ reported = probes
          /\ outcome \in ShootingStatuses \cup {"cancelled", "raised"}
          /\ outcome \in ShootingStatuses => probes > 0
    /\ pc \in {"reporting", "completing"} /\ Shooting => outcome \in ShootingStatuses

LEMMA FineInterval == Fine => Evaluation!Interval = 1
  <1> SUFFICES ASSUME Fine PROVE Evaluation!Interval = 1
    OBVIOUS
  <1>1. (Budget + 63) \div 64 = 1 BY CellsAssumption DEF Fine
  <1>2. Evaluation!Max({1, 1}) = 1 BY MaxTwo
  <1> QED BY <1>1, <1>2 DEF Evaluation!Interval

LEMMA EvalProgress ==
    ASSUME lastReported \in Nat, NEW n \in Nat, lastReported <= n, Evaluation!Progress(n)
    PROVE  \/ /\ lastReported' = lastReported /\ UNCHANGED pipe
              /\ Fine => lastReported = n
           \/ /\ lastReported' = n
              /\ Send(Event("progress", n, Budget, "none"))
  <1>1. Fine /\ n - lastReported < Evaluation!Interval => lastReported = n
    BY FineInterval
  <1> QED BY <1>1 DEF Evaluation!Progress, Evaluation!Send, Send, Evaluation!Event, Event

LEMMA NotRunning ==
    /\ "running" \notin ShootingStatuses /\ "cancelled" \notin ShootingStatuses
    /\ "raised" \notin ShootingStatuses /\ ShootingStatuses \subseteq Words
  BY DEF ShootingStatuses, Words

LEMMA EvalWorks ==
    ASSUME Common, EvalInv, kind \in Numerical, Evaluation!Work
    PROVE  EvalInv' /\ Works
  <1> USE CellsAssumption
      DEF Common, EvalInv, Works, Shooting, Evaluation!Shooting, ShootingSteps, PhaseSteps,
          readerVars, Evaluation!readerVars, workVars, Evaluation!workVars,
          Evaluation!shotVars, Evaluation!CancelOr, Evaluation!SendAndExit,
          Evaluation!Send, Send, Evaluation!Event, Evaluation!Error, Evaluation!Begin, Evaluation!Finish
  <1>0. /\ late \in Nat /\ probes \in Nat /\ reported \in Nat /\ lastReported \in Nat /\ Budget \in Nat
    OBVIOUS
  <1>k. kind # "screened_route" BY DEF Numerical
  <1>w. /\ {"none", "before_numerical_work", "before_coarse_probe", "during_numerical_work",
            "after_numerical_work"} \subseteq Words
        /\ {"started", "progress", "complete", "cancelled", "error"} \subseteq Types
    BY DEF Words, Types
  <1>f. Evaluation!ReadSource \/ Evaluation!Admit \/ Evaluation!Prepare \/ Evaluation!Prepared
        \/ Evaluation!BeginProbe \/ Evaluation!ProbeReported \/ Evaluation!ShotReturns
        \/ Evaluation!ShotVerdict \/ Evaluation!FinalProgress \/ Evaluation!PhaseZero
        \/ Evaluation!CheckEvaluate \/ Evaluation!Evaluate \/ Evaluation!Evaluated
        \/ Evaluation!PhaseOne \/ Evaluation!Complete
    BY DEF Evaluation!Work
  <1>1. CASE Evaluation!ReadSource
    <2>1. /\ pc = "reading" /\ UNCHANGED <<readerVars, cancelled, late, overdue, probes, reported,
                                           outcome, lastReported>>
          /\ \/ \E identity \in {"absent", "ours"} : Send(Error(identity)) /\ pc' = "exited"
             \/ pc' = "admitted" /\ UNCHANGED pipe
      BY <1>1 DEF Evaluation!ReadSource, Evaluation!SourceRefused, Evaluation!RequestRefused, Error, Event
    <2>2. Speaks BY <2>1, SpeakError DEF Speaks
    <2> QED BY <1>0, <2>1, <2>2
  <1>2. CASE Evaluation!Admit
    BY <1>0, <1>2, <1>w, SpeakEvent DEF Evaluation!Admit, Event
  <1>3. CASE Evaluation!Prepare
    BY <1>0, <1>3 DEF Evaluation!Prepare, Speaks
  <1>4. CASE Evaluation!Prepared
    BY <1>0, <1>4, <1>w, SpeakEvent, SpeakError DEF Evaluation!Prepared, Event, Error, Speaks
  <1>5. CASE Evaluation!BeginProbe
    BY <1>0, <1>5 DEF Evaluation!BeginProbe, Evaluation!Shot!BeginProbe, Speaks
  <1>6. CASE Evaluation!ProbeReported
    <2>1. /\ pc = "shooting" /\ reported' = probes /\ Evaluation!Progress(probes)
          /\ overdue' = (overdue \/ cancelled)
          /\ UNCHANGED <<readerVars, probes, cancelled, late, outcome, pc>>
      BY <1>6 DEF Evaluation!ProbeReported, Evaluation!Shot!Report
    <2>2. \/ /\ lastReported' = lastReported /\ UNCHANGED pipe
             /\ Fine => lastReported = probes
          \/ /\ lastReported' = probes
             /\ Send(Event("progress", probes, Budget, "none"))
      BY <1>0, <2>1, EvalProgress
    <2>3. Speaks BY <1>0, <1>w, <2>2, SpeakEvent DEF Speaks
    <2> QED BY <1>0, <2>1, <2>2, <2>3
  <1>7. CASE Evaluation!ShotReturns
    <2>1. /\ pc = "shooting" /\ pc' = "shot" /\ reported = probes /\ UNCHANGED pipe
          /\ outcome' \in ShootingStatuses \cup {"cancelled", "raised"}
          /\ outcome' = "cancelled" => cancelled
          /\ outcome' \in ShootingStatuses => probes > 0
          /\ overdue' = (overdue \/ cancelled)
          /\ UNCHANGED <<readerVars, probes, reported, cancelled, late, lastReported>>
      <3>1. Evaluation!ShootingStatuses = ShootingStatuses
        BY DEF Evaluation!ShootingStatuses, ShootingStatuses
      <3> QED BY <1>7, <3>1 DEF Evaluation!ShotReturns, Evaluation!Shot!Return
    <2>2. Speaks BY <2>1 DEF Speaks
    <2> QED BY <1>0, <2>1, <2>2
  <1>8. CASE Evaluation!ShotVerdict
    <2>1. /\ pc = "shot" /\ UNCHANGED <<readerVars, cancelled, late, overdue, probes, reported,
                                        outcome, lastReported>>
          /\ \/ Send(Error("ours")) /\ pc' = "exited"
             \/ /\ cancelled /\ pc' = "exited"
                /\ Send(Event("cancelled", probes, 0, "during_numerical_work"))
             \/ /\ outcome \notin {"raised", "cancelled"} /\ ~cancelled
                /\ pc' = "reporting" /\ UNCHANGED pipe
      BY <1>8 DEF Evaluation!ShotVerdict, Error, Event
    <2>2. Speaks BY <1>0, <1>w, <2>1, SpeakEvent, SpeakError DEF Speaks
    <2> QED BY <1>0, <2>1, <2>2
  <1>9. CASE Evaluation!FinalProgress
    <2>1. /\ pc = "reporting" /\ pc' = "completing"
          /\ UNCHANGED <<readerVars, cancelled, late, overdue, probes, reported, outcome>>
          /\ \/ probes > lastReported /\ Evaluation!Progress(probes)
             \/ ~(probes > lastReported) /\ UNCHANGED <<pipe, lastReported>>
      BY <1>9 DEF Evaluation!FinalProgress
    <2>2. \/ lastReported' = lastReported /\ UNCHANGED pipe
          \/ /\ lastReported' = probes
             /\ Send(Event("progress", probes, Budget, "none"))
      BY <1>0, <2>1, EvalProgress
    <2>3. Speaks BY <1>0, <1>w, <2>2, SpeakEvent DEF Speaks
    <2> QED BY <1>0, <2>1, <2>2, <2>3
  <1>10. CASE Evaluation!PhaseZero
    BY <1>0, <1>10, <1>w, SpeakEvent DEF Evaluation!PhaseZero, Event
  <1>11. CASE Evaluation!CheckEvaluate
    BY <1>0, <1>11, <1>w, SpeakEvent DEF Evaluation!CheckEvaluate, Event, Speaks
  <1>12. CASE Evaluation!Evaluate
    BY <1>0, <1>12 DEF Evaluation!Evaluate, Speaks
  <1>13. CASE Evaluation!Evaluated
    BY <1>0, <1>13, <1>w, SpeakEvent, SpeakError DEF Evaluation!Evaluated, Event, Error, Speaks
  <1>14. CASE Evaluation!PhaseOne
    BY <1>0, <1>14, <1>w, SpeakEvent DEF Evaluation!PhaseOne, Event
  <1>15. CASE Evaluation!Complete
    <2>1. /\ pc = "completing" /\ pc' = "exited"
          /\ UNCHANGED <<readerVars, cancelled, late, overdue, probes, reported, outcome, lastReported>>
          /\ \/ Shooting /\ Send(Event("complete", probes, Budget, outcome))
             \/ ~Shooting /\ Send(Event("complete", 0, 0, "none"))
      BY <1>15 DEF Evaluation!Complete, Event
    <2>2. Shooting => outcome \in Words BY <2>1, NotRunning
    <2>3. Speaks
      BY <1>0, <1>w, <2>1, <2>2, SpeakEvent
    <2> QED BY <1>0, <2>1, <2>3
  <1> QED BY <1>f, <1>1, <1>2, <1>3, <1>4, <1>5, <1>6, <1>7, <1>8, <1>9, <1>10, <1>11, <1>12,
             <1>13, <1>14, <1>15

-----------------------------------------------------------------------------
\* A cancellation, before the start only if it says so, and of a shooting with a
\* count the client can place.
LEMMA CancelAccepted ==
    ASSUME NEW k \in Numerical, NEW w \in Validator, ~w.terminal,
           NEW s \in CancelStatuses(k), ~w.started => s = "before_numerical_work",
           NEW n \in Nat, k = "bounded_shooting" /\ w.started => n \in w.last..w.total
    PROVE  LET e == Event("cancelled", n, 0, s) IN
           e \in Line /\ ~Refuses(k, w, e) /\ After(k, w, e).terminal
  <1> DEFINE e == Event("cancelled", n, 0, s)
  <1>1. s \in Words BY DEF CancelStatuses, Words
  <1>2. e \in Line /\ e.type = "cancelled" /\ e.done = n /\ e.status = s /\ e.identity = "ours" /\ e.valid
    BY <1>1, EventLine DEF Types
  <1> HIDE DEF e
  <1>3. ~Misplaced(k, w, e) BY <1>2 DEF Misplaced, Terminals
  <1>4. ~Foreign(w, e) /\ ~Malformed(e) BY <1>2 DEF Foreign, Malformed
  <1>5. ~BadStart(k, e) /\ ~BadProgress(k, w, e) /\ ~BadComplete(k, w, e)
    BY <1>2 DEF BadStart, BadProgress, BadComplete
  <1>6. ~BadCancel(k, w, e) BY <1>2 DEF BadCancel
  <1>7. After(k, w, e).terminal BY <1>2 DEF After, Terminals
  <1> QED BY <1>2, <1>3, <1>4, <1>5, <1>6, <1>7 DEF Refuses, e

\* The two phases of an evaluation.
LEMMA PhaseAccepted ==
    ASSUME NEW w \in Validator, w.started, ~w.terminal, NEW n \in {0, 1}, w.last <= n,
           n = 1 => w.phaseZero
    PROVE  LET k == "fixed_impulse_evaluation"
               e == Event("progress", n, 1, "none") IN
           /\ e \in Line /\ ~Refuses(k, w, e)
           /\ After(k, w, e).started /\ ~After(k, w, e).terminal
           /\ After(k, w, e).phaseZero /\ After(k, w, e).last = n
  <1> DEFINE k == "fixed_impulse_evaluation"
             e == Event("progress", n, 1, "none")
  <1>1. e \in Line /\ e.type = "progress" /\ e.done = n /\ e.of = 1 /\ e.identity = "ours" /\ e.valid
    BY EventLine DEF Types, Words
  <1> HIDE DEF e
  <1>2. ~Misplaced(k, w, e) BY <1>1 DEF Misplaced, Terminals
  <1>3. ~Foreign(w, e) /\ ~Malformed(e) BY <1>1 DEF Foreign, Malformed
  <1>4. ~BadStart(k, e) /\ ~BadCancel(k, w, e) /\ ~BadComplete(k, w, e)
    BY <1>1 DEF BadStart, BadCancel, BadComplete
  <1>5. ~BadProgress(k, w, e) BY <1>1 DEF BadProgress, Screening, Validator
  <1>6. /\ After(k, w, e).started /\ ~After(k, w, e).terminal
        /\ After(k, w, e).phaseZero /\ After(k, w, e).last = n
    BY <1>1 DEF After, Terminals
  <1> QED BY <1>1, <1>2, <1>3, <1>4, <1>5, <1>6 DEF Refuses, e

\* One count more of a shooting.
LEMMA CountAccepted ==
    ASSUME NEW w \in Validator, w.started, ~w.terminal, NEW n \in 1..Budget,
           w.last <= n, w.total \in {0, Budget}, w.events < ProgressCap
    PROVE  LET k == "bounded_shooting"
               e == Event("progress", n, Budget, "none") IN
           /\ e \in Line /\ ~Refuses(k, w, e)
           /\ After(k, w, e).started /\ ~After(k, w, e).terminal
           /\ After(k, w, e).last = n /\ After(k, w, e).total = Budget
           /\ After(k, w, e).events = w.events + 1
  <1> DEFINE k == "bounded_shooting"
             e == Event("progress", n, Budget, "none")
  <1>1. Budget \in Nat /\ n \in Nat /\ Budget \in 1..ProbeCap BY CellsAssumption, RequestAssumption, SMT
  <1>2. /\ e \in Line /\ e.type = "progress" /\ e.done = n /\ e.of = Budget
        /\ e.identity = "ours" /\ e.valid
    BY <1>1, EventLine DEF Types, Words
  <1> HIDE DEF e
  <1>3. ~Misplaced(k, w, e) BY <1>2 DEF Misplaced, Terminals
  <1>4. ~Foreign(w, e) /\ ~Malformed(e) BY <1>2 DEF Foreign, Malformed
  <1>5. ~BadStart(k, e) /\ ~BadCancel(k, w, e) /\ ~BadComplete(k, w, e)
    BY <1>2 DEF BadStart, BadCancel, BadComplete
  <1>6. ~BadProgress(k, w, e)
    <2>1. ~(e.done < w.last) /\ ~(e.done > e.of) /\ e.done # 0 /\ ~(w.events >= ProgressCap)
      BY <1>1, <1>2, SMT DEF Validator, ProgressCap
    <2>2. k \notin Screening BY DEF Screening
    <2> QED BY <1>1, <1>2, <2>1, <2>2 DEF BadProgress
  <1>7. /\ After(k, w, e).started /\ ~After(k, w, e).terminal
        /\ After(k, w, e).last = n /\ After(k, w, e).total = Budget
        /\ After(k, w, e).events = w.events + 1
    BY <1>2 DEF After, Terminals
  <1> QED BY <1>2, <1>3, <1>4, <1>5, <1>6, <1>7 DEF Refuses, e

\* The verdict of a shooting that reported its last probe, and of a full evaluation.
LEMMA CompletionAccepted ==
    ASSUME NEW k \in Numerical, NEW w \in Validator, w.started, ~w.terminal,
           NEW n \in Nat, NEW m \in Nat, NEW s \in Words,
           k = "bounded_shooting" => /\ w.events # 0 /\ w.last # 0 /\ n = w.last /\ m = w.total
                                     /\ s \in ShootingStatuses,
           k # "bounded_shooting" => w.phaseZero /\ w.last = 1
    PROVE  LET e == Event("complete", n, m, s) IN
           e \in Line /\ ~Refuses(k, w, e) /\ After(k, w, e).terminal
  <1> DEFINE e == Event("complete", n, m, s)
  <1>1. /\ e \in Line /\ e.type = "complete" /\ e.done = n /\ e.of = m /\ e.status = s
        /\ e.identity = "ours" /\ e.valid
    BY EventLine DEF Types
  <1> HIDE DEF e
  <1>2. ~Misplaced(k, w, e) BY <1>1 DEF Misplaced, Terminals
  <1>3. ~Foreign(w, e) /\ ~Malformed(e) BY <1>1 DEF Foreign, Malformed
  <1>4. ~BadStart(k, e) /\ ~BadCancel(k, w, e) /\ ~BadProgress(k, w, e)
    BY <1>1 DEF BadStart, BadCancel, BadProgress
  <1>5. ~BadComplete(k, w, e) BY <1>1 DEF BadComplete, Numerical
  <1>6. After(k, w, e).terminal BY <1>1 DEF After, Terminals
  <1> QED BY <1>1, <1>2, <1>3, <1>4, <1>5, <1>6 DEF Refuses, e

\* The validator when it has read all: a shooting's has the last count, an
\* evaluation's the phases.
EvalExpects(w) ==
    /\ pc \in {"reading", "admitted"} => w = Fresh
    /\ w.terminal <=> pc = "exited"
    /\ pc \notin {"reading", "admitted", "exited"} => w.started
    /\ Shooting /\ pc # "exited" =>
          /\ w.last = lastReported /\ w.events = w.last
          /\ w.total = IF w.last = 0 THEN 0 ELSE Budget
    /\ pc = "phaseZero" => w.last = 0
    /\ pc \in {"evaluate", "evaluateNow", "evaluating", "phaseOne"} => w.phaseZero /\ w.last = 0
    /\ pc = "completing" /\ ~Shooting => w.phaseZero /\ w.last = 1

\* The line is the last.
LEMMA EvalEnds ==
    ASSUME Common, NEW w, Ahead(w), NEW e \in Line, Send(e), UNCHANGED readerVars,
           ~Refuses(kind, w, e), After(kind, w, e).terminal, pc' = "exited"
    PROVE  \E v : Ahead(v)' /\ EvalExpects(v)'
  <1>1. PICK v : v = After(kind, w, e) OBVIOUS
  <1>2. Ahead(v)' BY <1>1, AheadSend DEF Common, readerVars
  <1> QED BY <1>1, <1>2 DEF EvalExpects, PhaseSteps

LEMMA EvalErrorEnds ==
    ASSUME Common, NEW w, Ahead(w), EvalExpects(w), UNCHANGED readerVars, pc # "exited",
           NEW identity \in {"absent", "ours"}, Send(Error(identity)), pc' = "exited",
           identity = "absent" => pc = "reading"
    PROVE  \E v : Ahead(v)' /\ EvalExpects(v)'
  <1>1. ~w.terminal /\ (identity = "absent" => ~w.started) BY DEF EvalExpects, Fresh
  <1>2. w \in Validator /\ kind \in Kinds BY AheadTyped DEF Common
  <1> QED BY <1>1, <1>2, ErrorAccepted, ErrorLine, EvalEnds

LEMMA EvalCancelEnds ==
    ASSUME Common, NEW w, Ahead(w), EvalExpects(w), UNCHANGED readerVars, pc \notin {"exited", "reading"},
           kind \in Numerical, EvalInv, Shooting => Fine /\ reported = probes,
           NEW s \in CancelStatuses(kind), Send(Event("cancelled", probes, 0, s)), pc' = "exited",
           pc = "admitted" => s = "before_numerical_work"
    PROVE  \E v : Ahead(v)' /\ EvalExpects(v)'
  <1>1. w \in Validator /\ ~w.terminal BY AheadTyped DEF Common, EvalExpects
  <1>2. ~w.started => s = "before_numerical_work" BY DEF EvalExpects
  <1>3. /\ probes \in Nat /\ probes <= Budget /\ Budget \in Nat
        /\ Shooting => lastReported = probes
    BY CellsAssumption DEF EvalInv
  <1>4. kind = "bounded_shooting" /\ w.started => probes \in w.last..w.total
    <2> SUFFICES ASSUME Shooting PROVE probes \in w.last..w.total
      BY DEF Shooting
    <2>1. w.last = probes /\ w.total = IF probes = 0 THEN 0 ELSE Budget
      BY <1>3 DEF EvalExpects
    <2> QED BY <1>3, <2>1
  <1> DEFINE e == Event("cancelled", probes, 0, s)
  <1>5. e \in Line /\ ~Refuses(kind, w, e) /\ After(kind, w, e).terminal
    BY <1>1, <1>2, <1>3, <1>4, CancelAccepted
  <1> HIDE DEF e
  <1>6. Send(e) BY DEF e
  <1> QED BY <1>5, <1>6, EvalEnds

\* A step that says nothing, and goes where the client's knowledge is enough.
LEMMA EvalQuiet ==
    ASSUME Common, NEW w, Ahead(w), EvalExpects(w), UNCHANGED <<readerVars, pipe, lastReported>>,
           \/ pc = "reading" /\ pc' = "admitted"
           \/ pc \in ShootingSteps \ {"reporting"} /\ pc' \in ShootingSteps
           \/ pc = "reporting" /\ pc' = "completing" /\ Shooting
           \/ /\ pc \in {"evaluate", "evaluateNow", "evaluating"}
              /\ pc' \in {"evaluateNow", "evaluating", "phaseOne"}
    PROVE  \E v : Ahead(v)' /\ EvalExpects(v)'
  <1>1. w \in Validator /\ UNCHANGED kind BY AheadTyped DEF Common, readerVars
  <1>2. Ahead(w)' BY AheadFrame DEF readerVars
  <1>3. EvalExpects(w)' BY <1>1 DEF EvalExpects, Shooting, ShootingSteps
  <1> QED BY <1>2, <1>3

\* A count of the shooting.
LEMMA EvalCounts ==
    ASSUME Common, EvalInv, Fine, Shooting, NEW w, Ahead(w), EvalExpects(w), UNCHANGED readerVars,
           pc \in {"shooting", "reporting"},
           pc' = pc \/ pc' = "completing", lastReported < probes,
           Send(Event("progress", probes, Budget, "none")), lastReported' = probes
    PROVE  \E v : Ahead(v)' /\ EvalExpects(v)'
  <1>1. w \in Validator /\ UNCHANGED kind /\ w.started /\ ~w.terminal
    BY AheadTyped DEF Common, readerVars, EvalExpects
  <1>2. /\ probes \in 1..Budget /\ probes \in Nat /\ probes <= reported + 1
        /\ lastReported = reported /\ lastReported \in Nat /\ Budget \in Nat /\ Budget <= 64
    BY CellsAssumption DEF EvalInv, Fine
  <1>3. w.last = lastReported /\ w.events = lastReported /\ w.total \in {0, Budget}
    BY DEF EvalExpects
  <1>4. w.last <= probes /\ w.events < ProgressCap /\ w.events + 1 = probes
    BY <1>2, <1>3 DEF ProgressCap
  <1> DEFINE e == Event("progress", probes, Budget, "none")
  <1>5. PICK v : v = After(kind, w, e) OBVIOUS
  <1>6. /\ e \in Line /\ ~Refuses(kind, w, e) /\ v.started /\ ~v.terminal
        /\ v.last = probes /\ v.total = Budget /\ v.events = probes
    BY <1>1, <1>2, <1>3, <1>4, <1>5, CountAccepted DEF Shooting
  <1> HIDE DEF e
  <1>7. Send(e) BY DEF e
  <1>8. Ahead(v)' BY <1>1, <1>5, <1>6, <1>7, AheadSend DEF Common, readerVars
  <1>9. EvalExpects(v)' BY <1>1, <1>2, <1>6 DEF EvalExpects, Shooting
  <1> QED BY <1>8, <1>9

\* Every line of evaluate_route and shoot_route is in its place.
LEMMA EvalKeepsUp ==
    ASSUME Common, EvalInv, kind \in Numerical, Shooting => Fine, NEW w, Ahead(w), EvalExpects(w),
           Evaluation!Work
    PROVE  \E v : Ahead(v)' /\ EvalExpects(v)'
  <1> USE DEF Evaluation!Shooting, readerVars, Evaluation!readerVars, Evaluation!shotVars,
          Evaluation!CancelOr, Evaluation!SendAndExit, Evaluation!Send, Send, Evaluation!Event,
          Evaluation!Error
  <1>0. probes \in Nat /\ reported \in Nat /\ lastReported \in Nat /\ (Shooting => lastReported = reported)
    BY CellsAssumption DEF EvalInv
  <1>s. /\ "before_numerical_work" \in CancelStatuses(kind)
        /\ Shooting => {"before_coarse_probe", "during_numerical_work"} \subseteq CancelStatuses(kind)
        /\ ~Shooting => "after_numerical_work" \in CancelStatuses(kind)
    BY DEF CancelStatuses, Shooting
  <1>w. w \in Validator BY AheadTyped DEF Common
  <1>f. Evaluation!ReadSource \/ Evaluation!Admit \/ Evaluation!Prepare \/ Evaluation!Prepared
        \/ Evaluation!BeginProbe \/ Evaluation!ProbeReported \/ Evaluation!ShotReturns
        \/ Evaluation!ShotVerdict \/ Evaluation!FinalProgress \/ Evaluation!PhaseZero
        \/ Evaluation!CheckEvaluate \/ Evaluation!Evaluate \/ Evaluation!Evaluated
        \/ Evaluation!PhaseOne \/ Evaluation!Complete
    BY DEF Evaluation!Work
  <1>1. CASE Evaluation!ReadSource
    BY <1>1, EvalErrorEnds, EvalQuiet
    DEF Evaluation!ReadSource, Evaluation!SourceRefused, Evaluation!RequestRefused, Error, Event
  <1>2. CASE Evaluation!Admit
    <2>1. pc = "admitted" /\ UNCHANGED <<readerVars, lastReported>> /\ probes = 0 /\ reported = 0
      BY <1>0, <1>2 DEF Evaluation!Admit, EvalInv
    <2>2. CASE cancelled
      BY <1>0, <1>2, <1>s, <2>1, <2>2, EvalCancelEnds DEF Evaluation!Admit, Event
    <2>3. CASE ~cancelled
      <3> DEFINE e == Event("started", 0, 0, "none")
      <3>1. Send(e) /\ pc' = IF Shooting THEN "prepare" ELSE "phaseZero"
        BY <1>2, <2>3 DEF Evaluation!Admit, Event, Shooting
      <3>2. w = Fresh BY <2>1 DEF EvalExpects
      <3>3. e \in Line BY EventLine DEF Types, Words
      <3>4. PICK v : v = After(kind, w, e) OBVIOUS
      <3>5. kind \in Kinds /\ kind \notin Screening BY DEF Kinds, Numerical, Screening
      <3>6. /\ ~Refuses(kind, w, e) /\ v.started /\ ~v.terminal /\ v.last = 0 /\ v.events = 0
            /\ v.total = 0
        BY <3>2, <3>4, <3>5, StartAccepted
      <3> HIDE DEF e
      <3>7. Ahead(v)' BY <1>w, <2>1, <3>1, <3>3, <3>4, <3>6, AheadSend DEF Common
      <3>8. lastReported' = 0 /\ kind' = kind BY <1>0, <2>1 DEF EvalInv
      <3>9. EvalExpects(v)' BY <3>1, <3>6, <3>8 DEF EvalExpects, Shooting
      <3> QED BY <3>7, <3>9
    <2> QED BY <2>2, <2>3
  <1>3. CASE Evaluation!Prepare
    BY <1>3, EvalQuiet DEF Evaluation!Prepare, ShootingSteps
  <1>4. CASE Evaluation!Prepared
    <2>1. /\ pc = "preparing" /\ Shooting /\ UNCHANGED <<readerVars, lastReported>>
          /\ probes = 0 /\ reported = 0
      BY <1>0, <1>4 DEF Evaluation!Prepared, EvalInv, ShootingSteps
    <2>2. \/ Send(Error("ours")) /\ pc' = "exited"
          \/ Send(Event("cancelled", probes, 0, "before_coarse_probe")) /\ pc' = "exited"
          \/ UNCHANGED pipe /\ pc' = "shooting"
      BY <1>4 DEF Evaluation!Prepared, Error, Event
    <2> QED BY <1>s, <2>1, <2>2, EvalErrorEnds, EvalCancelEnds, EvalQuiet DEF ShootingSteps
  <1>5. CASE Evaluation!BeginProbe
    BY <1>5, EvalQuiet DEF Evaluation!BeginProbe, ShootingSteps
  <1>6. CASE Evaluation!ProbeReported
    <2>1. /\ pc = "shooting" /\ pc' = pc /\ UNCHANGED readerVars /\ Shooting
          /\ reported < probes /\ Evaluation!Progress(probes)
      BY <1>6 DEF Evaluation!ProbeReported, Evaluation!Shot!Report, EvalInv, ShootingSteps
    <2>2. /\ lastReported' = probes /\ lastReported < probes
          /\ Send(Event("progress", probes, Budget, "none"))
      BY <1>0, <2>1, EvalProgress
    <2> QED BY <2>1, <2>2, EvalCounts
  <1>7. CASE Evaluation!ShotReturns
    BY <1>7, EvalQuiet DEF Evaluation!ShotReturns, ShootingSteps
  <1>8. CASE Evaluation!ShotVerdict
    <2>1. pc = "shot" /\ Shooting /\ reported = probes /\ UNCHANGED <<readerVars, lastReported>>
      BY <1>8 DEF Evaluation!ShotVerdict, EvalInv, ShootingSteps
    <2>2. \/ Send(Error("ours")) /\ pc' = "exited"
          \/ Send(Event("cancelled", probes, 0, "during_numerical_work")) /\ pc' = "exited"
          \/ UNCHANGED pipe /\ pc' = "reporting"
      BY <1>8 DEF Evaluation!ShotVerdict, Error, Event
    <2> QED BY <1>s, <2>1, <2>2, EvalErrorEnds, EvalCancelEnds, EvalQuiet DEF ShootingSteps
  <1>9. CASE Evaluation!FinalProgress
    <2>1. /\ pc = "reporting" /\ pc' = "completing" /\ UNCHANGED readerVars /\ Shooting
          /\ reported = probes
      BY <1>9 DEF Evaluation!FinalProgress, EvalInv, ShootingSteps
    <2>2. UNCHANGED <<pipe, lastReported>>
      BY <1>0, <1>9, <2>1 DEF Evaluation!FinalProgress
    <2> QED BY <2>1, <2>2, EvalQuiet
  <1>10. CASE Evaluation!PhaseZero
    <2> DEFINE e == Event("progress", 0, 1, "none")
    <2>1. /\ pc = "phaseZero" /\ pc' = "evaluate" /\ UNCHANGED readerVars /\ ~Shooting /\ Send(e)
      BY <1>10 DEF Evaluation!PhaseZero, Event, EvalInv, PhaseSteps
    <2>2. w.started /\ ~w.terminal /\ w.last = 0 BY <2>1 DEF EvalExpects
    <2>3. kind = "fixed_impulse_evaluation" BY <2>1 DEF Numerical, Shooting
    <2>4. PICK v : v = After(kind, w, e) OBVIOUS
    <2>5. /\ e \in Line /\ ~Refuses(kind, w, e) /\ v.started /\ ~v.terminal /\ v.phaseZero
          /\ v.last = 0
      BY <1>w, <2>2, <2>3, <2>4, PhaseAccepted
    <2> HIDE DEF e
    <2>6. Ahead(v)' BY <1>w, <2>1, <2>4, <2>5, AheadSend DEF Common
    <2>7. EvalExpects(v)' BY <2>1, <2>5 DEF EvalExpects, Shooting
    <2> QED BY <2>6, <2>7
  <1>11. CASE Evaluation!CheckEvaluate
    <2>1. pc = "evaluate" /\ ~Shooting /\ UNCHANGED <<readerVars, lastReported>>
      BY <1>11 DEF Evaluation!CheckEvaluate, EvalInv, PhaseSteps
    <2>2. \/ Send(Event("cancelled", probes, 0, "before_numerical_work")) /\ pc' = "exited"
          \/ UNCHANGED pipe /\ pc' = "evaluateNow"
      BY <1>11 DEF Evaluation!CheckEvaluate, Event
    <2> QED BY <1>s, <2>1, <2>2, EvalCancelEnds, EvalQuiet
  <1>12. CASE Evaluation!Evaluate
    BY <1>12, EvalQuiet DEF Evaluation!Evaluate
  <1>13. CASE Evaluation!Evaluated
    <2>1. pc = "evaluating" /\ ~Shooting /\ UNCHANGED <<readerVars, lastReported>>
      BY <1>13 DEF Evaluation!Evaluated, EvalInv, PhaseSteps
    <2>2. \/ Send(Error("ours")) /\ pc' = "exited"
          \/ Send(Event("cancelled", probes, 0, "after_numerical_work")) /\ pc' = "exited"
          \/ UNCHANGED pipe /\ pc' = "phaseOne"
      BY <1>13 DEF Evaluation!Evaluated, Error, Event
    <2> QED BY <1>s, <2>1, <2>2, EvalErrorEnds, EvalCancelEnds, EvalQuiet
  <1>14. CASE Evaluation!PhaseOne
    <2> DEFINE e == Event("progress", 1, 1, "none")
    <2>1. /\ pc = "phaseOne" /\ pc' = "completing" /\ UNCHANGED readerVars /\ ~Shooting /\ Send(e)
      BY <1>14 DEF Evaluation!PhaseOne, Event, EvalInv, PhaseSteps
    <2>2. w.started /\ ~w.terminal /\ w.last = 0 /\ w.phaseZero BY <2>1 DEF EvalExpects
    <2>3. kind = "fixed_impulse_evaluation" BY <2>1 DEF Numerical, Shooting
    <2>4. PICK v : v = After(kind, w, e) OBVIOUS
    <2>5. /\ e \in Line /\ ~Refuses(kind, w, e) /\ v.started /\ ~v.terminal /\ v.phaseZero
          /\ v.last = 1
      BY <1>w, <2>2, <2>3, <2>4, PhaseAccepted
    <2> HIDE DEF e
    <2>6. Ahead(v)' BY <1>w, <2>1, <2>4, <2>5, AheadSend DEF Common
    <2>7. EvalExpects(v)' BY <2>1, <2>5 DEF EvalExpects, Shooting
    <2> QED BY <2>6, <2>7
  <1>15. CASE Evaluation!Complete
    <2>1. /\ pc = "completing" /\ pc' = "exited" /\ UNCHANGED readerVars
          /\ \/ Shooting /\ Send(Event("complete", probes, Budget, outcome))
             \/ ~Shooting /\ Send(Event("complete", 0, 0, "none"))
      BY <1>15 DEF Evaluation!Complete, Event, Shooting
    <2>2. w.started /\ ~w.terminal BY <2>1 DEF EvalExpects
    <2>3. CASE Shooting
      <3> DEFINE e == Event("complete", probes, Budget, outcome)
      <3>1. /\ outcome \in ShootingStatuses /\ outcome \in Words /\ probes > 0 /\ lastReported = probes
        BY <1>0, <2>1, <2>3, NotRunning DEF EvalInv
      <3>2. w.last = probes /\ w.events = probes /\ w.total = Budget
        BY <1>0, <2>1, <2>3, <3>1 DEF EvalExpects
      <3>3. e \in Line /\ ~Refuses(kind, w, e) /\ After(kind, w, e).terminal
        BY <1>0, <1>w, <2>2, <2>3, <3>1, <3>2, CellsAssumption, CompletionAccepted DEF Shooting
      <3>4. Send(e) BY <2>1, <2>3
      <3> HIDE DEF e
      <3> QED BY <2>1, <3>3, <3>4, EvalEnds
    <2>4. CASE ~Shooting
      <3> DEFINE e == Event("complete", 0, 0, "none")
      <3>1. w.phaseZero /\ w.last = 1 BY <2>1, <2>4 DEF EvalExpects
      <3>2. "none" \in Words BY DEF Words
      <3>3. e \in Line /\ ~Refuses(kind, w, e) /\ After(kind, w, e).terminal
        BY <1>w, <2>2, <2>4, <3>1, <3>2, CompletionAccepted DEF Shooting
      <3>4. Send(e) BY <2>1, <2>4
      <3> HIDE DEF e
      <3> QED BY <2>1, <3>3, <3>4, EvalEnds
    <2> QED BY <2>3, <2>4
  <1> QED BY <1>f, <1>1, <1>2, <1>3, <1>4, <1>5, <1>6, <1>7, <1>8, <1>9, <1>10, <1>11, <1>12,
             <1>13, <1>14, <1>15

-----------------------------------------------------------------------------
(* The composition *********************************************************)

\* The handler's own invariant; ~Ours, nothing is on the pipe and nobody cancels.
HandlerInv ==
    IF Ours THEN /\ Common
                 /\ kind = "screened_seed" => SeedInv
                 /\ kind = "screened_route" => MissionInv
                 /\ kind \in Numerical => EvalInv
    ELSE pipe = <<>> /\ late = 0

KeepsUp == cells - lastSampled < Mission!Stride /\ lastRoutes = retained

Expects(w) ==
    /\ kind = "screened_seed" => ScreenExpects(w, SeedCells)
    /\ kind = "screened_route" => ScreenExpects(w, RouteCells)
    /\ kind \in Numerical => EvalExpects(w)

\* Of a shooting only if every probe of the budget is reported.
Reported == kind = "bounded_shooting" => Budget <= 64

Understood == Ours /\ Reported => ~refused /\ \E w : Ahead(w) /\ Expects(w)

ProcessInv == ReaderInv /\ HandlerInv /\ KeepsUp /\ Understood

LEMMA KindsApart ==
    /\ "screened_seed" \notin Numerical /\ "screened_route" \notin Numerical
    /\ "screened_seed" # "screened_route"
    /\ Kinds = Numerical \cup {"screened_seed", "screened_route"}
  BY DEF Kinds, Numerical, Screening

LEMMA ProcessStarts == ProcessInit => ProcessInv
  <1> SUFFICES ASSUME ProcessInit PROVE ProcessInv
    OBVIOUS
  <1>1. /\ kind \in Kinds /\ ReaderInit /\ pc \in {"reading", "foreign"} /\ pipe = <<>>
        /\ cancelled = FALSE /\ late = 0 /\ overdue = FALSE
        /\ probes = 0 /\ reported = 0 /\ lastReported = 0 /\ outcome = "running"
        /\ cells = 0 /\ retained = 0 /\ sampled = 0 /\ lastSampled = 0 /\ lastRoutes = 0 /\ sent = 0
        /\ emitted = 0
    BY DEF ProcessInit, SessionInit, Evaluation!Init, Mission!Init, Seed!Init
  <1>2. validator = Fresh /\ refused = FALSE /\ verdict = "none" BY <1>1 DEF ReaderInit
  <1>3. ReaderInv BY <1>1, ReaderInvInit DEF Init
  <1>4. 0 < Mission!Stride /\ 0 <= Budget BY StrideType, CellsAssumption
  <1>5. Ours => Common
    <2>1. ~Said("cancelled") /\ ~Said("complete") BY <1>1, <1>2 DEF Said
    <2>2. <<>> \in Seq(Line) OBVIOUS
    <2>3. pipe \in Seq(Line) BY <1>1, <2>2
    <2>4. late \in {0, 1} /\ late # 1 BY <1>1
    <2>5. cancelled \in BOOLEAN /\ overdue \in BOOLEAN /\ ~overdue BY <1>1, Zenon
    <2>6. VerdictsTrue BY <2>1 DEF VerdictsTrue
    <2> QED BY <1>1, <2>3, <2>4, <2>5, <2>6, Zenon DEF Common
  <1>6. Ours => SeedInv BY <1>1, CellsAssumption DEF SeedInv, Ours
  <1>7. Ours => MissionInv BY <1>1, <1>4, CellsAssumption DEF MissionInv, Ours
  <1>8. Ours => EvalInv
    BY <1>1, CellsAssumption DEF EvalInv, Ours, ShootingSteps, PhaseSteps
  <1>9. HandlerInv BY <1>1, <1>5, <1>6, <1>7, <1>8 DEF HandlerInv
  <1>10. KeepsUp BY <1>1, <1>4 DEF KeepsUp
  <1>11. Understood
    <2> SUFFICES ASSUME Ours PROVE ~refused /\ \E w : Ahead(w) /\ Expects(w)
      BY DEF Understood
    <2>1. validator \in Validator BY <1>3 DEF ReaderInv, ReaderTypeOK, Validator
    <2>2. Ahead(validator) BY <1>1, <2>1, AheadEmpty
    <2>3. pc = "reading" /\ ~validator.terminal /\ validator.last = 0 /\ validator.events = 0
          /\ validator.total = 0
      BY <1>1, <1>2 DEF Ours, Fresh
    <2>4. Expects(validator) BY <1>1, <1>2, <2>3 DEF Expects, ScreenExpects, EvalExpects
    <2> QED BY <1>2, <2>2, <2>4
  <1> QED BY <1>3, <1>9, <1>10, <1>11 DEF ProcessInv

\* Only a worker of ours works.
LEMMA WorkIsOurs == Work => Ours
  BY DEF Work, EvaluateOrShoot, StartMission, Start, Evaluation!Work, Mission!Work, Seed!Work, Ours,
     Evaluation!ReadSource, Evaluation!Admit, Evaluation!Prepare, Evaluation!Prepared,
     Evaluation!BeginProbe, Evaluation!ProbeReported, Evaluation!ShotReturns,
     Evaluation!ShotVerdict, Evaluation!FinalProgress, Evaluation!PhaseZero,
     Evaluation!CheckEvaluate, Evaluation!Evaluate, Evaluation!Evaluated,
     Evaluation!PhaseOne, Evaluation!Complete,
     Mission!ReadSource, Mission!Started, Mission!Precompute, Mission!Integrate,
     Mission!Integrated, Mission!Ready, Mission!Cell, Mission!Retain, Mission!Drop,
     Mission!SearchReturns, Mission!Route, Mission!Terminal,
     Seed!ReadSource, Seed!Started, Seed!Check, Seed!BeginStage, Seed!Integrated,
     Seed!Preflighted, Seed!Screened, Seed!Report, Seed!Ranked,
     Seed!Refinement, Seed!Refined, Seed!Complete, Seed!Checks, Seed!Stages

LEMMA HandlerWorks ==
    ASSUME ProcessInv, Work
    PROVE  /\ Ours /\ Common /\ Works /\ KeepsUp'
           /\ kind = "screened_seed" => SeedInv /\ SeedInv'
           /\ kind = "screened_route" => MissionInv /\ MissionInv'
           /\ kind \in Numerical => EvalInv /\ EvalInv'
  <1>1. Ours BY WorkIsOurs
  <1>2. /\ Common /\ (kind = "screened_seed" => SeedInv)
        /\ kind = "screened_route" => MissionInv
        /\ kind \in Numerical => EvalInv
    BY <1>1 DEF ProcessInv, HandlerInv
  <1>3. /\ Works /\ KeepsUp' /\ (kind = "screened_seed" => SeedInv')
        /\ kind = "screened_route" => MissionInv'
        /\ kind \in Numerical => EvalInv'
    <2>1. CASE EvaluateOrShoot
      <3>1. kind \in Numerical /\ Evaluation!Work /\ UNCHANGED <<cells, lastSampled, retained, lastRoutes>>
        BY <2>1 DEF EvaluateOrShoot, missionOnly
      <3>2. KeepsUp' BY <3>1 DEF ProcessInv, KeepsUp, Mission!Stride, Mission!Max
      <3> QED BY <1>2, <3>1, <3>2, EvalWorks, KindsApart
    <2>2. CASE StartMission
      <3>1. kind = "screened_route" /\ Mission!Work BY <2>2 DEF StartMission
      <3>2. MissionInv' /\ Works BY <1>2, <3>1, MissionWorks
      <3>3. KeepsUp' BY <3>2 DEF MissionInv, KeepsUp
      <3> QED BY <3>1, <3>2, <3>3, KindsApart
    <2>3. CASE Start
      <3>1. kind = "screened_seed" /\ Seed!Work /\ UNCHANGED <<cells, lastSampled, retained, lastRoutes>>
        BY <2>3 DEF Start, missionOnly
      <3>2. KeepsUp' BY <3>1 DEF ProcessInv, KeepsUp, Mission!Stride, Mission!Max
      <3> QED BY <1>2, <3>1, <3>2, SeedWorks, KindsApart
    <2> QED BY <2>1, <2>2, <2>3 DEF Work
  <1> QED BY <1>1, <1>2, <1>3

\* A step of the handler.
LEMMA WorkKeeps == ProcessInv /\ Work => ProcessInv'
  <1> SUFFICES ASSUME ProcessInv, Work PROVE ProcessInv'
    OBVIOUS
  <1>1. Ours BY HandlerWorks
  <1>2. /\ Common /\ (kind = "screened_seed" => SeedInv)
        /\ kind = "screened_route" => MissionInv
        /\ kind \in Numerical => EvalInv
    BY HandlerWorks
  <1>3. /\ Works /\ KeepsUp' /\ (kind = "screened_seed" => SeedInv')
        /\ kind = "screened_route" => MissionInv'
        /\ kind \in Numerical => EvalInv'
    BY HandlerWorks
  <1>4. UNCHANGED readerVars /\ kind' = kind /\ refused' = refused BY <1>3 DEF Works, readerVars
  <1>5. ReaderInv' BY <1>4, ReaderFrame DEF ProcessInv
  <1>6. Common' BY <1>2, <1>3, WorksKeepsCommon
  <1>7. Ours => HandlerInv'
    <2>1. Ours' BY <1>3 DEF Ours, Works
    <2> QED BY <1>3, <1>4, <1>6, <2>1 DEF HandlerInv
  <1>8. Understood'
    <2> SUFFICES ASSUME Reported
                 PROVE  ~refused' /\ \E v : Ahead(v)' /\ Expects(v)'
      BY <1>4 DEF Understood, Reported
    <2>1. ~refused /\ \E w : Ahead(w) /\ Expects(w) BY <1>1 DEF ProcessInv, Understood
    <2>2. PICK w : Ahead(w) /\ Expects(w) BY <2>1
    <2>3. pipe \in Seq(Line) /\ pc # "exited" BY <1>2, <1>3 DEF Common, Works
    <2>4. CASE EvaluateOrShoot
      <3>1. kind \in Numerical /\ Evaluation!Work BY <2>4 DEF EvaluateOrShoot
      <3>2. Shooting => Fine BY DEF Reported, Shooting, Fine
      <3>3. PICK v : Ahead(v)' /\ EvalExpects(v)'
        BY <1>2, <2>2, <3>1, <3>2, EvalKeepsUp DEF Expects
      <3> QED BY <1>4, <2>1, <3>1, <3>3, KindsApart DEF Expects
    <2>5. CASE StartMission
      <3>1. kind = "screened_route" /\ Mission!Work BY <2>5 DEF StartMission
      <3>2. kind \in Screening /\ RouteCells \in 1..CellCap(kind)
        BY <3>1, CellsAssumption DEF Screening
      <3>3. ScreenTalks(RouteCells) BY <1>2, <3>1, MissionTalks
      <3>4. PICK v : Ahead(v)' /\ ScreenExpects(v, RouteCells)'
        BY <2>2, <2>3, <3>1, <3>2, <3>3, ScreenKeepsUp DEF Expects
      <3> QED BY <1>4, <2>1, <3>1, <3>4, KindsApart DEF Expects
    <2>6. CASE Start
      <3>1. kind = "screened_seed" /\ Seed!Work BY <2>6 DEF Start
      <3>2. kind \in Screening /\ SeedCells \in 1..CellCap(kind)
        BY <3>1, CellsAssumption DEF Screening
      <3>3. ScreenTalks(SeedCells) BY <1>2, <3>1, SeedTalks
      <3>4. PICK v : Ahead(v)' /\ ScreenExpects(v, SeedCells)'
        BY <2>2, <2>3, <3>1, <3>2, <3>3, ScreenKeepsUp DEF Expects
      <3> QED BY <1>4, <2>1, <3>1, <3>4, KindsApart DEF Expects
    <2> QED BY <2>4, <2>5, <2>6 DEF Work
  <1> QED BY <1>1, <1>3, <1>5, <1>7, <1>8 DEF ProcessInv

\* The client reads a line.
LEMMA ReaderKeeps == ProcessInv /\ Reader => ProcessInv'
  <1> SUFFICES ASSUME ProcessInv, Reader PROVE ProcessInv'
    OBVIOUS
  <1>1. /\ pipe # <<>> /\ Receive(Head(pipe)) /\ Read
        /\ UNCHANGED <<pc, cancelled, late, overdue, handlerVars, kind>>
    BY DEF Reader, Read, workVars, Receive
  <1>2. /\ UNCHANGED <<probes, reported, lastReported, cells, retained, lastSampled, lastRoutes, sent>>
        /\ UNCHANGED <<emitted, outcome, sampled>>
    BY <1>1 DEF handlerVars, evaluationOnly, missionOnly, seedOnly
  <1>3. Ours /\ Ours' /\ Common
    BY <1>1 DEF ProcessInv, HandlerInv, Ours
  <1>4. IsLine(Head(pipe))
    <2>1. pipe \in Seq(Line) BY <1>3 DEF Common
    <2>2. Head(pipe) \in Line BY <1>1, <2>1, HeadTailProperties, EmptySeq
    <2> QED BY <2>2 DEF Line, IsLine
  <1>5. ReaderInv' BY <1>1, <1>4, ReceiveKeeps DEF ProcessInv
  <1>6. Common' BY <1>3, ReadKeepsCommon
  <1>7. SeedInv => SeedInv' BY <1>1, <1>2 DEF SeedInv
  <1>8. MissionInv => MissionInv'
    BY <1>1, <1>2 DEF MissionInv, Mission!Stride, Mission!Max
  <1>9. EvalInv => EvalInv'
    BY <1>1, <1>2 DEF EvalInv, Fine, Shooting
  <1>10. HandlerInv'
    <2>1. /\ kind = "screened_seed" => SeedInv
          /\ kind = "screened_route" => MissionInv
          /\ kind \in Numerical => EvalInv
      BY <1>3 DEF ProcessInv, HandlerInv
    <2>2. kind' = kind BY <1>1
    <2> QED BY <1>3, <1>6, <1>7, <1>8, <1>9, <2>1, <2>2 DEF HandlerInv
  <1>11. KeepsUp' BY <1>2 DEF ProcessInv, KeepsUp, Mission!Stride, Mission!Max
  <1>12. Understood'
    <2> SUFFICES ASSUME Reported PROVE ~refused' /\ \E v : Ahead(v)' /\ Expects(v)'
      BY <1>1 DEF Understood, Reported
    <2>1. PICK w : Ahead(w) /\ Expects(w) BY <1>3 DEF ProcessInv, Understood
    <2>2. ~refused' /\ Ahead(w)' BY <1>1, <1>3, <2>1, AheadRead DEF Common
    <2>3. Expects(w)'
      BY <1>1, <1>2, <2>1 DEF Expects, ScreenExpects, EvalExpects, Shooting
    <2> QED BY <2>2, <2>3
  <1> QED BY <1>5, <1>10, <1>11, <1>12 DEF ProcessInv

\* Main.cpp raises the flag.
LEMMA CancellerKeeps == ProcessInv /\ Canceller => ProcessInv'
  <1> SUFFICES ASSUME ProcessInv, Canceller PROVE ProcessInv'
    OBVIOUS
  <1>1. /\ Ours /\ cancelled' = TRUE
        /\ UNCHANGED <<readerVars, kind, validator, refused, verdict, told, claim, pc, pipe, late,
                       overdue, handlerVars>>
    BY DEF Canceller, RaiseCancel, workVars, readerVars
  <1>2. /\ UNCHANGED <<probes, reported, lastReported, cells, retained, lastSampled, lastRoutes, sent>>
        /\ UNCHANGED <<emitted, outcome, sampled>>
    BY <1>1 DEF handlerVars, evaluationOnly, missionOnly, seedOnly
  <1>3. ReaderInv' BY <1>1, ReaderFrame DEF ProcessInv
  <1>4. Common /\ Ours' BY <1>1 DEF ProcessInv, HandlerInv, Ours
  <1>5. Common'
    <2>1. VerdictsTrue' BY <1>1, <1>4 DEF Common, VerdictsTrue, Said
    <2>2. cancelled' \in BOOLEAN BY <1>1, Zenon
    <2> QED BY <1>1, <1>4, <2>1, <2>2 DEF Common
  <1>6. SeedInv => SeedInv' BY <1>1, <1>2 DEF SeedInv
  <1>7. MissionInv => MissionInv'
    BY <1>1, <1>2 DEF MissionInv, Mission!Stride, Mission!Max
  <1>8. EvalInv => EvalInv'
    BY <1>1, <1>2 DEF EvalInv, Fine, Shooting
  <1>9. HandlerInv'
    <2>1. /\ kind = "screened_seed" => SeedInv
          /\ kind = "screened_route" => MissionInv
          /\ kind \in Numerical => EvalInv
      BY <1>1 DEF ProcessInv, HandlerInv
    <2> QED BY <1>1, <1>4, <1>5, <1>6, <1>7, <1>8, <2>1 DEF HandlerInv
  <1>10. KeepsUp' BY <1>2 DEF ProcessInv, KeepsUp, Mission!Stride, Mission!Max
  <1>11. Understood'
    <2> SUFFICES ASSUME Reported PROVE ~refused' /\ \E v : Ahead(v)' /\ Expects(v)'
      BY <1>1 DEF Understood, Reported
    <2>1. ~refused /\ \E w : Ahead(w) /\ Expects(w) BY <1>1 DEF ProcessInv, Understood
    <2>2. PICK w : Ahead(w) /\ Expects(w) BY <2>1
    <2>3. ~refused' /\ Ahead(w)' BY <1>1, <2>1, <2>2, AheadFrame
    <2>4. Expects(w)'
      BY <1>1, <1>2, <2>2 DEF Expects, ScreenExpects, EvalExpects, Shooting
    <2> QED BY <2>3, <2>4
  <1> QED BY <1>3, <1>9, <1>10, <1>11 DEF ProcessInv

\* Another program writes a line.
LEMMA OtherKeeps == ProcessInv /\ OtherProgram => ProcessInv'
  <1> SUFFICES ASSUME ProcessInv, OtherProgram PROVE ProcessInv'
    OBVIOUS
  <1>1. ~Ours /\ ~Ours' /\ Next /\ UNCHANGED <<pipe, late, handlerVars>>
    BY DEF OtherProgram, Ours, workVars
  <1>2. ReaderInv' BY <1>1, ReaderInvStep DEF ProcessInv
  <1>3. HandlerInv' BY <1>1 DEF ProcessInv, HandlerInv
  <1>4. UNCHANGED <<cells, retained, lastSampled, lastRoutes>>
    BY <1>1 DEF handlerVars, missionOnly
  <1>5. KeepsUp' BY <1>4 DEF ProcessInv, KeepsUp, Mission!Stride, Mission!Max
  <1>6. Understood' BY <1>1 DEF Understood
  <1> QED BY <1>2, <1>3, <1>5, <1>6 DEF ProcessInv

LEMMA ProcessFrame == ProcessInv /\ UNCHANGED vars => ProcessInv'
  <1> SUFFICES ASSUME ProcessInv, UNCHANGED vars PROVE ProcessInv'
    OBVIOUS
  <1>1. /\ UNCHANGED <<readerVars, kind, validator, refused, verdict, told, claim, pc, pipe,
                       cancelled, late, overdue>>
        /\ UNCHANGED <<probes, reported, lastReported, cells, retained, lastSampled, lastRoutes, sent>>
        /\ UNCHANGED <<emitted, outcome, sampled>>
    BY DEF vars, sessionVars, readerVars, workVars, handlerVars, evaluationOnly, missionOnly, seedOnly
  <1>2. ReaderInv' BY <1>1, ReaderFrame DEF ProcessInv
  <1>3. Common => Common' BY <1>1 DEF Common, VerdictsTrue, Said
  <1>4. SeedInv => SeedInv' BY <1>1 DEF SeedInv
  <1>5. MissionInv => MissionInv' BY <1>1 DEF MissionInv, Mission!Stride, Mission!Max
  <1>6. EvalInv => EvalInv' BY <1>1 DEF EvalInv, Fine, Shooting
  <1>7. HandlerInv'
    BY <1>1, <1>3, <1>4, <1>5, <1>6 DEF ProcessInv, HandlerInv, Ours
  <1>8. KeepsUp' BY <1>1 DEF ProcessInv, KeepsUp, Mission!Stride, Mission!Max
  <1>9. Understood'
    <2> SUFFICES ASSUME Ours, Reported PROVE ~refused' /\ \E v : Ahead(v)' /\ Expects(v)'
      BY <1>1 DEF Understood, Reported, Ours
    <2>1. ~refused /\ \E w : Ahead(w) /\ Expects(w) BY DEF ProcessInv, Understood
    <2>2. PICK w : Ahead(w) /\ Expects(w) BY <2>1
    <2>3. ~refused' /\ Ahead(w)' BY <1>1, <2>1, <2>2, AheadFrame
    <2>4. Expects(w)' BY <1>1, <2>2 DEF Expects, ScreenExpects, EvalExpects, Shooting
    <2> QED BY <2>3, <2>4
  <1> QED BY <1>2, <1>7, <1>8, <1>9 DEF ProcessInv

LEMMA ProcessSteps == ProcessInv /\ [ProcessNext]_vars => ProcessInv'
  BY WorkKeeps, ReaderKeeps, CancellerKeeps, OtherKeeps, ProcessFrame DEF ProcessNext

LEMMA ProcessInvariant == ProcessSpec => []ProcessInv
  BY ProcessStarts, ProcessSteps, PTL DEF ProcessSpec

-----------------------------------------------------------------------------
\* The client never gives up on a worker of its own, whatever it asked for and
\* whenever it cancels: of a shooting, if every probe of its budget is reported
\* (a budget above 64 is refused, which the run worker_coarse finds).
THEOREM NothingIsRefused ==
    ProcessSpec => []((kind = "bounded_shooting" => Budget <= 64) => NothingRefused)
  <1>1. ProcessInv => ((kind = "bounded_shooting" => Budget <= 64) => NothingRefused)
    BY DEF ProcessInv, Understood, Reported, NothingRefused
  <1> QED BY <1>1, ProcessInvariant, PTL

\* A worker of ours that exited told its verdict, under the same condition;
\* and it is "cancelled" only of a cancelled one.
THEOREM VerdictBeforeExit ==
    ProcessSpec => []((kind = "bounded_shooting" => Budget <= 64) => ExitedWithVerdict)
  <1>1. ASSUME ProcessInv, kind = "bounded_shooting" => Budget <= 64
        PROVE  ExitedWithVerdict
    <2>1. ASSUME pc = "exited", pipe = <<>> PROVE verdict # "none"
      <3>1. PICK w : Ahead(w) /\ Expects(w)
        BY <1>1, <2>1 DEF ProcessInv, Understood, Reported, Ours
      <3>2. w = validator BY <2>1, <3>1, AheadOfEmpty
      <3>3. kind \in Kinds BY <1>1 DEF ProcessInv, ReaderInv, ReaderTypeOK
      <3>4. validator.terminal
        BY <2>1, <3>1, <3>2, <3>3, KindsApart DEF Expects, ScreenExpects, EvalExpects
      <3> QED BY <1>1, <3>4 DEF ProcessInv, ReaderInv, VerdictCloses
    <2>2. Ours /\ verdict = "cancelled" => cancelled
      BY <1>1 DEF ProcessInv, HandlerInv, Common, VerdictsTrue, Said
    <2> QED BY <2>1, <2>2 DEF ExitedWithVerdict
  <1> QED BY <1>1, ProcessInvariant, PTL

\* No more than one stage, cell or probe is begun after the cancellation.
THEOREM PromptCancel == ProcessSpec => []CancelIsPrompt
  <1>1. ProcessInv => CancelIsPrompt
    <2> SUFFICES ASSUME ProcessInv PROVE late \in {0, 1}
      BY DEF CancelIsPrompt
    <2> QED BY DEF ProcessInv, HandlerInv, Common
  <1> QED BY <1>1, ProcessInvariant, PTL

\* A cancelled leg, evaluation or shooting is not reported complete, had its last
\* stage ended after the cancellation.
THEOREM CancelWins == ProcessSpec => []CancelBeatsComplete
  <1>1. ProcessInv => CancelBeatsComplete
    BY DEF ProcessInv, HandlerInv, Common, VerdictsTrue, Said, CancelBeatsComplete
  <1> QED BY <1>1, ProcessInvariant, PTL

\* For every total: the client's count lags the search by less than a stride.
THEOREM ProgressIsRecent == ProcessSpec => []ProgressKeepsUp
  <1>1. ProcessInv => ProgressKeepsUp
    BY DEF ProcessInv, KeepsUp, ProgressKeepsUp, Mission!ProgressKeepsUp
  <1> QED BY <1>1, ProcessInvariant, PTL

\* What any worker's lines give the desktop, ours do.
THEOREM ProcessCompleteness == ProcessSpec => []CompleteMeansDone
  <1>1. ProcessInv => CompleteMeansDone BY DEF ProcessInv, ReaderInv
  <1> QED BY <1>1, ProcessInvariant, PTL

THEOREM ProcessRefinement == ProcessSpec => ImplementsEventStream
  <1>1. ProcessInit => Stream!Init
    BY StreamInit DEF ProcessInit, SessionInit
  <1>2. ProcessInv /\ [ProcessNext]_vars => [Stream!Next]_(Stream!vars)
    <2> SUFFICES ASSUME ProcessInv, [ProcessNext]_vars PROVE [Stream!Next]_(Stream!vars)
      OBVIOUS
    <2>1. ASSUME UNCHANGED readerVars PROVE UNCHANGED Stream!vars
      BY <2>1 DEF readerVars, Stream!vars
    <2>2. CASE Work
      <3>1. UNCHANGED readerVars BY <2>2, HandlerWorks DEF Works
      <3> QED BY <2>1, <3>1
    <2>3. CASE OtherProgram
      BY <2>3, StreamStep, LineFields DEF OtherProgram, Next, ProcessInv
    <2>4. CASE Reader
      <3>1. Ours /\ pipe \in Seq(Line) /\ pipe # <<>> /\ Receive(Head(pipe))
        BY <2>4 DEF Reader, Read, ProcessInv, HandlerInv, Common
      <3>2. Head(pipe) \in Line BY <3>1, HeadTailProperties, EmptySeq
      <3>3. IsLine(Head(pipe)) BY <3>2 DEF Line, IsLine
      <3> QED BY <3>1, <3>3, StreamStep DEF ProcessInv
    <2>5. CASE Canceller
      BY <2>1, <2>5 DEF Canceller, RaiseCancel
    <2>6. CASE UNCHANGED vars
      BY <2>1, <2>6 DEF vars, sessionVars
    <2> QED BY <2>2, <2>3, <2>4, <2>5, <2>6 DEF ProcessNext
  <1> QED BY <1>1, <1>2, ProcessInvariant, PTL DEF ProcessSpec, ImplementsEventStream, Stream!Spec
=============================================================================
