---------------------------- MODULE ClientReader ----------------------------
(***************************************************************************)
(* The client's side of one request: lines arrive and are validated one by *)
(* one until the first that is refused.  AnyWorker composes it with a      *)
(* worker that writes anything, WorkerSession with the real ones.          *)
(***************************************************************************)
EXTENDS EventValidator

VARIABLES
    kind,       \* result_kind_
    validator,  \* the fields of WorkerEventValidator
    refused,    \* a line was refused, the run is given up
    verdict,    \* history: the type of the terminal accepted, or "none"
    told,       \* history: what the accepted progress lines reported
    claim       \* history: the counts the accepted terminal claims

readerVars == <<kind, validator, refused, verdict, told, claim>>

\* The first count reported, the most, and every total it was reported of.
NothingTold == [first |-> 0, most |-> 0, totals |-> {}]

Telling(t, e) ==
    [first  |-> IF t.totals = {} THEN e.done ELSE t.first,
     most   |-> IF e.done > t.most THEN e.done ELSE t.most,
     totals |-> t.totals \cup {e.of}]

ReaderInit ==
    /\ validator = Fresh /\ refused = FALSE /\ verdict = "none"
    /\ told = NothingTold /\ claim = [done |-> 0, of |-> 0]

Receive(e) ==
    /\ ~refused
    /\ refused' = Refuses(kind, validator, e)
    /\ IF refused' THEN UNCHANGED <<validator, verdict, told, claim>>
       ELSE /\ validator' = After(kind, validator, e)
            /\ verdict' = IF e.type \in Terminals THEN e.type ELSE verdict
            /\ told' = IF e.type = "progress" THEN Telling(told, e) ELSE told
            /\ claim' = IF e.type \in Terminals THEN [done |-> e.done, of |-> e.of] ELSE claim
    /\ UNCHANGED kind

-----------------------------------------------------------------------------
ReaderTypeOK ==
    /\ kind \in Kinds
    /\ validator \in [started : BOOLEAN, terminal : BOOLEAN, total : Nat, last : Nat,
                      phaseZero : BOOLEAN, events : 0..ProgressCap]
    /\ refused \in BOOLEAN
    /\ verdict \in Terminals \cup {"none"}
    /\ told \in [first : Nat, most : Nat, totals : SUBSET Nat]
    /\ claim \in [done : Nat, of : Nat]

\* A run taken as complete was announced, and what it claims is what its progress
\* lines told: a shooting claims the most probes any of them reported, at least
\* one, of the only total they named; an evaluation told its phase from 0 to 1; a
\* screening, whose complete line carries no counts the client looks at, told
\* nothing beyond the total it was announced with.
CompleteMeansDone ==
    verdict = "complete" =>
        /\ validator.started
        /\ kind = "bounded_shooting" =>
              /\ claim.done = told.most /\ told.totals = {claim.of}
              /\ claim.done \in 1..claim.of
        /\ kind = "fixed_impulse_evaluation" =>
              told = [first |-> 0, most |-> 1, totals |-> {1}]
        /\ kind \in Screening =>
              told.totals \subseteq {validator.total} /\ told.most <= validator.total

\* What the desktop may rely on, whatever the worker writes.
Stream == INSTANCE EventStream WITH
    announced <- validator.started,
    goal      <- IF kind = "fixed_impulse_evaluation" /\ validator.started THEN 1 ELSE validator.total,
    count     <- validator.last

\* The accepted lines are announced once, only advance, and end once.
ImplementsEventStream == Stream!Spec
=============================================================================
