----------------------------- MODULE AnyWorker -----------------------------
(***************************************************************************)
(* A worker that writes any line at any time: the reader alone protects    *)
(* the desktop from it.                                                    *)
(***************************************************************************)
EXTENDS ClientReader

CONSTANT MaxCount    \* bound: the counts a line may carry

ASSUME CountAssumption == MaxCount \in Nat

Counts == 0..MaxCount
Lines ==
    [type : Types, done : Counts, of : Counts, status : {"before_numerical_work",
     "after_numerical_work", "during_numerical_work", "budget_exhausted"},
     identity : {"ours", "absent", "other"}, valid : BOOLEAN]

Init == kind \in Kinds /\ ReaderInit
Next == \E e \in Lines : Receive(e)
Spec == Init /\ [][Next]_readerVars
=============================================================================
