----------------------------- MODULE ReportStore -----------------------------
(***************************************************************************)
(* What saving a report promises of the path it is saved to: the path      *)
(* always names one whole document, a save replaces it in one step or not  *)
(* at all, and a power failure may bring back an earlier document but      *)
(* never a damaged one.                                                    *)
(***************************************************************************)
CONSTANTS Savers, Documents

VARIABLES
    current,    \* the document the path names, or that there is none
    stable,     \* and the one it would name after a power failure
    outcome     \* how each save has ended: "open", "saved" or "failed"

vars == <<current, stable, outcome>>

Init ==
    /\ current \in Documents
    /\ stable = current
    /\ outcome = [w \in Savers |-> "open"]

Replace(w, document) ==
    /\ outcome[w] = "open"
    /\ outcome' = [outcome EXCEPT ![w] = "saved"]
    /\ current' = document
    /\ stable' = stable

Refuse(w) ==
    /\ outcome[w] = "open"
    /\ outcome' = [outcome EXCEPT ![w] = "failed"]
    /\ UNCHANGED <<current, stable>>

Settle ==
    /\ stable' = current
    /\ UNCHANGED <<current, outcome>>

Lose(W) ==
    /\ \A w \in W : outcome[w] = "open"
    /\ outcome' = [w \in Savers |-> IF w \in W THEN "failed" ELSE outcome[w]]
    /\ current' = stable
    /\ stable' = stable

\* Each saver saves one document, its own.
Next ==
    \/ \E w \in Savers : Replace(w, w) \/ Refuse(w)
    \/ \E W \in SUBSET Savers : Lose(W)
    \/ Settle

Spec == Init /\ [][Next]_vars
=============================================================================
