---------------------------- MODULE MCReportFiles ----------------------------
(* Small instances of ReportFiles for TLC: two savers run together, a third *)
(* after the machine has restarted, with the clock, and so the temporary    *)
(* path, of the first.                                                      *)
EXTENDS ReportFiles

CONSTANTS First, Second, Late

TemporarySuffixes == [w \in Savers |-> IF w = Second THEN 2 ELSE 1]
Boots == [w \in Savers |-> IF w = Late THEN 2 ELSE 1]
=============================================================================
