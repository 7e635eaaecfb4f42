---------------------------- MODULE SupervisedRun ----------------------------
(***************************************************************************)
(* What the owner of a worker client may rely on: runs one at a time, each *)
(* with at most one child process, whose log is the worker's events up to  *)
(* one terminal, then at most one error of the client, and which ends only *)
(* with the child gone and a verdict in the log, or because its owner is   *)
(* closing.                                                                *)
(***************************************************************************)
EXTENDS Naturals, Sequences

CONSTANT Codes  \* the error codes a client may report

VARIABLES
    status,   \* "ready", "running" or "closed"
    process,  \* this run's child: "none" yet, "alive" (or a zombie), "gone"
    closing,  \* the owner is being destroyed
    log       \* the events of this run

vars == <<status, process, closing, log>>

TerminalTypes == {"complete", "cancelled", "error"}
IsError(e) == e.type = "client_error"
Closed(l) == \E i \in 1..Len(l) : l[i].type \in TerminalTypes \cup {"client_error"}
Failed(l) == \E i \in 1..Len(l) : IsError(l[i])

Init == status = "ready" /\ process = "none" /\ ~closing /\ log = <<>>

Begin == /\ status = "ready" /\ ~closing
         /\ status' = "running" /\ process' = "none" /\ log' = <<>>
         /\ UNCHANGED closing

Spawn == /\ status = "running" /\ process = "none" /\ log = <<>>
         /\ process' = "alive"
         /\ UNCHANGED <<status, closing, log>>

\* The worker's events, up to its terminal.
Deliver == /\ status = "running" /\ process # "none" /\ ~Closed(log)
           /\ \E e \in [type : {"started", "progress"} \cup TerminalTypes, code : {"none"}] :
                 log' = Append(log, e)
           /\ UNCHANGED <<status, process, closing>>

\* The client's own verdict, after which nothing follows.
Report ==
    /\ status = "running" /\ ~Failed(log)
    /\ \E c \in Codes : log' = Append(log, [type |-> "client_error", code |-> c])
    /\ UNCHANGED <<status, process, closing>>

Reap == /\ status = "running" /\ process = "alive"
        /\ process' = "gone"
        /\ UNCHANGED <<status, closing, log>>

End == /\ status = "running" /\ process # "alive"
       /\ Closed(log) \/ closing
       /\ status' = "ready"
       /\ UNCHANGED <<process, closing, log>>

AskToClose == /\ status # "closed" /\ ~closing
              /\ closing' = TRUE
              /\ UNCHANGED <<status, process, log>>

Close == /\ status = "ready" /\ closing
         /\ status' = "closed"
         /\ UNCHANGED <<process, closing, log>>

Next == Begin \/ Spawn \/ Deliver \/ Report \/ Reap \/ End \/ AskToClose \/ Close

Spec == Init /\ [][Next]_vars
=============================================================================
