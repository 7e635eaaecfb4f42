---------------------------- MODULE WorkerSession ----------------------------
(***************************************************************************)
(* What the commands of the worker share: events written to stdout,        *)
(* through a pipe whose other end the client reads and validates, and the  *)
(* flag the control thread of Main.cpp raises once, on the cancel line.    *)
(***************************************************************************)
EXTENDS ClientReader, Sequences

CONSTANT PipeCapacity   \* bound: events on their way; a write to a full pipe blocks

ASSUME PipeAssumption == PipeCapacity \in Nat \ {0}

VARIABLES
    pc,         \* where the command is
    pipe,       \* the worker's stdout
    cancelled,  \* the flag behind cancelled()
    late,       \* history: units of work begun since the flag was raised
    overdue     \* history: a unit of work ended with the flag raised

workVars == <<late, overdue>>
sessionVars == <<readerVars, pc, pipe, cancelled, workVars>>

\* The worker is this program's, or another program writes the lines.
Ours == pc # "foreign"

SessionInit ==
    /\ ReaderInit
    /\ pc \in {"reading", "foreign"} /\ pipe = <<>>
    /\ cancelled = FALSE /\ late = 0 /\ overdue = FALSE

\* A refused line makes the client kill its worker.
Alive == ~refused

\* emit(): one line, flushed, in order.
Send(e) == /\ Len(pipe) < PipeCapacity
           /\ pipe' = Append(pipe, e)

\* A terminal ends process_start_line, and Main.cpp exits after it.
SendAndExit(e) == Send(e) /\ pc' = "exited"

Error(identity) == [Event("error", 0, 0, "none") EXCEPT !.identity = identity]

RaiseCancel ==
    /\ Ours /\ ~cancelled
    /\ cancelled' = TRUE
    /\ UNCHANGED <<readerVars, pc, pipe, workVars>>

Read == /\ pipe # <<>>
        /\ Receive(Head(pipe))
        /\ pipe' = Tail(pipe)
        /\ UNCHANGED <<pc, cancelled, workVars>>

\* A stage the flag cannot interrupt: an integration, an evaluation, a cell.
Begin == /\ late' = IF cancelled THEN late + 1 ELSE late
         /\ UNCHANGED overdue
Finish == /\ overdue' = (overdue \/ cancelled)
          /\ UNCHANGED late

-----------------------------------------------------------------------------
\* Whatever the worker is asked for and whenever it is cancelled, its own client
\* takes every line it writes.
NothingRefused == Ours => ~refused

\* A cancelled worker begins at most the one stage it was about to begin.
CancelIsPrompt == late <= 1

\* A worker of ours that exited has sent a terminal, "cancelled" only if it was cancelled.
ExitedWithVerdict ==
    /\ pc = "exited" /\ pipe = <<>> => verdict # "none"
    /\ Ours /\ verdict = "cancelled" => cancelled

\* No single leg and no evaluation is reported complete whose last stage ended after
\* the cancellation; a mission whose last cell did is complete.
CancelBeatsComplete ==
    Ours /\ kind # "screened_route" /\ verdict = "complete" => ~overdue

\* The client of a worker of ours gets a verdict, whatever it asked for.
VerdictArrives == Ours ~> verdict # "none"
=============================================================================
