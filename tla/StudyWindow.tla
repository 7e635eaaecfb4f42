----------------------------- MODULE StudyWindow -----------------------------
(***************************************************************************)
(* The study window (Main.cpp): one GTK thread that handles clicks and, on *)
(* a 100 ms timer, the events of a worker client it can only ask whether a *)
(* run is going on.  The client is any that implements SupervisedRun; what *)
(* it logs between two polls waits in its queue.  Only one callback runs   *)
(* at a time, but the client goes on during every one of them.  Cancel     *)
(* only asks the client to stop, which a SupervisedRun may do at any time. *)
(***************************************************************************)
EXTENDS Naturals, Sequences, FiniteSets

CONSTANTS
    Sources,      \* runtime snapshots, by their hash
    NoSource,     \* the synthetic scene
    MaxRuns,      \* bound: runs started in a behaviour
    MaxProgress   \* bound: progress events of a run

ASSUME WindowAssumption ==
    /\ NoSource \notin Sources
    /\ MaxRuns \in Nat /\ MaxProgress \in Nat

VARIABLES
    status, process, log,  \* the client, as SupervisedRun sees it
    drained,               \* how many events of the run drain() has handed over
    request,               \* what the last run was started with
    ephemeris,             \* its terminal, of a mission, has ephemeris_metadata
    batch,                 \* drained events poll_worker has yet to handle
    polling,               \* poll_worker is running
    loaded,                \* runtime_source_ and loaded_hash_
    disk,                  \* what the file loaded_path_ names holds now
    edited,                \* the path or hash field differs from what was loaded
    submitted_request,
    terminal_event,
    evaluation_events,
    active,                \* active_evaluation_ and active_shooting_
    sensitive,             \* the buttons that can be clicked
    shown,                 \* what the rows of results show
    pending_close,
    closed,
    report                 \* history: what the last saved report was made of

clientVars == <<status, process, log, ephemeris>>
sourceVars == <<loaded, disk, edited>>
resultVars == <<submitted_request, terminal_event, evaluation_events, active, shown>>
pollVars == <<drained, batch, polling>>
closeVars == <<pending_close, closed>>
vars == <<clientVars, request, sourceVars, resultVars, pollVars, closeVars, sensitive, report>>

-----------------------------------------------------------------------------
Client == INSTANCE SupervisedRun WITH Codes <- {"failed"}, closing <- closed

Kinds == {"mission", "evaluation", "shooting"}  \* one button each

Nothing == [run |-> 0, kind |-> "mission", source |-> NoSource]
NoTerminal == [run |-> 0, type |-> "none"]

running == status = "running"

Saw(type) == \E i \in 1..Len(log) : log[i].type = type
Count(type) == Cardinality({i \in 1..Len(log) : log[i].type = type})

Init ==
    /\ pending_close = FALSE /\ closed = FALSE
    /\ Client!Init /\ ephemeris = FALSE
    /\ drained = 0 /\ batch = <<>> /\ polling = FALSE
    /\ request = Nothing
    /\ loaded = NoSource /\ disk = NoSource /\ edited = FALSE
    /\ submitted_request = Nothing /\ terminal_event = NoTerminal
    /\ evaluation_events = <<>> /\ active = "mission"
    /\ sensitive = {"import"}
    /\ shown = [what |-> "nothing", run |-> 0]
    /\ report = [made |-> FALSE, failed |-> FALSE]

(* The client **************************************************************)

\* The progress events of a run: a trial has two phases.
Progresses == IF request.kind = "evaluation" THEN 2 ELSE MaxProgress

\* The orders of a worker's events that accept_line lets through.
InOrder(type) ==
    \/ type = "started" /\ log = <<>>
    \/ type = "progress" /\ Saw("started") /\ Count("progress") < Progresses
    \/ /\ type = "complete" /\ Saw("started")
       /\ request.kind = "evaluation" => Count("progress") = 2
       /\ request.kind = "shooting" => Saw("progress")
    \/ type = "cancelled" /\ (request.kind # "mission" \/ Saw("started"))
    \/ type = "error"

Deliver ==
    /\ Client!Deliver
    /\ LET type == log'[Len(log')].type
       IN  /\ InOrder(type)
           /\ \/ ephemeris' = TRUE /\ type \in {"complete", "cancelled"} /\ request.kind = "mission"
              \/ ephemeris' = FALSE /\ ~(type = "complete" /\ request.kind = "mission")

ClientWorks ==
    /\ \/ Deliver
       \/ (Client!Spawn \/ Client!Report \/ Client!Reap \/ Client!End) /\ UNCHANGED ephemeris
    /\ UNCHANGED <<request, sourceVars, resultVars, pollVars, closeVars, sensitive, report>>

(* The source **************************************************************)

\* Anyone may rewrite the file, and the user the fields.
RewriteFile ==
    /\ loaded # NoSource /\ ~closed
    /\ \E s \in Sources \ {disk} : disk' = s
    /\ UNCHANGED <<clientVars, request, loaded, edited, resultVars, pollVars, closeVars,
                   sensitive, report>>

EditFields ==
    /\ ~closed /\ ~polling
    /\ edited' = ~edited
    /\ UNCHANGED <<clientVars, request, loaded, disk, resultVars, pollVars, closeVars,
                   sensitive, report>>

Click(button) == ~closed /\ ~polling /\ button \in sensitive

\* What import_runtime and open_report forget; a new run replaces it.
ForgetResult ==
    /\ submitted_request' = Nothing /\ terminal_event' = NoTerminal
    /\ evaluation_events' = <<>> /\ active' = "mission"

\* import_runtime() whose snapshot is accepted; a refused one changes only
\* labels.
ImportRuntime ==
    /\ Click("import") /\ ~running
    /\ \E s \in Sources : loaded' = s /\ disk' = s
    /\ edited' = FALSE
    /\ ForgetResult
    /\ sensitive' = (sensitive \cup Kinds \cup {"open"}) \ {"save", "cancel"}
    /\ shown' = [what |-> "nothing", run |-> 0]
    /\ UNCHANGED <<clientVars, request, pollVars, closeVars, report>>

(* The runs ****************************************************************)

\* The request a start function makes of the form: a mission's and an
\* evaluation's trust the loaded source, a shooting's reads its file again.
TrialRequest == loaded # NoSource /\ ~edited
ShootingRequest == TrialRequest /\ disk = loaded

\* What the three start functions do once worker_.start() has begun the run,
\* which empties the queue.
StartLeaving(kind, events, buttons) ==
    /\ Click(kind) /\ ~running /\ request.run < MaxRuns
    /\ IF kind = "shooting" THEN ShootingRequest ELSE TrialRequest
    /\ Client!Begin /\ ephemeris' = FALSE
    /\ request' = [run |-> request.run + 1, kind |-> kind, source |-> loaded]
    /\ submitted_request' = request' /\ terminal_event' = NoTerminal
    /\ shown' = [what |-> "pending", run |-> request'.run]
    /\ active' = kind
    /\ drained' = 0 /\ evaluation_events' = events /\ sensitive' = buttons
    /\ UNCHANGED <<sourceVars, batch, polling, closeVars, report>>

\* Faulty: the events of the last run are kept; a competing action stays enabled.
StartKeepingEvents(kind) == StartLeaving(kind, evaluation_events, {"cancel"})
StartKeepingImport(kind) == StartLeaving(kind, <<>>, {"cancel", "import"})

\* start_mission(), start_evaluation(), start_shooting() whose form is
\* accepted; a refused one changes only labels.
Start(kind) == StartLeaving(kind, <<>>, {"cancel"})

(* The poll ****************************************************************)

Poll ==
    /\ ~closed /\ ~polling
    /\ polling' = TRUE
    /\ batch' = SubSeq(log, drained + 1, Len(log)) /\ drained' = Len(log)
    /\ UNCHANGED <<clientVars, request, sourceVars, resultVars, closeVars, sensitive, report>>

Handling == polling /\ batch # <<>>
Event == Head(batch)

\* evaluation_events_ keeps what a report of these kinds embeds.
Retain == evaluation_events' =
    IF active # "mission" /\ Event.type # "client_error"
    THEN Append(evaluation_events, Event.type) ELSE evaluation_events

\* Labels and the progress bar.
HandleProgress ==
    /\ Handling /\ Event.type \in {"started", "progress"}
    /\ batch' = Tail(batch) /\ Retain
    /\ UNCHANGED <<clientVars, request, sourceVars, submitted_request, terminal_event, active,
                   shown, drained, polling, closeVars, sensitive, report>>

Idle == (sensitive \cup Kinds \cup {"import", "open"}) \ {"cancel"}

\* A mission's partial routes are a result; a cancelled trial is none.
HandleTerminal ==
    /\ Handling /\ Event.type \in {"complete", "cancelled"}
    /\ batch' = Tail(batch) /\ Retain
    /\ LET result == active = "mission" \/ Event.type = "complete"
           offered == IF active = "mission" THEN ephemeris ELSE result
       IN  /\ terminal_event' = IF result THEN [run |-> request.run, type |-> Event.type]
                                          ELSE NoTerminal
           /\ shown' = [what |-> IF result THEN "result" ELSE "cancelled", run |-> request.run]
           /\ sensitive' = IF offered THEN Idle \cup {"save"} ELSE Idle \ {"save"}
    /\ UNCHANGED <<clientVars, request, sourceVars, submitted_request, active, drained, polling,
                   closeVars, report>>

\* Faulty: an error leaves the buttons as they are.
HandleErrorQuietly ==
    /\ Handling /\ Event.type \in {"error", "client_error"}
    /\ batch' = Tail(batch) /\ Retain
    /\ terminal_event' = NoTerminal
    /\ sensitive' = sensitive \ {"save"}
    /\ UNCHANGED <<clientVars, request, sourceVars, submitted_request, active, shown, drained,
                   polling, closeVars, report>>

HandleError ==
    /\ Handling /\ Event.type \in {"error", "client_error"}
    /\ batch' = Tail(batch) /\ Retain
    /\ terminal_event' = NoTerminal
    /\ sensitive' = Idle \ {"save"}
    /\ UNCHANGED <<clientVars, request, sourceVars, submitted_request, active, shown, drained,
                   polling, closeVars, report>>

\* Faulty: a close that waits is remembered for one poll only.
PollEndsForgetting ==
    /\ polling /\ batch = <<>>
    /\ polling' = FALSE
    /\ pending_close' = FALSE
    /\ closed' = (pending_close /\ ~running)
    /\ UNCHANGED <<clientVars, request, sourceVars, resultVars, drained, batch, sensitive, report>>

\* A close that waited for the run is carried out: close() asks
\* close_request() again, which finds nothing running.
PollEnds ==
    /\ polling /\ batch = <<>>
    /\ polling' = FALSE
    /\ pending_close' = (pending_close /\ running)
    /\ closed' = (pending_close /\ ~running)
    /\ UNCHANGED <<clientVars, request, sourceVars, resultVars, drained, batch, sensitive, report>>

(* Reports and closing *****************************************************)

\* open_report() of a report that is valid and of the loaded source.
OpenReport ==
    /\ Click("open") /\ ~running /\ loaded # NoSource
    /\ ForgetResult
    /\ sensitive' = sensitive \ {"save"}
    /\ shown' = [what |-> "report", run |-> 0]
    /\ UNCHANGED <<clientVars, request, sourceVars, pollVars, closeVars, report>>

\* What each composer asks of the request and of what the window kept.
Answers(kind, bytes) ==
    /\ submitted_request.kind = kind /\ submitted_request.source = bytes
    /\ terminal_event.run = submitted_request.run

StudyComposable(bytes) == Answers("mission", bytes) /\ ephemeris

EvaluationComposable(bytes) ==
    /\ Answers("evaluation", bytes)
    /\ evaluation_events = <<"started", "progress", "progress", "complete">>

ShootingComposable(bytes) ==
    /\ Answers("shooting", bytes)
    /\ Len(evaluation_events) > 2
    /\ Head(evaluation_events) = "started"
    /\ \A i \in 2..Len(evaluation_events) :
          evaluation_events[i] = IF i = Len(evaluation_events) THEN "complete" ELSE "progress"

Composable(bytes) ==
    CASE active = "mission"    -> StudyComposable(bytes)
      [] active = "evaluation" -> EvaluationComposable(bytes)
      [] active = "shooting"   -> ShootingComposable(bytes)

\* save_report() that is carried out.
SaveReport ==
    /\ Click("save") /\ ~running
    /\ submitted_request # Nothing /\ terminal_event # NoTerminal
    /\ active = "shooting" => ~edited
    /\ disk = loaded /\ Composable(disk)
    /\ report' = [made |-> TRUE, failed |-> Client!Failed(log)]
    /\ UNCHANGED <<clientVars, request, sourceVars, resultVars, pollVars, closeVars, sensitive>>

\* close_request(): worker_.cancel() and wait for a poll, or close.
CloseRequest ==
    /\ ~closed /\ ~polling
    /\ pending_close' = (pending_close \/ running)
    /\ closed' = ~running
    /\ UNCHANGED <<clientVars, request, sourceVars, resultVars, pollVars, sensitive, report>>

-----------------------------------------------------------------------------
Handle == HandleProgress \/ HandleTerminal \/ HandleError

Next == \/ ClientWorks
        \/ RewriteFile \/ EditFields
        \/ ImportRuntime \/ OpenReport \/ SaveReport \/ CloseRequest
        \/ \E kind \in Kinds : Start(kind)
        \/ Poll \/ Handle \/ PollEnds

\* The client's run goes on to its end (RunEnds of WorkerClient, whose exception
\* is a child that keeps writing to stderr: the desktop's worker writes nothing
\* there) and GTK's timer keeps firing.  Nothing is assumed of the user.
Fairness == WF_vars(ClientWorks) /\ WF_vars(Poll) /\ WF_vars(Handle) /\ WF_vars(PollEnds)

Spec == Init /\ [][Next]_vars /\ Fairness

-----------------------------------------------------------------------------
Handled == SubSeq(log, 1, drained - Len(batch))

\* While a run has no verdict the window has seen, Cancel is the only button
\* that works ("Starting any worker disables competing actions and report
\* save", docs/M5-SHOOTING-UI-CONTRACT.md), and after the verdict the others
\* work again, whatever the run ended with.
ControlsFollowRun ==
    IF request = Nothing THEN "cancel" \notin sensitive
    ELSE IF Client!Closed(Handled)
         THEN "cancel" \notin sensitive /\ Kinds \cup {"import", "open"} \subseteq sensitive
         ELSE sensitive = {"cancel"}

\* Neither an import nor a reopened report changes the kind of result the
\* window expects while events of a run of another kind are on their way: the
\* handlers of the wrong kind would throw out of the timer callback.
HandlersMeetTheirRun ==
    LET coming == SubSeq(log, drained - Len(batch) + 1, Len(log))
    IN  (\E i \in 1..Len(coming) : coming[i].type # "client_error")
            => active = request.kind

\* When Save is offered, the rows show the result of the submitted request,
\* of the loaded source, and what the window kept of the run is what the
\* composers ask for: no report fails for the window's own bookkeeping.
OfferedResultIsSaveable ==
    "save" \in sensitive =>
        /\ submitted_request # Nothing /\ terminal_event # NoTerminal
        /\ Composable(loaded)
        /\ shown = [what |-> "result", run |-> submitted_request.run]

\* docs/M5-SHOOTING-UI-CONTRACT.md:23: after a "Cancellation or worker/client
\* error" there is "No completed shooting report".  The window offers Save
\* from the terminal on, and learns of a later client error at the next poll.
NoReportOfFailedRun == report.made => ~report.failed

\* A window asked to close closes, once its run has ended.
CloseCompletes == pending_close ~> closed
=============================================================================
