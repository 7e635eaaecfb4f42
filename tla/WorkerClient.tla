---------------------------- MODULE WorkerClient ----------------------------
(***************************************************************************)
(* The desktop's worker bridge (WorkerClient.cpp): an owner (the GTK       *)
(* thread) starts, cancels, drains and destroys a client; a run thread     *)
(* launches a child process, writes it one request, reads its event lines  *)
(* and reaps it; a watchdog thread guards each blocking write.  The child  *)
(* is any program: it may write any line, ignore its input, die or hang.   *)
(***************************************************************************)
EXTENDS Naturals, Sequences

CONSTANTS
    Cap,             \* cap in run(): max(1, max_retained_events)
    PreStartCancel,  \* the result kind admits "cancelled" before "started"
    MaxRuns,         \* bound: start() calls in a behaviour
    MaxLines         \* bound: lines a child writes in a run; what it writes
                     \* to stderr has no bound

ASSUME ConstantsAssumption ==
    /\ Cap \in Nat \ {0}
    /\ PreStartCancel \in BOOLEAN
    /\ MaxRuns \in Nat
    /\ MaxLines \in Nat

VARIABLES
    owner,             \* the owner: "open", in the destructor, or gone
    active,            \* active_
    cancel_requested,  \* cancel_requested_
    shutdown,          \* shutdown_
    queue,             \* queue_
    pc,                \* where the run thread is
    thrown,            \* the exception that is unwinding run(), as its code
    now,               \* `now` of the current iteration: which limits it is past
    written,           \* the result of the last write_line
    cancel_sent,       \* cancel_sent
    watchdog,          \* the live watchdog thread
    fired,             \* write_stop_reason, or control_timed_out as "timeout"
    started,           \* validator.started_
    terminal,          \* validator.terminal_
    child,             \* the child process
    exit_code,         \* how it ended: "zero", "nonzero", "killed" by the client
    pipe,              \* lines it wrote that the client has not read
    lines_left,        \* lines it may still write (MaxLines)
    stderr,            \* its stderr holds bytes the client has not read
    timeout_due,       \* more than options.timeout has passed since `begun`
    grace_due,         \* more than options.cancel_grace since the cancel write
    runs,              \* starts so far (MaxRuns)
    log                \* history: everything this run pushed, evicted or not

ownerVars == <<owner, active, cancel_requested, shutdown, runs>>
queueVars == <<queue, log>>
runVars   == <<pc, thrown, now, written, cancel_sent>>
dogVars   == <<watchdog, fired>>
validVars == <<started, terminal>>
childVars == <<child, exit_code, pipe, lines_left, stderr>>
clockVars == <<timeout_due, grace_due>>

vars == <<ownerVars, queueVars, runVars, dogVars, validVars, childVars, clockVars>>

-----------------------------------------------------------------------------
Terminals == {"complete", "cancelled", "error"}

\* "malformed" is any line accept_line refuses whatever came before it;
\* "torn" is output that ends without a newline.
Lines == {"started", "progress", "malformed"} \cup Terminals

ErrorCodes == {"spawn_failed", "cancelled", "timeout", "request_write_failed",
               "nonzero_exit", "premature_eof", "cancel_timeout",
               "cancel_write_failed", "invalid_event", "io_failed"}

Protocol(line) == [type |-> line, code |-> "none"]

ClientError(c) == [type |-> "client_error", code |-> c]

Events == [type : Lines \cup {"client_error"}, code : ErrorCodes \cup {"none"}]

\* push(): refused when the queue is full, else appended.
Push(e) == /\ queue' = Append(queue, e)
           /\ log' = Append(log, e)

\* Mutant: no event makes room.
FailureWithoutEviction(c) ==
    /\ queue' = Append(queue, ClientError(c))
    /\ log' = Append(log, ClientError(c))

\* Mutant: every event makes room.
FailureThatClears(c) ==
    /\ queue' = <<ClientError(c)>>
    /\ log' = Append(log, ClientError(c))

\* failure(): never refused, the oldest event makes room for it.
Failure(c) ==
    /\ queue' = Append(IF Len(queue) >= Cap THEN Tail(queue) ELSE queue, ClientError(c))
    /\ log' = Append(log, ClientError(c))

\* accept_line, as far as the order of event types goes.
Accepted(line) ==
    /\ line # "malformed"
    /\ ~terminal
    /\ line = "started" => ~started
    /\ line \in {"progress", "complete"} => started
    /\ line = "cancelled" => started \/ PreStartCancel

Accept(line) == /\ started' = (started \/ line = "started")
                /\ terminal' = (line \in Terminals)

\* terminate(): SIGKILL to a child that has not been reaped.
Terminate ==
    /\ child' = IF child = "running" THEN "zombie" ELSE child
    /\ exit_code' = IF child = "running" THEN "killed" ELSE exit_code
    /\ UNCHANGED <<pipe, lines_left, stderr>>

\* Leave run() with failure(c), or without one.
ReturnWith(c) == /\ Failure(c)
                 /\ pc' = "unwind"
                 /\ UNCHANGED <<thrown, now, written, cancel_sent>>
ReturnSilently == /\ pc' = "unwind"
                  /\ UNCHANGED <<queueVars, thrown, now, written, cancel_sent>>
Goto(l) == /\ pc' = l
           /\ UNCHANGED <<queueVars, thrown, now, written, cancel_sent>>
Throw(c) == /\ thrown' = c
            /\ pc' = "unwind"
            /\ UNCHANGED <<queueVars, now, written, cancel_sent>>

-----------------------------------------------------------------------------
Init ==
    /\ owner = "open" /\ runs = 0
    /\ active = FALSE /\ cancel_requested = FALSE /\ shutdown = FALSE
    /\ queue = <<>> /\ log = <<>>
    /\ pc = "idle" /\ thrown = "none" /\ written = FALSE /\ cancel_sent = FALSE
    /\ now = [deadline |-> FALSE, grace |-> FALSE]
    /\ watchdog = "off" /\ fired = "none"
    /\ started = FALSE /\ terminal = FALSE
    /\ child = "none" /\ exit_code = "none" /\ pipe = <<>> /\ lines_left = 0
    /\ stderr = FALSE
    /\ timeout_due = FALSE /\ grace_due = FALSE

SupervisingPcs == {"writing", "write_join", "poll", "poll_err", "reap", "checks",
                   "control", "cancel_write", "cancel_join", "late", "final"}

(* The owner ***************************************************************)

\* Mutant: start() does not refuse a second run.
StartWhileActive ==
    /\ owner = "open" /\ runs < MaxRuns
    /\ runs' = runs + 1
    /\ queue' = <<>> /\ log' = <<>>
    /\ active' = TRUE /\ cancel_requested' = FALSE /\ pc' = "launch" /\ child' = "none"
    /\ UNCHANGED <<owner, shutdown, thrown, now, written, cancel_sent, dogVars, validVars,
                   exit_code, pipe, lines_left, stderr, clockVars>>

\* start(): join the finished thread, clear the queue, reset the flags, spawn.
\* That the run thread itself cannot be created (std::thread throws after the
\* flag is set) is left out.
Start ==
    /\ owner = "open" /\ ~active /\ runs < MaxRuns
    /\ runs' = runs + 1
    /\ queue' = <<>> /\ log' = <<>>
    /\ shutdown' = FALSE /\ cancel_requested' = FALSE /\ active' = TRUE
    /\ pc' = "launch" /\ thrown' = "none" /\ written' = FALSE /\ cancel_sent' = FALSE
    /\ now' = [deadline |-> FALSE, grace |-> FALSE]
    /\ fired' = "none"
    /\ started' = FALSE /\ terminal' = FALSE
    /\ child' = "none" /\ exit_code' = "none" /\ pipe' = <<>> /\ lines_left' = MaxLines
    /\ stderr' = FALSE
    /\ timeout_due' = FALSE /\ grace_due' = FALSE
    /\ UNCHANGED <<owner, watchdog>>

Cancel ==
    /\ owner = "open" /\ ~cancel_requested
    /\ cancel_requested' = TRUE
    /\ UNCHANGED <<owner, active, shutdown, runs,
                   queueVars, runVars, dogVars, validVars, childVars, clockVars>>

Drain ==
    /\ owner = "open" /\ queue # <<>>
    /\ queue' = <<>>
    /\ UNCHANGED <<ownerVars, log, runVars, dogVars, validVars, childVars, clockVars>>

\* wait_for() that finds the run over joins its thread.
WaitFor ==
    /\ owner = "open" /\ ~active /\ pc = "done"
    /\ Goto("idle")
    /\ UNCHANGED <<ownerVars, dogVars, validVars, childVars, clockVars>>

\* ~WorkerClient(): raise both flags ...
Destroy ==
    /\ owner = "open"
    /\ owner' = "closing" /\ shutdown' = TRUE /\ cancel_requested' = TRUE
    /\ UNCHANGED <<active, runs,
                   queueVars, runVars, dogVars, validVars, childVars, clockVars>>

\* ... and join.
DestroyJoin ==
    /\ owner = "closing" /\ pc \in {"idle", "done"}
    /\ owner' = "closed"
    /\ Goto("idle")
    /\ UNCHANGED <<active, cancel_requested, shutdown, runs,
                   dogVars, validVars, childVars, clockVars>>

(* The run thread: launch and request *************************************)

SpawnFails ==
    /\ pc = "launch"
    /\ ReturnWith("spawn_failed")
    /\ UNCHANGED <<ownerVars, dogVars, validVars, childVars, clockVars>>

Launch ==
    /\ pc = "launch"
    /\ child' = "running"
    /\ UNCHANGED <<ownerVars, validVars, exit_code, pipe, lines_left, stderr,
                   clockVars, fired>>
    /\ \/ /\ watchdog' = "write"
          /\ Goto("writing")
       \/ /\ Throw("io_failed")          \* the watchdog thread cannot be created
          /\ UNCHANGED watchdog

\* write_line(request) returns: a running child took it all, ...
WriteSucceeds ==
    /\ pc = "writing" /\ child = "running"
    /\ written' = TRUE /\ pc' = "write_join"
    /\ UNCHANGED <<thrown, now, cancel_sent>>
    /\ UNCHANGED <<ownerVars, queueVars, dogVars, validVars, childVars, clockVars>>

\* ... or it is over line_limit and never written, or the child has closed its
\* input and write() fails with EPIPE, ...
WriteRefused ==
    /\ pc = "writing"
    /\ written' = FALSE /\ pc' = "write_join"
    /\ UNCHANGED <<thrown, now, cancel_sent>>
    /\ UNCHANGED <<ownerVars, queueVars, dogVars, validVars, childVars, clockVars>>

\* ... as it must when the child is gone.
WriteBroken ==
    /\ child # "running"
    /\ WriteRefused

\* Mutant: the thread goes on without joining its watchdog.
WriteJoinedEarly ==
    /\ pc = "write_join"
    /\ fired = "none" /\ written /\ Goto("poll")
    /\ UNCHANGED <<ownerVars, dogVars, validVars, childVars, clockVars>>

\* request_stop and join, then the stop reason, then the write's own result.
WriteJoined ==
    /\ pc = "write_join" /\ watchdog = "off"
    /\ \/ fired = "shutdown" /\ ReturnSilently
       \/ fired = "cancel"   /\ ReturnWith("cancelled")
       \/ fired = "timeout"  /\ ReturnWith("timeout")
       \/ fired = "none" /\ ~written /\ ReturnWith("request_write_failed")
       \/ fired = "none" /\ written  /\ Goto("poll")
    /\ UNCHANGED <<ownerVars, dogVars, validVars, childVars, clockVars>>

(* The run thread: the read loop ******************************************)

LineReady == pipe # <<>> /\ Head(pipe) # "torn"

\* One line of read_available: accept_line, then push; either may throw.
Receive ==
    /\ pc \in {"poll", "final"}
    /\ LineReady
    /\ pipe' = Tail(pipe)
    /\ LET line == Head(pipe)
       IN  \/ /\ Accepted(line) /\ Len(queue) < Cap
              /\ Push(Protocol(line))
              /\ Accept(line)
              /\ UNCHANGED runVars
           \/ /\ ~Accepted(line) \/ Len(queue) >= Cap
              /\ Throw("invalid_event")
              /\ UNCHANGED validVars
    /\ UNCHANGED <<ownerVars, dogVars, child, exit_code, lines_left, stderr, clockVars>>

\* stdout would block: on to stderr, which is read and (past a prefix) thrown
\* away for as long as there is any, with no look at a flag or at the clock.
OutputDry ==
    /\ pc = "poll" /\ ~LineReady
    /\ Goto("poll_err")
    /\ UNCHANGED <<ownerVars, dogVars, validVars, childVars, clockVars>>

ReadErrors ==
    /\ pc = "poll_err" /\ stderr
    /\ stderr' = FALSE
    /\ UNCHANGED <<ownerVars, queueVars, runVars, dogVars, validVars,
                   child, exit_code, pipe, lines_left, clockVars>>

ReadDone ==
    /\ pc = "poll_err" /\ ~stderr
    /\ Goto("reap")
    /\ UNCHANGED <<ownerVars, dogVars, validVars, childVars, clockVars>>

\* exited(): waitpid(WNOHANG).  The clock is read after it says no.
Exited ==
    /\ pc = "reap"
    /\ \/ /\ child = "zombie"
          /\ child' = "reaped"
          /\ Goto("final")
       \/ /\ child = "running"
          /\ now' = [deadline |-> timeout_due, grace |-> grace_due]
          /\ pc' = "checks"
          /\ UNCHANGED <<child, queueVars, thrown, written, cancel_sent>>
    /\ UNCHANGED <<ownerVars, dogVars, validVars, exit_code, pipe, lines_left, stderr,
                   clockVars>>

\* The second read_available of an exited child takes what is left of stdout,
\* then what is left of stderr: the verdict.
FinalVerdict ==
    /\ pc = "final" /\ ~LineReady
    /\ \/ pipe # <<>> /\ Throw("invalid_event")
       \/ pipe = <<>> /\ exit_code # "zero" /\ ReturnWith("nonzero_exit")
       \/ pipe = <<>> /\ exit_code = "zero" /\ ~terminal /\ ReturnWith("premature_eof")
       \/ pipe = <<>> /\ exit_code = "zero" /\ terminal /\ ReturnSilently
    /\ stderr' = FALSE
    /\ UNCHANGED <<ownerVars, dogVars, validVars, child, exit_code, pipe, lines_left,
                   clockVars>>

ShutdownCheck ==
    /\ pc = "checks"
    /\ \/ shutdown /\ Terminate /\ ReturnSilently
       \/ ~shutdown /\ Goto("control") /\ UNCHANGED childVars
    /\ UNCHANGED <<ownerVars, dogVars, validVars, clockVars>>

ControlCheck ==
    /\ pc = "control"
    /\ \/ /\ cancel_requested /\ ~cancel_sent
          /\ \/ Goto("cancel_write") /\ watchdog' = "cancel"
             \/ Throw("io_failed") /\ UNCHANGED watchdog
       \/ /\ ~cancel_requested \/ cancel_sent
          /\ Goto("late")
          /\ UNCHANGED watchdog
    /\ UNCHANGED <<ownerVars, fired, validVars, childVars, clockVars>>

CancelWriteSucceeds ==
    /\ pc = "cancel_write" /\ child = "running"
    /\ written' = TRUE /\ pc' = "cancel_join"
    /\ UNCHANGED <<thrown, now, cancel_sent>>
    /\ UNCHANGED <<ownerVars, queueVars, dogVars, validVars, childVars, clockVars>>

\* EPIPE: the child has closed its input, ...
CancelWriteFails ==
    /\ pc = "cancel_write"
    /\ written' = FALSE /\ pc' = "cancel_join"
    /\ UNCHANGED <<thrown, now, cancel_sent>>
    /\ UNCHANGED <<ownerVars, queueVars, dogVars, validVars, childVars, clockVars>>

\* ... as a dead one has.
CancelWriteBroken ==
    /\ child # "running"
    /\ CancelWriteFails

\* Mutant: a watchdog stopped by the destructor counts as an expired grace.
CancelJoinedInAnyCase ==
    /\ pc = "cancel_join" /\ watchdog = "off"
    /\ \/ fired = "timeout" /\ ReturnWith("cancel_timeout")
       \/ fired = "none" /\ ~written /\ ReturnWith("cancel_write_failed")
       \/ /\ fired = "none" /\ written
          /\ cancel_sent' = TRUE
          /\ pc' = "late"
          /\ UNCHANGED <<queueVars, thrown, now, written>>
    /\ UNCHANGED <<ownerVars, dogVars, validVars, childVars, clockVars>>

CancelJoined ==
    /\ pc = "cancel_join" /\ watchdog = "off"
    /\ \/ shutdown /\ ReturnSilently
       \/ ~shutdown /\ fired = "timeout" /\ ReturnWith("cancel_timeout")
       \/ ~shutdown /\ fired = "none" /\ ~written /\ ReturnWith("cancel_write_failed")
       \/ /\ ~shutdown /\ fired = "none" /\ written
          /\ cancel_sent' = TRUE
          /\ pc' = "late"
          /\ UNCHANGED <<queueVars, thrown, now, written>>
    /\ UNCHANGED <<ownerVars, dogVars, validVars, childVars, clockVars>>

\* Mutant: only a cancelled run has a deadline.
DeadlineCheckOfCancel ==
    /\ pc = "late"
    /\ \/ cancel_sent /\ now.grace /\ Terminate /\ ReturnWith("cancel_timeout")
       \/ ~(cancel_sent /\ now.grace) /\ Goto("poll") /\ UNCHANGED childVars
    /\ UNCHANGED <<ownerVars, dogVars, validVars, clockVars>>

\* Both comparisons use the `now` read before the control was written.
DeadlineCheck ==
    /\ pc = "late"
    /\ \/ cancel_sent /\ now.grace /\ Terminate /\ ReturnWith("cancel_timeout")
       \/ /\ ~(cancel_sent /\ now.grace) /\ now.deadline
          /\ Terminate /\ ReturnWith("timeout")
       \/ /\ ~(cancel_sent /\ now.grace) /\ ~now.deadline
          /\ Goto("poll") /\ UNCHANGED childVars
    /\ UNCHANGED <<ownerVars, dogVars, validVars, clockVars>>

\* ~Child kills what still runs, waits for it and closes the pipes; ...
Unwind ==
    /\ pc = "unwind"
    /\ child' = IF child = "none" THEN "none" ELSE "reaped"
    /\ exit_code' = IF child = "running" THEN "killed" ELSE exit_code
    /\ Goto(IF thrown = "none" THEN "finish" ELSE "catch")
    /\ pipe' = <<>> /\ stderr' = FALSE
    /\ UNCHANGED <<ownerVars, dogVars, validVars, lines_left, clockVars>>

\* ... only then does the catch clause report what was thrown.
Catch ==
    /\ pc = "catch"
    /\ Failure(thrown)
    /\ pc' = "finish"
    /\ UNCHANGED <<thrown, now, written, cancel_sent>>
    /\ UNCHANGED <<ownerVars, dogVars, validVars, childVars, clockVars>>

Finish ==
    /\ pc = "finish"
    /\ active' = FALSE
    /\ Goto("done")
    /\ UNCHANGED <<owner, cancel_requested, shutdown, runs,
                   dogVars, validVars, childVars, clockVars>>

(* The watchdogs ***********************************************************)

\* Mutant: the watchdog records its reason and kills nothing.
WatchdogFiresWithoutKill ==
    /\ watchdog = "write"
    /\ \/ shutdown /\ fired' = "shutdown"
       \/ cancel_requested /\ fired' = "cancel"
       \/ timeout_due /\ fired' = "timeout"
    /\ watchdog' = "off"
    /\ UNCHANGED <<ownerVars, queueVars, runVars, validVars, childVars, clockVars>>

\* The flags are loaded one after another, so a later one may be the reason
\* although an earlier one has been raised meanwhile.
WatchdogFires ==
    /\ \/ /\ watchdog = "write"
          /\ \/ shutdown /\ fired' = "shutdown"
             \/ cancel_requested /\ fired' = "cancel"
             \/ timeout_due /\ fired' = "timeout"
       \/ /\ watchdog = "cancel"
          /\ shutdown \/ grace_due
          /\ fired' = "timeout"
    /\ Terminate
    /\ watchdog' = "off"
    /\ UNCHANGED <<ownerVars, queueVars, runVars, validVars, clockVars>>

WatchdogStops ==
    /\ watchdog # "off" /\ pc \in {"write_join", "cancel_join"}
    /\ watchdog' = "off"
    /\ UNCHANGED <<fired, ownerVars, queueVars, runVars, validVars, childVars, clockVars>>

(* The child and the clock *************************************************)

ChildWrites ==
    /\ child = "running" /\ lines_left > 0
    /\ \E line \in Lines : pipe' = Append(pipe, line)
    /\ lines_left' = lines_left - 1
    /\ UNCHANGED <<child, exit_code, stderr>>
    /\ UNCHANGED <<ownerVars, queueVars, runVars, dogVars, validVars, clockVars>>

\* It writes to stderr, as much and as often as it likes.
ChildComplains ==
    /\ child = "running" /\ ~stderr
    /\ stderr' = TRUE
    /\ UNCHANGED <<child, exit_code, pipe, lines_left>>
    /\ UNCHANGED <<ownerVars, queueVars, runVars, dogVars, validVars, clockVars>>

ChildExits ==
    /\ child = "running"
    /\ child' = "zombie"
    /\ exit_code' \in {"zero", "nonzero"}
    /\ pipe' \in {pipe, Append(pipe, "torn")}
    /\ UNCHANGED <<lines_left, stderr>>
    /\ UNCHANGED <<ownerVars, queueVars, runVars, dogVars, validVars, clockVars>>

Supervising == pc \in SupervisingPcs

TimeoutElapses ==
    /\ Supervising /\ ~timeout_due
    /\ timeout_due' = TRUE
    /\ UNCHANGED <<grace_due, ownerVars, queueVars, runVars, dogVars, validVars, childVars>>

GraceElapses ==
    /\ watchdog = "cancel" \/ (cancel_sent /\ Supervising)
    /\ ~grace_due
    /\ grace_due' = TRUE
    /\ UNCHANGED <<timeout_due, ownerVars, queueVars, runVars, dogVars, validVars, childVars>>

-----------------------------------------------------------------------------
Owner == Start \/ Cancel \/ Drain \/ WaitFor \/ Destroy \/ DestroyJoin

\* What the run thread does without waiting for the child to read its input.
RunThread ==
    \/ SpawnFails \/ Launch \/ WriteBroken \/ WriteJoined
    \/ Receive \/ OutputDry \/ ReadErrors \/ ReadDone \/ Exited \/ FinalVerdict
    \/ ShutdownCheck \/ ControlCheck \/ CancelWriteBroken \/ CancelJoined
    \/ DeadlineCheck \/ Unwind \/ Catch \/ Finish

Watchdog == WatchdogFires \/ WatchdogStops

Child == ChildWrites \/ ChildComplains \/ ChildExits

Next == \/ Owner \/ RunThread \/ Watchdog \/ Child
        \/ WriteSucceeds \/ WriteRefused \/ CancelWriteSucceeds \/ CancelWriteFails
        \/ TimeoutElapses \/ GraceElapses

Spec == Init /\ [][Next]_vars

\* The client's threads are scheduled and time passes; the owner that entered
\* the destructor waits in it.  Nothing is assumed of the child, nor of a write
\* to a child that does not read; what follows for the run is in RunEnds.
Fairness ==
    /\ WF_vars(RunThread)
    /\ WF_vars(Watchdog)
    /\ WF_vars(TimeoutElapses)
    /\ WF_vars(GraceElapses)
    /\ WF_vars(DestroyJoin)

FairSpec == Spec /\ Fairness

-----------------------------------------------------------------------------
PcValues == SupervisingPcs \cup {"idle", "launch", "unwind", "catch", "finish", "done"}

OwnerType ==
    /\ owner \in {"open", "closing", "closed"} /\ runs \in Nat
    /\ active \in BOOLEAN /\ cancel_requested \in BOOLEAN /\ shutdown \in BOOLEAN
QueueType == queue \in Seq(Events) /\ log \in Seq(Events)
RunType ==
    /\ pc \in PcValues
    /\ thrown \in {"none", "invalid_event", "io_failed"}
    /\ now \in [deadline : BOOLEAN, grace : BOOLEAN]
    /\ written \in BOOLEAN /\ cancel_sent \in BOOLEAN
DogType ==
    /\ watchdog \in {"off", "write", "cancel"}
    /\ fired \in {"none", "shutdown", "cancel", "timeout"}
ValidatorType == started \in BOOLEAN /\ terminal \in BOOLEAN
ChildType ==
    /\ child \in {"none", "running", "zombie", "reaped"}
    /\ exit_code \in {"none", "zero", "nonzero", "killed"}
    /\ pipe \in Seq(Lines \cup {"torn"}) /\ lines_left \in Nat
    /\ stderr \in BOOLEAN
ClockType == timeout_due \in BOOLEAN /\ grace_due \in BOOLEAN

TypeOK == /\ OwnerType /\ QueueType /\ RunType /\ DogType
          /\ ValidatorType /\ ChildType /\ ClockType

\* No child outlives its run or its owner: "a child process must not survive a
\* closed study window" (docs/M5-WORKER-CLIENT-CONTRACT.md:7).
NoOrphan ==
    /\ ~active \/ owner = "closed" => child \notin {"running", "zombie"}
    /\ pc \in {"finish", "done"} => child \notin {"running", "zombie"}

\* A watchdog that may still call terminate() has a child that has not been
\* waited for: SIGKILL never goes to a process number the system may have reused.
KillTargetsChild == watchdog # "off" => child \in {"running", "zombie"}

\* The watchdog that killed the child decides how the run ends: the run thread
\* never goes on to read from, or to judge, a child the client has killed.
WatchdogKillReported ==
    /\ fired # "none" =>
          pc \notin {"poll", "poll_err", "reap", "checks", "control", "late", "final"}
    /\ pc \in {"poll", "poll_err", "reap", "final"} => exit_code # "killed"

\* Whatever the order of the run thread, its watchdogs and its owner: no child
\* is left behind, none is killed by a number that is no longer its own, and
\* none that was killed is judged as if it had ended by itself.
ChildIsOwned == NoOrphan /\ KillTargetsChild /\ WatchdogKillReported

LastType == IF log = <<>> THEN "none" ELSE log[Len(log)].type

\* Unless its owner is closing, a run that has ended has left a verdict, and a
\* result stands as the verdict only if the worker then exited by itself with 0.
EndedWithVerdict ==
    pc \in {"finish", "done"} /\ ~shutdown =>
        \/ LastType = "client_error"
        \/ LastType \in Terminals /\ exit_code = "zero"

\* What the owner has not drained is the newest part of what the run pushed, in
\* order, within the cap, whatever was evicted or drained before it.
QueueIsNewest ==
    /\ Len(queue) <= Cap
    /\ Len(queue) <= Len(log)
    /\ \A i \in 1..Len(queue) : queue[i] = log[Len(log) - Len(queue) + i]

Reported(c) == \E i \in 1..Len(log) : log[i] = ClientError(c)

\* An error names what happened in this run: no cancellation left over from an
\* earlier run, no deadline that has not passed, no exit the client caused.
ErrorsHaveCauses ==
    /\ Reported("cancelled") \/ Reported("cancel_write_failed") => cancel_requested
    /\ Reported("cancel_timeout") => cancel_requested /\ grace_due
    /\ Reported("timeout") => timeout_due
    /\ Reported("nonzero_exit") => exit_code = "nonzero"
    /\ Reported("premature_eof") => exit_code = "zero" /\ ~terminal

\* The verdict of a run is there when it ends, and is the right one.
VerdictIsEarned == EndedWithVerdict /\ ErrorsHaveCauses

HasTerminal(q) == \E i \in 1..Len(q) : q[i].type \in Terminals

\* With room for two events an error never evicts the worker's own terminal.
TerminalSurvives ==
    [][Cap > 1 /\ HasTerminal(queue) /\ ~HasTerminal(queue') => queue' = <<>>]_vars

\* A read that never runs dry: from some moment on the run thread is inside
\* read_available and its child goes on writing to stderr.
Flooded == <>[](pc \in {"poll", "poll_err"}) /\ []<><<ChildComplains>>_vars

\* Whatever else the child does or does not do (read its input, answer, die,
\* hang), the run ends ...
RunEnds == (active ~> ~active) \/ Flooded

\* ... and the destructor returns: nothing but a flood can hold either.
CloseCompletes == ((owner = "closing") ~> (owner = "closed")) \/ Flooded

\* What the contract promises without that exception: a cancelled worker that
\* does not stop is killed after a bounded deadline
\* (docs/M5-WORKER-CLIENT-CONTRACT.md:7).
CancellationEscalates == active /\ cancel_requested ~> ~active

\* The abstract supervisor this client implements.
Supervisor == INSTANCE SupervisedRun WITH
    status  <- IF owner = "closed" THEN "closed" ELSE IF active THEN "running" ELSE "ready",
    process <- IF child = "none" THEN "none" ELSE IF child = "reaped" THEN "gone" ELSE "alive",
    closing <- owner # "open",
    Codes   <- ErrorCodes

\* One run at a time, one child per run, nothing after a terminal but an error,
\* nothing after an error, no end before the child is gone and a verdict is left.
ImplementsSupervisor == Supervisor!Spec
=============================================================================
