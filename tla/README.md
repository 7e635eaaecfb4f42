# Formal models of the KSP mission analysis program

This directory is kept beside the program in `src/`: a GTK desktop window, a
worker process it supervises, the search and integration libraries the worker
calls, and the files both read and write (C++20; two C# tools export and import
data). It holds TLA+ models of the parts with control of their own, TLC
configurations that check them on small instances, and TLAPS proofs.

Run everything inside this directory:

```
tlc -workers 2 -config WorkerClient.cfg MCWorkerClient
tlapm WorkerClient_proofs.tla
```

## 1. The system

| Component | Source | State it keeps | Operations |
|---|---|---|---|
| Worker client | `KspMission.Desktop/WorkerClient.*` | `active_`, `cancel_requested_`, `shutdown_`, the event queue, the child process, the run thread and two watchdog threads | `start`, `cancel`, `drain`, `wait_for`, destructor, `run` |
| Event validator | `WorkerEventValidator`, same files | which events of a run were seen, its announced total, its last counts | `accept_line` |
| Worker | `KspMission.Worker/` | one request; a cancel flag raised on a detached thread | `process_start_line`, `process_mission`, `process_evaluation` |
| Shooting | `KspMission.Search/RouteEvaluate.cpp` | probe counter, current trial and its diagnostics, block | `shoot_fixed_route` |
| Mission search | `KspMission.Search/MissionSearch.cpp` | counts, retained routes | `search_mission` |
| Study window | `KspMission.Desktop/Main.cpp` | imported source, kind of the run, its events and result, the buttons, a pending close | six buttons, the 100 ms poll, closing |
| Build check | `Main.cpp`, `UpdateCheck.hpp` | one request, its timeout and cancellable | check, answer, timeout |
| Ephemeris cache | `KspMission.Ephemeris/EphemerisCache.cpp` | files of a directory | save, load |
| Report files | `KspMission.Report/` | files of a directory | compose, save, load |
| Mission budget | `Main.cpp`, `Worker.cpp`, `MissionSearch.cpp`, `StudyReport.cpp` | none; one bound computed four times | admit a grid, count its cells |
| Propagation | `KspMission.Spacecraft/Spacecraft.cpp` | time, step, burns done, monitor of one call | `propagate` |
| Ephemeris integration | `KspMission.Ephemeris/Ephemeris.cpp` | samples, errors, halved intervals of one call | `integrate`, `step` |
| Numerics | `Search.cpp`, `SearchGrid.cpp`, `MissionRoute.cpp`, `Refine.cpp` | none between calls | one call, one result or exception |
| Runtime reader, exporter, importer | `RuntimeReader/`, `RuntimeExporter/`, `Import/`, `Snapshot*/` | none between calls | one document in, one out |

**How they interact.** The window owns one client. `start` hands the client a
request line; a run thread of the client forks the worker, writes the line to
its stdin and reads JSON lines from its stdout; every line passes the validator
and enters a bounded queue. The window polls the queue every 100 ms on the GTK
thread. Cancelling is cooperative: the window sets a flag, the run thread writes
a control line, a detached thread of the worker reads it and raises the worker's
flag, and the search looks at that flag between two units of work. If the worker
does not end within a grace the client kills it. A mission worker may share its
ephemeris with later workers through a cache file; the window writes reports.

**What is hard.** Threads of the client share one child and three atomics; a
pipe write may block, and only a watchdog can end it; a child may hang, die, or
write anything; the run, the grace and the whole may time out in any order; a
cancellation may arrive at every point of a worker, and no check follows the
last one; progress is throttled on one side and checked on the other, in two
programs that must agree on the arithmetic; the window acts on events up to
100 ms after the client moved on; several workers may publish one cache file,
several windows save one report, and the machine may lose power in between; the
answer of a build check may come when the next check is on its way. Four places
compute the work of a grid in unsigned integers, each with guards of its own. The
two integrators accept, reject, halve and retry, and mark the ends of intervals
by comparing rounded times.

**What makes each part correct.**

- *Client*: no child outlives its run; nothing kills a process that was waited
  for; a run always ends in a verdict, and the verdict names what happened; the
  queue loses only the oldest; every run ends and the destructor returns, unless
  its child keeps a read from ever finding a pipe empty.
- *Validator*: accepted lines announce the work once, only advance, end once;
  a complete is accepted only of announced work, and claims what was reported.
- *Worker*: its client never refuses a line; every command sends one terminal; a
  cancellation before the end wins; progress is neither starved nor repeated.
- *Shooting, search*: budgets are exact, every probe is reported once, the status
  explains the result, the best routes are kept, a cancellation lets at most one
  more unit begin.
- *Window*: buttons, shown rows and retained events agree with the run; what is
  offered for saving can be saved; a window asked to close closes.
- *Cache*: workers leave complete files at a path and replace none; a file is
  taken for the request it was made for and for no other.
- *Reports*: a path names the old report or the new one, also after a power failure.
- *Build check*: the button comes back, no timer outlives its check or the window.
- *Budget*: form, worker, search and report admit the same grids and count them alike.
- *Propagation*: burns in order and none passed, nothing accepted that is not
  proved clear, a monitor that sees its whole interval, an end.
- *Integration*: the ephemeris is sampled, certified and measured everywhere, and
  a collision is reported at its time.

## 2. The modules

| Module | Models | Lines of the model are about |
|---|---|---|
| `SupervisedRun` | what the owner of a client may rely on | abstract specification |
| `WorkerClient` | `WorkerClient::*`, `run`, watchdogs, `Child` (POSIX) | one action per step of the run thread between two points where another thread can matter |
| `EventValidator` | `accept_line` | operators only: `Refuses`, `After` |
| `EventStream` | the events a run may consist of | abstract specification |
| `ClientReader` | the loop of `run` that feeds the validator | variables of the validator and what it accepted |
| `AnyWorker` | a child that writes any line | composition `ClientReader` + any writer |
| `ProbeRun` | what the worker relies on while `shoot_fixed_route` runs | abstract specification |
| `ShootFixedRoute` | `shoot_fixed_route`, every branch and callback | one action per loop head, probe and gate |
| `CellRun` | what the worker relies on while `search_mission` runs | abstract specification |
| `MissionSearch` | `search_mission`, `screen`, `better` | one action per cell, assembly and loop step |
| `MissionRun` | a mission from the form to the report | composition `MissionBudget` + `MissionSearch` behind one of its gates |
| `WorkerSession` | a worker's pipe, its control thread and its reader | shared by the three handlers below |
| `EvaluationWorker` | `evaluate_route` and `shoot_route` (`process_evaluation`) | uses `ProbeRun` for the search, `EventValidator` for the reader |
| `MissionWorker` | `start_mission` (`process_mission`) | uses `CellRun` |
| `SeedWorker` | `start` (`process_start_line`) | its own grid loop, ranking and refinement |
| `WorkerProcess` | the dispatch of `process_start_line` | composition of the three handlers, or `AnyWorker`, with the reader |
| `StudyWindow` | the GTK window's buttons, poll, reports and closing | composition with `SupervisedRun` as its client |
| `CacheFiles` | `save_ephemeris_cache`, `load_ephemeris_cache`, the worker's use of them | one action per system call |
| `ReportStore` | what saving a report promises of its path | abstract specification |
| `ReportFiles` | the three savers and loaders of reports | one action per system call, and the disk |
| `BuildCheck` | `check_updates`, its timer, `update_loaded`, `close_request` | one action per callback |
| `MissionBudget` | `mission_request`, `process_mission`, `search_mission`, `validate_study_report` | one action per gate; the unsigned arithmetic as operators |
| `Propagation` | `propagate` with `events`, `monitor_step`, `clear_interval_bound` | one action per branch of the loop |
| `EphemerisIntegration` | `integrate`, `step`, `unresolved_or_collision` | one action per interval tried; the recursion is a stack |
| `Integrators` | one call of `propagate` or of `integrate` | disjoint choice of `Propagation` and `EphemerisIntegration` |
| `DesktopWindow` | the window's class: its studies and its build check | disjoint choice of `StudyWindow` and `BuildCheck` |
| `WorkerClient_proofs`, `ShootFixedRoute_proofs`, `MissionRun_proofs`, `WorkerProcess_proofs` (with `AnyWorker`), `StudyWindow_proofs` (with `BuildCheck`), `Integrators_proofs`, `CacheFiles_proofs`, `ReportFiles_proofs` | theorems about the modules they are named for | |
| `MC*` | values of constants for TLC | |

Operators whose comment begins with *Mutant* or *Faulty* are not part of a model.
Each is a plausible mistake in the code, in the form of the definition that
follows it; putting it in that definition's place makes TLC find the property
`PROJECT.json` pairs with it violated. They document what a property is sensitive to.

The chain from the window down is made of abstract specifications that are
shown to be implemented one level below:

```
StudyWindow ── uses ──> SupervisedRun <── implemented by ── WorkerClient
                                                               │ reads through
WorkerProcess of {EvaluationWorker, MissionWorker, SeedWorker} ──> ClientReader + EventValidator
      │ uses         │ uses                          │ implements
   ProbeRun        CellRun                       EventStream
      ▲ impl.        ▲ impl.
 ShootFixedRoute  MissionSearch

ReportStore <── implemented by ── ReportFiles
```

### State and actions, module by module

**WorkerClient.** Variables carry the names of the members and locals they stand
for: the three atomics, `queue`, the live watchdog and whether it fired, the
child (its life, whether it was waited for, its `pipe`, whether its `stderr` holds
anything) and the clocks that have or have not expired. The run thread is a program
counter whose labels are the points between which no other thread can tell the
difference; `poll` and `poll_err` are the two loops of `read_available`, left only
when a read finds nothing. The child may write any line the abstract validator
knows (`MaxLines` of them) and anything to stderr without a bound, stop reading,
close its input, exit with either code, or hang. Time is an action that lets a
deadline expire. The queue holds at most `max_retained_events` (`Cap`). `log` keeps
what the run pushed, which only properties read.

**EventValidator / ClientReader / AnyWorker.** An event is its type, its counts,
its status, whether it carries the expected identity, and one Boolean for the
checks of the line alone (`Malformed`: schema, claims, frames, labels, ranked
order). `told` and `claim` remember, for the properties, what the accepted
progress lines reported and what the accepted terminal claims. `AnyWorker` lets every such event arrive, in any order, for each of the
four kinds of result.

**ShootFixedRoute.** A probe's diagnostics are abstracted to what the control
looks at: which of the four blocks are out of tolerance, and the coarse reason or
none. What a trajectory answers (`ProbeOutcomes`), what the strict evaluation
answers (`StrictOutcomes`) and whether a request fits its source
(`RequestOutcomes`) are choices. The four nested loops, each return, the
exception paths and the calls of `progress` and `cancelled` are the code's.

**MissionSearch.** A leg's grid is its size; a route is the rank of its cost
(distinct, since `better` breaks ties by launch date and identifier). Whether a
leg has a candidate and a route can be assembled are choices.

**Workers.** `WorkerProcess` starts one handler, the one of the client's kind of
result, or lets another program write the lines. A process runs one handler, so the
handlers share the variables that name the same thing (`sampled`, `outcome`) and
the others rest. Each follows its command from the read request to the exit. The
pipe holds a bounded number of lines; a full pipe blocks the worker. The control
thread raises the flag at any moment. `overdue` remembers that the flag was up
when a unit of work began. Numbers are the code's: the interval of `shoot_route`
is `max(1, (budget + 63) / 64)`, the stride of a mission `max(1, total / 100)`.

**StudyWindow.** GTK runs one callback at a time, so a click is one action; the
poll is three (drain, handle an event, end) because the client goes on
meanwhile. `sensitive` is the set of buttons GTK would let the user click.
`Cancel` has no action: it only asks, and a `SupervisedRun` may take a cancelled
or an error at any time. A refused import, start, open or save changes nothing
but labels and has no action either. The source file may be rewritten at any
time by anyone, the fields edited by the user.

**CacheFiles.** `link`, `unlink`, `open` with `O_EXCL` and the write are separate
steps, a kill may come between any two, and the temporary path is whatever the
worker's clock made of it, for two workers possibly the same. `Asks` is what of a
request `decode` compares: snapshot and settings. The path may hold a file of
another request, or a `Stranger`'s, which no worker wrote and which `decode`
refuses for its content. Where the file cannot be looked at, opened or read the
worker ends `cache_unreadable`; it reports that, too, as `cache_rejected`.

**ReportFiles.** `dir` is the directory, `disk` what of it was last written to
the disk, `synced` the files whose data is there. `fopen`, the write, `fsync` and
`rename` are steps; a saver may be killed between any two. `WriteBack` and
`PowerLoss` are the file system: the directory is written when it likes (no saver
syncs it) and an unsynced file may lose its data. The reader keeps the
file it opened, whatever the path is linked to afterwards. `EvaluationReport.cpp`
has two more savers and loaders, with the same steps.

**BuildCheck.** A check is its number. `update_cancel_`, `update_timeout_` and
`update_file_` are those of the latest; each timer and answer remembers whose it
is. An answer of an earlier check meets the latest one's objects, as in the code.

**DesktopWindow.** The two halves of the window meet in its closing only, of which
each has its own side (`closed` and `pending_close`; `window`), so a behaviour is of one
of them. Interleaving them would multiply the states and show each half nothing new.

**MissionBudget.** A grid is the number of its steps; the request passes the
form, the worker, the client, the search and the report, or enters at the
worker. `Times`, `Plus` and `Minus` are modulo `Wrap`, so a guard that comes
too late is seen. `Loop`, `SearchFits` and `ReportFits` keep each place's order.

**Propagation.** A tick is the distance of two doubles. `t + dt` may be one tick
off where `target - t` is rounded (`Exact`, `Sums`). A trajectory is the set of
ticks at which it is inside a surface. What the tolerance makes of a trial, what
the interval bound can prove of a clear interval and where `events` finds an
entry are choices; the bound proves nothing false.

**EphemerisIntegration.** `work` is the stack of `step`'s recursion. Each pass
has at most one tick at which two bodies touch; `certified_clear` may refuse an
interval that is clear and never passes one that is not. Fit errors are choices.

## 3. The runs

Deadlock is not checked in any run: a client that was destroyed, a worker that
exited, a search that returned and a window that closed really stop. That each of
them gets that far is a property of its own.

| Run | Instance | Question |
|---|---|---|
| `client` | 2 runs, 2 lines per child, a queue of 2, a cancellation before the start | Does any interleaving of owner, run thread, watchdog, child and clock leave an orphan, kill a stranger, lose a verdict, invent an error or keep the wrong events? Does the client implement `SupervisedRun`? Does every run end and the destructor return, whatever the child does but flood stderr? |
| `client_flooded` | 1 run, no lines, stderr without bound | Finding 4. |
| `shooting` | 10 probes, 2 iterations, 2 attempts | Are budget, reports, diagnostics and status exact on every path, and does the corrector implement `ProbeRun` and return? |
| `mission` | up to 5 steps per grid, caps up to 29, integers modulo 32; a 2 x 1 x 2 x 2 grid searched, 2 of 4 routes kept | Do the four computations of a mission's work agree with each other and the integers? Are the best routes kept in order, does the search implement `CellRun`? |
| `worker` | `evaluate_route`, `shoot_route` with 64 probes, `start_mission` with 203 cells and 2 routes, `start` with 43 cells and 2 candidates, a pipe of 2 lines; another program with counts up to 2 | Does the client take every line, does a cancellation before the end win, is progress neither starved nor repeated, does every command's verdict arrive? What can the client take from a program that writes anything? |
| `worker_coarse` | the same with 80 probes | Finding 1. |
| `window` | 2 sources, 2 runs, 1 progress event each; 4 build checks | Do buttons, rows and retained events agree with the run, can what is offered be saved, does a closing window close? Does the button of the build check come back, is a timer ever lost? |
| `study_window_late_error` | 1 source, 1 run | Finding 2. |
| `cache_files` | 3 workers, two with one temporary path, two of one request; the path empty or a stranger's | Can a worker leave a partial file at the cache path, or replace one? Is a file taken for another request, or one of the same request refused? |
| `report_files` | 2 savers, a third after a power failure with the first's temporary path | Does the path hold a whole report at every moment, and does a reader load one? |
| `integrators` | ticks 1 to 8, steps 1 to 4, 2 burns, 2 ticks inside; 2 segments of 12 ticks, 2 halvings, errors 0 to 2 | Are burns in order and accepted intervals clear though sums are a tick off, does the monitor see an interval late enough? Is a returned ephemeris certified and measured everywhere, a collision named at its time? Does every call end? |
| `propagation_early_monitor` | ticks 1 to 8, 1 burn, nothing inside | Finding 3. |

**Why the bounds are enough.**

- *Client.* Two runs show what one leaves for the next (a flag, a queue, a thread
  to join). With a queue of two, a third event evicts, and two lines and a
  client error let the eviction meet a terminal before and behind it. The loop
  reads one line per iteration and nothing counts them. More lines could not hold
  the run thread in `read_available` as stderr can: the line after a terminal is
  refused, and without one the queue fills and the run is given up, unless the
  owner drains it as fast as the child writes, which is finding 4 on the other
  pipe. The proofs of section 5
  hold for every cap and every bound.
- *Shooting.* Two iterations are the fewest in which one starts from the
  diagnostics another left; two attempts are the fewest in which a line search
  halves its step; with ten probes the budget runs out at every place it is
  checked.
- *Mission search.* One leg has a single flight, the others two: loops are
  both left at once and repeated. Two of four routes can be kept, so
  insertion before, between and after, and eviction, all occur. Routes are ranked
  in every possible order. One grid is walked, under the cap it just meets; the
  other grids pass the same gate and are only counted.
- *Workers.* Totals are chosen for the throttle, the one place where the number
  matters. 203 cells make the mission's stride two and leave an odd last cell; 43
  do the same of `start`; 64 probes are the largest budget whose interval is one
  and 80 is the desktop's own default. A pipe of two lines is full in the middle
  of every run.
- *Window.* One progress event is enough for an event to wait in the queue behind
  another; a second source and a second run show what one leaves for the next.
- *Cache.* The two of one request do not share the temporary path, so each of
  three meets a file of its own request and one of another. Two workers share a
  temporary path: the one whose exclusive open fails
  removes the other's file, whose link then fails. The third meets both. With
  three workers on one path the property is false: the second removes the file of
  the first, the third makes its own there, and the first links it half written
  (`EphemerisCache.cpp:146`). The path holds a clock's reading, so
  this takes three saves in one tick; it is why the theorem assumes `Distinct`.
- *Reports.* Two savers overlap, the third meets what the first left behind in an
  earlier boot: the clock that names temporary files starts again with the
  machine. Two savers at once with one name would break `ImplementsReportStore`
  (one truncates the file the other is about to rename); that takes two saves in
  one tick of a nanosecond clock, and is what `Distinct` excludes.
- *Build check.* With two checks one is late; with four a late answer meets
  a check that is itself late, twice.
- *Budget.* 32 is less than the product of two grids and than every cap that is
  admitted twice over, so products and sums wrap at every place they could.
- *Propagation.* Seven ticks and a largest step of four leave room for a rejected,
  a halved and an accepted step before and after each burn; both burns may share a
  time. The first steps start near enough to the origin for sums to be rounded, and
  an interval between a burn at 4 and the end lies where they are exact.
- *Integration.* A segment of 12 ticks is halved exactly as deep as the bound allows. Halving twice meets a split in the first and in the second half
  of a split; two segments are the fewest in which the reference could restart.

Each property is sensitive to the code: `PROJECT.json` pairs it with a plausible
mistake (a dropped guard, a missing reset, a swapped order) that breaks it in the
same run.

## 4. Fairness

Safety properties are checked without fairness. Liveness assumes only that a
thread of this program that can run is run, and that time passes:

- `WorkerClient`: weak fairness of the run thread, of the watchdog thread, of the
  two clocks and of the destructor's `join`. Nothing of the child: it may hang,
  keep its pipe full or ignore a cancellation, and the run still ends because the
  clocks do. One thing a child may do holds the run, and `RunEnds` and
  `CloseCompletes` name it instead of assuming it away: `Flooded`, where from some
  moment on the run thread is inside `read_available` and the child writes to
  stderr again and again (finding 4). Nothing of the owner: it need not cancel.
- Workers: weak fairness of the worker's main thread and of the reader (the
  client drains its child's pipe). None of the control thread: no one has to
  cancel, and `VerdictArrives` does not lean on it. A mission's verdict arrives
  because a cell completes at most one route (`CellRun`) and cells are bounded.
- `ShootFixedRoute`: weak fairness of its step. A probe is a call that returns.
- `Integrators`: weak fairness of the step of either call: one thread runs it.
- `BuildCheck`: weak fairness of a timer that is due and of the close that the poll
  makes of a closing window. None of the answers: GitHub may never answer.
- `StudyWindow`: weak fairness of the client's work, of the 100 ms timer, of the
  handling of a drained event and of the end of a poll. None of the user. That
  the client works on is what `RunEnds` of the run `client` shows; its exception is
  not met in the window, whose worker writes nothing to stderr.

The number of runs is bounded (`MaxRuns`), which excludes a user who starts a run
again and again in a window that has been asked to close; the code would indeed
wait for each of them.

## 5. What is proved

TLAPS checks the theorems for every value of the constants under their named
assumptions: bounds are naturals, a cap is positive, halvings are exact.

**`WorkerClient_proofs`.** `ChildIsOwned` or `QueueIsNewest` alone are not inductive:
whether a watchdog's kill hits its child depends on where the run thread is and
on whether it has waited. The inductive invariant is the conjunction of the types, `Lifecycle`
(which program points imply which state of child, watchdog and `active_`), `KillKnown`
(a child the client killed is being given up), `LogInv` (the queue is the end of
the log) and `CauseInv` (an exception in flight, or an error in the log, has its
cause in this run). Preservation is one step per action of the client. From it:

- `Supervision` (`ChildIsOwned`: no orphan, no kill of a stranger, every watchdog
  kill is reported), `Verdicts` (`VerdictIsEarned`: a run that ended has a verdict,
  an error has its cause), `BoundedQueue` (the queue is bounded and the newest),
  `VerdictStays` (`TerminalSurvives`: an error is reported once and at the end, so
  the terminal it finds in a queue of two or more is not the one evicted);
- `Refinement`: every step of the client is a step of `SupervisedRun` or a stutter.

**`ShootFixedRoute_proofs`.** `StatusExplained` speaks of the end; what makes it
true is what each place of the four loops knows of the last accepted probe.
`Explained` says so place by place, `Counted` follows the probes and their reports
through `evaluate`, and the diagnostics at hand are always those of the trial at
hand. From it, for every budget and every bound of
iterations and attempts: `ReportsInOrder` (every probe is counted and reported
once, also when it throws), `DiagnosticsBelong`, `StatusIsTrue`, and
`RunRefinement` (every step is one of `ProbeRun` or a stutter).

**`WorkerProcess_proofs`, any program.** `ReaderInv` relates the validator's fields to
the events it accepted, remembered in `told` and `claim`. From it `Completeness`
(whatever lines come, a run taken as complete was announced and claims what its
progress lines told: a shooting the most probes any of them reported, of the only
total they named; an evaluation its phase from 0 to 1; a screening, whose complete
line has no counts the client looks at, nothing beyond its total) and `StreamRefinement` (the
accepted lines form an `EventStream`).

**`WorkerProcess_proofs`, this program's worker.** The client reads the pipe late, so an
invariant about its validator would have to speak of every line on the way.
Instead `Ahead(w)` says that `w` is the validator once it has read the whole pipe
and refused nothing; sending a line the validator takes moves `w` on, and reading
leaves it where it is. Each handler's invariant (`SeedInv`, `MissionInv`, `EvalInv`)
then relates its program point, counts and throttle to `w` as if there were
no pipe. From it, for every total, stride, number of routes and length of the pipe:
`NothingIsRefused`, `VerdictBeforeExit`, `PromptCancel`, `CancelWins`, `ProgressIsRecent`,
and the two theorems above again (`ProcessCompleteness`, `ProcessRefinement`). The
first two are about shootings of at most 64 probes: a larger budget's interval is
more than one, and the last count is then suppressed (finding 1). They say so as a
condition on the state, so that nothing is assumed of the other commands.

**`MissionRun_proofs`.** `SameWorkEverywhere`, for every word size and cap below
it. The argument is one lemma, that a guard by division is as good as one on the
exact product (`DivisionGuard`), and that a guarded product or sum does not wrap
(`Exact`); the loop's four additions and the search's and the report's three
products are then the same number. `BestRoutesKept`, for every grid, number of routes
kept and order of their ranks: the invariant says that the list is
the first part of the increasing enumeration of what was found (`Best`), and that no
more cells were visited than lie before the loops' place in the full grid (`Before`,
`Block`). That a finite set has one such
enumeration (`EnumerationExists`, `EnumerationUnique`) and what an insertion makes of a part
of it (`RetainedKeeps`) are lemmas. `SearchRefinement`: every step of the search is one of
`CellRun` or a stutter.

**`StudyWindow_proofs`.** `WindowInv` is five parts: the queue is what the window has not
handled of the client's log (`Queue`); after a verdict only the client
speaks, and once (`Order`); each button follows the run and the closing (`Buttons`); while a run
is active, its events are to come or its result is offered, the request is the one
the window expects (`Current`) and the rows kept are its events; an offered result has
what its composer asks for (`Offered`). From it `OnlyCancelDuringRun`, `EventsMeetTheirHandlers`
and `WhatIsOfferedCanBeSaved`, for any sources and any number of runs. The second
part is the build check of the same window: `TimersHeld`, inductive as it stands.

**`CacheFiles_proofs`.** `NothingReplaced` holds for any number of workers and
any temporary paths. `CompleteWhenPublished` needs the assumption `Distinct`, no
two workers given one temporary path: with it every file has one writer
(`OwnFile`), and a worker that links has written (`Progressed`). It says what
workers leave is complete, that a hit is a whole file of the caller's own request, and
that content is rejected only of a stranger's file or another request's. The
requests (`Asks`) are arbitrary: nothing is assumed of who asks for what.

**`ReportFiles_proofs`.** For any number of savers, boots and power failures, and
`Distinct` temporary paths within a boot: `ReadersLoadDocuments` and
`ReportsReplaced` (every step is one of `ReportStore` or a stutter). The invariant
says who holds which file: a saver that is about to rename has a file no other
saver of this boot writes, whole and synced; the path is linked only to such
files, in the directory and on the disk. A file left behind in an earlier boot may
be taken over, once its owner is dead.

**`Integrators_proofs`.** Of `propagate`, the invariant ties `index` to the burns applied and `t` to
the burn that is next (no burn is due before `t`), with the clear prefix of the
trajectory. From it `NoBurnLost` and `AcceptedIsClear`, for every rounding.
`LateStaysMonitored` is about a monitored interval that begins at least a largest
step from the origin: every sum in it is exact (`LateSums`), a step cannot cross
one of its ends (`IntervalEnds`), and the monitor keeps up with `t`
(`MonitorKept`). Finding 3 is what happens nearer to the origin.

Of `integrate`, the invariant says that the intervals `step` has yet to cross lie one
behind the other up to the end of what it was called for (`Remaining`), that
the pass has certified all before `now` (`Crossings`), and which points of the grid
have been sampled (`Samples`) and compared (`Fits`), with the greatest error among
them (`Greatest`). From it `EphemerisIsTrue`, for every grid and depth of
halving. It assumes that ticks are fine enough for every halving to be exact
(`HalvingAssumption`), which is what halving a double is; an odd tick left over
would be a gap.

**How induction over data was avoided, or done.** The induction theorems of the
library cannot be instantiated here. Where a proof needs a least element (an
enumeration of a finite set, the first place where two of them differ), it takes the
minimum of a set of naturals or of finite sets under a well-founded relation
(`LeastNatural`, from `WFMin`), which is a first-order fact. `Sorted` of
`MissionSearch` is for this reason defined by what it is, not by a sorting operator.

**Only model-checked.** Liveness under fairness, which the prover does not reach:
`RunEnds` and `CloseCompletes` of the client, `Terminates` of the
corrector, `VerdictArrives` of the workers, `CloseCompletes` of the window,
`ButtonReturns` of the build check, `CallEnds` of the integrators. And shared temporary
paths in the cache, which the theorems about complete files exclude and the run
`cache_files` includes. Every invariant that a passing run checks, every action property
and every refinement is a theorem.

## 6. Findings

1. **A finished shooting with more than 64 probes may be refused**
   (`worker_coarse`). The call that is to report the last count goes
   through the filter that suppressed it (`Worker.cpp:445`, `:428`); the terminal
   then carries a count the last progress event did not, and the client refuses it
   as `invalid_event` (`WorkerClient.cpp:336`). The desktop proposes a budget of 80
   (`Main.cpp:548`); `docs/M5-SHOOTING-CLIENT-REPORT-CONTRACT.md:19` promises that
   valid worker output is accepted.
2. **A report of a failed run can be saved** (`study_window_late_error`). Between
   the end of a client whose last event is a client error and the next poll,
   `save_report` (`Main.cpp:839`) sees a handled terminal and a stopped client.
   `docs/M5-SHOOTING-UI-CONTRACT.md:23` offers no report after a client error.
3. **The radius monitor may miss its last step** (`propagation_early_monitor`).
   `propagate` compares `t+dt` with the end of the interval (`Spacecraft.cpp:337`,
   `:339`) and snaps `t` to the target afterwards (`:347`). Where `target-t`
   is rounded, that is where a step is longer than the time from the origin, the
   sum may be one ulp off: a run from 10.087299999999999 to 266.26510000000002 in
   one step succeeds with `endpoint_count` 1. `tests/KspMission.Spacecraft.Tests/Tests.cpp:139`
   wants both endpoints. The missions' times are years from the origin, and
   `LateStaysMonitored` shows that nothing is missed there.

4. **Reading a child has no bound** (`client_flooded`). `read_available` reads stdout
   and then stderr until a read finds nothing (`WorkerClient.cpp:505`), and no flag
   and no deadline is looked at meanwhile; stderr is dropped past a prefix (`:707`),
   so no limit ends the loop either. A child whose writes keep ahead of the reads
   holds the run thread past a cancellation and past every deadline, and the
   destructor's join (`:647`) with it. `docs/M5-WORKER-CLIENT-CONTRACT.md:7` promises
   termination "after a bounded deadline if the worker does not stop". Whether a
   read ever finds the pipe empty is up to the scheduler: a reader faster than its
   writers gets out, so the code lacks a bound rather than being certain to hang.
   A flood of stdout ends in most cases, with an `invalid_event` for a line after
   the terminal or a full queue. The repository's worker writes nothing to stderr.

Not a finding, but worth knowing: `update_loaded` does not ask which check its
result belongs to (`BuildCheck!Answered`). When a check has timed out and the button
is clicked again before the cancelled request's callback has run, that callback
disconnects the new timer, fails on the new file and opens the builds page while the
new request is on its way (`Main.cpp:332`, `:336`). The button still comes back and
no timer is lost, which is what the model is asked.

## 7. What is not modelled, and why

- The Windows `Child` of the client: another implementation of the same five
  operations, chosen when compiling.
- Of the client: a run thread that cannot be created (`std::thread` throws in
  `start` after `active_` is set, `WorkerClient.cpp:652`), and processes the child
  starts itself, which would keep its pipes open after it is gone.
- That a mission whose last cell ran while it was being cancelled still completes
  (`Worker.cpp:681`) is in the model and is no violation: its contract checks the flag
  between cells only, and `CancelBeatsComplete` is not claimed of missions.
- Floating-point numerics (screening, assembly, refinement; the force models, trial
  steps and error estimates of propagation and integration): one call, one result;
  the models take every result the control distinguishes.
- The Windows branches of the report files (`MoveFileExW`, `_commit`).
- Parsing, hashing and writing of JSON documents, requests and snapshots: one
  step whose outcome is well formed or refused.
- Drawing, labels and wording of the window; its client is any `SupervisedRun`.
  The window model assumes that its queues (2048, 32 and 160 events) are never
  full, which holds of this repository's workers, whose events are throttled below
  those numbers; `QueueIsNewest` says what would be lost otherwise.
- The C# exporter, importer and snapshot tools: sequential, without state
  between calls. The exporter runs inside the game.

## 8. Plan

Order of what remains, most important first.

1. **Theorems across modules.** What `WorkerClient` does with a worker's lines and what
   `WorkerProcess` proves of them meet in the validator: that a run of the client over
   a worker of this program ends in the worker's verdict is a theorem about their
   composition. Likewise the budget of `ProbeRun` under `EvaluationWorker` and the
   cells of `CellRun` under `MissionWorker`, whose constants the composition ties together.
2. **Terminal refinement.** `Refine.cpp`: the iteration that improves the best
   seed, its budget and its early returns. Sequential, without callbacks, so
   behind the parts that interact.
3. **Composition.** A window with a concrete `WorkerClient` in place of
   `SupervisedRun`, over one run; `Propagation` under `ShootFixedRoute`'s probes.
4. New hazards of `PROJECT.json`. A new property takes the place of the
   shallowest one of its module.
