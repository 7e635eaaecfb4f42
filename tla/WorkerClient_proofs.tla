------------------------ MODULE WorkerClient_proofs ------------------------
(* Theorems about WorkerClient, for every cap, run bound and line bound. *)
EXTENDS WorkerClient, SequenceTheorems, TLAPS

(* Type correctness ********************************************************)

\* A step that leaves a group of variables alone keeps their types.
LEMMA Frame ==
    ASSUME TypeOK
    PROVE  /\ UNCHANGED ownerVars => OwnerType'
           /\ UNCHANGED queueVars => QueueType'
           /\ UNCHANGED runVars => RunType'
           /\ UNCHANGED dogVars => DogType'
           /\ UNCHANGED validVars => ValidatorType'
           /\ UNCHANGED childVars => ChildType'
           /\ UNCHANGED clockVars => ClockType'
  BY DEF TypeOK, OwnerType, QueueType, RunType, DogType, ValidatorType, ChildType,
         ClockType, ownerVars, queueVars, runVars, dogVars, validVars, childVars, clockVars

\* failure() keeps the queue and the log sequences of events.
LEMMA FailureType ==
    ASSUME NEW c \in ErrorCodes \cup {"none"}, QueueType, Failure(c)
    PROVE  QueueType'
<1>1. ClientError(c) \in Events
  BY DEF ClientError, Events
<1>2. ASSUME Len(queue) >= Cap PROVE Tail(queue) \in Seq(Events)
  BY <1>2, ConstantsAssumption DEF QueueType
<1>3. QED
  BY <1>1, <1>2 DEF Failure, QueueType

\* The four ways the run thread moves on.
LEMMA MoveType ==
    ASSUME TypeOK
    PROVE  /\ \A c \in ErrorCodes : ReturnWith(c) => QueueType' /\ RunType'
           /\ ReturnSilently => QueueType' /\ RunType'
           /\ \A l \in PcValues : Goto(l) => QueueType' /\ RunType'
           /\ \A c \in {"invalid_event", "io_failed"} : Throw(c) => QueueType' /\ RunType'
<1>1. ASSUME NEW c \in ErrorCodes, ReturnWith(c) PROVE QueueType' /\ RunType'
  BY <1>1, FailureType DEF TypeOK, RunType, ReturnWith, PcValues
<1>2. ASSUME ReturnSilently PROVE QueueType' /\ RunType'
  BY <1>2 DEF TypeOK, RunType, QueueType, ReturnSilently, PcValues, queueVars
<1>3. ASSUME NEW l \in PcValues, Goto(l) PROVE QueueType' /\ RunType'
  BY <1>3 DEF TypeOK, RunType, QueueType, Goto, queueVars
<1>4. ASSUME NEW c \in {"invalid_event", "io_failed"}, Throw(c) PROVE QueueType' /\ RunType'
  BY <1>4 DEF TypeOK, RunType, QueueType, Throw, PcValues, queueVars
<1>5. QED
  BY <1>1, <1>2, <1>3, <1>4

\* Ending the child keeps the child's types.
LEMMA TerminateType == TypeOK /\ Terminate => ChildType'
  BY DEF TypeOK, ChildType, Terminate

\* A client that has just been constructed has the types.
LEMMA TypeInit ==
    ASSUME Init
    PROVE  TypeOK
<1>1. OwnerType /\ DogType /\ ValidatorType /\ ClockType
  BY DEF Init, OwnerType, DogType, ValidatorType, ClockType
<1>2. QueueType /\ ChildType
  <2>1. stderr \in BOOLEAN
    BY Zenon DEF Init
  <2>2. QED BY <2>1 DEF Init, QueueType, ChildType
<1>3. RunType
  BY DEF Init, RunType, PcValues
<1>4. QED BY <1>1, <1>2, <1>3 DEF TypeOK

\* Every handler, every step of the threads and of the child keeps the types.
LEMMA TypeStep ==
    ASSUME TypeOK, [Next]_vars
    PROVE  TypeOK'
<1> USE Frame
<1>1. CASE Start
  <2>1. OwnerType' /\ ClockType' /\ ValidatorType'
    <3>1. owner' \in {"open", "closing", "closed"} /\ runs' \in Nat
      BY <1>1 DEF Start, TypeOK, OwnerType
    <3>2. active' \in BOOLEAN /\ cancel_requested' \in BOOLEAN /\ shutdown' \in BOOLEAN
      BY <1>1, Zenon DEF Start
    <3>3. ClockType' /\ ValidatorType'
      BY <1>1, Zenon DEF Start, ClockType, ValidatorType
    <3>4. QED BY <3>1, <3>2, <3>3 DEF OwnerType
  <2>2. QueueType'
    BY <1>1 DEF Start, QueueType
  <2>3. RunType'
    BY <1>1 DEF Start, RunType, PcValues
  <2>4. DogType'
    BY <1>1 DEF Start, TypeOK, DogType
  <2>5. ChildType'
    <3>1. stderr' \in BOOLEAN
      BY <1>1, Zenon DEF Start
    <3>2. QED BY <1>1, <3>1, ConstantsAssumption DEF Start, TypeOK, ChildType
  <2>6. QED BY <2>1, <2>2, <2>3, <2>4, <2>5 DEF TypeOK
<1>2. CASE Cancel \/ Destroy
  <2>1. OwnerType'
    BY <1>2 DEF Cancel, Destroy, TypeOK, OwnerType
  <2>2. QED BY <1>2, <2>1 DEF Cancel, Destroy, TypeOK
<1>3. CASE Drain
  <2>1. QueueType'
    BY <1>3 DEF Drain, TypeOK, QueueType
  <2>2. QED BY <1>3, <2>1 DEF Drain, TypeOK
<1>4. CASE WaitFor \/ DestroyJoin
  <2>1. QueueType' /\ RunType'
    BY <1>4, MoveType DEF WaitFor, DestroyJoin, PcValues
  <2>2. OwnerType'
    BY <1>4 DEF WaitFor, DestroyJoin, TypeOK, OwnerType, ownerVars
  <2>3. QED BY <1>4, <2>1, <2>2 DEF WaitFor, DestroyJoin, TypeOK
<1>5. CASE SpawnFails
  <2>1. QueueType' /\ RunType'
    BY <1>5, MoveType DEF SpawnFails, ErrorCodes
  <2>2. QED BY <1>5, <2>1 DEF SpawnFails, TypeOK
<1>6. CASE Launch
  <2>1. QueueType' /\ RunType'
    BY <1>6, MoveType DEF Launch, PcValues, SupervisingPcs
  <2>2. DogType' /\ ChildType'
    BY <1>6 DEF Launch, TypeOK, DogType, ChildType
  <2>3. QED BY <1>6, <2>1, <2>2 DEF Launch, TypeOK
<1>7. CASE \/ WriteBroken \/ WriteRefused \/ WriteSucceeds
          \/ CancelWriteSucceeds \/ CancelWriteFails \/ CancelWriteBroken
  <2>1. RunType'
    BY <1>7 DEF WriteBroken, WriteRefused, WriteSucceeds, CancelWriteSucceeds,
       CancelWriteFails, CancelWriteBroken, TypeOK, RunType, PcValues, SupervisingPcs
  <2>2. QED BY <1>7, <2>1 DEF WriteBroken, WriteRefused, WriteSucceeds,
               CancelWriteSucceeds, CancelWriteFails, CancelWriteBroken, TypeOK
<1>8. CASE WriteJoined
  <2>1. QueueType' /\ RunType'
    BY <1>8, MoveType DEF WriteJoined, ErrorCodes, PcValues, SupervisingPcs
  <2>2. QED BY <1>8, <2>1 DEF WriteJoined, TypeOK
<1>9. CASE Receive
  <2>1. /\ Head(pipe) \in Lines \cup {"torn"} /\ Head(pipe) # "torn"
        /\ Tail(pipe) \in Seq(Lines \cup {"torn"})
    BY <1>9 DEF Receive, LineReady, TypeOK, ChildType
  <2>2. Protocol(Head(pipe)) \in Events
    BY <2>1 DEF Protocol, Events
  <2>3. QueueType' /\ RunType'
    <3>1. Push(Protocol(Head(pipe))) => QueueType'
      BY <2>2 DEF Push, TypeOK, QueueType
    <3>2. QED BY <1>9, <3>1, MoveType DEF Receive
  <2>4. ValidatorType'
    <3>1. Accept(Head(pipe)) => ValidatorType'
      <4>1. \A p, q \in BOOLEAN : (p \/ q) \in BOOLEAN
        OBVIOUS
      <4>2. (Head(pipe) = "started") \in BOOLEAN /\ (Head(pipe) \in Terminals) \in BOOLEAN
        OBVIOUS
      <4>3. QED BY <4>1, <4>2, Zenon DEF Accept, TypeOK, ValidatorType
    <3>2. QED BY <1>9, <3>1 DEF Receive
  <2>5. ChildType'
    BY <1>9, <2>1 DEF Receive, TypeOK, ChildType
  <2>6. QED BY <1>9, <2>3, <2>4, <2>5 DEF Receive, TypeOK
<1>10. CASE OutputDry \/ ReadErrors \/ ReadDone
  <2>1. QueueType' /\ RunType'
    BY <1>10, MoveType DEF OutputDry, ReadErrors, ReadDone, PcValues, SupervisingPcs
  <2>2. ChildType'
    BY <1>10 DEF OutputDry, ReadErrors, ReadDone, TypeOK, ChildType
  <2>3. QED BY <1>10, <2>1, <2>2 DEF OutputDry, ReadErrors, ReadDone, TypeOK
<1>11. CASE Exited
  <2>1. QueueType' /\ RunType'
    <3>1. Goto("final") => QueueType' /\ RunType'
      BY MoveType DEF PcValues, SupervisingPcs
    <3>2. ASSUME pc' = "checks", now' = [deadline |-> timeout_due, grace |-> grace_due],
                 UNCHANGED <<queueVars, thrown, written, cancel_sent>>
          PROVE  QueueType' /\ RunType'
      BY <3>2 DEF TypeOK, QueueType, RunType, ClockType, PcValues, SupervisingPcs, queueVars
    <3>3. QED BY <1>11, <3>1, <3>2 DEF Exited
  <2>2. ChildType'
    BY <1>11 DEF Exited, TypeOK, ChildType
  <2>3. QED BY <1>11, <2>1, <2>2 DEF Exited, TypeOK
<1>12. CASE FinalVerdict
  <2>1. QueueType' /\ RunType'
    BY <1>12, MoveType DEF FinalVerdict, ErrorCodes
  <2>2. ChildType'
    BY <1>12 DEF FinalVerdict, TypeOK, ChildType
  <2>3. QED BY <1>12, <2>1, <2>2 DEF FinalVerdict, TypeOK
<1>13. CASE ShutdownCheck
  <2>1. QueueType' /\ RunType'
    BY <1>13, MoveType DEF ShutdownCheck, PcValues, SupervisingPcs
  <2>2. ChildType'
    BY <1>13, TerminateType DEF ShutdownCheck
  <2>3. QED BY <1>13, <2>1, <2>2 DEF ShutdownCheck, TypeOK
<1>14. CASE ControlCheck
  <2>1. QueueType' /\ RunType'
    BY <1>14, MoveType DEF ControlCheck, PcValues, SupervisingPcs
  <2>2. DogType'
    BY <1>14 DEF ControlCheck, TypeOK, DogType
  <2>3. QED BY <1>14, <2>1, <2>2 DEF ControlCheck, TypeOK
<1>15. CASE CancelJoined
  <2>1. QueueType' /\ RunType'
    <3>1. ASSUME cancel_sent' = TRUE, pc' = "late", UNCHANGED <<queueVars, thrown, now, written>>
          PROVE  QueueType' /\ RunType'
      BY <3>1 DEF TypeOK, QueueType, RunType, PcValues, SupervisingPcs, queueVars
    <3>2. QED BY <1>15, <3>1, MoveType DEF CancelJoined, ErrorCodes
  <2>2. QED BY <1>15, <2>1 DEF CancelJoined, TypeOK
<1>16. CASE DeadlineCheck
  <2>1. QueueType' /\ RunType'
    BY <1>16, MoveType DEF DeadlineCheck, ErrorCodes, PcValues, SupervisingPcs
  <2>2. ChildType'
    BY <1>16, TerminateType DEF DeadlineCheck
  <2>3. QED BY <1>16, <2>1, <2>2 DEF DeadlineCheck, TypeOK
<1>17. CASE Unwind
  <2>1. QueueType' /\ RunType'
    BY <1>17, MoveType DEF Unwind, PcValues
  <2>2. ChildType'
    <3>1. stderr' \in BOOLEAN
      BY <1>17, Zenon DEF Unwind
    <3>2. QED BY <1>17, <3>1 DEF Unwind, TypeOK, ChildType
  <2>3. QED BY <1>17, <2>1, <2>2 DEF Unwind, TypeOK
<1>18. CASE Catch
  <2>1. QueueType'
    BY <1>18, FailureType DEF Catch, TypeOK, RunType, ErrorCodes
  <2>2. RunType'
    BY <1>18 DEF Catch, TypeOK, RunType, PcValues
  <2>3. QED BY <1>18, <2>1, <2>2 DEF Catch, TypeOK
<1>19. CASE Finish
  <2>1. QueueType' /\ RunType'
    BY <1>19, MoveType DEF Finish, PcValues
  <2>2. OwnerType'
    BY <1>19 DEF Finish, TypeOK, OwnerType
  <2>3. QED BY <1>19, <2>1, <2>2 DEF Finish, TypeOK
<1>20. CASE Watchdog
  <2>1. DogType'
    BY <1>20 DEF Watchdog, WatchdogFires, WatchdogStops, TypeOK, DogType
  <2>2. ChildType'
    BY <1>20, TerminateType DEF Watchdog, WatchdogFires, WatchdogStops
  <2>3. QED BY <1>20, <2>1, <2>2 DEF Watchdog, WatchdogFires, WatchdogStops, TypeOK
<1>21. CASE Child
  <2>1. CASE ChildWrites \/ ChildExits
    <3>1. ChildType'
      BY <2>1 DEF ChildWrites, ChildExits, TypeOK, ChildType
    <3>2. QED BY <2>1, <3>1 DEF ChildWrites, ChildExits, TypeOK
  <2>2. CASE ChildComplains
    <3>1. stderr' \in BOOLEAN
      BY <2>2, Zenon DEF ChildComplains
    <3>2. ChildType'
      BY <2>2, <3>1 DEF ChildComplains, TypeOK, ChildType
    <3>3. QED BY <2>2, <3>2 DEF ChildComplains, TypeOK
  <2>3. QED BY <1>21, <2>1, <2>2 DEF Child
<1>22. CASE TimeoutElapses \/ GraceElapses
  <2>1. ClockType'
    BY <1>22 DEF TimeoutElapses, GraceElapses, TypeOK, ClockType
  <2>2. QED BY <1>22, <2>1 DEF TimeoutElapses, GraceElapses, TypeOK
<1>23. CASE UNCHANGED vars
  BY <1>23 DEF vars, TypeOK
<1>24. QED
  BY <1>1, <1>2, <1>3, <1>4, <1>5, <1>6, <1>7, <1>8, <1>9, <1>10, <1>11, <1>12,
     <1>13, <1>14, <1>15, <1>16, <1>17, <1>18, <1>19, <1>20, <1>21, <1>22, <1>23
     DEF Next, Owner, RunThread

\* Every variable keeps its type: the atomics and the queue the owner and the
\* run thread share, the run's locals, the validator, the child and the clocks.
THEOREM TypeCorrect == Spec => []TypeOK
  BY TypeInit, TypeStep, PTL DEF Spec

(* The inductive invariant *************************************************)

\* Which child, which watchdog and which flags go with each place of the run.
Lifecycle ==
    /\ active => pc \notin {"idle", "done"}
    /\ ~active => pc \in {"idle", "done"}
    /\ shutdown => owner # "open"
    /\ owner # "open" => shutdown
    /\ owner = "closed" => pc = "idle"
    /\ pc \in SupervisingPcs \ {"final"} => child \in {"running", "zombie"}
    /\ pc = "final" => child = "reaped"
    /\ pc = "launch" => child = "none"
    /\ pc \in {"idle", "catch", "finish", "done"} => child \in {"none", "reaped"}
    /\ child = "zombie" \/ pc = "final" => exit_code # "none"
    /\ watchdog = "write" => pc \in {"writing", "write_join"}
    /\ watchdog = "cancel" => pc \in {"cancel_write", "cancel_join"}
    /\ fired = "shutdown" => shutdown

\* A kill by the client is known to the run thread before it reads again.
KillKnown ==
    /\ fired # "none" =>
          pc \notin {"launch", "poll", "poll_err", "reap", "checks", "control", "late", "final"}
    /\ pc \in SupervisingPcs /\ exit_code = "killed" => fired # "none"
    /\ pc = "launch" => exit_code = "none"

NoError == \A i \in 1..Len(log) : log[i].type # "client_error"

Verdict ==
    \/ LastType = "client_error"
    \/ LastType \in Terminals /\ exit_code = "zero" /\ child = "reaped"

\* The log has at most one terminal, last but for one error, and no error while
\* the run can still read, report or throw.
LogInv ==
    /\ pc \in SupervisingPcs \cup {"launch", "catch"} => NoError
    /\ pc = "unwind" /\ thrown # "none" => NoError
    /\ pc = "catch" => thrown # "none"
    /\ pc \in SupervisingPcs \cup {"launch"} => thrown = "none"
    /\ pc = "launch" => log = <<>>
    /\ HasTerminal(log) => terminal
    /\ terminal /\ NoError => LastType \in Terminals
    /\ pc = "unwind" /\ thrown = "none" /\ ~shutdown => Verdict
    /\ pc \in {"finish", "done"} /\ ~shutdown => Verdict

\* What the run thread has seen of a cause was, and so still is, the case.
CauseInv ==
    /\ fired = "cancel" => cancel_requested
    /\ fired = "timeout" /\ pc \in {"writing", "write_join"} => timeout_due
    /\ fired = "timeout" /\ pc \in {"cancel_write", "cancel_join"} => grace_due \/ shutdown
    /\ pc \in {"cancel_write", "cancel_join"} \/ cancel_sent => cancel_requested
    /\ now.grace => grace_due
    /\ now.deadline => timeout_due
    /\ Reported("nonzero_exit") \/ Reported("premature_eof") => child = "reaped"
    /\ ErrorsHaveCauses

\* What one appended event changes in the log.
LEMMA Appended ==
    ASSUME NEW e \in Events, log \in Seq(Events), log' = Append(log, e)
    PROVE  /\ LastType' = e.type
           /\ NoError' <=> NoError /\ e.type # "client_error"
           /\ HasTerminal(log)' <=> HasTerminal(log) \/ e.type \in Terminals
           /\ \A c : Reported(c)' <=> Reported(c) \/ e = ClientError(c)
<1>1. /\ Len(log') = Len(log) + 1 /\ Len(log) \in Nat /\ log' # <<>>
      /\ log'[Len(log')] = e
      /\ \A i \in 1..Len(log) : log'[i] = log[i]
  OBVIOUS
<1>2. \A i : i \in 1..Len(log') <=> i \in 1..Len(log) \/ i = Len(log')
  BY <1>1
<1>3. LastType' = e.type
  BY <1>1 DEF LastType
<1>4. NoError' <=> NoError /\ e.type # "client_error"
  BY <1>1, <1>2 DEF NoError
<1>5. HasTerminal(log)' <=> HasTerminal(log) \/ e.type \in Terminals
  BY <1>1, <1>2 DEF HasTerminal
<1>6. \A c : Reported(c)' <=> Reported(c) \/ e = ClientError(c)
  BY <1>1, <1>2 DEF Reported
<1>7. QED BY <1>3, <1>4, <1>5, <1>6

\* An unchanged log has unchanged views.
LEMMA SameLog ==
    ASSUME UNCHANGED log
    PROVE  /\ LastType' = LastType /\ (NoError' <=> NoError)
           /\ HasTerminal(log)' <=> HasTerminal(log)
           /\ \A c : Reported(c)' <=> Reported(c)
  BY DEF LastType, NoError, HasTerminal, Reported

\* failure() leaves an error last and no new terminal.
LEMMA FailureLog ==
    ASSUME NEW c \in ErrorCodes \cup {"none"}, log \in Seq(Events), Failure(c)
    PROVE  /\ LastType' = "client_error" /\ ~NoError'
           /\ HasTerminal(log)' <=> HasTerminal(log)
           /\ \A r : Reported(r)' <=> Reported(r) \/ r = c
<1>1. ClientError(c) \in Events /\ ClientError(c).type = "client_error"
  BY DEF ClientError, Events
<1>2. log' = Append(log, ClientError(c))
  BY DEF Failure
<1>3. \A r : ClientError(c) = ClientError(r) <=> r = c
  BY DEF ClientError
<1>4. QED
  BY <1>1, <1>2, <1>3, Appended DEF Terminals

\* start() leaves a log without events.
LEMMA EmptyLog ==
    ASSUME log' = <<>>
    PROVE  LastType' = "none" /\ NoError' /\ ~HasTerminal(log)' /\ \A r : ~Reported(r)'
  BY DEF LastType, NoError, HasTerminal, Reported

\* A log without a client error reports none.
LEMMA NoErrorNoReport == NoError => \A r : ~Reported(r)
  BY DEF NoError, Reported, ClientError

\* ReturnWith(c) leaves c as the only report of a run that had none.
LEMMA ReturnReports ==
    ASSUME log \in Seq(Events), NoError
    PROVE  \A c \in ErrorCodes : ReturnWith(c) =>
               /\ \A r : Reported(r)' <=> r = c
               /\ LastType' = "client_error" /\ ~NoError'
               /\ HasTerminal(log)' <=> HasTerminal(log)
               /\ pc' = "unwind" /\ UNCHANGED <<thrown, now, written, cancel_sent>>
<1> SUFFICES ASSUME NEW c \in ErrorCodes, ReturnWith(c)
             PROVE  /\ \A r : Reported(r)' <=> r = c
                    /\ LastType' = "client_error" /\ ~NoError'
                    /\ HasTerminal(log)' <=> HasTerminal(log)
                    /\ pc' = "unwind" /\ UNCHANGED <<thrown, now, written, cancel_sent>>
  OBVIOUS
<1>1. Failure(c) /\ pc' = "unwind" /\ UNCHANGED <<thrown, now, written, cancel_sent>>
  BY DEF ReturnWith
<1>2. QED
  BY <1>1, FailureLog, NoErrorNoReport

\* The four moves of a run thread that may still report keep LogInv.
LEMMA MoveKeepsLogInv ==
    ASSUME TypeOK, LogInv, pc \in SupervisingPcs \cup {"launch"}, UNCHANGED validVars
    PROVE  /\ \A c \in ErrorCodes : ReturnWith(c) => LogInv'
           /\ \A c \in {"invalid_event", "io_failed"} : Throw(c) => LogInv'
           /\ \A l \in SupervisingPcs : Goto(l) => LogInv'
           /\ ReturnSilently /\ (shutdown' \/ Verdict') => LogInv'
<1> log \in Seq(Events) /\ NoError /\ thrown = "none"
  BY DEF TypeOK, QueueType, LogInv
<1>1. ASSUME NEW c \in ErrorCodes, ReturnWith(c) PROVE LogInv'
  BY <1>1, ReturnReports DEF LogInv, Verdict, SupervisingPcs, validVars
<1>2. ASSUME NEW c \in {"invalid_event", "io_failed"}, Throw(c) PROVE LogInv'
  BY <1>2, SameLog DEF LogInv, Throw, SupervisingPcs, validVars, queueVars
<1>3. ASSUME NEW l \in SupervisingPcs, Goto(l) PROVE LogInv'
  BY <1>3, SameLog DEF LogInv, Goto, SupervisingPcs, validVars, queueVars
<1>4. ASSUME ReturnSilently, shutdown' \/ Verdict' PROVE LogInv'
  BY <1>4, SameLog DEF LogInv, ReturnSilently, SupervisingPcs, validVars, queueVars
<1>5. QED
  BY <1>1, <1>2, <1>3, <1>4

\* The flags, the place in run() and the child move together: every step keeps
\* Lifecycle.
LEMMA LifecycleStep ==
    ASSUME TypeOK, Lifecycle, [Next]_vars
    PROVE  Lifecycle'
<1> USE DEF Lifecycle, SupervisingPcs, ownerVars, runVars, dogVars, childVars
<1>1. CASE Start
  BY <1>1 DEF Start
<1>2. CASE Cancel \/ Drain \/ Destroy
  BY <1>2 DEF Cancel, Drain, Destroy
<1>3. CASE WaitFor \/ DestroyJoin
  BY <1>3 DEF WaitFor, DestroyJoin, Goto
<1>4. CASE SpawnFails
  BY <1>4 DEF SpawnFails, ReturnWith
<1>5. CASE Launch
  BY <1>5 DEF Launch, Goto, Throw
<1>6. CASE \/ WriteBroken \/ WriteRefused \/ WriteSucceeds
          \/ CancelWriteSucceeds \/ CancelWriteFails \/ CancelWriteBroken
  BY <1>6 DEF WriteBroken, WriteRefused, WriteSucceeds, CancelWriteSucceeds,
         CancelWriteFails, CancelWriteBroken
<1>7. CASE WriteJoined
  BY <1>7 DEF WriteJoined, ReturnSilently, ReturnWith, Goto
<1>8. CASE Receive
  BY <1>8 DEF Receive, Throw
<1>9. CASE OutputDry \/ ReadErrors \/ ReadDone
  BY <1>9 DEF OutputDry, ReadErrors, ReadDone, Goto
<1>10. CASE Exited
  BY <1>10 DEF Exited, Goto
<1>11. CASE FinalVerdict
  BY <1>11 DEF FinalVerdict, ReturnSilently, ReturnWith, Throw
<1>12. CASE ShutdownCheck
  BY <1>12 DEF ShutdownCheck, Terminate, ReturnSilently, Goto
<1>13. CASE ControlCheck
  BY <1>13 DEF ControlCheck, Goto, Throw
<1>14. CASE CancelJoined
  BY <1>14 DEF CancelJoined, ReturnSilently, ReturnWith
<1>15. CASE DeadlineCheck
  BY <1>15 DEF DeadlineCheck, Terminate, ReturnWith, Goto
<1>16. CASE Unwind
  BY <1>16 DEF Unwind, Goto
<1>17. CASE Catch
  BY <1>17 DEF Catch
<1>18. CASE Finish
  BY <1>18 DEF Finish, Goto
<1>19. CASE Watchdog
  BY <1>19 DEF Watchdog, WatchdogFires, WatchdogStops, Terminate
<1>20. CASE Child
  BY <1>20 DEF Child, ChildWrites, ChildComplains, ChildExits
<1>21. CASE TimeoutElapses \/ GraceElapses
  BY <1>21 DEF TimeoutElapses, GraceElapses
<1>22. CASE UNCHANGED vars
  BY <1>22 DEF vars
<1>23. QED
  BY <1>1, <1>2, <1>3, <1>4, <1>5, <1>6, <1>7, <1>8, <1>9, <1>10, <1>11, <1>12, <1>13,
     <1>14, <1>15, <1>16, <1>17, <1>18, <1>19, <1>20, <1>21, <1>22
     DEF Next, Owner, RunThread

\* No step lets the run thread read again after the client has killed the child.
LEMMA KillKnownStep ==
    ASSUME TypeOK, Lifecycle, KillKnown, [Next]_vars
    PROVE  KillKnown'
<1> USE DEF Lifecycle, KillKnown, SupervisingPcs, ownerVars, runVars, dogVars, childVars
<1>1. CASE Start
  BY <1>1 DEF Start
<1>2. CASE Cancel \/ Drain \/ Destroy
  BY <1>2 DEF Cancel, Drain, Destroy
<1>3. CASE WaitFor \/ DestroyJoin
  BY <1>3 DEF WaitFor, DestroyJoin, Goto
<1>4. CASE SpawnFails
  BY <1>4 DEF SpawnFails, ReturnWith
<1>5. CASE Launch
  BY <1>5 DEF Launch, Goto, Throw
<1>6. CASE \/ WriteBroken \/ WriteRefused \/ WriteSucceeds
          \/ CancelWriteSucceeds \/ CancelWriteFails \/ CancelWriteBroken
  BY <1>6 DEF WriteBroken, WriteRefused, WriteSucceeds, CancelWriteSucceeds,
         CancelWriteFails, CancelWriteBroken
<1>7. CASE WriteJoined
  BY <1>7 DEF WriteJoined, ReturnSilently, ReturnWith, Goto
<1>8. CASE Receive
  BY <1>8 DEF Receive, Throw
<1>9. CASE OutputDry \/ ReadErrors \/ ReadDone
  BY <1>9 DEF OutputDry, ReadErrors, ReadDone, Goto
<1>10. CASE Exited
  BY <1>10 DEF Exited, Goto
<1>11. CASE FinalVerdict
  BY <1>11 DEF FinalVerdict, ReturnSilently, ReturnWith, Throw
<1>12. CASE ShutdownCheck
  BY <1>12 DEF ShutdownCheck, Terminate, ReturnSilently, Goto
<1>13. CASE ControlCheck
  BY <1>13 DEF ControlCheck, Goto, Throw
<1>14. CASE CancelJoined
  BY <1>14 DEF CancelJoined, ReturnSilently, ReturnWith
<1>15. CASE DeadlineCheck
  BY <1>15 DEF DeadlineCheck, Terminate, ReturnWith, Goto
<1>16. CASE Unwind
  BY <1>16 DEF Unwind, Goto
<1>17. CASE Catch
  BY <1>17 DEF Catch
<1>18. CASE Finish
  BY <1>18 DEF Finish, Goto
<1>19. CASE Watchdog
  BY <1>19 DEF Watchdog, WatchdogFires, WatchdogStops, Terminate
<1>20. CASE Child
  BY <1>20 DEF Child, ChildWrites, ChildComplains, ChildExits
<1>21. CASE TimeoutElapses \/ GraceElapses
  BY <1>21 DEF TimeoutElapses, GraceElapses
<1>22. CASE UNCHANGED vars
  BY <1>22 DEF vars
<1>23. QED
  BY <1>1, <1>2, <1>3, <1>4, <1>5, <1>6, <1>7, <1>8, <1>9, <1>10, <1>11, <1>12, <1>13,
     <1>14, <1>15, <1>16, <1>17, <1>18, <1>19, <1>20, <1>21, <1>22
     DEF Next, Owner, RunThread

\* push() appends at most one terminal and failure() one error; every other step
\* leaves the log alone, so LogInv stays.
LEMMA LogInvStep ==
    ASSUME TypeOK, Lifecycle, KillKnown, LogInv, [Next]_vars
    PROVE  LogInv'
<1> log \in Seq(Events) /\ thrown \in ErrorCodes \cup {"none"}
  BY DEF TypeOK, QueueType, RunType, ErrorCodes
<1> USE SameLog DEF Lifecycle, LogInv, Verdict, SupervisingPcs, ownerVars, queueVars, runVars,
         dogVars, validVars, childVars
<1>1. CASE Start
  BY <1>1, EmptyLog DEF Start
<1>2. CASE Cancel \/ Drain \/ Destroy
  BY <1>2 DEF Cancel, Drain, Destroy
<1>3. CASE WaitFor \/ DestroyJoin
  BY <1>3 DEF WaitFor, DestroyJoin, Goto
<1>4. CASE SpawnFails
  BY <1>4, MoveKeepsLogInv DEF SpawnFails, ErrorCodes
<1>5. CASE Launch
  BY <1>5, MoveKeepsLogInv DEF Launch, ErrorCodes
<1>6. CASE \/ WriteBroken \/ WriteRefused \/ WriteSucceeds
          \/ CancelWriteSucceeds \/ CancelWriteFails \/ CancelWriteBroken
  BY <1>6 DEF WriteBroken, WriteRefused, WriteSucceeds, CancelWriteSucceeds,
         CancelWriteFails, CancelWriteBroken
<1>7. CASE WriteJoined
  <2>1. pc \in SupervisingPcs \cup {"launch"} /\ UNCHANGED validVars
    BY <1>7 DEF WriteJoined
  <2>2. CASE ReturnWith("cancelled") \/ ReturnWith("timeout") \/ ReturnWith("request_write_failed")
    BY <2>1, <2>2, MoveKeepsLogInv DEF ErrorCodes
  <2>3. CASE Goto("poll")
    BY <2>1, <2>3, MoveKeepsLogInv
  <2>4. CASE fired = "shutdown" /\ ReturnSilently
    BY <1>7, <2>1, <2>4, MoveKeepsLogInv DEF WriteJoined
  <2>5. QED BY <1>7, <2>2, <2>3, <2>4 DEF WriteJoined
<1>8. CASE Receive
  <2>1. CASE Push(Protocol(Head(pipe))) /\ Accept(Head(pipe)) /\ Accepted(Head(pipe)) /\ UNCHANGED runVars
    <3>1. /\ Protocol(Head(pipe)) \in Events /\ Protocol(Head(pipe)).type = Head(pipe)
          /\ Head(pipe) # "client_error"
      BY <1>8 DEF Receive, LineReady, TypeOK, ChildType, Protocol, Events, Lines, Terminals
    <3>2. /\ LastType' = Head(pipe) /\ (NoError' <=> NoError)
          /\ HasTerminal(log)' <=> HasTerminal(log) \/ Head(pipe) \in Terminals
      BY <2>1, <3>1, Appended DEF Push
    <3>3. ~HasTerminal(log) /\ (terminal' <=> Head(pipe) \in Terminals)
      BY <2>1 DEF Accepted, Accept
    <3>4. QED BY <1>8, <2>1, <3>2, <3>3 DEF Receive
  <2>2. CASE Throw("invalid_event") /\ UNCHANGED validVars
    BY <1>8, <2>2, MoveKeepsLogInv DEF Receive
  <2>3. QED BY <1>8, <2>1, <2>2 DEF Receive
<1>9. CASE OutputDry \/ ReadErrors \/ ReadDone
  BY <1>9 DEF OutputDry, ReadErrors, ReadDone, Goto
<1>10. CASE Exited
  BY <1>10 DEF Exited, Goto
<1>11. CASE FinalVerdict
  <2>1. pc \in SupervisingPcs \cup {"launch"} /\ UNCHANGED validVars
    BY <1>11 DEF FinalVerdict
  <2>2. CASE ReturnWith("nonzero_exit") \/ ReturnWith("premature_eof")
    BY <2>1, <2>2, MoveKeepsLogInv DEF ErrorCodes
  <2>3. CASE Throw("invalid_event")
    BY <2>1, <2>3, MoveKeepsLogInv
  <2>4. CASE ReturnSilently /\ exit_code = "zero" /\ terminal
    <3>1. Verdict'
      BY <1>11, <2>4 DEF FinalVerdict, ReturnSilently
    <3>2. QED BY <2>1, <2>4, <3>1, MoveKeepsLogInv
  <2>5. QED BY <1>11, <2>2, <2>3, <2>4 DEF FinalVerdict
<1>12. CASE ShutdownCheck
  BY <1>12, MoveKeepsLogInv DEF ShutdownCheck, ErrorCodes
<1>13. CASE ControlCheck
  BY <1>13, MoveKeepsLogInv DEF ControlCheck, ErrorCodes
<1>14. CASE CancelJoined
  <2>1. ASSUME pc' = "late", UNCHANGED <<queueVars, thrown, validVars>> PROVE LogInv'
    BY <1>14, <2>1 DEF CancelJoined
  <2>2. QED BY <1>14, <2>1, MoveKeepsLogInv DEF CancelJoined, ErrorCodes
<1>15. CASE DeadlineCheck
  BY <1>15, MoveKeepsLogInv DEF DeadlineCheck, ErrorCodes
<1>16. CASE Unwind
  BY <1>16 DEF Unwind, Goto
<1>17. CASE Catch
  BY <1>17, FailureLog DEF Catch
<1>18. CASE Finish
  BY <1>18 DEF Finish, Goto
<1>19. CASE Watchdog
  BY <1>19 DEF Watchdog, WatchdogFires, WatchdogStops, Terminate
<1>20. CASE Child
  BY <1>20 DEF Child, ChildWrites, ChildComplains, ChildExits
<1>21. CASE TimeoutElapses \/ GraceElapses
  BY <1>21 DEF TimeoutElapses, GraceElapses
<1>22. CASE UNCHANGED vars
  BY <1>22 DEF vars
<1>23. QED
  BY <1>1, <1>2, <1>3, <1>4, <1>5, <1>6, <1>7, <1>8, <1>9, <1>10, <1>11, <1>12, <1>13,
     <1>14, <1>15, <1>16, <1>17, <1>18, <1>19, <1>20, <1>21, <1>22
     DEF Next, Owner, RunThread

\* Every failure() is called with a code whose cause has been seen, and the causes
\* stay true until the next start().
LEMMA CauseInvStep ==
    ASSUME TypeOK, Lifecycle, KillKnown, LogInv, CauseInv, [Next]_vars
    PROVE  CauseInv'
<1> log \in Seq(Events) /\ thrown \in {"none", "invalid_event", "io_failed"}
  BY DEF TypeOK, QueueType, RunType
<1> (pc \in SupervisingPcs \cup {"launch", "catch"}) => NoError
  BY DEF LogInv
<1> USE SameLog DEF Lifecycle, CauseInv, ErrorsHaveCauses, SupervisingPcs, ownerVars, queueVars, runVars,
         dogVars, validVars, childVars, clockVars
<1>1. CASE Start
  BY <1>1, EmptyLog DEF Start
<1>2. CASE Cancel \/ Drain \/ Destroy
  BY <1>2 DEF Cancel, Drain, Destroy
<1>3. CASE WaitFor \/ DestroyJoin
  BY <1>3 DEF WaitFor, DestroyJoin, Goto
<1>4. CASE SpawnFails
  BY <1>4, ReturnReports DEF SpawnFails, ErrorCodes
<1>5. CASE Launch
  <2>1. UNCHANGED log /\ NoError /\ fired = "none"
    BY <1>5 DEF Launch, Goto, Throw, KillKnown
  <2>2. pc' \in {"writing", "unwind"} /\ UNCHANGED <<now, cancel_sent, fired, clockVars, cancel_requested>>
    BY <1>5 DEF Launch, Goto, Throw
  <2>3. QED BY <2>1, <2>2, NoErrorNoReport
<1>6. CASE \/ WriteBroken \/ WriteRefused \/ WriteSucceeds
          \/ CancelWriteSucceeds \/ CancelWriteFails \/ CancelWriteBroken
  BY <1>6 DEF WriteBroken, WriteRefused, WriteSucceeds, CancelWriteSucceeds,
         CancelWriteFails, CancelWriteBroken
<1>7. CASE WriteJoined
  BY <1>7, ReturnReports DEF WriteJoined, ReturnSilently, Goto, Throw, Terminate, ErrorCodes
<1>8. CASE Receive
  <2>1. CASE Push(Protocol(Head(pipe))) /\ UNCHANGED runVars
    <3>1. Protocol(Head(pipe)) \in Events /\ \A c : Protocol(Head(pipe)) # ClientError(c)
      BY <1>8 DEF Receive, LineReady, TypeOK, ChildType, Protocol, ClientError, Events,
                  Lines, Terminals
    <3>2. \A r : Reported(r)' <=> Reported(r)
      BY <2>1, <3>1, Appended DEF Push
    <3>3. \A r : ~Reported(r)
      BY <1>8, NoErrorNoReport DEF Receive, LogInv
    <3>4. QED BY <1>8, <2>1, <3>2, <3>3 DEF Receive
  <2>2. CASE Throw("invalid_event") /\ UNCHANGED validVars
    BY <1>8, <2>2 DEF Receive, Throw
  <2>3. QED BY <1>8, <2>1, <2>2 DEF Receive
<1>9. CASE OutputDry \/ ReadErrors \/ ReadDone
  BY <1>9 DEF OutputDry, ReadErrors, ReadDone, Goto
<1>10. CASE Exited
  BY <1>10 DEF Exited, Goto
<1>11. CASE FinalVerdict
  <2>1. /\ pc = "final" /\ child = "reaped" /\ exit_code \in {"zero", "nonzero"}
        /\ fired = "none" /\ \A r : ~Reported(r)
    BY <1>11, NoErrorNoReport DEF FinalVerdict, KillKnown, TypeOK, ChildType
  <2>2. UNCHANGED <<ownerVars, dogVars, validVars, child, exit_code, clockVars, now,
                    cancel_sent>>
    BY <1>11 DEF FinalVerdict, ReturnSilently, ReturnWith, Throw
  <2>3. CASE exit_code # "zero" /\ ReturnWith("nonzero_exit")
    BY <2>1, <2>2, <2>3, ReturnReports DEF ErrorCodes
  <2>4. CASE exit_code = "zero" /\ ~terminal /\ ReturnWith("premature_eof")
    BY <2>1, <2>2, <2>4, ReturnReports DEF ErrorCodes
  <2>5. CASE UNCHANGED log /\ pc' = "unwind"
    BY <2>1, <2>2, <2>5
  <2>6. QED BY <1>11, <2>3, <2>4, <2>5 DEF FinalVerdict, ReturnSilently, Throw
<1>12. CASE ShutdownCheck
  BY <1>12 DEF ShutdownCheck, Terminate, ReturnSilently, Goto
<1>13. CASE ControlCheck
  <2>1. /\ UNCHANGED <<ownerVars, fired, validVars, childVars, clockVars, log, now, cancel_sent>>
        /\ pc' = "cancel_write" => cancel_requested
        /\ pc' \in {"cancel_write", "late", "unwind"}
    BY <1>13 DEF ControlCheck, Goto, Throw
  <2>2. fired = "none" /\ \A r : ~Reported(r)
    BY <1>13, NoErrorNoReport DEF ControlCheck, KillKnown, TypeOK, DogType
  <2>3. QED BY <2>1, <2>2
<1>14. CASE CancelJoined
  BY <1>14, ReturnReports DEF CancelJoined, ReturnSilently, Goto, Throw, Terminate, ErrorCodes
<1>15. CASE DeadlineCheck
  BY <1>15, ReturnReports DEF DeadlineCheck, ReturnSilently, Goto, Throw, Terminate, ErrorCodes
<1>16. CASE Unwind
  BY <1>16 DEF Unwind, Goto
<1>17. CASE Catch
  <2>1. /\ UNCHANGED <<ownerVars, dogVars, validVars, childVars, clockVars, now, cancel_sent>>
        /\ pc' = "finish"
    BY <1>17 DEF Catch
  <2>2. \A r : Reported(r)' <=> r = thrown
    BY <1>17, FailureLog, NoErrorNoReport DEF Catch, ErrorCodes
  <2>3. QED BY <2>1, <2>2
<1>18. CASE Finish
  BY <1>18 DEF Finish, Goto
<1>19. CASE Watchdog
  BY <1>19 DEF Watchdog, WatchdogFires, WatchdogStops, Terminate
<1>20. CASE Child
  BY <1>20 DEF Child, ChildWrites, ChildComplains, ChildExits
<1>21. CASE TimeoutElapses \/ GraceElapses
  BY <1>21 DEF TimeoutElapses, GraceElapses
<1>22. CASE UNCHANGED vars
  BY <1>22 DEF vars
<1>23. QED
  BY <1>1, <1>2, <1>3, <1>4, <1>5, <1>6, <1>7, <1>8, <1>9, <1>10, <1>11, <1>12, <1>13,
     <1>14, <1>15, <1>16, <1>17, <1>18, <1>19, <1>20, <1>21, <1>22
     DEF Next, Owner, RunThread
\* What a step does to the queue and the log together.
LEMMA QueueMoves ==
    ASSUME TypeOK, [Next]_vars
    PROVE  \/ UNCHANGED <<queue, log>>
           \/ queue' = <<>> /\ log' \in {log, <<>>}
           \/ \E line \in Lines : Push(Protocol(line)) /\ Len(queue) < Cap
           \/ \E c \in ErrorCodes \cup {"none"} : Failure(c)
<1> USE DEF ErrorCodes, queueVars, ReturnSilently, ReturnWith, Goto, Throw
<1>1. CASE Start \/ Drain
  BY <1>1 DEF Start, Drain
<1>2. CASE Cancel \/ WaitFor \/ Destroy \/ DestroyJoin
  BY <1>2 DEF Cancel, WaitFor, Destroy, DestroyJoin
<1>3. CASE SpawnFails \/ Launch \/ WriteJoined
  BY <1>3 DEF SpawnFails, Launch, WriteJoined
<1>4. CASE \/ WriteBroken \/ WriteRefused \/ WriteSucceeds
          \/ CancelWriteSucceeds \/ CancelWriteFails \/ CancelWriteBroken
  BY <1>4 DEF WriteBroken, WriteRefused, WriteSucceeds, CancelWriteSucceeds,
              CancelWriteFails, CancelWriteBroken
<1>5. CASE Receive
  BY <1>5 DEF Receive, LineReady, TypeOK, ChildType
<1>6. CASE OutputDry \/ ReadErrors \/ ReadDone \/ Exited \/ FinalVerdict
  BY <1>6 DEF OutputDry, ReadErrors, ReadDone, Exited, FinalVerdict
<1>7. CASE ShutdownCheck \/ ControlCheck \/ CancelJoined \/ DeadlineCheck
  BY <1>7 DEF ShutdownCheck, ControlCheck, CancelJoined, DeadlineCheck
<1>8. CASE Catch
  BY <1>8 DEF Catch, TypeOK, RunType
<1>9. CASE Unwind \/ Finish
  BY <1>9 DEF Unwind, Finish
<1>10. CASE Watchdog \/ Child
  BY <1>10 DEF Watchdog, WatchdogFires, WatchdogStops, Child, ChildWrites, ChildComplains,
               ChildExits
<1>11. CASE TimeoutElapses \/ GraceElapses \/ UNCHANGED vars
  BY <1>11 DEF TimeoutElapses, GraceElapses, vars
<1>12. QED
  BY <1>1, <1>2, <1>3, <1>4, <1>5, <1>6, <1>7, <1>8, <1>9, <1>10, <1>11
     DEF Next, Owner, RunThread

\* push() on a queue with room, failure() with its eviction and a drain each leave
\* the queue the newest part of the log.
LEMMA QueueIsNewestStep ==
    ASSUME TypeOK, QueueIsNewest, [Next]_vars
    PROVE  QueueIsNewest'
<1>1. queue \in Seq(Events) /\ log \in Seq(Events) /\ Cap \in Nat \ {0}
  BY ConstantsAssumption DEF TypeOK, QueueType
<1>2. CASE UNCHANGED <<queue, log>>
  BY <1>2 DEF QueueIsNewest
<1>3. CASE queue' = <<>> /\ log' \in {log, <<>>}
  <2>1. Len(queue') = 0 /\ Len(log') \in Nat
    BY <1>1, <1>3
  <2>2. QED BY <1>1, <2>1 DEF QueueIsNewest
<1>4. ASSUME NEW e, queue' = Append(queue, e), log' = Append(log, e), Len(queue) < Cap
      PROVE  QueueIsNewest'
  <2>1. /\ Len(queue') = Len(queue) + 1 /\ queue'[Len(queue) + 1] = e
        /\ \A i \in 1..Len(queue) : queue'[i] = queue[i]
    BY <1>1, <1>4
  <2>2. /\ Len(log') = Len(log) + 1 /\ log'[Len(log) + 1] = e
        /\ \A i \in 1..Len(log) : log'[i] = log[i]
    BY <1>1, <1>4
  <2>3. /\ Len(queue) \in Nat /\ Len(log) \in Nat /\ Len(queue) <= Len(log)
        /\ \A i \in 1..Len(queue) : /\ queue[i] = log[Len(log) - Len(queue) + i]
                                    /\ Len(log) - Len(queue) + i \in 1..Len(log)
    BY <1>1 DEF QueueIsNewest
  <2>4. ASSUME NEW i \in 1..Len(queue')
        PROVE  queue'[i] = log'[Len(log') - Len(queue') + i]
    <3>1. CASE i = Len(queue) + 1
      BY <2>1, <2>2, <2>3, <3>1
    <3>2. CASE i \in 1..Len(queue)
      <4>1. Len(log') - Len(queue') + i = Len(log) - Len(queue) + i
        BY <2>1, <2>2, <2>3, <3>2
      <4>2. log'[Len(log) - Len(queue) + i] = log[Len(log) - Len(queue) + i]
        BY <2>2, <2>3, <3>2
      <4>3. queue'[i] = log[Len(log) - Len(queue) + i]
        BY <2>1, <2>3, <3>2
      <4>4. QED BY <4>1, <4>2, <4>3
    <3>3. QED BY <2>1, <2>3, <2>4, <3>1, <3>2
  <2>5. Len(queue') <= Cap /\ Len(queue') <= Len(log')
    BY <1>1, <1>4, <2>1, <2>2, <2>3
  <2>6. QED BY <2>4, <2>5 DEF QueueIsNewest
<1>5. ASSUME NEW e, queue' = Append(Tail(queue), e), log' = Append(log, e), Len(queue) >= Cap
      PROVE  QueueIsNewest'
  <2>1. /\ queue # <<>> /\ Tail(queue) \in Seq(Events)
        /\ Len(Tail(queue)) = Len(queue) - 1
        /\ \A i \in 1..Len(Tail(queue)) : Tail(queue)[i] = queue[i + 1]
    BY <1>1, <1>5
  <2>2. /\ Len(queue') = Len(queue) /\ queue'[Len(queue)] = e
        /\ \A i \in 1..(Len(queue) - 1) : queue'[i] = queue[i + 1]
    BY <1>1, <1>5, <2>1
  <2>3. /\ Len(log') = Len(log) + 1 /\ log'[Len(log) + 1] = e
        /\ \A i \in 1..Len(log) : log'[i] = log[i]
    BY <1>1, <1>5
  <2>4. ASSUME NEW i \in 1..Len(queue')
        PROVE  queue'[i] = log'[Len(log') - Len(queue') + i]
    <3>1. CASE i = Len(queue)
      BY <1>1, <2>2, <2>3, <3>1
    <3>2. CASE i < Len(queue)
      <4>1. i + 1 \in 1..Len(queue) /\ i \in 1..(Len(queue) - 1)
        BY <1>1, <2>2, <2>4, <3>2
      <4>2. queue[i + 1] = log[Len(log) - Len(queue) + i + 1]
        BY <1>1, <4>1 DEF QueueIsNewest
      <4>3. Len(log) - Len(queue) + i + 1 \in 1..Len(log)
        BY <1>1, <4>1 DEF QueueIsNewest
      <4>4. QED BY <1>1, <2>2, <2>3, <4>1, <4>2, <4>3
    <3>3. QED BY <1>1, <2>2, <2>4, <3>1, <3>2
  <2>5. Len(queue') <= Cap /\ Len(queue') <= Len(log')
    BY <1>1, <2>2, <2>3 DEF QueueIsNewest
  <2>6. QED BY <2>4, <2>5 DEF QueueIsNewest
<1>6. CASE \E line \in Lines : Push(Protocol(line)) /\ Len(queue) < Cap
  BY <1>4, <1>6 DEF Push
<1>7. CASE \E c \in ErrorCodes \cup {"none"} : Failure(c)
  <2> PICK c : Failure(c)
    BY <1>7
  <2>1. CASE Len(queue) >= Cap
    BY <1>5, <2>1 DEF Failure
  <2>2. CASE Len(queue) < Cap
    BY <1>1, <1>4, <2>2 DEF Failure
  <2>3. QED BY <1>1, <2>1, <2>2
<1>8. QED
  BY <1>2, <1>3, <1>6, <1>7, QueueMoves

-----------------------------------------------------------------------------
\* The inductive invariant.
Inv == TypeOK /\ Lifecycle /\ KillKnown /\ LogInv /\ CauseInv

\* The constructed client satisfies the inductive invariant.
LEMMA InvInit == Init => Inv /\ QueueIsNewest
<1> SUFFICES ASSUME Init PROVE Inv /\ QueueIsNewest
  OBVIOUS
<1>1. TypeOK
  BY TypeInit
<1>2. Lifecycle /\ KillKnown
  BY DEF Init, Lifecycle, KillKnown, SupervisingPcs
<1>3. NoError /\ ~HasTerminal(log) /\ \A c : ~Reported(c)
  BY DEF Init, NoError, HasTerminal, Reported
<1>4. LogInv
  BY <1>3 DEF Init, LogInv, SupervisingPcs
<1>5. CauseInv
  BY <1>3 DEF Init, CauseInv, ErrorsHaveCauses
<1>6. QueueIsNewest
  BY ConstantsAssumption DEF Init, QueueIsNewest
<1>7. QED BY <1>1, <1>2, <1>4, <1>5, <1>6 DEF Inv

\* The inductive invariant: the type, the life cycle, the kill the run thread
\* knows of, the log and the causes hold in every state of the client.
THEOREM Invariance == Spec => [](Inv /\ QueueIsNewest)
<1>1. (Inv /\ QueueIsNewest) /\ [Next]_vars => (Inv /\ QueueIsNewest)'
  <2> SUFFICES ASSUME Inv, QueueIsNewest, [Next]_vars PROVE Inv' /\ QueueIsNewest'
    OBVIOUS
  <2>1. TypeOK'
    BY TypeStep DEF Inv
  <2>2. QED
    BY <2>1, LifecycleStep, KillKnownStep, LogInvStep, CauseInvStep, QueueIsNewestStep DEF Inv
<1>2. QED BY <1>1, InvInit, PTL DEF Spec

\* The safety invariants of the runs follow from the inductive one.
LEMMA SafetyFollows == Inv => /\ NoOrphan /\ KillTargetsChild /\ WatchdogKillReported
                              /\ EndedWithVerdict /\ ErrorsHaveCauses
<1> SUFFICES ASSUME Inv
             PROVE  /\ NoOrphan /\ KillTargetsChild /\ WatchdogKillReported
                    /\ EndedWithVerdict /\ ErrorsHaveCauses
  OBVIOUS
<1>1. NoOrphan
  BY DEF Inv, Lifecycle, NoOrphan
<1>2. KillTargetsChild
  BY DEF Inv, Lifecycle, KillTargetsChild, SupervisingPcs, TypeOK, DogType
<1>3. WatchdogKillReported
  BY DEF Inv, KillKnown, WatchdogKillReported, SupervisingPcs
<1>4. EndedWithVerdict
  BY DEF Inv, LogInv, Verdict, EndedWithVerdict
<1>5. ErrorsHaveCauses
  BY DEF Inv, CauseInv
<1>6. QED BY <1>1, <1>2, <1>3, <1>4, <1>5

\* No child outlives its run or its client, no watchdog kills a process that has
\* been waited for, and the run thread never reads from a child the client killed.
THEOREM Supervision == Spec => []ChildIsOwned
  BY Invariance, SafetyFollows, PTL DEF ChildIsOwned

\* A run that ends leaves a verdict unless its owner is closing, and every error
\* it reports has the cause it names.
THEOREM Verdicts == Spec => []VerdictIsEarned
  BY Invariance, SafetyFollows, PTL DEF VerdictIsEarned

\* max_retained_events bounds the queue, which is always the newest part of the
\* run's log: failure() evicts the oldest event and nothing else is ever lost.
THEOREM BoundedQueue == Spec => []QueueIsNewest
  BY Invariance, PTL

\* The log of a run grows only while it holds no error.
LEMMA ErrorEndsLog ==
    ASSUME TypeOK, LogInv, [Next]_vars
    PROVE  log' \in {log, <<>>} \/ NoError
<1> USE DEF LogInv, SupervisingPcs, queueVars
<1>1. CASE Start \/ Cancel \/ Drain \/ WaitFor \/ Destroy \/ DestroyJoin
  BY <1>1 DEF Start, Cancel, Drain, WaitFor, Destroy, DestroyJoin, Goto
<1>2. CASE SpawnFails \/ Launch \/ WriteJoined \/ Receive \/ FinalVerdict
  BY <1>2 DEF SpawnFails, Launch, WriteJoined, Receive, FinalVerdict
<1>3. CASE \/ WriteBroken \/ WriteRefused \/ WriteSucceeds
          \/ CancelWriteSucceeds \/ CancelWriteFails \/ CancelWriteBroken
  BY <1>3 DEF WriteBroken, WriteRefused, WriteSucceeds, CancelWriteSucceeds,
              CancelWriteFails, CancelWriteBroken
<1>4. CASE \/ OutputDry \/ ReadErrors \/ ReadDone \/ Exited
          \/ ShutdownCheck \/ ControlCheck \/ CancelJoined \/ DeadlineCheck
  BY <1>4 DEF OutputDry, ReadErrors, ReadDone, Exited, ShutdownCheck, ControlCheck,
              CancelJoined, DeadlineCheck
<1>5. CASE Unwind \/ Finish
  BY <1>5 DEF Unwind, Finish, Goto
<1>6. CASE Catch
  BY <1>6 DEF Catch
<1>7. CASE Watchdog \/ Child
  BY <1>7 DEF Watchdog, WatchdogFires, WatchdogStops, Child, ChildWrites, ChildComplains,
              ChildExits
<1>8. CASE TimeoutElapses \/ GraceElapses \/ UNCHANGED vars
  BY <1>8 DEF TimeoutElapses, GraceElapses, vars
<1>9. QED
  BY <1>1, <1>2, <1>3, <1>4, <1>5, <1>6, <1>7, <1>8 DEF Next, Owner, RunThread

\* An appended event hides no terminal.
LEMMA TerminalStays ==
    ASSUME NEW q \in Seq(Events), NEW e, HasTerminal(q)
    PROVE  HasTerminal(Append(q, e))
<1>1. PICK i \in 1..Len(q) : q[i].type \in Terminals
  BY DEF HasTerminal
<1>2. i \in 1..Len(Append(q, e)) /\ Append(q, e)[i] = q[i]
  OBVIOUS
<1>3. QED BY <1>1, <1>2 DEF HasTerminal

\* An eviction takes the terminal of a run only when it is the whole queue: the
\* terminal is the last line of the worker, and failure() is called once.
LEMMA TerminalStep ==
    ASSUME Inv, QueueIsNewest, [Next]_vars, Cap > 1, HasTerminal(queue), ~HasTerminal(queue')
    PROVE  queue' = <<>>
<1>1. queue \in Seq(Events) /\ log \in Seq(Events) /\ Cap \in Nat /\ Len(queue) \in Nat /\ Len(log) \in Nat
  BY ConstantsAssumption DEF Inv, TypeOK, QueueType
<1>2. CASE UNCHANGED <<queue, log>>
  BY <1>2 DEF HasTerminal
<1>3. ASSUME NEW e, queue' = Append(queue, e) PROVE FALSE
  BY <1>1, <1>3, TerminalStays
<1>4. ASSUME NEW c \in ErrorCodes \cup {"none"}, Failure(c) PROVE FALSE
  <2>1. CASE ~(Len(queue) >= Cap)
    BY <1>3, <1>4, <2>1 DEF Failure
  <2>2. CASE Len(queue) >= Cap
    <3>1. queue' = Append(Tail(queue), ClientError(c)) /\ log' = Append(log, ClientError(c))
      BY <1>4, <2>2 DEF Failure
    <3>2. NoError
      <4>1. log' # log /\ log' # <<>>
        BY <1>1, <3>1
      <4>2. QED BY <4>1, ErrorEndsLog DEF Inv
    <3>3. PICK i \in 1..Len(queue) : queue[i].type \in Terminals
      BY DEF HasTerminal
    <3>4. HasTerminal(log)
      <4>1. /\ queue[i] = log[Len(log) - Len(queue) + i]
            /\ Len(log) - Len(queue) + i \in 1..Len(log)
        BY <1>1 DEF QueueIsNewest
      <4>2. QED BY <3>3, <4>1 DEF HasTerminal
    <3>5. LastType \in Terminals
      BY <3>2, <3>4 DEF Inv, LogInv
    <3>6. Len(queue) \in 1..Len(queue) /\ queue[Len(queue)] = log[Len(log)]
      <4>1. Len(queue) \in 1..Len(queue) /\ Len(log) - Len(queue) + Len(queue) = Len(log)
        BY <1>1, <2>2
      <4>2. QED BY <4>1 DEF QueueIsNewest
    <3>7. queue[Len(queue)].type \in Terminals
      <4>1. log # <<>>
        BY <1>1, <3>4 DEF HasTerminal
      <4>2. QED BY <3>5, <3>6, <4>1 DEF LastType
    <3>8. /\ Tail(queue) \in Seq(Events) /\ Len(queue) - 1 \in 1..Len(Tail(queue))
          /\ Tail(queue)[Len(queue) - 1] = queue[Len(queue)]
      <4>1. queue # <<>> /\ Len(queue) > 1
        BY <1>1, <2>2
      <4>2. /\ Tail(queue) \in Seq(Events) /\ Len(Tail(queue)) = Len(queue) - 1
            /\ \A j \in 1..Len(Tail(queue)) : Tail(queue)[j] = queue[j + 1]
        BY <1>1, <4>1, HeadTailProperties
      <4>3. Len(queue) - 1 \in 1..Len(Tail(queue)) /\ Len(queue) - 1 + 1 = Len(queue)
        BY <1>1, <4>1, <4>2
      <4>4. QED BY <4>2, <4>3
    <3>9. HasTerminal(Tail(queue))
      BY <3>7, <3>8 DEF HasTerminal
    <3>10. QED BY <3>1, <3>8, <3>9, TerminalStays
  <2>3. QED BY <2>1, <2>2
<1>5. QED
  BY <1>2, <1>3, <1>4, QueueMoves DEF Inv, Push

\* With room for two events, what the client adds never evicts the worker's own
\* verdict: only the owner takes it, with all the rest.
THEOREM VerdictStays == Spec => TerminalSurvives
<1>1. Inv /\ QueueIsNewest /\ [Next]_vars =>
        [Cap > 1 /\ HasTerminal(queue) /\ ~HasTerminal(queue') => queue' = <<>>]_vars
  BY TerminalStep
<1>2. QED BY <1>1, Invariance, PTL DEF Spec, TerminalSurvives

-----------------------------------------------------------------------------
\* The abstract state, under the names of the refinement mapping.
Status == IF owner = "closed" THEN "closed" ELSE IF active THEN "running" ELSE "ready"
Process == IF child = "none" THEN "none" ELSE IF child = "reaped" THEN "gone" ELSE "alive"
Stays == UNCHANGED <<Status, Process, owner # "open">>

\* How the abstract supervisor reads the same log.
LEMMA AbstractLog ==
    /\ Supervisor!Failed(log) <=> ~NoError
    /\ Supervisor!Closed(log) <=> ~NoError \/ HasTerminal(log)
    /\ LastType \in Terminals \cup {"client_error"} /\ log \in Seq(Events) => Supervisor!Closed(log)
  BY DEF Supervisor!Failed, Supervisor!Closed, Supervisor!IsError, Supervisor!TerminalTypes,
         NoError, HasTerminal, Terminals, LastType

\* A failure() is a Report of the supervisor.
LEMMA ReportStep ==
    ASSUME active, owner # "closed", NoError, NEW c \in ErrorCodes, Failure(c), Stays
    PROVE  Supervisor!Next
  BY AbstractLog DEF Failure, ClientError, Stays, Status, Process,
                     Supervisor!Next, Supervisor!Report

\* A step that appends nothing and changes neither status, process nor owner is
\* invisible to the supervisor.
LEMMA StutterStep ==
    ASSUME UNCHANGED log, Stays
    PROVE  UNCHANGED Supervisor!vars
  BY DEF Stays, Status, Process, Supervisor!vars

\* A constructed client is a ready supervisor.
LEMMA SimulationInit == Init => Supervisor!Init
  BY DEF Init, Supervisor!Init

\* Every step of the client is a step of the abstract supervisor or a stutter.
LEMMA SimulationStep ==
    ASSUME TypeOK, Lifecycle, LogInv, [Next]_vars
    PROVE  [Supervisor!Next]_(Supervisor!vars)
<1> log \in Seq(Events) /\ owner \in {"open", "closing", "closed"}
    /\ child \in {"none", "running", "zombie", "reaped"} /\ active \in BOOLEAN
  BY DEF TypeOK, QueueType, OwnerType, ChildType
<1>1. CASE Start
  BY <1>1 DEF Start, Supervisor!Next, Supervisor!Begin
<1>2. CASE Cancel \/ Drain \/ WaitFor
  <2>1. UNCHANGED log /\ Stays
    BY <1>2 DEF Cancel, Drain, WaitFor, Goto, Stays, Status, Process, ownerVars,
                queueVars, childVars
  <2>2. QED BY <2>1, StutterStep
<1>3. CASE Destroy
  BY <1>3 DEF Destroy, Supervisor!Next, Supervisor!AskToClose, queueVars, childVars
<1>4. CASE DestroyJoin
  <2>1. ~active
    BY <1>4 DEF DestroyJoin, Lifecycle
  <2>2. QED BY <1>4, <2>1 DEF DestroyJoin, Goto, Supervisor!Next, Supervisor!Close,
                              queueVars, childVars
<1>5. ASSUME pc \notin {"idle", "done"}
      PROVE  active /\ owner # "closed"
  BY <1>5 DEF Lifecycle
<1>6. CASE SpawnFails
  <2>1. active /\ owner # "closed" /\ NoError /\ Failure("spawn_failed") /\ Stays
    BY <1>5, <1>6 DEF SpawnFails, ReturnWith, LogInv, Stays, Status, Process, ownerVars,
                      childVars
  <2>2. QED BY <2>1, ReportStep DEF ErrorCodes
<1>7. CASE Launch
  <2>1. /\ active /\ owner # "closed" /\ log = <<>> /\ log' = log
        /\ child = "none" /\ child' = "running" /\ UNCHANGED ownerVars
    BY <1>5, <1>7 DEF Launch, LogInv, Lifecycle, Goto, Throw, queueVars
  <2>2. QED BY <2>1 DEF Supervisor!Next, Supervisor!Spawn, ownerVars
<1>8. CASE \/ WriteBroken \/ WriteRefused \/ WriteSucceeds
          \/ CancelWriteSucceeds \/ CancelWriteFails \/ CancelWriteBroken
  <2>1. UNCHANGED log /\ Stays
    BY <1>8 DEF WriteBroken, WriteRefused, WriteSucceeds, CancelWriteSucceeds,
                CancelWriteFails, CancelWriteBroken,
                Stays, Status, Process, ownerVars, queueVars, childVars
  <2>2. QED BY <2>1, StutterStep
<1>9. CASE WriteJoined \/ CancelJoined \/ DeadlineCheck
  <2>1. active /\ owner # "closed" /\ NoError
    BY <1>5, <1>9 DEF WriteJoined, CancelJoined, DeadlineCheck, LogInv, SupervisingPcs
  <2>2. Stays
    BY <1>9 DEF WriteJoined, CancelJoined, DeadlineCheck, Terminate, Stays, Status, Process,
                ownerVars, childVars
  <2>3. UNCHANGED log \/ \E c \in ErrorCodes : Failure(c)
    BY <1>9 DEF WriteJoined, CancelJoined, DeadlineCheck, ReturnWith, ReturnSilently, Goto,
                queueVars, ErrorCodes
  <2>4. QED BY <2>1, <2>2, <2>3, ReportStep, StutterStep
<1>10. CASE Receive
  <2>1. /\ active /\ owner # "closed" /\ NoError /\ Head(pipe) \in Lines
        /\ HasTerminal(log) => terminal
    BY <1>5, <1>10 DEF Receive, LineReady, LogInv, SupervisingPcs, TypeOK, ChildType
  <2>2. Stays /\ child # "none"
    BY <1>10 DEF Receive, Lifecycle, SupervisingPcs, Stays, Status, Process, ownerVars
  <2>3. CASE UNCHANGED log
    BY <2>2, <2>3, StutterStep
  <2>4. CASE Accepted(Head(pipe)) /\ Push(Protocol(Head(pipe)))
    <3>1. Protocol(Head(pipe)) \in [type : {"started", "progress"} \cup Supervisor!TerminalTypes,
                                    code : {"none"}]
      BY <2>1, <2>4 DEF Accepted, Protocol, Lines, Terminals, Supervisor!TerminalTypes
    <3>2. ~Supervisor!Closed(log)
      BY <2>1, <2>4, AbstractLog DEF Accepted
    <3>3. log' = Append(log, Protocol(Head(pipe)))
      BY <2>4 DEF Push
    <3>4. QED BY <2>1, <2>2, <3>1, <3>2, <3>3
          DEF Supervisor!Next, Supervisor!Deliver, Stays, Status, Process
  <2>5. QED BY <1>10, <2>3, <2>4 DEF Receive, Throw, queueVars
<1>11. CASE OutputDry \/ ReadErrors \/ ReadDone \/ ControlCheck \/ ShutdownCheck
  <2>1. UNCHANGED log /\ Stays
    BY <1>11 DEF OutputDry, ReadErrors, ReadDone, ControlCheck, ShutdownCheck, Goto, Throw,
                 ReturnSilently, Terminate,
                 Stays, Status, Process, ownerVars, queueVars, childVars
  <2>2. QED BY <2>1, StutterStep
<1>12. CASE Exited \/ Unwind
  <2>1. /\ active /\ owner # "closed" /\ UNCHANGED ownerVars /\ UNCHANGED log
        /\ child' = child \/ (child' = "reaped" /\ child # "none")
    BY <1>5, <1>12 DEF Exited, Unwind, Goto, ownerVars, queueVars
  <2>2. CASE child' = "reaped" /\ child \in {"running", "zombie"}
    BY <2>1, <2>2 DEF Supervisor!Next, Supervisor!Reap, ownerVars
  <2>3. CASE child' = child
    BY <2>1, <2>3, StutterStep DEF Stays, Status, Process, ownerVars
  <2>4. QED BY <2>1, <2>2, <2>3
<1>13. CASE FinalVerdict \/ Catch
  <2>1. active /\ owner # "closed" /\ NoError
    BY <1>5, <1>13 DEF FinalVerdict, Catch, LogInv, SupervisingPcs
  <2>2. Stays
    BY <1>13 DEF FinalVerdict, Catch, Stays, Status, Process, ownerVars, childVars
  <2>3. UNCHANGED log \/ \E c \in ErrorCodes : Failure(c)
    BY <1>13 DEF FinalVerdict, Catch, ReturnWith, ReturnSilently, Throw, queueVars, ErrorCodes,
                 LogInv, TypeOK, RunType
  <2>4. QED BY <2>1, <2>2, <2>3, ReportStep, StutterStep
<1>14. CASE Finish
  <2>1. /\ active /\ owner # "closed" /\ UNCHANGED log /\ UNCHANGED child /\ UNCHANGED owner
        /\ child \in {"none", "reaped"} /\ ~active'
    BY <1>5, <1>14 DEF Finish, Goto, Lifecycle, queueVars, childVars
  <2>2. Supervisor!Closed(log) \/ owner # "open"
    BY <1>14, AbstractLog DEF Finish, LogInv, Verdict, Lifecycle
  <2>3. QED BY <2>1, <2>2 DEF Supervisor!Next, Supervisor!End
<1>15. CASE Watchdog \/ Child
  <2>1. UNCHANGED log /\ UNCHANGED ownerVars
    BY <1>15 DEF Watchdog, WatchdogFires, WatchdogStops, Child, ChildWrites, ChildComplains,
                 ChildExits, queueVars
  <2>2. Process' = Process
    BY <1>15 DEF Watchdog, WatchdogFires, WatchdogStops, Terminate, Child, ChildWrites,
                 ChildComplains, ChildExits,
                 Process, childVars
  <2>3. QED BY <2>1, <2>2, StutterStep DEF Stays, Status, ownerVars
<1>16. CASE TimeoutElapses \/ GraceElapses \/ UNCHANGED vars
  <2>1. UNCHANGED log /\ Stays
    BY <1>16 DEF TimeoutElapses, GraceElapses, vars, Stays, Status, Process, ownerVars,
                 queueVars, childVars
  <2>2. QED BY <2>1, StutterStep
<1>17. QED
  BY <1>1, <1>2, <1>3, <1>4, <1>6, <1>7, <1>8, <1>9, <1>10, <1>11, <1>12, <1>13, <1>14, <1>15,
     <1>16 DEF Next, Owner, RunThread

\* The client implements the supervisor its owner relies on: one run at a time,
\* one child per run, at most one terminal and one error after it, no end of a run
\* before its child is gone and its verdict is in the log.
THEOREM Refinement == Spec => ImplementsSupervisor
<1>1. Inv /\ [Next]_vars => [Supervisor!Next]_(Supervisor!vars)
  BY SimulationStep DEF Inv
<1>2. QED
  BY <1>1, SimulationInit, Invariance, PTL DEF Spec, ImplementsSupervisor, Supervisor!Spec
=============================================================================
