------------------------- MODULE StudyWindow_proofs -------------------------
(***************************************************************************)
(* Main.cpp for any snapshots and any number of runs: the buttons follow   *)
(* the run, the handlers get the events of their own run, and what is      *)
(* offered to be saved can be.  Part 2, for any number of checks: its      *)
(* build check loses no timer.                                             *)
(***************************************************************************)
EXTENDS StudyWindow, BuildCheck, SequenceTheorems, FiniteSetTheorems, TLAPS

Verdicts == Client!TerminalTypes \cup {"client_error"}
EventTypes == {"started", "progress"} \cup Verdicts
Entry == [type : EventTypes, code : {"none", "failed"}]

\* How many events of the run the window has handled.
Seen == drained - Len(batch)

VerdictIn(l, n) == \E i \in 1..n : l[i].type \in Verdicts
ErrorIn(l, n) == \E i \in 1..n : l[i].type = "client_error"

\* What poll_worker has yet to handle is the next part of the log.
Queue ==
    /\ log \in Seq(Entry) /\ batch \in Seq(Entry)
    /\ drained \in Nat /\ drained <= Len(log) /\ Len(batch) <= drained
    /\ \A i \in 1..Len(batch) : batch[i] = log[Seen + i]
    /\ ~polling => batch = <<>>
    /\ status \in {"ready", "running"}
    /\ request.run \in Nat /\ request.kind \in Kinds /\ loaded \in Sources \cup {NoSource}
    /\ request # Nothing => request.run > 0
    /\ request = Nothing => log = <<>> /\ ~running

\* One verdict, after which only the client speaks, and only once; a start first; a
\* completed trial with all its progress.
Order ==
    /\ \A i, j \in 1..Len(log) :
          i < j /\ log[i].type \in Verdicts => log[i].type # "client_error" /\ log[j].type = "client_error"
    /\ \A i \in 1..Len(log) :
          /\ log[i].type = "started" => i = 1
          /\ log[i].type \in {"progress", "complete"} => log[1].type = "started"
          /\ log[i].type = "complete" => /\ request.kind = "evaluation" => i = 4
                                         /\ request.kind = "shooting" => i > 2

Buttons ==
    /\ request = Nothing => sensitive \cap {"cancel", "save"} = {}
    /\ request # Nothing /\ VerdictIn(log, Seen) =>
          "cancel" \notin sensitive /\ Kinds \cup {"import", "open"} \subseteq sensitive
    /\ request # Nothing /\ ~VerdictIn(log, Seen) => sensitive = {"cancel"}

\* The window holds what the run of the log was started with.
Current ==
    /\ submitted_request = request /\ request # Nothing
    /\ active = request.kind /\ loaded = request.source

EventsKept ==
    /\ evaluation_events \in Seq(EventTypes)
    /\ active # "mission" /\ ~ErrorIn(log, Seen) =>
          /\ Len(evaluation_events) = Seen
          /\ \A i \in 1..Seen : evaluation_events[i] = log[i].type

Coming == \E i \in (Seen + 1)..Len(log) : log[i].type # "client_error"

Offered ==
    /\ VerdictIn(log, Seen)
    /\ terminal_event # NoTerminal /\ Composable(loaded)
    /\ shown = [what |-> "result", run |-> submitted_request.run]

WindowInv ==
    /\ Queue /\ Order /\ Buttons
    /\ running \/ Coming \/ "save" \in sensitive => Current /\ EventsKept
    /\ "save" \in sensitive => Offered

windowVars == <<drained, batch, polling, request, loaded, submitted_request, terminal_event,
                evaluation_events, active, sensitive, shown>>

-----------------------------------------------------------------------------
(* The log *****************************************************************)

LEMMA SeenType ==
    ASSUME Queue
    PROVE  /\ Seen \in Nat /\ Seen <= Len(log) /\ Len(log) \in Nat /\ Len(batch) \in Nat
           /\ Seen + Len(batch) = drained
           /\ \A i \in 1..Len(log) : log[i] \in Entry
  <1>1. Len(log) \in Nat /\ Len(batch) \in Nat BY LenProperties DEF Queue
  <1>2. \A i \in 1..Len(log) : log[i] \in Entry BY ElementOfSeq DEF Queue
  <1> QED BY <1>1, <1>2 DEF Queue, Seen

\* Nothing precedes an event that is not the client's error but what is no verdict.
LEMMA BeforeEvent ==
    ASSUME Queue, Order, NEW k \in 1..Len(log), log[k].type # "client_error",
           NEW i \in 1..Len(log), i < k
    PROVE  /\ log[i].type \notin Verdicts
           /\ i = 1 => log[i].type = "started"
           /\ i # 1 => log[i].type = "progress"
  <1>1. log[i].type \notin Verdicts BY DEF Order
  <1>2. log[i] \in Entry BY SeenType
  <1>3. log[i].type \in {"started", "progress"} BY <1>1, <1>2 DEF Entry, EventTypes
  <1> QED BY <1>1, <1>3 DEF Order

LEMMA ClosedLog ==
    ASSUME Queue
    PROVE  /\ Client!Closed(log) <=> VerdictIn(log, Len(log))
           /\ Client!Failed(log) <=> ErrorIn(log, Len(log))
           /\ Client!Closed(Handled) <=> VerdictIn(log, Seen)
  <1>1. /\ Client!Closed(log) <=> VerdictIn(log, Len(log))
        /\ Client!Failed(log) <=> ErrorIn(log, Len(log))
    BY DEF Client!Closed, Client!Failed, Client!IsError, VerdictIn, ErrorIn, Verdicts
  <1>2. /\ Len(Handled) = Seen
        /\ \A i \in 1..Seen : Handled[i] = log[i]
    <2> DEFINE n == Seen
    <2>1. n \in Nat /\ n <= Len(log) /\ \A i \in 1..n : log[i] \in Entry BY SeenType
    <2>2. Handled = SubSeq(log, 1, n) BY DEF Handled, Seen
    <2> HIDE DEF n
    <2>3. /\ Len(SubSeq(log, 1, n)) = IF 1 <= n THEN n - 1 + 1 ELSE 0
          /\ \A i \in 1..(n - 1 + 1) : SubSeq(log, 1, n)[i] = log[1 + i - 1]
      BY <2>1, SubSeqProperties
    <2>4. Len(SubSeq(log, 1, n)) = n /\ \A i \in 1..n : SubSeq(log, 1, n)[i] = log[i]
      BY <2>1, <2>3
    <2> QED BY <2>2, <2>4 DEF n
  <1>3. Client!Closed(Handled) <=> VerdictIn(log, Seen)
    BY <1>2 DEF Client!Closed, VerdictIn, Verdicts
  <1> QED BY <1>1, <1>3

\* With a verdict handled, only the client's own error may come.
LEMMA NothingComes ==
    ASSUME Queue, Order, VerdictIn(log, Seen)
    PROVE  ~Coming
  <1>1. SUFFICES ASSUME NEW k \in (Seen + 1)..Len(log), log[k].type # "client_error" PROVE FALSE
    BY DEF Coming
  <1>2. PICK i \in 1..Seen : log[i].type \in Verdicts BY DEF VerdictIn
  <1>3. i \in 1..Len(log) /\ k \in 1..Len(log) /\ i < k BY SeenType
  <1> QED BY <1>1, <1>2, <1>3, BeforeEvent

-----------------------------------------------------------------------------
(* The client's steps ******************************************************)

LEMMA ComposableFrame ==
    ASSUME UNCHANGED <<submitted_request, terminal_event, evaluation_events, active, loaded, ephemeris>>
    PROVE  Composable(loaded)' <=> Composable(loaded)
  BY DEF Composable, StudyComposable, EvaluationComposable, ShootingComposable, Answers

\* A step that handles no event and touches no control.
LEMMA Still ==
    ASSUME WindowInv, Queue', Seen' = Seen, running' => running,
           UNCHANGED <<log, ephemeris, request, loaded, submitted_request, terminal_event,
                       evaluation_events, active, sensitive, shown>>
    PROVE  WindowInv'
  <1>2. Order' BY DEF WindowInv, Order
  <1>3. Buttons' BY DEF WindowInv, Buttons, VerdictIn
  <1>4. Current => Current' BY DEF Current
  <1>5. EventsKept => EventsKept' BY DEF EventsKept, ErrorIn
  <1>6. Coming' => Coming BY DEF Coming
  <1>7. Offered => Offered' BY ComposableFrame DEF Offered, VerdictIn
  <1> QED BY <1>2, <1>3, <1>4, <1>5, <1>6, <1>7 DEF WindowInv

LEMMA Frame ==
    ASSUME WindowInv, UNCHANGED <<log, ephemeris, drained, batch, request, loaded, submitted_request,
                                  terminal_event, evaluation_events, active, sensitive, shown>>,
           status' \in {status, "ready"}, polling' = polling \/ batch = <<>>
    PROVE  WindowInv'
  <1>1. Queue' BY DEF WindowInv, Queue, Seen, running
  <1>2. Seen' = Seen /\ (running' => running) BY DEF Seen, running
  <1> QED BY <1>1, <1>2, Still

\* One event more, which the window has not seen.
LEMMA LogGrows ==
    ASSUME WindowInv, running, NEW e \in Entry, log' = Append(log, e), Order',
           UNCHANGED <<status, windowVars>>, "save" \in sensitive => UNCHANGED ephemeris
    PROVE  WindowInv'
  <1>q. Queue BY DEF WindowInv
  <1>1. /\ log' \in Seq(Entry) /\ Len(log') = Len(log) + 1
        /\ \A i \in 1..Len(log) : log'[i] = log[i]
    BY <1>q, AppendProperties DEF Queue
  <1>2. Seen' = Seen BY DEF windowVars, Seen
  <1>3. \A i \in 1..Seen : i \in 1..Len(log) BY <1>q, SeenType
  <1>4. /\ VerdictIn(log, Seen)' <=> VerdictIn(log, Seen)
        /\ ErrorIn(log, Seen)' <=> ErrorIn(log, Seen)
    BY <1>1, <1>2, <1>3 DEF VerdictIn, ErrorIn
  <1>5. Queue'
    <2>1. /\ log' \in Seq(Entry) /\ batch' \in Seq(Entry) /\ drained' \in Nat /\ Len(batch') <= drained'
          /\ ~polling' => batch' = <<>>
          /\ status' \in {"ready", "running"}
          /\ request'.run \in Nat /\ request'.kind \in Kinds /\ loaded' \in Sources \cup {NoSource}
          /\ request' # Nothing => request'.run > 0
      BY <1>q, <1>1 DEF Queue, windowVars
    <2>2. drained' <= Len(log') BY <1>q, <1>1, SeenType DEF Queue, windowVars
    <2>3. \A i \in 1..Len(batch) : batch[i] = log'[Seen + i]
      <3>1. ASSUME NEW i \in 1..Len(batch) PROVE Seen + i \in 1..Len(log)
        BY <1>q, SeenType DEF Queue
      <3> QED BY <1>q, <1>1, <3>1 DEF Queue
    <2>4. request' # Nothing BY <1>q DEF Queue, windowVars
    <2> QED BY <1>2, <2>1, <2>2, <2>3, <2>4 DEF Queue, windowVars
  <1>6. Buttons' BY <1>4 DEF WindowInv, Buttons, windowVars
  <1>7. Current' /\ EventsKept'
    <2>1. Current /\ EventsKept BY DEF WindowInv
    <2>2. Current' BY <2>1 DEF Current, windowVars
    <2> QED BY <1>1, <1>2, <1>3, <1>4, <2>1, <2>2 DEF EventsKept, windowVars
  <1>8. "save" \in sensitive' => Offered'
    <2> SUFFICES ASSUME "save" \in sensitive PROVE Offered'
      BY DEF windowVars
    <2>1. Offered BY DEF WindowInv
    <2>2. Composable(loaded)'
      BY <2>1, ComposableFrame DEF Offered, windowVars
    <2> QED BY <1>4, <2>1, <2>2 DEF Offered, windowVars
  <1> QED BY <1>5, <1>6, <1>7, <1>8 DEF WindowInv

\* What accept_line lets through keeps the order.
LEMMA DeliverKeeps == WindowInv /\ Deliver /\ UNCHANGED windowVars => WindowInv'
  <1> SUFFICES ASSUME WindowInv, Deliver, UNCHANGED windowVars PROVE WindowInv'
    OBVIOUS
  <1>q. Queue /\ Order BY DEF WindowInv
  <1>1. /\ running /\ UNCHANGED status /\ ~Client!Closed(log)
        /\ \E e \in Entry : log' = Append(log, e) /\ e.type # "client_error"
    BY DEF Deliver, Client!Deliver, running, Entry, EventTypes, Verdicts, Client!TerminalTypes
  <1>2. PICK e \in Entry : log' = Append(log, e) /\ e.type # "client_error" BY <1>1
  <1> DEFINE n == Len(log)
  <1>3. n \in Nat /\ \A i \in 1..n : log[i] \in Entry BY <1>q, SeenType
  <1>4. /\ Len(log') = n + 1 /\ log'[n + 1] = e
        /\ \A i \in 1..n : log'[i] = log[i]
    BY <1>q, <1>2, AppendProperties DEF Queue
  <1>5. \A i \in 1..n : log[i].type \notin Verdicts
    BY <1>q, <1>1, ClosedLog DEF VerdictIn
  <1>6. \A i \in 1..n : /\ i = 1 => log[i].type = "started"
                        /\ i # 1 => log[i].type = "progress"
    <2>1. ASSUME NEW i \in 1..n PROVE log[i].type \in {"started", "progress"}
      BY <1>3, <1>5, <2>1 DEF Entry, EventTypes
    <2> QED BY <1>q, <2>1 DEF Order
  <1>7. InOrder(e.type)
    BY <1>3, <1>4 DEF Deliver
  <1>8. e.type \in {"started", "progress", "complete"} =>
           (e.type = "started" <=> n = 0)
    <2>1. Saw("started") => n > 0 BY <1>3 DEF Saw
    <2>2. log = <<>> => n = 0 BY <1>3
    <2> QED BY <1>3, <1>7, <2>1, <2>2 DEF InOrder
  <1>9. e.type = "complete" => /\ request.kind = "evaluation" => n = 3
                               /\ request.kind = "shooting" => n > 1
    <2> SUFFICES ASSUME e.type = "complete"
                 PROVE  /\ request.kind = "evaluation" => n = 3
                        /\ request.kind = "shooting" => n > 1
      OBVIOUS
    <2>1. n > 0 BY <1>3, <1>8
    <2>2. ASSUME request.kind = "evaluation" PROVE n = 3
      <3>1. Count("progress") = 2 BY <1>7, <2>2 DEF InOrder
      <3>2. {i \in 1..n : log[i].type = "progress"} = 2..n BY <1>3, <1>6, <2>1
      <3>3. Cardinality(2..n) = IF 2 > n THEN 0 ELSE n - 2 + 1 BY <1>3, FS_Interval
      <3>4. Cardinality(2..n) = 2 BY <3>1, <3>2 DEF Count
      <3> HIDE DEF n
      <3> QED BY <1>3, <2>1, <3>3, <3>4
    <2>3. ASSUME request.kind = "shooting" PROVE n > 1
      <3>1. Saw("progress") BY <1>7, <2>3 DEF InOrder
      <3> QED BY <1>3, <1>6, <3>1 DEF Saw
    <2> QED BY <2>2, <2>3
  <1>10. Order'
    <2>1. request' = request BY DEF windowVars
    <2>2. \A i, j \in 1..(n + 1) : i < j => i \in 1..n BY <1>3
    <2>3. \A i, j \in 1..(n + 1) :
             i < j /\ log'[i].type \in Verdicts =>
                log'[i].type # "client_error" /\ log'[j].type = "client_error"
      BY <1>4, <1>5, <2>2
    <2>4. ASSUME NEW i \in 1..(n + 1)
          PROVE  /\ log'[i].type = "started" => i = 1
                 /\ log'[i].type \in {"progress", "complete"} => log'[1].type = "started"
                 /\ log'[i].type = "complete" => /\ request.kind = "evaluation" => i = 4
                                                 /\ request.kind = "shooting" => i > 2
      <3>1. CASE i \in 1..n
        <4>1. log'[i] = log[i] /\ log'[1] = log[1] BY <1>3, <1>4, <3>1
        <4> QED BY <1>q, <3>1, <4>1 DEF Order
      <3>2. CASE i = n + 1
        <4>1. log'[i] = e BY <1>4, <3>2
        <4>2. e.type = "started" => i = 1 BY <1>3, <1>8, <3>2
        <4>3. e.type \in {"progress", "complete"} => log'[1].type = "started"
          <5> SUFFICES ASSUME e.type \in {"progress", "complete"} PROVE log'[1].type = "started"
            OBVIOUS
          <5>1. n # 0 BY <1>8
          <5>2. 1 \in 1..n BY <1>3, <5>1
          <5> QED BY <1>4, <1>6, <5>2
        <4>4. e.type = "complete" => /\ request.kind = "evaluation" => i = 4
                                     /\ request.kind = "shooting" => i > 2
          <5> HIDE DEF n
          <5> QED BY <1>3, <1>9, <3>2
        <4> QED BY <4>1, <4>2, <4>3, <4>4
      <3> QED BY <1>3, <3>1, <3>2
    <2> QED BY <1>4, <2>1, <2>3, <2>4 DEF Order
  <1>11. "save" \notin sensitive
    <2> SUFFICES ASSUME "save" \in sensitive PROVE FALSE
      OBVIOUS
    <2>1. PICK i \in 1..Seen : log[i].type \in Verdicts BY DEF WindowInv, Offered, VerdictIn
    <2>2. i \in 1..n BY <1>q, SeenType
    <2> QED BY <1>5, <2>1, <2>2
  <1> QED BY <1>1, <1>2, <1>10, <1>11, LogGrows

\* The client's error comes last.
LEMMA ReportKeeps ==
    WindowInv /\ Client!Report /\ UNCHANGED <<windowVars, ephemeris>> => WindowInv'
  <1> SUFFICES ASSUME WindowInv, Client!Report, UNCHANGED <<windowVars, ephemeris>> PROVE WindowInv'
    OBVIOUS
  <1>q. Queue /\ Order BY DEF WindowInv
  <1>1. running /\ UNCHANGED status /\ ~Client!Failed(log) BY DEF Client!Report, running
  <1>2. PICK e \in Entry : log' = Append(log, e) /\ e.type = "client_error"
    BY DEF Client!Report, Entry, EventTypes, Verdicts
  <1> DEFINE n == Len(log)
  <1>3. n \in Nat BY <1>q, SeenType
  <1>4. /\ Len(log') = n + 1 /\ log'[n + 1] = e
        /\ \A i \in 1..n : log'[i] = log[i]
    BY <1>q, <1>2, AppendProperties DEF Queue
  <1>5. \A i \in 1..n : log[i].type # "client_error"
    BY <1>q, <1>1, ClosedLog DEF ErrorIn
  <1>6. Order'
    <2>1. request' = request BY DEF windowVars
    <2>2. ASSUME NEW i \in 1..(n + 1), NEW j \in 1..(n + 1), i < j, log'[i].type \in Verdicts
          PROVE  log'[i].type # "client_error" /\ log'[j].type = "client_error"
      <3>1. i \in 1..n /\ log'[i] = log[i] BY <1>3, <1>4, <2>2
      <3>2. CASE j \in 1..n
        <4>1. log[j].type = "client_error" BY <1>q, <2>2, <3>1, <3>2 DEF Order
        <4> QED BY <1>5, <3>2, <4>1
      <3>3. CASE j = n + 1 BY <1>2, <1>4, <1>5, <3>1, <3>3
      <3> QED BY <1>3, <3>2, <3>3
    <2>3. ASSUME NEW i \in 1..(n + 1)
          PROVE  /\ log'[i].type = "started" => i = 1
                 /\ log'[i].type \in {"progress", "complete"} => log'[1].type = "started"
                 /\ log'[i].type = "complete" => /\ request.kind = "evaluation" => i = 4
                                                 /\ request.kind = "shooting" => i > 2
      <3>1. CASE i \in 1..n
        <4>1. log'[i] = log[i] /\ log'[1] = log[1] BY <1>3, <1>4, <3>1
        <4> QED BY <1>q, <3>1, <4>1 DEF Order
      <3>2. CASE i = n + 1 BY <1>2, <1>4, <3>2
      <3> QED BY <1>3, <3>1, <3>2
    <2> QED BY <1>4, <2>1, <2>2, <2>3 DEF Order
  <1> QED BY <1>1, <1>2, <1>6, LogGrows

(* The poll ****************************************************************)

LEMMA PollKeeps == WindowInv /\ Poll => WindowInv'
  <1> SUFFICES ASSUME WindowInv, Poll PROVE WindowInv'
    OBVIOUS
  <1>q. Queue BY DEF WindowInv
  <1> DEFINE n == Len(log)
             s == SubSeq(log, drained + 1, n)
  <1>1. /\ n \in Nat /\ drained \in Nat /\ drained <= n /\ Seen = drained
        /\ \A i \in 1..n : log[i] \in Entry
    BY <1>q, SeenType DEF Queue, Poll, Seen
  <1>2. s \in Seq(Entry) /\ Len(s) = n - drained /\ \A i \in 1..Len(s) : s[i] = log[drained + i]
    <2>1. drained + 1 \in 1..(n + 1) /\ n \in (drained + 1 - 1)..n BY <1>1
    <2>2. \A i \in (drained + 1)..n : log[i] \in Entry BY <1>1
    <2>3. /\ s \in Seq(Entry)
          /\ Len(s) = IF drained + 1 <= n THEN n - (drained + 1) + 1 ELSE 0
          /\ \A i \in 1..(n - (drained + 1) + 1) : s[i] = log[drained + 1 + i - 1]
      BY <1>q, <1>1, <2>1, <2>2, SubSeqProperties DEF Queue
    <2>4. Len(s) = n - drained BY <1>1, <2>3
    <2>5. ASSUME NEW i \in 1..Len(s) PROVE s[i] = log[drained + i]
      <3>1. i \in 1..(n - (drained + 1) + 1) /\ drained + 1 + i - 1 = drained + i BY <1>1, <2>4
      <3> QED BY <2>3, <3>1
    <2> QED BY <2>3, <2>4, <2>5
  <1>3. batch' = s /\ drained' = n /\ polling' BY DEF Poll
  <1>4. Seen' = Seen
    <2>1. Seen' = n - Len(s) BY <1>3 DEF Seen
    <2> HIDE DEF s, n
    <2> QED BY <1>1, <1>2, <2>1
  <1>5. Queue'
    <2>1. /\ log' \in Seq(Entry) /\ batch' \in Seq(Entry) /\ status' \in {"ready", "running"}
          /\ request'.run \in Nat /\ request'.kind \in Kinds /\ loaded' \in Sources \cup {NoSource}
          /\ request' # Nothing => request'.run > 0
          /\ request' = Nothing => log' = <<>> /\ ~running'
      BY <1>q, <1>2, <1>3 DEF Queue, Poll, clientVars, sourceVars, running
    <2>2. drained' \in Nat /\ drained' <= Len(log')
      BY <1>1, <1>3 DEF Poll, clientVars
    <2>3. Len(s) <= n
      <3> HIDE DEF s, n
      <3> QED BY <1>1, <1>2
    <2>4. \A i \in 1..Len(s) : s[i] = log'[Seen' + i]
      BY <1>1, <1>2, <1>4 DEF Poll, clientVars
    <2> QED BY <1>3, <2>1, <2>2, <2>3, <2>4 DEF Queue
  <1>6. UNCHANGED <<log, ephemeris, request, loaded, submitted_request, terminal_event,
                    evaluation_events, active, sensitive, shown, status>>
    BY DEF Poll, clientVars, sourceVars, resultVars
  <1> QED BY <1>4, <1>5, <1>6, Still DEF running

\* Handling an event takes the next one of the log.
LEMMA HandlesNext ==
    ASSUME WindowInv, Handling, batch' = Tail(batch), UNCHANGED <<log, drained, polling, status, request, loaded>>
    PROVE  /\ Queue' /\ Order'
           /\ Seen + 1 \in 1..Len(log) /\ Event = log[Seen + 1] /\ Seen' = Seen + 1
           /\ Event \in Entry /\ request # Nothing
           /\ VerdictIn(log, Seen)' <=> VerdictIn(log, Seen) \/ Event.type \in Verdicts
           /\ ErrorIn(log, Seen)' <=> ErrorIn(log, Seen) \/ Event.type = "client_error"
           /\ Coming' => Coming
           /\ Event.type # "client_error" => Coming
  <1>q. Queue /\ Order BY DEF WindowInv
  <1>1. /\ Seen \in Nat /\ Seen <= Len(log) /\ Len(log) \in Nat /\ Len(batch) \in Nat
        /\ Seen + Len(batch) = drained
        /\ \A i \in 1..Len(log) : log[i] \in Entry
    BY <1>q, SeenType
  <1>2. /\ Head(batch) = batch[1] /\ Tail(batch) \in Seq(Entry) /\ Len(Tail(batch)) = Len(batch) - 1
        /\ \A i \in 1..Len(Tail(batch)) : Tail(batch)[i] = batch[i + 1]
        /\ Len(batch) > 0
    BY <1>q, <1>1, HeadTailProperties, EmptySeq DEF Handling, Queue
  <1>3. Seen + 1 \in 1..Len(log) BY <1>q, <1>1, <1>2 DEF Queue
  <1>4. Event = log[Seen + 1]
    <2>1. 1 \in 1..Len(batch) BY <1>1, <1>2
    <2> QED BY <1>q, <1>2, <2>1 DEF Event, Queue
  <1>5. Seen' = Seen + 1
    <2>1. Seen' = drained - Len(Tail(batch)) BY DEF Seen
    <2>2. drained - (Len(batch) - 1) = Seen + 1 BY <1>q, <1>1 DEF Queue
    <2> QED BY <1>2, <2>1, <2>2
  <1>6. Event \in Entry BY <1>1, <1>3, <1>4
  <1>7. request # Nothing BY <1>q, <1>1, <1>3 DEF Queue
  <1>8. Queue'
    <2>1. \A i \in 1..Len(Tail(batch)) : Tail(batch)[i] = log[Seen + 1 + i]
      <3>1. ASSUME NEW i \in 1..Len(Tail(batch)) PROVE Tail(batch)[i] = log[Seen + 1 + i]
        <4>1. i + 1 \in 1..Len(batch) /\ Seen + (i + 1) = Seen + 1 + i
          <5> DEFINE n == Len(batch)  s == Seen  m == Len(Tail(batch))
          <5>1. n \in Nat /\ s \in Nat /\ m = n - 1 /\ i \in 1..m BY <1>1, <1>2
          <5> HIDE DEF n, s, m
          <5>2. i + 1 \in 1..n /\ s + (i + 1) = s + 1 + i BY <5>1
          <5> QED BY <5>2 DEF n, s
        <4> QED BY <1>q, <1>2, <4>1 DEF Queue
      <3> QED BY <3>1
    <2>2. Len(Tail(batch)) <= drained BY <1>q, <1>1, <1>2 DEF Queue
    <2>3. polling' BY DEF Handling
    <2> QED BY <1>q, <1>2, <1>5, <2>1, <2>2, <2>3 DEF Queue, running
  <1>9. Order' BY <1>q DEF Order
  <1>10. \A i : i \in 1..(Seen + 1) <=> i \in 1..Seen \/ i = Seen + 1 BY <1>1
  <1>11. VerdictIn(log, Seen)' <=> VerdictIn(log, Seen) \/ Event.type \in Verdicts
    BY <1>4, <1>5, <1>10 DEF VerdictIn
  <1>12. ErrorIn(log, Seen)' <=> ErrorIn(log, Seen) \/ Event.type = "client_error"
    BY <1>4, <1>5, <1>10 DEF ErrorIn
  <1>13. Coming' => Coming
    <2>1. \A i \in (Seen + 1 + 1)..Len(log) : i \in (Seen + 1)..Len(log) BY <1>1
    <2> QED BY <1>5, <2>1 DEF Coming
  <1>14. Event.type # "client_error" => Coming
    <2>1. Seen + 1 \in (Seen + 1)..Len(log) BY <1>1, <1>3
    <2> QED BY <1>4, <2>1 DEF Coming
  <1> QED BY <1>3, <1>4, <1>5, <1>6, <1>7, <1>8, <1>9, <1>11, <1>12, <1>13, <1>14

LEMMA RetainKeeps ==
    ASSUME WindowInv, Handling, batch' = Tail(batch), UNCHANGED <<log, drained, polling, status, request, loaded>>,
           Retain, UNCHANGED active, EventsKept
    PROVE  EventsKept'
  <1> USE HandlesNext
  <1>1. Queue BY DEF WindowInv
  <1>2. Seen \in Nat BY <1>1, SeenType
  <1>3. CASE active # "mission" /\ Event.type # "client_error"
    <2>1. evaluation_events' = Append(evaluation_events, Event.type) BY <1>3 DEF Retain
    <2>2. Event.type \in EventTypes BY DEF Entry
    <2>3. /\ evaluation_events' \in Seq(EventTypes)
          /\ Len(evaluation_events') = Len(evaluation_events) + 1
          /\ \A i \in 1..Len(evaluation_events) : evaluation_events'[i] = evaluation_events[i]
          /\ evaluation_events'[Len(evaluation_events) + 1] = Event.type
      BY <2>1, <2>2, AppendProperties DEF EventsKept
    <2>4. ASSUME ~ErrorIn(log, Seen)'
          PROVE  /\ Len(evaluation_events') = Seen'
                 /\ \A i \in 1..Seen' : evaluation_events'[i] = log'[i].type
      <3>1. Len(evaluation_events) = Seen /\ \A i \in 1..Seen : evaluation_events[i] = log[i].type
        BY <1>3, <2>4 DEF EventsKept
      <3>2. \A i \in 1..(Seen + 1) : i \in 1..Seen \/ i = Seen + 1 BY <1>2
      <3> QED BY <2>3, <3>1, <3>2
    <2> QED BY <2>3, <2>4 DEF EventsKept
  <1>4. CASE ~(active # "mission" /\ Event.type # "client_error")
    <2>1. evaluation_events' = evaluation_events BY <1>4 DEF Retain
    <2> QED BY <1>4, <2>1 DEF EventsKept
  <1> QED BY <1>3, <1>4

LEMMA ProgressKeeps == WindowInv /\ HandleProgress => WindowInv'
  <1> SUFFICES ASSUME WindowInv, HandleProgress PROVE WindowInv'
    OBVIOUS
  <1>1. /\ Handling /\ Event.type \in {"started", "progress"} /\ batch' = Tail(batch) /\ Retain
        /\ UNCHANGED <<log, ephemeris, status, request, loaded, submitted_request, terminal_event,
                       active, shown, drained, polling, sensitive>>
    BY DEF HandleProgress, clientVars, sourceVars
  <1>q. Queue /\ Order BY DEF WindowInv
  <1> USE HandlesNext
  <1>2. Coming BY <1>1
  <1>3. Current /\ EventsKept BY <1>2 DEF WindowInv
  <1>4. ~VerdictIn(log, Seen) /\ request # Nothing BY <1>1, <1>2, <1>q, NothingComes
  <1>5. sensitive = {"cancel"} BY <1>4 DEF WindowInv, Buttons
  <1>6. Event.type \notin Verdicts BY <1>1 DEF Verdicts, Client!TerminalTypes
  <1>7. Queue' /\ Order' BY <1>1
  <1>8. Buttons' BY <1>1, <1>4, <1>5, <1>6 DEF Buttons
  <1>9. Current' BY <1>1, <1>3 DEF Current
  <1>10. EventsKept' BY <1>1, <1>3, RetainKeeps
  <1>11. "save" \notin sensitive' BY <1>1, <1>5
  <1> QED BY <1>7, <1>8, <1>9, <1>10, <1>11 DEF WindowInv

LEMMA ErrorKeeps == WindowInv /\ HandleError => WindowInv'
  <1> SUFFICES ASSUME WindowInv, HandleError PROVE WindowInv'
    OBVIOUS
  <1>1. /\ Handling /\ Event.type \in {"error", "client_error"} /\ batch' = Tail(batch) /\ Retain
        /\ UNCHANGED <<log, ephemeris, status, request, loaded, submitted_request, active, shown,
                       drained, polling>>
    BY DEF HandleError, clientVars, sourceVars
  <1>2. sensitive' = Idle \ {"save"} BY DEF HandleError
  <1> USE HandlesNext
  <1>3. VerdictIn(log, Seen)' /\ request' # Nothing
    BY <1>1 DEF Verdicts, Client!TerminalTypes
  <1>4. Queue' /\ Order' BY <1>1
  <1>5. Buttons' BY <1>2, <1>3 DEF Buttons, Idle, Kinds
  <1>6. running' \/ Coming' => Current' /\ EventsKept'
    <2> SUFFICES ASSUME running' \/ Coming' PROVE Current' /\ EventsKept'
      OBVIOUS
    <2>1. running \/ Coming BY <1>1 DEF running
    <2>2. Current /\ EventsKept BY <2>1 DEF WindowInv
    <2>3. EventsKept' BY <1>1, <2>2, RetainKeeps
    <2>4. Current' BY <1>1, <2>2 DEF Current
    <2> QED BY <2>3, <2>4
  <1>7. "save" \notin sensitive' BY <1>2
  <1> QED BY <1>4, <1>5, <1>6, <1>7 DEF WindowInv

\* A terminal is handled while nothing but progress was: what is kept of the run is all of it.
LEMMA TerminalKeeps == WindowInv /\ HandleTerminal => WindowInv'
  <1> SUFFICES ASSUME WindowInv, HandleTerminal PROVE WindowInv'
    OBVIOUS
  <1> DEFINE result == active = "mission" \/ Event.type = "complete"
             offered == IF active = "mission" THEN ephemeris ELSE result
             k == Seen + 1
  <1>1. /\ Handling /\ Event.type \in {"complete", "cancelled"} /\ batch' = Tail(batch) /\ Retain
        /\ UNCHANGED <<log, ephemeris, status, request, loaded, submitted_request, active,
                       drained, polling>>
    BY DEF HandleTerminal, clientVars, sourceVars
  <1>2. /\ terminal_event' = IF result THEN [run |-> request.run, type |-> Event.type]
                                       ELSE NoTerminal
        /\ shown' = [what |-> IF result THEN "result" ELSE "cancelled", run |-> request.run]
        /\ sensitive' = IF offered THEN Idle \cup {"save"} ELSE Idle \ {"save"}
    BY DEF HandleTerminal
  <1>q. Queue /\ Order BY DEF WindowInv
  <1>3. /\ Queue' /\ Order' /\ k \in 1..Len(log) /\ Event = log[k] /\ Seen' = k
        /\ request # Nothing /\ Coming
        /\ VerdictIn(log, Seen)' <=> VerdictIn(log, Seen) \/ Event.type \in Verdicts
        /\ ErrorIn(log, Seen)' <=> ErrorIn(log, Seen) \/ Event.type = "client_error"
    BY <1>1, HandlesNext
  <1>4. Current /\ EventsKept BY <1>3 DEF WindowInv
  <1>5. VerdictIn(log, Seen)' BY <1>1, <1>3 DEF Verdicts, Client!TerminalTypes
  <1>6. Buttons' BY <1>1, <1>2, <1>3, <1>5 DEF Buttons, Idle, Kinds
  <1>7. Current' BY <1>1, <1>4 DEF Current
  <1>8. EventsKept' BY <1>1, <1>4, RetainKeeps
  <1>9. ASSUME offered PROVE Offered'
    <2>1. result BY <1>9
    <2>2. /\ terminal_event' = [run |-> request.run, type |-> Event.type]
          /\ shown' = [what |-> "result", run |-> request.run]
      BY <1>2, <2>1
    <2>3. terminal_event' # NoTerminal BY <1>1, <2>2 DEF NoTerminal
    <2>4. shown' = [what |-> "result", run |-> submitted_request'.run]
      BY <1>1, <1>4, <2>2 DEF Current
    <2>5. Answers(request.kind, loaded)' BY <1>1, <1>4, <2>2 DEF Answers, Current
    <2>6. \A i \in 1..k : /\ i = 1 /\ i # k => log[i].type = "started"
                          /\ i # 1 /\ i # k => log[i].type = "progress"
      <3>1. ASSUME NEW i \in 1..k, i # k
            PROVE  /\ i = 1 => log[i].type = "started"
                   /\ i # 1 => log[i].type = "progress"
        <4>1. i \in 1..Len(log) /\ i < k BY <1>3, <3>1
        <4>2. log[k].type # "client_error" BY <1>1, <1>3
        <4> QED BY <1>3, <1>q, <4>1, <4>2, BeforeEvent
      <3> QED BY <3>1
    <2>7. ASSUME active # "mission"
          PROVE  /\ Len(evaluation_events') = k /\ evaluation_events' \in Seq(EventTypes)
                 /\ \A i \in 1..k : evaluation_events'[i] =
                       IF i = k THEN "complete" ELSE IF i = 1 THEN "started" ELSE "progress"
      <3>1. log[k].type = "complete" BY <1>3, <2>1, <2>7
      <3>2. ~ErrorIn(log, Seen)
        <4>1. \A i \in 1..Seen : i \in 1..k /\ i # k BY <1>3, <1>q, SeenType
        <4> QED BY <2>6, <4>1 DEF ErrorIn
      <3>3. ~ErrorIn(log, Seen)' BY <1>1, <1>3, <3>2
      <3>4. /\ Len(evaluation_events') = k /\ evaluation_events' \in Seq(EventTypes)
            /\ \A i \in 1..k : evaluation_events'[i] = log[i].type
        BY <1>1, <1>3, <1>8, <2>7, <3>3 DEF EventsKept
      <3> HIDE DEF k
      <3> QED BY <2>6, <3>1, <3>4
    <2>8. CASE active = "mission"
      <3>1. ephemeris' BY <1>1, <1>9, <2>8
      <3>2. StudyComposable(loaded)' BY <1>1, <1>4, <2>5, <2>8, <3>1 DEF StudyComposable, Current, Answers
      <3>3. Composable(loaded)' BY <1>1, <2>8, <3>2 DEF Composable
      <3> QED BY <1>5, <2>3, <2>4, <3>3 DEF Offered
    <2>9. CASE active = "evaluation"
      <3>1. k = 4 BY <1>1, <1>3, <1>4, <1>q, <2>1, <2>9 DEF Order, Current
      <3>2. evaluation_events' = <<"started", "progress", "progress", "complete">>
        <4> DEFINE s == <<"started", "progress", "progress", "complete">>
        <4>1. /\ s \in Seq(EventTypes) /\ Len(s) = 4
              /\ s[1] = "started" /\ s[2] = "progress" /\ s[3] = "progress" /\ s[4] = "complete"
          BY DEF EventTypes, Verdicts, Client!TerminalTypes
        <4>2. Len(evaluation_events') = 4 /\ evaluation_events' \in Seq(EventTypes)
          BY <2>7, <2>9, <3>1
        <4>3. /\ evaluation_events'[1] = "started" /\ evaluation_events'[2] = "progress"
              /\ evaluation_events'[3] = "progress" /\ evaluation_events'[4] = "complete"
          BY <2>7, <2>9, <3>1
        <4>4. \A i \in 1..4 : i = 1 \/ i = 2 \/ i = 3 \/ i = 4 OBVIOUS
        <4>5. \A i \in 1..4 : evaluation_events'[i] = s[i] BY <4>1, <4>3, <4>4
        <4> HIDE DEF s
        <4>6. evaluation_events' = s BY <4>1, <4>2, <4>5, SeqEqual
        <4> QED BY <4>6 DEF s
      <3>3. EvaluationComposable(loaded)'
        BY <1>1, <1>4, <2>5, <2>9, <3>2 DEF EvaluationComposable, Current, Answers
      <3>4. Composable(loaded)' BY <1>1, <2>9, <3>3 DEF Composable
      <3> QED BY <1>5, <2>3, <2>4, <3>4 DEF Offered
    <2>10. CASE active = "shooting"
      <3>1. k > 2 BY <1>1, <1>3, <1>4, <1>q, <2>1, <2>10 DEF Order, Current
      <3>2. /\ Len(evaluation_events') > 2 /\ Head(evaluation_events') = "started"
            /\ \A i \in 2..Len(evaluation_events') : evaluation_events'[i] =
                  IF i = Len(evaluation_events') THEN "complete" ELSE "progress"
        <4>1. Len(evaluation_events') = k BY <2>7, <2>10
        <4>2. k \in Nat BY <1>3
        <4>3. evaluation_events'[1] = "started" BY <2>7, <2>10, <3>1, <4>2
        <4>4. Head(evaluation_events') = evaluation_events'[1] BY <2>7, <2>10
        <4>5. ASSUME NEW i \in 2..k
              PROVE  evaluation_events'[i] = IF i = k THEN "complete" ELSE "progress"
          <5>1. i \in 1..k /\ i # 1 BY <4>2
          <5> HIDE DEF k
          <5> QED BY <2>7, <2>10, <5>1
        <4> HIDE DEF k
        <4> QED BY <3>1, <4>1, <4>3, <4>4, <4>5
      <3>3. ShootingComposable(loaded)'
        BY <1>1, <1>4, <2>5, <2>10, <3>2 DEF ShootingComposable, Current, Answers
      <3>4. Composable(loaded)' BY <1>1, <2>10, <3>3 DEF Composable
      <3> QED BY <1>5, <2>3, <2>4, <3>4 DEF Offered
    <2> QED BY <1>4, <1>q, <2>8, <2>9, <2>10 DEF Current, Queue, Kinds
  <1>10. "save" \in sensitive' => offered BY <1>2
  <1> QED BY <1>3, <1>6, <1>7, <1>8, <1>9, <1>10 DEF WindowInv

-----------------------------------------------------------------------------
(* Clicks ******************************************************************)

\* A button other than Cancel and Save can be clicked before the first run, or once the
\* verdict of the last was handled.
LEMMA ClickedBetweenRuns ==
    ASSUME WindowInv, NEW button \in Kinds \cup {"import", "open"}, Click(button)
    PROVE  /\ request = Nothing \/ VerdictIn(log, Seen)
           /\ ~Coming
           /\ "cancel" \notin sensitive
  <1>q. Queue /\ Order /\ Buttons BY DEF WindowInv
  <1>1. button \in sensitive /\ button # "cancel" BY DEF Click, Kinds
  <1>2. request = Nothing \/ VerdictIn(log, Seen) BY <1>q, <1>1 DEF Buttons
  <1>3. ~Coming
    <2>1. CASE VerdictIn(log, Seen) BY <1>q, <2>1, NothingComes
    <2>2. CASE request = Nothing
      <3>1. Len(log) = 0 BY <1>q, <2>2 DEF Queue
      <3>2. Seen \in Nat BY <1>q, SeenType
      <3> QED BY <3>1, <3>2 DEF Coming
    <2> QED BY <1>2, <2>1, <2>2
  <1>4. "cancel" \notin sensitive BY <1>q, <1>2 DEF Buttons
  <1> QED BY <1>2, <1>3, <1>4

\* An import and a reopened report, which forget the result.
LEMMA ForgetKeeps ==
    ASSUME WindowInv, NEW button \in {"import", "open"}, Click(button), ~running,
           UNCHANGED <<status, log, request, drained, batch, polling>>,
           loaded' \in Sources \cup {NoSource},
           "save" \notin sensitive', "cancel" \notin sensitive',
           sensitive \ {"save", "cancel"} \subseteq sensitive'
    PROVE  WindowInv'
  <1>q. Queue /\ Order /\ Buttons BY DEF WindowInv
  <1>1. (request = Nothing \/ VerdictIn(log, Seen)) /\ ~Coming
    BY ClickedBetweenRuns DEF Kinds
  <1>2. Queue' BY <1>q DEF Queue, Seen, running
  <1>3. Order' BY <1>q DEF Order
  <1>4. Seen' = Seen BY DEF Seen
  <1>5. Buttons' BY <1>q, <1>1, <1>4 DEF Buttons, VerdictIn, Kinds
  <1>6. ~Coming' BY <1>1, <1>4 DEF Coming
  <1>7. ~running' BY DEF running
  <1> QED BY <1>2, <1>3, <1>5, <1>6, <1>7 DEF WindowInv

LEMMA ImportKeeps == WindowInv /\ ImportRuntime => WindowInv'
  <1> SUFFICES ASSUME WindowInv, ImportRuntime PROVE WindowInv'
    OBVIOUS
  <1>1. /\ Click("import") /\ ~running
        /\ UNCHANGED <<status, log, request, drained, batch, polling>>
        /\ loaded' \in Sources \cup {NoSource}
        /\ sensitive' = (sensitive \cup Kinds \cup {"open"}) \ {"save", "cancel"}
    BY DEF ImportRuntime, clientVars, pollVars
  <1> QED BY <1>1, ForgetKeeps

LEMMA OpenKeeps == WindowInv /\ OpenReport => WindowInv'
  <1> SUFFICES ASSUME WindowInv, OpenReport PROVE WindowInv'
    OBVIOUS
  <1>1. /\ Click("open") /\ ~running
        /\ UNCHANGED <<status, log, request, drained, batch, polling, loaded>>
        /\ sensitive' = sensitive \ {"save"}
    BY DEF OpenReport, clientVars, pollVars, sourceVars
  <1>2. "cancel" \notin sensitive BY <1>1, ClickedBetweenRuns
  <1>3. loaded \in Sources \cup {NoSource} BY DEF WindowInv, Queue
  <1> QED BY <1>1, <1>2, <1>3, ForgetKeeps

LEMMA StartKeeps == ASSUME WindowInv, NEW kind \in Kinds, Start(kind) PROVE WindowInv'
  <1>q. Queue BY DEF WindowInv
  <1>1. /\ ~polling /\ log' = <<>> /\ status' = "running" /\ drained' = 0
        /\ request' = [run |-> request.run + 1, kind |-> kind, source |-> loaded]
        /\ submitted_request' = request' /\ active' = kind
        /\ evaluation_events' = <<>> /\ sensitive' = {"cancel"}
        /\ UNCHANGED <<loaded, batch, polling>>
    BY DEF Start, StartLeaving, Click, Client!Begin, sourceVars
  <1>2. batch = <<>> BY <1>q, <1>1 DEF Queue
  <1>3. request'.run \in Nat /\ request'.run > 0 /\ request'.kind = kind /\ request' # Nothing
    BY <1>q, <1>1 DEF Queue, Nothing
  <1>4. Seen' = 0
    <2>1. drained' = 0 /\ batch' = <<>> BY <1>1, <1>2
    <2>2. Len(batch') = 0 BY <2>1
    <2>3. drained' - 0 = 0 BY <2>1
    <2> QED BY <2>2, <2>3 DEF Seen
  <1>5. Queue'
    <2>1. /\ log' \in Seq(Entry) /\ batch' \in Seq(Entry) /\ Len(log') = 0 /\ Len(batch') = 0
          /\ batch' = <<>>
      BY <1>1, <1>2
    <2>2. /\ drained' \in Nat /\ drained' <= Len(log') /\ Len(batch') <= drained'
      BY <1>1, <2>1
    <2>3. \A i \in 1..Len(batch') : batch'[i] = log'[Seen' + i] BY <2>1
    <2>4. status' \in {"ready", "running"} /\ loaded' \in Sources \cup {NoSource}
      BY <1>q, <1>1 DEF Queue
    <2> QED BY <1>3, <2>1, <2>2, <2>3, <2>4 DEF Queue
  <1>6. Order' BY <1>1 DEF Order
  <1>7. ~VerdictIn(log, Seen)' /\ ~ErrorIn(log, Seen)' BY <1>4 DEF VerdictIn, ErrorIn
  <1>8. Buttons' BY <1>1, <1>3, <1>7 DEF Buttons
  <1>9. Current' BY <1>1, <1>3 DEF Current
  <1>10. EventsKept' BY <1>1, <1>4 DEF EventsKept
  <1> QED BY <1>1, <1>5, <1>6, <1>8, <1>9, <1>10 DEF WindowInv

-----------------------------------------------------------------------------
LEMMA WindowInit == Init => WindowInv
  <1> SUFFICES ASSUME Init PROVE WindowInv
    OBVIOUS
  <1>1. /\ log = <<>> /\ batch = <<>> /\ drained = 0 /\ status = "ready" /\ request = Nothing
        /\ loaded = NoSource /\ sensitive = {"import"}
    BY DEF Init, Client!Init
  <1>2. Seen = 0
    <2>1. Len(batch) = 0 BY <1>1
    <2>2. drained - 0 = 0 BY <1>1
    <2> QED BY <2>1, <2>2 DEF Seen
  <1>3. Queue BY <1>1, <1>2 DEF Queue, running, Nothing, Kinds
  <1>4. Order BY <1>1 DEF Order
  <1>5. Buttons BY <1>1 DEF Buttons
  <1>6. ~Coming /\ ~running BY <1>1, <1>2 DEF Coming, running
  <1> QED BY <1>1, <1>3, <1>4, <1>5, <1>6 DEF WindowInv

LEMMA ClientKeeps == WindowInv /\ ClientWorks => WindowInv'
  <1> SUFFICES ASSUME WindowInv, ClientWorks PROVE WindowInv'
    OBVIOUS
  <1>1. UNCHANGED windowVars
    BY DEF ClientWorks, sourceVars, resultVars, pollVars, windowVars
  <1>2. CASE Deliver BY <1>1, <1>2, DeliverKeeps
  <1>3. CASE Client!Report /\ UNCHANGED ephemeris BY <1>1, <1>3, ReportKeeps
  <1>4. CASE (Client!Spawn \/ Client!Reap \/ Client!End) /\ UNCHANGED ephemeris
    <2>1. UNCHANGED log /\ status' \in {status, "ready"}
      BY <1>4 DEF Client!Spawn, Client!Reap, Client!End
    <2> QED BY <1>1, <1>4, <2>1, Frame DEF windowVars
  <1> QED BY <1>2, <1>3, <1>4 DEF ClientWorks

LEMMA WindowStep == WindowInv /\ [Next]_vars => WindowInv'
  <1> SUFFICES ASSUME WindowInv, [Next]_vars PROVE WindowInv'
    OBVIOUS
  <1> DEFINE untouched == UNCHANGED <<log, ephemeris, drained, batch, request, loaded, submitted_request,
                                      terminal_event, evaluation_events, active, sensitive, shown, status>>
  <1>1. CASE ClientWorks BY <1>1, ClientKeeps
  <1>2. CASE RewriteFile \/ EditFields \/ SaveReport \/ CloseRequest
    <2>1. untouched /\ UNCHANGED polling
      BY <1>2 DEF RewriteFile, EditFields, SaveReport, CloseRequest, clientVars, sourceVars, resultVars,
                  pollVars
    <2> QED BY <2>1, Frame
  <1>3. CASE ImportRuntime BY <1>3, ImportKeeps
  <1>4. CASE OpenReport BY <1>4, OpenKeeps
  <1>5. CASE \E kind \in Kinds : Start(kind) BY <1>5, StartKeeps
  <1>6. CASE Poll BY <1>6, PollKeeps
  <1>7. CASE Handle BY <1>7, ProgressKeeps, TerminalKeeps, ErrorKeeps DEF Handle
  <1>8. CASE PollEnds
    <2>1. untouched /\ batch = <<>>
      BY <1>8 DEF PollEnds, clientVars, sourceVars, resultVars
    <2> QED BY <2>1, Frame
  <1>9. CASE UNCHANGED vars
    <2>1. untouched /\ UNCHANGED polling
      BY <1>9 DEF vars, clientVars, sourceVars, resultVars, pollVars
    <2> QED BY <2>1, Frame
  <1> QED BY <1>1, <1>2, <1>3, <1>4, <1>5, <1>6, <1>7, <1>8, <1>9 DEF Next

LEMMA WindowInvariant == Spec => []WindowInv
  BY WindowInit, WindowStep, PTL DEF Spec

\* Cancel is the only button of a run whose verdict the window has not handled, and every
\* other one works from the verdict on (start_mission, start_evaluation, start_shooting,
\* the handlers of poll_worker).
THEOREM OnlyCancelDuringRun == Spec => []ControlsFollowRun
  <1>1. WindowInv => ControlsFollowRun
    <2> SUFFICES ASSUME WindowInv PROVE ControlsFollowRun
      OBVIOUS
    <2>1. Queue /\ Buttons BY DEF WindowInv
    <2>2. Client!Closed(Handled) <=> VerdictIn(log, Seen) BY <2>1, ClosedLog
    <2> QED BY <2>1, <2>2 DEF ControlsFollowRun, Buttons
  <1> QED BY <1>1, WindowInvariant, PTL

\* No import and no reopened report changes what kind of result the window expects while
\* events of a run are on their way (import_runtime, open_report, poll_worker).
THEOREM EventsMeetTheirHandlers == Spec => []HandlersMeetTheirRun
  <1>1. WindowInv => HandlersMeetTheirRun
    <2> SUFFICES ASSUME WindowInv PROVE HandlersMeetTheirRun
      OBVIOUS
    <2> DEFINE s == Seen
               n == Len(log)
               coming == SubSeq(log, s + 1, n)
    <2>1. Queue BY DEF WindowInv
    <2>2. s \in Nat /\ n \in Nat /\ s <= n /\ \A i \in 1..n : log[i] \in Entry BY <2>1, SeenType
    <2>3. SUFFICES ASSUME NEW i \in 1..Len(coming), coming[i].type # "client_error"
                   PROVE  active = request.kind
      BY DEF HandlersMeetTheirRun, Seen
    <2>4. s + 1 \in 1..(n + 1) /\ n \in (s + 1 - 1)..n BY <2>2
    <2>5. \A k \in (s + 1)..n : log[k] \in Entry BY <2>2
    <2>6. /\ Len(coming) = IF s + 1 <= n THEN n - (s + 1) + 1 ELSE 0
          /\ \A k \in 1..(n - (s + 1) + 1) : coming[k] = log[s + 1 + k - 1]
      BY <2>1, <2>4, <2>5, SubSeqProperties DEF Queue
    <2>7. s + i \in (s + 1)..n /\ coming[i] = log[s + i]
      <3> HIDE DEF s, n, coming
      <3>1. i \in 1..(n - (s + 1) + 1) /\ s + 1 + i - 1 = s + i BY <2>2, <2>3, <2>6
      <3>2. s + i \in (s + 1)..n BY <2>2, <3>1
      <3> QED BY <2>6, <3>1, <3>2
    <2>8. Coming
      <3> HIDE DEF coming
      <3> QED BY <2>3, <2>7 DEF Coming
    <2> QED BY <2>8 DEF WindowInv, Current
  <1> QED BY <1>1, WindowInvariant, PTL

\* Whatever Save is offered for is the submitted request's own result, with all that the
\* composers of its kind ask for (handle_mission_terminal, handle_evaluation_terminal,
\* handle_shooting_terminal, save_report).
THEOREM WhatIsOfferedCanBeSaved == Spec => []OfferedResultIsSaveable
  <1>1. WindowInv => OfferedResultIsSaveable
    BY DEF WindowInv, OfferedResultIsSaveable, Offered, Current
  <1> QED BY <1>1, WindowInvariant, PTL

-----------------------------------------------------------------------------
(* Part 2: the build check of the same window ******************************)

\* A timer is connected only while its check is the latest one, the button is
\* away and the window is there (check_updates, update_loaded, close_request).
THEOREM TimersHeld == CheckSpec => []NoTimerLost
  <1> USE DEF NoTimerLost
  <1>1. CheckInit => NoTimerLost
    BY DEF CheckInit
  <1>2. ASSUME NoTimerLost, [CheckNext]_checkVars PROVE NoTimerLost'
    <2>1. CASE UNCHANGED checkVars
      BY <1>2, <2>1 DEF checkVars
    <2>2. CASE CheckUpdates
      <3>1. timers = {} /\ window' = window /\ window # "closed"
        BY <1>2, <2>2 DEF CheckUpdates, BeginCheck
      <3>2. timers' = {} \/ (timers' = {checks'} /\ clickable' = FALSE)
        BY <2>2, <3>1 DEF CheckUpdates, BeginCheck
      <3> QED BY <3>1, <3>2
    <2>3. ASSUME NEW i, Timeout(i) PROVE timers' = {}
      BY <1>2, <2>3 DEF Timeout
    <2>4. ASSUME NEW i, UpdateLoaded(i) PROVE timers' = {}
      BY <1>2, <2>4 DEF UpdateLoaded
    <2>5. CASE CloseWindow
      BY <1>2, <2>5 DEF CloseWindow
    <2> QED BY <1>2, <2>1, <2>2, <2>3, <2>4, <2>5 DEF CheckNext
  <1> QED BY <1>1, <1>2, PTL DEF CheckSpec
=============================================================================
