--------------------------- MODULE DesktopWindow ---------------------------
(***************************************************************************)
(* The two halves of the window's class: its studies and its build check.  *)
(* Their callbacks share the GTK thread and the closing of the window, of  *)
(* which each half has its own side, and no other member.  Neither can     *)
(* tell what the other does before that, so a behaviour is of one half,    *)
(* and the other's window is closed from the start.                        *)
(***************************************************************************)
EXTENDS StudyWindow, BuildCheck

NoChecks ==
    /\ checks = 0 /\ clickable = TRUE
    /\ timers = {} /\ cancelled = {} /\ pending = {}
    /\ window = "closed"

NoStudy ==
    /\ pending_close = FALSE /\ closed = TRUE
    /\ status = "ready" /\ process = "none" /\ log = <<>> /\ ephemeris = FALSE
    /\ drained = 0 /\ batch = <<>> /\ polling = FALSE
    /\ request = Nothing
    /\ loaded = NoSource /\ disk = NoSource /\ edited = FALSE
    /\ submitted_request = Nothing /\ terminal_event = NoTerminal
    /\ evaluation_events = <<>> /\ active = "mission"
    /\ sensitive = {"import"}
    /\ shown = [what |-> "nothing", run |-> 0]
    /\ report = [made |-> FALSE, failed |-> FALSE]

WindowInit == \/ Init /\ NoChecks
              \/ CheckInit /\ NoStudy

Study == Next /\ UNCHANGED checkVars
Check == CheckNext /\ UNCHANGED vars

\* GTK's timers and idle callbacks are those of the two halves.
WindowSpec ==
    /\ WindowInit /\ [][Study \/ Check]_<<vars, checkVars>>
    /\ Fairness /\ CheckFairness
=============================================================================
