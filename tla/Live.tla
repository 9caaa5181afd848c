-------------------------------- MODULE Live --------------------------------
(***************************************************************************)
(* The foreground live session: src/src/live.rs, src/src/live/macos.rs and *)
(* src/native/macos/session_monitor.c.  Three threads meet in it: the      *)
(* driver, which reconciles and waits; the signal thread, which sets the   *)
(* shutdown flag and prompts the driver; and the FSEvents delivery queue,  *)
(* whose callbacks prompt it too.  Prompts share one channel of capacity   *)
(* one; a prompt that finds it full is dropped.  Each load, receive and    *)
(* send is a step of its own.                                              *)
(*                                                                         *)
(* The engine is a black box here: one step in which it reads the          *)
(* workspace and one in which it ends, with a result and perhaps writes.   *)
(***************************************************************************)
EXTENDS Integers

CONSTANTS
    States,     \* attention reports: the unresolved states of a result
    Failures,   \* failure diagnostics
    NoBlocker,  \* the result of a reconciliation that settles everything
    Faults      \* "start", "diagnostic", "thread": what may fail besides the engine

ASSUME BlockerAssumption ==
    /\ States \cap Failures = {}
    /\ NoBlocker \notin States \cup Failures
ASSUME FaultsAssumption == Faults \subseteq {"start", "diagnostic", "thread"}

VARIABLES
    driver,     \* where the driver stands
    wake,       \* the wake the driver has taken from the channel
    channel,    \* the content of the bounded wake channel
    shutdown,   \* the atomic shutdown flag
    signals,    \* where the signal thread stands
    closed,     \* the signal iterator has been closed
    signalled,  \* a SIGINT or SIGTERM the thread has not taken
    stream,     \* the native FSEvents stream and its callback state
    callback,   \* the callback batch on the serial delivery queue
    events,     \* filesystem events not yet batched by FSEvents
    result,     \* the outcome of the reconciliation in progress
    blocker,    \* Diagnostics::blocker
    status,     \* how the session is to exit
    \* Not in the program:
    stale,      \* the workspace has changed since it was last read
    found,      \* the read in progress found the workspace changed
    shown,      \* the blocker that the diagnostics tell the user of
    late        \* reconciliations begun after the flag was set

driverVars == <<driver, wake, result, blocker, status, found, shown, late>>
signalVars == <<signals, closed, signalled>>
monitorVars == <<stream, callback>>
vars == <<driver, wake, channel, shutdown, signals, closed, signalled, stream,
          callback, events, result, blocker, status, stale, found, shown, late>>

Blocker == States \cup Failures
Wake == {"none", "filesystem", "control"}

Starting == {"startup", "monitor", "announce", "initial"}
Running == {"begin", "reading", "writing", "report"}
Boundary == {"boundary", "poll", "check", "receive", "received"}
Ending == {"stop", "teardown", "drain", "release", "closing", "joining", "exited"}

\* The driver owns the receiver; without a monitor it is dropped at exit only.
ReceiverLives == driver \notin Ending \ {"stop"} \/ stream = "none"

TypeOK ==
    /\ driver \in Starting \cup Running \cup Boundary \cup Ending
    /\ wake \in Wake /\ channel \in Wake
    /\ shutdown \in BOOLEAN
    /\ signals \in {"none", "waiting", "sending", "panicked", "ended"}
    /\ closed \in BOOLEAN /\ signalled \in BOOLEAN
    /\ stream \in {"none", "started", "stopped", "released"}
    /\ callback \in {"none", "queued", "running"}
    /\ events \in BOOLEAN
    /\ result \in Blocker \cup {NoBlocker}
    /\ blocker \in Blocker \cup {NoBlocker}
    /\ shown \in Blocker \cup {NoBlocker}
    /\ status \in {"running", "success", "failure"}
    /\ stale \in BOOLEAN /\ found \in BOOLEAN
    /\ late \in Nat

Init ==
    /\ driver = "startup"
    /\ wake = "none" /\ channel = "none"
    /\ shutdown = FALSE
    /\ signals = "none" /\ closed = FALSE /\ signalled = FALSE
    /\ stream = "none" /\ callback = "none" /\ events = FALSE
    /\ result = NoBlocker /\ blocker = NoBlocker /\ shown = NoBlocker
    /\ status = "running"
    /\ stale = TRUE /\ found = FALSE
    /\ late = 0

-----------------------------------------------------------------------------
(* Startup: signals, then the monitor, then the first decision *)

StartSignals ==
    /\ driver = "startup"
    /\ driver' = "monitor"
    /\ signals' = "waiting"
    /\ UNCHANGED <<wake, channel, shutdown, closed, signalled, monitorVars, events,
                   result, blocker, status, stale, found, shown, late>>

SignalsFail ==
    /\ "start" \in Faults
    /\ driver = "startup"
    /\ driver' = "exited" /\ status' = "failure"
    /\ UNCHANGED <<wake, channel, shutdown, signalVars, monitorVars, events,
                   result, blocker, stale, found, shown, late>>

StartMonitor ==
    /\ driver = "monitor"
    /\ driver' = "announce"
    /\ stream' = "started"
    /\ UNCHANGED <<wake, channel, shutdown, signalVars, callback, events,
                   result, blocker, status, stale, found, shown, late>>

MonitorFails ==
    /\ "start" \in Faults
    /\ driver = "monitor"
    /\ driver' = "closing" /\ status' = "failure"
    /\ UNCHANGED <<wake, channel, shutdown, signalVars, monitorVars, events,
                   result, blocker, stale, found, shown, late>>

Announce ==
    /\ driver = "announce"
    /\ driver' = "initial"
    /\ UNCHANGED <<wake, channel, shutdown, signalVars, monitorVars, events,
                   result, blocker, status, stale, found, shown, late>>

DecideInitial ==
    /\ driver = "initial"
    /\ driver' = IF shutdown THEN "stop" ELSE "begin"
    /\ UNCHANGED <<wake, channel, shutdown, signalVars, monitorVars, events,
                   result, blocker, status, stale, found, shown, late>>

-----------------------------------------------------------------------------
(* One reconciliation *)

Begin ==
    /\ driver = "begin"
    /\ driver' = "reading"
    /\ late' = IF shutdown THEN late + 1 ELSE late
    /\ UNCHANGED <<wake, channel, shutdown, signalVars, monitorVars, events,
                   result, blocker, status, stale, found, shown>>

ReadWorkspace ==
    /\ driver = "reading"
    /\ driver' = "writing"
    /\ stale' = FALSE /\ found' = stale
    /\ UNCHANGED <<wake, channel, shutdown, signalVars, monitorVars, events,
                   result, blocker, status, shown, late>>

\* Whatever it ends with, a run may have written; its own writes are events.
EndReconciliation(outcome, wrote) ==
    /\ driver = "writing"
    /\ driver' = "report"
    /\ result' = outcome
    /\ events' = (events \/ (wrote /\ stream = "started"))
    /\ UNCHANGED <<wake, channel, shutdown, signalVars, monitorVars,
                   blocker, status, stale, found, shown, late>>

\* Mutant: two reports of the same kind are taken for the same report.
TransitionByKind(previous, current) ==
    CASE previous = current \/ {previous, current} \subseteq States -> "unchanged"
      [] previous # current /\ current = NoBlocker -> "recovered"
      [] previous \in Failures /\ current \in States -> "recovered and report"
      [] OTHER -> "report"

Transition(previous, current) ==
    CASE previous = current -> "unchanged"
      [] previous # current /\ current = NoBlocker -> "recovered"
      [] previous \in Failures /\ current \in States -> "recovered and report"
      [] OTHER -> "report"

\* The blocker a reader of the diagnostics knows of after a transition.
Told(transition, current) ==
    CASE transition = "unchanged" -> shown
      [] transition = "recovered" -> NoBlocker
      [] transition \in {"report", "recovered and report"} -> current

\* Mutant: wakes that came during the run are drained with it.
ReportResultDraining ==
    /\ driver = "report"
    /\ driver' = "boundary"
    /\ channel' = "none"
    /\ shown' = Told(Transition(blocker, result), result)
    /\ blocker' = result
    /\ UNCHANGED <<wake, shutdown, signalVars, monitorVars, events,
                   result, status, stale, found, late>>

\* Mutant: a failed reconciliation is retried at once.
ReportResultRetrying ==
    /\ driver = "report"
    /\ driver' = IF result \in Failures THEN "begin" ELSE "boundary"
    /\ shown' = Told(Transition(blocker, result), result)
    /\ blocker' = result
    /\ UNCHANGED <<wake, channel, shutdown, signalVars, monitorVars, events,
                   result, status, stale, found, late>>

ReportResult ==
    /\ driver = "report"
    /\ driver' = "boundary"
    /\ shown' = Told(Transition(blocker, result), result)
    /\ blocker' = result
    /\ UNCHANGED <<wake, channel, shutdown, signalVars, monitorVars, events,
                   result, status, stale, found, late>>

-----------------------------------------------------------------------------
(* Between reconciliations *)

\* next_after_reconciliation loads the flag, then polls the channel.
LoadAfterRun ==
    /\ driver = "boundary"
    /\ driver' = IF shutdown THEN "stop" ELSE "poll"
    /\ UNCHANGED <<wake, channel, shutdown, signalVars, monitorVars, events,
                   result, blocker, status, stale, found, shown, late>>

Poll ==
    /\ driver = "poll"
    /\ driver' = "received"
    /\ wake' = channel /\ channel' = "none"
    /\ UNCHANGED <<shutdown, signalVars, monitorVars, events,
                   result, blocker, status, stale, found, shown, late>>

\* wait_for_boundary loads the flag, then blocks on the channel.
LoadBeforeWait ==
    /\ driver = "check"
    /\ driver' = IF shutdown THEN "stop" ELSE "receive"
    /\ UNCHANGED <<wake, channel, shutdown, signalVars, monitorVars, events,
                   result, blocker, status, stale, found, shown, late>>

Receive ==
    /\ driver = "receive"
    /\ channel # "none"
    /\ driver' = "received"
    /\ wake' = channel /\ channel' = "none"
    /\ UNCHANGED <<shutdown, signalVars, monitorVars, events,
                   result, blocker, status, stale, found, shown, late>>

\* Mutant: a run that failed is retried at once, where the driver should wait.
BoundaryNextRetrying(requested, taken) ==
    CASE requested \/ taken = "control" -> "stop"
      [] ~requested /\ taken = "filesystem" -> "begin"
      [] ~requested /\ taken = "none" -> IF result \in Failures THEN "begin" ELSE "check"

\* Both then load the flag again and decide.
BoundaryNext(requested, taken) ==
    CASE requested \/ taken = "control" -> "stop"
      [] ~requested /\ taken = "filesystem" -> "begin"
      [] ~requested /\ taken = "none" -> "check"

DecideNext ==
    /\ driver = "received"
    /\ driver' = BoundaryNext(shutdown, wake)
    /\ wake' = "none"
    /\ UNCHANGED <<channel, shutdown, signalVars, monitorVars, events,
                   result, blocker, status, stale, found, shown, late>>

-----------------------------------------------------------------------------
(* The end of the session *)

\* The driver, and the receiver with it, is dropped with the session's result.
EndSession(exit) ==
    /\ driver' = "teardown"
    /\ status' = exit
    /\ channel' = "none"
    /\ UNCHANGED <<wake, shutdown, signalVars, monitorVars, events,
                   result, blocker, stale, found, shown, late>>

ReportStopped == driver = "stop" /\ EndSession("success")

DiagnosticFails ==
    /\ "diagnostic" \in Faults
    /\ driver \in {"announce", "report", "stop"}
    /\ EndSession("failure")

StopStream ==
    /\ driver = "teardown"
    /\ driver' = "drain"
    /\ stream' = "stopped"
    /\ events' = FALSE
    /\ UNCHANGED <<wake, channel, shutdown, signalVars, callback,
                   result, blocker, status, stale, found, shown, late>>

DrainQueue ==
    /\ driver = "drain"
    /\ callback = "none"
    /\ driver' = "release"
    /\ UNCHANGED <<wake, channel, shutdown, signalVars, monitorVars, events,
                   result, blocker, status, stale, found, shown, late>>

ReleaseMonitor ==
    /\ driver = "release"
    /\ driver' = "closing"
    /\ stream' = "released"
    /\ UNCHANGED <<wake, channel, shutdown, signalVars, callback, events,
                   result, blocker, status, stale, found, shown, late>>

\* Mutant: the signal thread is joined without being told to end.
CloseSignalsUntold ==
    /\ driver = "closing"
    /\ driver' = "joining"
    /\ UNCHANGED <<wake, channel, shutdown, signals, closed, signalled, monitorVars, events,
                   result, blocker, status, stale, found, shown, late>>

CloseSignals ==
    /\ driver = "closing"
    /\ driver' = "joining"
    /\ closed' = TRUE
    /\ UNCHANGED <<wake, channel, shutdown, signals, signalled, monitorVars, events,
                   result, blocker, status, stale, found, shown, late>>

\* A thread that panicked is joined with an error, which fails the session.
JoinSignals ==
    /\ driver = "joining"
    /\ signals \in {"panicked", "ended"}
    /\ driver' = "exited"
    /\ status' = IF signals = "panicked" THEN "failure" ELSE status
    /\ UNCHANGED <<wake, channel, shutdown, signalVars, monitorVars, events,
                   result, blocker, stale, found, shown, late>>

-----------------------------------------------------------------------------
(* The signal thread *)

TrySend(prompt) ==
    channel' = IF channel = "none" /\ ReceiverLives THEN prompt ELSE channel

\* Mutant: the flag is set and the driver is not prompted.
TakeSignalSilently ==
    /\ signals = "waiting"
    /\ signalled
    /\ signalled' = FALSE
    /\ shutdown' = TRUE
    /\ UNCHANGED <<driverVars, channel, signals, closed, monitorVars, events, stale>>

TakeSignal ==
    /\ signals = "waiting"
    /\ signalled
    /\ signalled' = FALSE
    /\ shutdown' = TRUE
    /\ signals' = IF shutdown THEN "waiting" ELSE "sending"
    /\ UNCHANGED <<driverVars, channel, closed, monitorVars, events, stale>>

SendControl ==
    /\ signals = "sending"
    /\ signals' = "waiting"
    /\ TrySend("control")
    /\ UNCHANGED <<driverVars, shutdown, closed, signalled, monitorVars, events, stale>>

EndSignals ==
    /\ signals = "waiting"
    /\ closed
    /\ signals' = "ended"
    /\ UNCHANGED <<driverVars, channel, shutdown, closed, signalled, monitorVars,
                   events, stale>>

\* Nobody learns of a panic before the thread is joined.
PanicSignals ==
    /\ "thread" \in Faults
    /\ signals = "waiting"
    /\ signals' = "panicked"
    /\ UNCHANGED <<driverVars, channel, shutdown, closed, signalled, monitorVars,
                   events, stale>>

-----------------------------------------------------------------------------
(* FSEvents and its serial delivery queue *)

QueueBatch ==
    /\ stream = "started"
    /\ events
    /\ callback = "none"
    /\ callback' = "queued"
    /\ events' = FALSE
    /\ UNCHANGED <<driverVars, channel, shutdown, signalVars, stream, stale>>

EnterCallback ==
    /\ callback = "queued"
    /\ callback' = "running"
    /\ UNCHANGED <<driverVars, channel, shutdown, signalVars, stream, events, stale>>

\* Mutant: a driver that is not waiting is not prompted.
InvalidateWaiting ==
    /\ callback = "running"
    /\ callback' = "none"
    /\ channel' = IF driver = "receive" THEN "filesystem" ELSE channel
    /\ UNCHANGED <<driverVars, shutdown, signalVars, stream, events, stale>>

Invalidate ==
    /\ callback = "running"
    /\ callback' = "none"
    /\ TrySend("filesystem")
    /\ UNCHANGED <<driverVars, shutdown, signalVars, stream, events, stale>>

-----------------------------------------------------------------------------
(* The user and other programs *)

Observed == events' = (events \/ stream = "started")

\* A save of the document or of a source file.
Edit ==
    /\ driver # "exited"
    /\ stale' = TRUE
    /\ Observed
    /\ UNCHANGED <<driverVars, channel, shutdown, signalVars, monitorVars>>

\* Activity in the watched directories that is not zwirn's concern.
Touch ==
    /\ stream = "started"
    /\ Observed
    /\ UNCHANGED <<driverVars, channel, shutdown, signalVars, monitorVars, stale>>

Signal ==
    /\ signals \in {"waiting", "sending"}
    /\ signalled' = TRUE
    /\ UNCHANGED <<driverVars, channel, shutdown, signals, closed, monitorVars,
                   events, stale>>

-----------------------------------------------------------------------------

Session ==
    \/ StartSignals \/ StartMonitor \/ Announce \/ DecideInitial
    \/ Begin \/ ReadWorkspace
    \/ \E outcome \in Blocker \cup {NoBlocker}, wrote \in BOOLEAN :
          EndReconciliation(outcome, wrote)
    \/ ReportResult
    \/ LoadAfterRun \/ Poll \/ LoadBeforeWait \/ Receive \/ DecideNext
    \/ ReportStopped \/ StopStream \/ DrainQueue \/ ReleaseMonitor
    \/ CloseSignals \/ JoinSignals

SignalThread == TakeSignal \/ SendControl \/ EndSignals
Delivery == QueueBatch \/ EnterCallback \/ Invalidate
Failure == SignalsFail \/ MonitorFails \/ DiagnosticFails \/ PanicSignals
World == Edit \/ Touch \/ Signal

Exited == driver = "exited" /\ UNCHANGED vars

Next == Session \/ SignalThread \/ Delivery \/ Failure \/ World \/ Exited

Spec == Init /\ [][Next]_vars

\* Each thread keeps running, the engine ends every command it begins, FSEvents
\* delivers what it has observed, and the signal loop heeds its closing even
\* while further signals arrive.
Fairness ==
    /\ WF_vars(Session)
    /\ WF_vars(TakeSignal \/ SendControl) /\ WF_vars(EndSignals)
    /\ WF_vars(Delivery)

FairSpec == Spec /\ Fairness

-----------------------------------------------------------------------------
(* Properties *)

(***************************************************************************)
(* No change is forgotten: while the session has not been asked to stop or *)
(* ended, a workspace that changed since it was last read is still on its  *)
(* way to a reconciliation, as events, a callback, a wake in the channel   *)
(* or in the driver's hand, or a run that has not read yet (docs/design.md,*)
(* "Monitoring and reconciliation"; live.rs, next_after_reconciliation and *)
(* wait_for_boundary; macos.rs, CallbackState::invalidate).                *)
(***************************************************************************)
WillRead ==
    \/ driver \in Starting \cup {"begin", "reading"}
    \/ events \/ callback # "none"
    \/ channel # "none" \/ wake # "none"

NoChangeForgotten ==
    stale => WillRead \/ shutdown \/ driver \in Ending

(***************************************************************************)
(* A driver that blocks after shutdown was requested has a wake before it: *)
(* one is in the channel, or the signal thread has yet to send its own     *)
(* (live.rs, ShutdownSignals::start: the flag is set before a try_send     *)
(* that a full channel may drop).                                          *)
(***************************************************************************)
NoLostShutdown ==
    driver = "receive" /\ shutdown => channel # "none" \/ signals = "sending"

(***************************************************************************)
(* At most one reconciliation begins after the shutdown flag is set: the   *)
(* one whose start raced with the signal (docs/design.md, "Diagnostics and *)
(* shutdown"; live.rs, the loads around each receive).                     *)
(***************************************************************************)
AtMostOneLateRun == late <= 1

(***************************************************************************)
(* The session ends only for a request or a failure: exit status 0 means a *)
(* signal was taken, and no blocker, spurious wake or wake from a callback *)
(* stops it (docs/design.md, "Diagnostics and shutdown"; boundary_next).   *)
(***************************************************************************)
StopsOnlyOnRequest ==
    driver \in Ending => shutdown \/ status = "failure"

(***************************************************************************)
(* The callback state outlives its callbacks: the native monitor and the   *)
(* sender it borrows are released only when no batch is on the delivery    *)
(* queue nor running (session_monitor.c, zwirn_destroy_monitor; macos.rs,  *)
(* Drop for SessionMonitor).                                               *)
(***************************************************************************)
CallbacksEndBeforeRelease ==
    stream = "released" => callback = "none"

(***************************************************************************)
(* The diagnostics are current and quiet: at every boundary the blocker a  *)
(* reader was last told of is the result of the last reconciliation, a     *)
(* recovery included, although unchanged results print nothing (live.rs,   *)
(* blocker_transition and Diagnostics::reconciliation).                    *)
(***************************************************************************)
DiagnosticsAreCurrent ==
    driver \in Boundary => shown = result

(***************************************************************************)
(* A requested shutdown ends the session, idle or busy, whatever else goes *)
(* on: the driver wakes, the delivery queue drains and the signal thread   *)
(* is joined.                                                              *)
(***************************************************************************)
ShutdownEnds == shutdown ~> driver = "exited"

\* A run that finds the workspace as it was when last read, and writes again.
Rewrite ==
    ~found /\ \E outcome \in Blocker \cup {NoBlocker} : EndReconciliation(outcome, TRUE)

(***************************************************************************)
(* The session comes to rest: when edits, touches and rewrites have ceased *)
(* it waits, with everything read, or it ends.  Each batch of events is    *)
(* followed by one run that has nothing to do, and a blocker is not        *)
(* retried (docs/design.md, "Monitoring and reconciliation": without       *)
(* another hint, no retry).  That rewrites cease is assumed: after a run   *)
(* that settles it is what Ledger!Settles and Node!RerunIsQuiet say of the *)
(* engine, but a run that fails may find the same to do again.  A write    *)
(* that goes on failing when the file is truncated (commit.rs, 244) wakes  *)
(* the session as often as it fails, since session_monitor.c keeps the     *)
(* events of the process's own writes.                                     *)
(***************************************************************************)
ComesToRest ==
    <>[][~(Edit \/ Touch \/ Rewrite)]_vars =>
        <>[]((driver = "receive" /\ ~stale) \/ driver \in Ending)

(***************************************************************************)
(* The session keeps what it promises its user: with its threads, wakes    *)
(* and loads hidden, it runs reconciliations one at a time for the changes *)
(* there are, and a request or a failure ends it between two of them, with *)
(* one more at most (docs/design.md, "Monitoring and reconciliation").     *)
(***************************************************************************)
Phase ==
    CASE driver \in {"reading", "writing"} -> "running"
      [] driver \in Ending -> "over"
      [] OTHER -> "idle"

Promise == INSTANCE Session WITH
    phase <- Phase, unread <- stale, requested <- shutdown, exit <- status

KeepsPromise == Promise!Spec
=============================================================================
