----------------------------- MODULE LiveProofs -----------------------------
(***************************************************************************)
(* The safety properties of the live session hold for every set of results *)
(* and every interleaving of its threads.                                  *)
(***************************************************************************)
EXTENDS Live, TLAPS

\* A control wake is only ever sent after the flag was set.
ControlMeansShutdown ==
    /\ channel = "control" \/ wake = "control" => shutdown
    /\ signals = "sending" => shutdown
    /\ driver = "stop" => shutdown

\* The driver holds a wake only until it has decided on it.
WakeIsInHand == wake # "none" => driver = "received"

\* The stream observes the workspace from before the first run to the teardown.
StreamCoversRuns ==
    /\ driver \in {"announce", "initial"} \cup Running \cup Boundary \cup {"stop"} => stream = "started"
    /\ driver \in {"startup", "monitor"} => stream = "none"

\* A late run is the last one: it leads nowhere but to the end.
LateRunIsLast ==
    late = 0 \/ (shutdown /\ driver \in {"reading", "writing", "report", "boundary"} \cup Ending)

\* The queue is drained before the monitor is released.
DrainedFirst ==
    /\ stream = "released" => driver \in {"closing", "joining", "exited"}
    /\ driver \in {"startup", "monitor", "release"} => callback = "none"
    /\ driver \in {"closing", "joining", "exited"} => callback = "none" /\ stream # "started"
    /\ driver \in {"drain", "release"} => stream = "stopped"

ShownIsBlocker ==
    /\ shown = blocker
    /\ driver \in Boundary => blocker = result

IInv ==
    /\ TypeOK
    /\ ControlMeansShutdown
    /\ WakeIsInHand
    /\ StreamCoversRuns
    /\ LateRunIsLast
    /\ DrainedFirst
    /\ ShownIsBlocker
    /\ NoChangeForgotten
    /\ NoLostShutdown
    /\ AtMostOneLateRun
    /\ StopsOnlyOnRequest

USE DEF Starting, Running, Boundary, Ending, Wake, Blocker,
        driverVars, signalVars, monitorVars

(* The strengthened invariant holds initially. *)
LEMMA InitIInv == Init => IInv
<1>1. Init => /\ shutdown \in BOOLEAN /\ closed \in BOOLEAN /\ signalled \in BOOLEAN
              /\ events \in BOOLEAN /\ stale \in BOOLEAN /\ found \in BOOLEAN
    BY Zenon DEF Init
<1>2. QED
    BY <1>1 DEF Init, IInv, TypeOK, ControlMeansShutdown, WakeIsInHand, StreamCoversRuns,
        LateRunIsLast, DrainedFirst, ShownIsBlocker, NoChangeForgotten, WillRead,
        NoLostShutdown, AtMostOneLateRun, StopsOnlyOnRequest

(* Every step preserves it, whichever thread takes it. *)
LEMMA NextIInv == IInv /\ [Next]_vars => IInv'
<1> USE BlockerAssumption
    DEF IInv, TypeOK, ControlMeansShutdown, WakeIsInHand, StreamCoversRuns, LateRunIsLast,
        DrainedFirst, ShownIsBlocker, NoChangeForgotten, WillRead, NoLostShutdown,
        AtMostOneLateRun, StopsOnlyOnRequest
<1> SUFFICES ASSUME IInv, [Next]_vars PROVE IInv'
    OBVIOUS
<1>1. CASE StartSignals
    BY <1>1 DEF StartSignals
<1>2. CASE SignalsFail
    BY <1>2 DEF SignalsFail
<1>3. CASE StartMonitor
    BY <1>3 DEF StartMonitor
<1>4. CASE MonitorFails
    BY <1>4 DEF MonitorFails
<1>5. CASE Announce
    BY <1>5 DEF Announce
<1>6. CASE DecideInitial
    BY <1>6 DEF DecideInitial
<1>7. CASE Begin
    BY <1>7 DEF Begin
<1>8. CASE ReadWorkspace
    <2>1. stale' \in BOOLEAN /\ found' \in BOOLEAN
        BY <1>8, Zenon DEF ReadWorkspace
    <2>2. QED
        BY <1>8, <2>1 DEF ReadWorkspace
<1>9. CASE ReportResult
    BY <1>9 DEF ReportResult, Transition, Told, Blocker
<1>10. CASE LoadAfterRun
    BY <1>10 DEF LoadAfterRun
<1>11. CASE Poll
    BY <1>11 DEF Poll
<1>12. CASE LoadBeforeWait
    BY <1>12 DEF LoadBeforeWait
<1>13. CASE Receive
    BY <1>13 DEF Receive
<1>14. CASE DecideNext
    BY <1>14 DEF DecideNext, BoundaryNext
<1>15. CASE ReportStopped
    BY <1>15 DEF ReportStopped, EndSession
<1>16. CASE StopStream
    <2>1. events' \in BOOLEAN
        BY <1>16, Zenon DEF StopStream
    <2>2. QED
        BY <1>16, <2>1 DEF StopStream
<1>17. CASE DrainQueue
    BY <1>17 DEF DrainQueue
<1>18. CASE ReleaseMonitor
    BY <1>18 DEF ReleaseMonitor
<1>19. CASE CloseSignals
    BY <1>19 DEF CloseSignals
<1>20. CASE JoinSignals
    BY <1>20 DEF JoinSignals
<1>21. CASE TakeSignal
    <2>1. signalled' \in BOOLEAN /\ shutdown' \in BOOLEAN
        BY <1>21, Zenon DEF TakeSignal
    <2>2. QED
        BY <1>21, <2>1 DEF TakeSignal
<1>22. CASE SendControl
    BY <1>22 DEF SendControl, TrySend, ReceiverLives
<1>23. CASE EndSignals
    BY <1>23 DEF EndSignals
<1>24. CASE QueueBatch
    <2>1. events' \in BOOLEAN
        BY <1>24, Zenon DEF QueueBatch
    <2>2. QED
        BY <1>24, <2>1 DEF QueueBatch
<1>25. CASE EnterCallback
    BY <1>25 DEF EnterCallback
<1>26. CASE Invalidate
    BY <1>26 DEF Invalidate, TrySend, ReceiverLives
<1>27. CASE Edit
    <2>1. stale' \in BOOLEAN /\ events' \in BOOLEAN
        BY <1>27, Zenon DEF Edit, Observed
    <2>2. (events => events') /\ (stream = "started" => events')
        BY <1>27, Zenon DEF Edit, Observed
    <2>3. QED
        BY <1>27, <2>1, <2>2 DEF Edit
<1>28. CASE Touch
    BY <1>28 DEF Touch, Observed
<1>29. CASE Signal
    BY <1>29 DEF Signal
<1>30. CASE DiagnosticFails
    BY <1>30 DEF DiagnosticFails, EndSession
<1>31. CASE \E outcome \in Blocker \cup {NoBlocker}, wrote \in BOOLEAN :
                EndReconciliation(outcome, wrote)
    BY <1>31 DEF EndReconciliation
<1>32. CASE PanicSignals
    BY <1>32 DEF PanicSignals
<1>33. CASE UNCHANGED vars
    BY <1>33 DEF vars
<1>34. QED
    BY <1>1, <1>2, <1>3, <1>4, <1>5, <1>6, <1>7, <1>8, <1>9, <1>10, <1>11, <1>12, <1>13, <1>14, <1>15, <1>16, <1>17, <1>18, <1>19, <1>20, <1>21, <1>22, <1>23, <1>24, <1>25, <1>26, <1>27, <1>28, <1>29, <1>30, <1>31, <1>32, <1>33
    DEF Next, Session, SignalThread, Delivery, Failure, World, Exited

(* The live session is type correct. *)
THEOREM TypeCorrect == Spec => []TypeOK
<1>1. IInv => TypeOK
    BY DEF IInv
<1>2. QED
    BY <1>1, InitIInv, NextIInv, PTL DEF Spec

(* No change of the workspace is forgotten, whatever the three threads do:   *)
(* the channel of capacity one, which drops a prompt when it is full, and    *)
(* the loads around each receive lose no hint.                               *)
THEOREM NothingForgotten == Spec => []NoChangeForgotten
<1>1. IInv => NoChangeForgotten
    BY DEF IInv
<1>2. QED
    BY <1>1, InitIInv, NextIInv, PTL DEF Spec

(* A driver that blocks after a shutdown request has a wake before it. *)
THEOREM ShutdownIsHeard == Spec => []NoLostShutdown
<1>1. IInv => NoLostShutdown
    BY DEF IInv
<1>2. QED
    BY <1>1, InitIInv, NextIInv, PTL DEF Spec

(* At most one reconciliation begins after the shutdown flag is set. *)
THEOREM OrderlyStop == Spec => []AtMostOneLateRun
<1>1. IInv => AtMostOneLateRun
    BY DEF IInv
<1>2. QED
    BY <1>1, InitIInv, NextIInv, PTL DEF Spec

(* The session stops for nothing but a request or a failure. *)
THEOREM EndsOnRequest == Spec => []StopsOnlyOnRequest
<1>1. IInv => StopsOnlyOnRequest
    BY DEF IInv
<1>2. QED
    BY <1>1, InitIInv, NextIInv, PTL DEF Spec

(* No callback runs on a released monitor. *)
THEOREM CallbackSafety == Spec => []CallbacksEndBeforeRelease
<1>1. IInv => CallbacksEndBeforeRelease
    BY DEF IInv, DrainedFirst, CallbacksEndBeforeRelease
<1>2. QED
    BY <1>1, InitIInv, NextIInv, PTL DEF Spec

(* The blocker a reader of the diagnostics knows of is the last result. *)
THEOREM CurrentDiagnostics == Spec => []DiagnosticsAreCurrent
<1>1. IInv => DiagnosticsAreCurrent
    BY DEF IInv, ShownIsBlocker, DiagnosticsAreCurrent
<1>2. QED
    BY <1>1, InitIInv, NextIInv, PTL DEF Spec

-----------------------------------------------------------------------------
(* The promise of the session *)

\* How the session ends is settled at its teardown.
RunningUntilTeardown ==
    driver \in Starting \cup Running \cup Boundary \cup {"stop"} => status = "running"

(* Nothing but the teardown and a failed start settles how the session ends. *)
LEMMA NextRunning == IInv /\ RunningUntilTeardown /\ [Next]_vars => RunningUntilTeardown'
<1> USE DEF IInv, TypeOK, RunningUntilTeardown
<1> SUFFICES ASSUME IInv, RunningUntilTeardown, [Next]_vars PROVE RunningUntilTeardown'
    OBVIOUS
<1>1. CASE Session
    BY <1>1 DEF Session, StartSignals, StartMonitor, Announce, DecideInitial, Begin, ReadWorkspace,
        EndReconciliation, ReportResult, LoadAfterRun, Poll, LoadBeforeWait, Receive, DecideNext,
        BoundaryNext, ReportStopped, EndSession, StopStream, DrainQueue, ReleaseMonitor,
        CloseSignals, JoinSignals
<1>2. CASE Failure
    BY <1>2 DEF Failure, SignalsFail, MonitorFails, DiagnosticFails, PanicSignals, EndSession
<1>3. CASE UNCHANGED <<driver, status>>
    BY <1>3
<1>4. SignalThread \/ Delivery \/ World \/ Exited \/ UNCHANGED vars => UNCHANGED <<driver, status>>
    BY DEF SignalThread, TakeSignal, SendControl, EndSignals, Delivery, QueueBatch, EnterCallback,
        Invalidate, World, Edit, Touch, Signal, Exited, vars
<1>5. QED
    BY <1>1, <1>2, <1>3, <1>4 DEF Next

(* A step of the driver is a step of the promise, or hidden by it. *)
LEMMA DriverKeeps ==
    ASSUME IInv, RunningUntilTeardown, Session \/ Failure
    PROVE  [Promise!Next]_(Promise!vars)
<1> USE DEF Promise!vars, Promise!Next, Phase, IInv, TypeOK, RunningUntilTeardown
<1>1. CASE StartSignals \/ StartMonitor \/ Announce \/ DecideInitial
    BY <1>1 DEF StartSignals, StartMonitor, Announce, DecideInitial, ControlMeansShutdown, Promise!Stop
<1>2. CASE Begin
    BY <1>2 DEF Begin, LateRunIsLast, Promise!Begin
<1>3. CASE ReadWorkspace
    BY <1>3 DEF ReadWorkspace, Promise!Read
<1>4. ASSUME NEW outcome \in Blocker \cup {NoBlocker}, NEW wrote \in BOOLEAN,
             EndReconciliation(outcome, wrote)
      PROVE  Promise!End
    BY <1>4 DEF EndReconciliation, Promise!End
<1>5. CASE ReportResult \/ Poll \/ Receive
    BY <1>5 DEF ReportResult, Poll, Receive
<1>6. CASE LoadAfterRun \/ LoadBeforeWait
    BY <1>6 DEF LoadAfterRun, LoadBeforeWait, Promise!Stop
<1>7. CASE DecideNext
    BY <1>7 DEF DecideNext, BoundaryNext, ControlMeansShutdown, Promise!Stop
<1>8. CASE ReportStopped
    BY <1>8 DEF ReportStopped, EndSession, ControlMeansShutdown, Promise!Succeed
<1>9. CASE StopStream \/ DrainQueue \/ ReleaseMonitor \/ CloseSignals
    BY <1>9 DEF StopStream, DrainQueue, ReleaseMonitor, CloseSignals
<1>10. CASE JoinSignals
    BY <1>10 DEF JoinSignals, Promise!Fail
<1>11. CASE Failure
    BY <1>11 DEF Failure, SignalsFail, MonitorFails, DiagnosticFails, PanicSignals, EndSession,
        Promise!Fail
<1>12. QED
    BY <1>1, <1>2, <1>3, <1>4, <1>5, <1>6, <1>7, <1>8, <1>9, <1>10, <1>11 DEF Session

(* So is a step of any other thread, of the user and of other programs. *)
LEMMA OthersKeep ==
    ASSUME IInv, SignalThread \/ Delivery \/ World \/ Exited \/ UNCHANGED vars
    PROVE  [Promise!Next]_(Promise!vars)
<1> USE DEF Promise!vars, Promise!Next, Phase
<1>1. CASE TakeSignal
    BY <1>1 DEF TakeSignal, driverVars, Promise!Request
<1>2. CASE Edit
    BY <1>2 DEF Edit, driverVars, Promise!Change
<1>3. CASE SendControl \/ EndSignals \/ Delivery \/ Touch \/ Signal \/ Exited \/ UNCHANGED vars
    BY <1>3 DEF SendControl, EndSignals, Delivery, QueueBatch, EnterCallback, Invalidate,
        Touch, Signal, Exited, vars, driverVars
<1>4. QED
    BY <1>1, <1>2, <1>3 DEF SignalThread, World

(* The live session, with its threads and wakes hidden, does nothing but     *)
(* what the promised session may do.                                         *)
THEOREM SessionKeepsPromise == Spec => Promise!Safety
<1>1. Init => Promise!Init /\ RunningUntilTeardown
    BY DEF Init, Promise!Init, Phase, RunningUntilTeardown
<1>2. IInv /\ RunningUntilTeardown /\ [Next]_vars => [Promise!Next]_(Promise!vars)
    BY DriverKeeps, OthersKeep DEF Next
<1>3. QED
    BY <1>1, <1>2, InitIInv, NextIInv, NextRunning, PTL DEF Spec, Promise!Safety
=============================================================================
