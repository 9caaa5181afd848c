---------------------------- MODULE MonitorProofs -----------------------------
(***************************************************************************)
(* The filesystem monitor gives back what it took and never pulls anything *)
(* from under a callback, whichever step of its construction fails.        *)
(***************************************************************************)
EXTENDS Monitor, TLAPS

Constructing == {"allocate", "array", "paths", "queue", "schedule", "starting"}
Destroying == {"destroy", "invalidate", "drain", "release"}

Resource == {"none", "live", "released"}

TypeOK ==
    /\ pc \in {"scopes", "running", "returned", "over"} \cup Constructing \cup Destroying
    /\ scopes \in Path \X Path /\ index \in 0 .. 2
    /\ context \in Resource /\ monitor \in Resource
    /\ array \in Resource /\ queue \in Resource
    /\ stream \in {"none", "created", "delivering", "stopped", "invalid", "released"}
    /\ scheduled \in BOOLEAN /\ started \in BOOLEAN
    /\ callback \in {"none", "queued", "running"}

\* What is alive at each place of the caller.
Holdings ==
    /\ context = "live" <=> pc \notin {"scopes", "over"}
    /\ monitor = "live" <=>
           pc \in {"array", "paths", "queue", "schedule", "starting", "running"} \cup Destroying
    /\ array = "live" <=> pc = "paths"
    /\ pc \in {"scopes", "allocate", "array", "paths", "queue"} => queue = "none"
    /\ pc \in {"schedule", "starting", "running"} => queue = "live"
    /\ pc \in Destroying => queue # "released"
    /\ pc \in {"returned", "over"} => queue # "live"

\* The stream exists from its creation to its release, and delivers in between.
StreamLife ==
    /\ pc \in {"scopes", "allocate", "array", "paths"} => stream = "none"
    /\ pc \in {"queue", "schedule"} => stream = "created"
    /\ pc \in {"starting", "running"} => stream = "delivering"
    /\ stream = "released" => pc \in {"returned", "over"}
    /\ pc \in {"returned", "over"} => stream \in {"none", "released"}

\* The flags tell the destructor how far construction came.
FlagsTell ==
    /\ pc \in {"scopes", "allocate", "array", "paths", "queue", "schedule"} => ~scheduled
    /\ pc \in {"starting", "running"} => scheduled
    /\ pc \in {"scopes", "allocate", "array", "paths", "queue", "schedule", "starting"} => ~started
    /\ pc = "running" => started
    /\ stream = "delivering" => scheduled /\ (started \/ pc = "starting")
    /\ scheduled /\ pc \in Destroying => queue = "live"

\* A batch is there only while the stream is scheduled and not yet drained.
BatchInTime ==
    callback # "none" =>
        scheduled /\ pc \in {"starting", "running", "destroy", "invalidate", "drain"}

DeliveryEnds ==
    stream = "delivering" => pc \in {"starting", "running", "destroy"}

WatchedSoFar ==
    /\ pc \in {"scopes", "allocate", "array"} => index = 0 /\ watched = {}
    /\ index = 0 => watched = {}
    /\ index = 1 => watched = {scopes[1]}
    /\ index = 2 => watched = {scopes[1], scopes[2]}
    /\ pc \in {"queue", "schedule", "starting", "running"} => index = 2
    /\ status = cause

IInv ==
    /\ TypeOK /\ Holdings /\ StreamLife /\ FlagsTell
    /\ BatchInTime /\ DeliveryEnds /\ WatchedSoFar

USE DEF Constructing, Destroying, Resource, native

(* The strengthened invariant holds before the monitor is made. *)
LEMMA InitIInv == Init => IInv
<1> SUFFICES ASSUME Init PROVE IInv
    OBVIOUS
<1>1. scheduled \in BOOLEAN /\ started \in BOOLEAN /\ ~scheduled /\ ~started
    BY Zenon DEF Init
<1>2. /\ pc = "scopes" /\ scopes \in Path \X Path /\ index = 0 /\ watched = {}
      /\ context = "none" /\ monitor = "none" /\ array = "none"
      /\ stream = "none" /\ queue = "none" /\ callback = "none" /\ status = cause
    BY Zenon DEF Init
<1>3. TypeOK
    BY <1>1, <1>2 DEF TypeOK
<1>4. Holdings /\ StreamLife /\ BatchInTime /\ DeliveryEnds /\ WatchedSoFar
    BY <1>2 DEF Holdings, StreamLife, BatchInTime, DeliveryEnds, WatchedSoFar
<1>5. FlagsTell
    BY <1>1, <1>2 DEF FlagsTell
<1>6. QED
    BY <1>3, <1>4, <1>5 DEF IInv

(* Construction preserves it. *)
LEMMA ConstructIInv == ASSUME IInv, Construct PROVE IInv'
<1> USE DEF IInv, TypeOK, Holdings, StreamLife, FlagsTell, BatchInTime, DeliveryEnds, WatchedSoFar
<1>1. CASE FixScopes
    BY <1>1 DEF FixScopes
<1>2. CASE AllocateMonitor
    BY <1>2 DEF AllocateMonitor
<1>3. CASE CreateArray
    BY <1>3 DEF CreateArray
<1>4. CASE AddPath
    BY <1>4 DEF AddPath
<1>5. CASE CreateStream
    BY <1>5 DEF CreateStream
<1>6. CASE CreateQueue
    BY <1>6 DEF CreateQueue
<1>7. CASE Schedule
    BY <1>7 DEF Schedule
<1>8. CASE Start
    BY <1>8 DEF Start
<1>9. QED
    BY <1>1, <1>2, <1>3, <1>4, <1>5, <1>6, <1>7, <1>8 DEF Construct

(* So does every failure of a step of construction. *)
LEMMA FailIInv == ASSUME IInv, Fail PROVE IInv'
<1> USE DEF IInv, TypeOK, Holdings, StreamLife, FlagsTell, BatchInTime, DeliveryEnds, WatchedSoFar
<1>1. CASE ScopesFail
    BY <1>1 DEF ScopesFail
<1>2. CASE AllocateMonitorFails
    BY <1>2 DEF AllocateMonitorFails, Fails
<1>3. CASE CreateArrayFails
    BY <1>3 DEF CreateArrayFails, Fails
<1>4. ASSUME NEW failure \in {"allocation", "path"}, AddPathFails(failure) PROVE IInv'
    BY <1>4 DEF AddPathFails, Fails
<1>5. CASE CreateStreamFails
    BY <1>5 DEF CreateStreamFails, Fails
<1>6. CASE CreateQueueFails
    BY <1>6 DEF CreateQueueFails, Fails
<1>7. CASE StartFails
    BY <1>7 DEF StartFails, Fails
<1>8. QED
    BY <1>1, <1>2, <1>3, <1>4, <1>5, <1>6, <1>7 DEF Fail

(* So do the destructor and the delivery of batches beside it. *)
LEMMA DestroyIInv ==
    ASSUME IInv, Drop \/ Destroy \/ Delivery \/ UNCHANGED vars PROVE IInv'
<1> USE DEF IInv, TypeOK, Holdings, StreamLife, FlagsTell, BatchInTime, DeliveryEnds, WatchedSoFar
<1>1. CASE Drop
    BY <1>1 DEF Drop
<1>2. CASE StopStream
    BY <1>2 DEF StopStream
<1>3. CASE InvalidateStream
    BY <1>3 DEF InvalidateStream
<1>4. CASE DrainQueue
    BY <1>4 DEF DrainQueue
<1>5. CASE ReleaseNative
    BY <1>5 DEF ReleaseNative, Released
<1>6. CASE ReleaseContext
    BY <1>6 DEF ReleaseContext
<1>7. CASE Delivery
    BY <1>7 DEF Delivery, QueueBatch, EnterCallback, LeaveCallback
<1>8. CASE UNCHANGED vars
    BY <1>8 DEF vars
<1>9. QED
    BY <1>1, <1>2, <1>3, <1>4, <1>5, <1>6, <1>7, <1>8 DEF Destroy

(* Every step preserves it. *)
LEMMA NextIInv == IInv /\ [Next]_vars => IInv'
    BY ConstructIInv, FailIInv, DestroyIInv DEF Next, Over

(* The strengthened invariant holds throughout. *)
LEMMA Invariant == Spec => []IInv
    BY InitIInv, NextIInv, PTL DEF Spec

(* A batch on the queue finds the monitor, the queue and the callback state  *)
(* alive, however far construction came.                                     *)
THEOREM CallbacksAreSafe == Spec => []CallbacksHaveTheirState
<1>1. IInv => CallbacksHaveTheirState
    BY DEF IInv, TypeOK, Holdings, StreamLife, FlagsTell, BatchInTime, CallbacksHaveTheirState
<1>2. QED
    BY <1>1, Invariant, PTL

(* What was taken is given back. *)
THEOREM ResourcesAreReturned == Spec => []NothingLeaks
<1>1. IInv => NothingLeaks
    BY DEF IInv, TypeOK, Holdings, StreamLife, NothingLeaks
<1>2. QED
    BY <1>1, Invariant, PTL

(* A monitor that was given out watches both scopes, and a failure is named. *)
THEOREM OutcomesAreTrue == Spec => []OutcomeIsTrue
<1>1. IInv => OutcomeIsTrue
    BY DEF IInv, StreamLife, WatchedSoFar, OutcomeIsTrue
<1>2. QED
    BY <1>1, Invariant, PTL
=============================================================================
