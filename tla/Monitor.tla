------------------------------- MODULE Monitor --------------------------------
(***************************************************************************)
(* The life of one filesystem monitor: SessionMonitor in                   *)
(* src/src/live/macos.rs and the native constructor and destructor in      *)
(* src/native/macos/session_monitor.c.  Construction takes one resource    *)
(* after another and may fail at each; the destructor undoes what there    *)
(* is, while FSEvents delivers batches on a queue of its own.  Live takes  *)
(* the construction and the release for one step each.                     *)
(***************************************************************************)
EXTENDS Naturals, Sequences

CONSTANTS
    Path,               \* absolute paths
    Unrepresentable     \* those that Core Foundation has no string for

ASSUME PathAssumption == Unrepresentable \subseteq Path

VARIABLES
    pc,         \* where the caller stands
    scopes,     \* the two directories to watch
    index,      \* the scopes converted so far
    watched,    \* the directories in the watched-path array
    context,    \* the boxed callback state
    monitor, array, stream, queue,      \* the native resources
    scheduled, started,                 \* flags of the native monitor
    callback,   \* the batch on the delivery queue
    status,     \* the status in the outcome
    cause       \* what went wrong first; not in the program

native == <<monitor, array, stream, queue, scheduled, started>>
vars == <<pc, scopes, index, watched, context, native, callback, status, cause>>

-----------------------------------------------------------------------------
(* SessionMonitor::start *)

\* The scopes are fixed and the callback state is boxed before the native call.
FixScopes ==
    /\ pc = "scopes"
    /\ pc' = "allocate"
    /\ context' = "live"
    /\ UNCHANGED <<scopes, index, watched, native, callback, status, cause>>

\* No current directory, or a document without a parent.
ScopesFail ==
    /\ pc = "scopes"
    /\ pc' = "over"
    /\ UNCHANGED <<scopes, index, watched, context, native, callback, status, cause>>

\* Whatever fails is reported; there may be nothing native to destroy yet.
Fails(failure, next) ==
    /\ pc' = next
    /\ status' = failure /\ cause' = failure
    /\ UNCHANGED <<scopes, index, watched, context, callback>>

AllocateMonitor ==
    /\ pc = "allocate"
    /\ pc' = "array"
    /\ monitor' = "live"
    /\ UNCHANGED <<scopes, index, watched, context, array, stream, queue, scheduled, started,
                   callback, status, cause>>

AllocateMonitorFails ==
    /\ pc = "allocate"
    /\ Fails("allocation", "returned")
    /\ UNCHANGED native

CreateArray ==
    /\ pc = "array"
    /\ pc' = "paths"
    /\ array' = "live"
    /\ UNCHANGED <<scopes, index, watched, context, monitor, stream, queue, scheduled, started,
                   callback, status, cause>>

CreateArrayFails ==
    /\ pc = "array"
    /\ Fails("allocation", "destroy")
    /\ UNCHANGED native

\* A path that is there already is not appended again.
AddPath ==
    /\ pc = "paths" /\ index < 2
    /\ scopes[index + 1] \notin Unrepresentable
    /\ index' = index + 1
    /\ watched' = watched \cup {scopes[index + 1]}
    /\ UNCHANGED <<pc, scopes, context, native, callback, status, cause>>

\* Mutant: the array is released only where the stream has been tried.
AddPathFailsLeaking(failure) ==
    /\ pc = "paths" /\ index < 2
    /\ failure = "path" => scopes[index + 1] \in Unrepresentable
    /\ Fails(failure, "destroy")
    /\ UNCHANGED native

AddPathFails(failure) ==
    /\ pc = "paths" /\ index < 2
    /\ failure = "path" => scopes[index + 1] \in Unrepresentable
    /\ array' = "released"
    /\ Fails(failure, "destroy")
    /\ UNCHANGED <<monitor, stream, queue, scheduled, started>>

CreateStream ==
    /\ pc = "paths" /\ index = 2
    /\ pc' = "queue"
    /\ stream' = "created" /\ array' = "released"
    /\ UNCHANGED <<scopes, index, watched, context, monitor, queue, scheduled, started,
                   callback, status, cause>>

CreateStreamFails ==
    /\ pc = "paths" /\ index = 2
    /\ array' = "released"
    /\ Fails("stream", "destroy")
    /\ UNCHANGED <<monitor, stream, queue, scheduled, started>>

CreateQueue ==
    /\ pc = "queue"
    /\ pc' = "schedule"
    /\ queue' = "live"
    /\ UNCHANGED <<scopes, index, watched, context, monitor, array, stream, scheduled, started,
                   callback, status, cause>>

CreateQueueFails ==
    /\ pc = "queue"
    /\ Fails("queue", "destroy")
    /\ UNCHANGED native

\* FSEventStreamStart is entered: batches may come before it returns.
Schedule ==
    /\ pc = "schedule"
    /\ pc' = "starting"
    /\ scheduled' = TRUE
    /\ stream' = "delivering"
    /\ UNCHANGED <<scopes, index, watched, context, monitor, array, queue, started,
                   callback, status, cause>>

\* Mutant: the status is left as it was when the stream did not start.
StartFailsSilently ==
    /\ pc = "starting"
    /\ pc' = "destroy"
    /\ stream' = "stopped"
    /\ cause' = "start"
    /\ UNCHANGED <<scopes, index, watched, context, monitor, array, queue, scheduled, started,
                   callback, status>>

StartFails ==
    /\ pc = "starting"
    /\ stream' = "stopped"
    /\ Fails("start", "destroy")
    /\ UNCHANGED <<monitor, array, queue, scheduled, started>>

Start ==
    /\ pc = "starting"
    /\ pc' = "running"
    /\ started' = TRUE
    /\ status' = "ok" /\ cause' = "ok"
    /\ UNCHANGED <<scopes, index, watched, context, monitor, array, stream, queue, scheduled,
                   callback>>

-----------------------------------------------------------------------------
(* zwirn_destroy_monitor, from Drop or from a failed construction *)

Drop ==
    /\ pc = "running"
    /\ pc' = "destroy"
    /\ UNCHANGED <<scopes, index, watched, context, native, callback, status, cause>>

StopStream ==
    /\ pc = "destroy"
    /\ pc' = "invalidate"
    /\ stream' = IF started THEN "stopped" ELSE stream
    /\ UNCHANGED <<scopes, index, watched, context, monitor, array, queue, scheduled, started,
                   callback, status, cause>>

\* Mutant: only a stream that was started is drained.
InvalidateStreamStarted ==
    /\ pc = "invalidate"
    /\ pc' = IF started THEN "drain" ELSE "release"
    /\ stream' = IF started THEN "invalid" ELSE stream
    /\ UNCHANGED <<scopes, index, watched, context, monitor, array, queue, scheduled, started,
                   callback, status, cause>>

InvalidateStream ==
    /\ pc = "invalidate"
    /\ pc' = IF scheduled THEN "drain" ELSE "release"
    /\ stream' = IF scheduled THEN "invalid" ELSE stream
    /\ UNCHANGED <<scopes, index, watched, context, monitor, array, queue, scheduled, started,
                   callback, status, cause>>

\* dispatch_sync_f waits for everything that is on the serial queue.
DrainQueue ==
    /\ pc = "drain"
    /\ callback = "none"
    /\ pc' = "release"
    /\ UNCHANGED <<scopes, index, watched, context, native, callback, status, cause>>

Released(resource) == IF resource = "none" THEN "none" ELSE "released"

ReleaseNative ==
    /\ pc = "release"
    /\ pc' = "returned"
    /\ stream' = Released(stream)
    /\ queue' = Released(queue)
    /\ monitor' = Released(monitor)
    /\ UNCHANGED <<scopes, index, watched, context, array, scheduled, started, callback,
                   status, cause>>

\* Rust drops the boxed callback state when the native call has returned.
ReleaseContext ==
    /\ pc = "returned"
    /\ pc' = "over"
    /\ context' = "released"
    /\ UNCHANGED <<scopes, index, watched, native, callback, status, cause>>

-----------------------------------------------------------------------------
(* FSEvents and its delivery queue *)

QueueBatch ==
    /\ stream = "delivering"
    /\ callback = "none"
    /\ callback' = "queued"
    /\ UNCHANGED <<pc, scopes, index, watched, context, native, status, cause>>

EnterCallback ==
    /\ callback = "queued"
    /\ callback' = "running"
    /\ UNCHANGED <<pc, scopes, index, watched, context, native, status, cause>>

LeaveCallback ==
    /\ callback = "running"
    /\ callback' = "none"
    /\ UNCHANGED <<pc, scopes, index, watched, context, native, status, cause>>

-----------------------------------------------------------------------------

Init ==
    /\ pc = "scopes"
    /\ scopes \in Path \X Path
    /\ index = 0 /\ watched = {}
    /\ context = "none" /\ monitor = "none" /\ array = "none"
    /\ stream = "none" /\ queue = "none"
    /\ scheduled = FALSE /\ started = FALSE
    /\ callback = "none"
    /\ status = "invalid argument" /\ cause = "invalid argument"

Construct ==
    \/ FixScopes \/ AllocateMonitor \/ CreateArray \/ AddPath
    \/ CreateStream \/ CreateQueue \/ Schedule \/ Start
Fail ==
    \/ ScopesFail \/ AllocateMonitorFails \/ CreateArrayFails
    \/ \E failure \in {"allocation", "path"} : AddPathFails(failure)
    \/ CreateStreamFails \/ CreateQueueFails \/ StartFails
Destroy == StopStream \/ InvalidateStream \/ DrainQueue \/ ReleaseNative \/ ReleaseContext
Delivery == QueueBatch \/ EnterCallback \/ LeaveCallback
Over == pc = "over" /\ UNCHANGED vars

Next == Construct \/ Fail \/ Drop \/ Destroy \/ Delivery \/ Over

Spec == Init /\ [][Next]_vars

-----------------------------------------------------------------------------
(* Properties *)

\* A batch on the queue finds what it uses alive: the native monitor, the queue
\* and the callback state, even when the start failed after a batch had come
\* (zwirn_destroy_monitor, Drop for SessionMonitor).
CallbacksHaveTheirState ==
    callback # "none" =>
        monitor = "live" /\ queue = "live" /\ context = "live" /\ stream # "released"

\* Wherever construction fails and whenever the monitor is dropped, every
\* resource that was taken is given back (zwirn_session_monitor_start: "A
\* protocol error must still leave no half-live native stream", macos.rs).
NothingLeaks ==
    pc = "over" =>
        /\ "live" \notin {monitor, array, queue, context}
        /\ stream \in {"none", "released"}

\* The caller gets a monitor exactly when everything succeeded, and then the
\* stream delivers for both scopes; otherwise the outcome names what failed.
OutcomeIsTrue ==
    /\ pc = "running" => stream = "delivering" /\ watched = {scopes[1], scopes[2]}
    /\ pc \in {"running", "destroy", "invalidate", "drain", "release", "returned"} => status = cause
=============================================================================
