-------------------------------- MODULE Access --------------------------------
(***************************************************************************)
(* One coordinated access after another: src/src/access/macos.rs and the   *)
(* Objective-C bridge in src/native/macos/coordinated_access.m.  Rust      *)
(* hands the bridge a body it may call at most once; NSFileCoordinator     *)
(* grants a claim on the named path, calls the accessor block under it,    *)
(* and may instead report an error, throw, change the path, or call the    *)
(* accessor never or again.  The body takes several steps, may fail or     *)
(* panic half way, and a peer that coordinates too uses the same file.     *)
(***************************************************************************)
EXTENDS Naturals

CONSTANTS
    Text,       \* the whole contents of the named file
    Cut,        \* what a body that fails half way leaves behind
    MaxCalls    \* how often the coordinator calls the accessor, at most

ASSUME CutAssumption == Cut \notin Text
ASSUME MaxCallsAssumption == MaxCalls \in Nat

VARIABLES
    pc,         \* where the access stands, in Rust, the bridge or the coordinator
    kind,       \* its intent, and the claim it asks for
    body,       \* BodyState::body: whether the closure is still there
    completion, \* BodyState::completion: how the closure ended
    status,     \* zwirn_access_outcome::status
    error,      \* the coordinator reported an NSError
    result,     \* what the caller of read or write gets
    content,    \* of the named file
    peer,       \* the claim the peer holds, if any
    calls,      \* of the accessor during this access
    runs,       \* of the body during this access
    found       \* the file's content when the body began

bridge == <<body, completion, status, error>>
history == <<calls, runs, found>>
vars == <<pc, kind, bridge, result, content, peer, history>>

Kind == {"read", "write"}
Completion == {"value", "error", "panic"}
Failure == {"not representable", "unresolved", "refused", "path changed"}
Status == {"not representable", "coordination failed", "path changed", "internal"}

TypeOK ==
    /\ pc \in {"idle", "resolve", "native", "claimed", "opened", "written", "returned",
               "finish", "done"}
    /\ kind \in Kind
    /\ body \in {"held", "taken"}
    /\ completion \in Completion \cup {"none"}
    /\ status \in Status
    /\ error \in {"nil", "reported"}
    /\ result \in Completion \cup Failure \cup {"none", "internal"}
    /\ content \in Text \cup {Cut}
    /\ peer \in Kind \cup {"none"}
    /\ calls \in 0 .. MaxCalls
    /\ runs \in Nat
    /\ found \in Text \cup {Cut}

-----------------------------------------------------------------------------
(* Rust: coordinated, up to the native call *)

Begin(k) ==
    /\ pc = "idle"
    /\ pc' = "resolve"
    /\ kind' = k
    /\ body' = "held"
    /\ completion' = "none"
    /\ calls' = 0
    /\ runs' = 0
    /\ UNCHANGED <<status, error, result, content, peer, found>>

\* The current directory is gone, or the path is empty or contains a NUL.
RejectPath(reason) ==
    /\ pc = "resolve"
    /\ pc' = "done"
    /\ result' = reason
    /\ UNCHANGED <<kind, bridge, content, peer, history>>

EnterBridge ==
    /\ pc = "resolve"
    /\ pc' = "native"
    /\ status' = "internal"
    /\ error' = "nil"
    /\ UNCHANGED <<kind, body, completion, result, content, peer, history>>

-----------------------------------------------------------------------------
(* The bridge and the coordinator *)

\* Foundation has no URL for the path, or one that spells it differently.
PathNotRepresentable ==
    /\ pc = "native"
    /\ pc' = "finish"
    /\ status' = "not representable"
    /\ UNCHANGED <<kind, body, completion, error, result, content, peer, history>>

\* Mutant: every access asks for a claim to read.
IntentToRead == "read"

\* The claim an access asks for.
Intent == kind

\* Readers share a file, a writer has it alone.
Compatible(mine, other) ==
    IF mine = "write" THEN other = "none" ELSE other # "write"

Claim ==
    /\ pc = "native"
    /\ Compatible(Intent, peer)
    /\ pc' = "claimed"
    /\ UNCHANGED <<kind, bridge, result, content, peer, history>>

RefuseClaim ==
    /\ pc = "native"
    /\ pc' = "returned"
    /\ error' = "reported"
    /\ UNCHANGED <<kind, body, completion, status, result, content, peer, history>>

CallAccessor ==
    /\ pc = "claimed"
    /\ calls < MaxCalls
    /\ calls' = calls + 1

\* The accessor block is called with a URL that names no path or another one.
AccessorSeesNoPath ==
    /\ CallAccessor
    /\ UNCHANGED <<pc, kind, bridge, result, content, peer, runs, found>>

AccessorSeesOtherPath ==
    /\ CallAccessor
    /\ status' = "path changed"
    /\ UNCHANGED <<pc, kind, body, completion, error, result, content, peer, runs, found>>

\* Mutant: the closure is not taken out of its state.
InvokeBodyAgain(left) ==
    /\ CallAccessor
    /\ body = "held"
    /\ body' = body
    /\ pc' = "opened"
    /\ runs' = runs + 1
    /\ found' = content
    /\ content' = IF kind = "write" THEN left ELSE content
    /\ UNCHANGED <<kind, completion, status, error, result, peer>>

\* invoke_body takes the closure and runs it; a write may truncate the file.
InvokeBody(left) ==
    /\ CallAccessor
    /\ body = "held"
    /\ body' = "taken"
    /\ pc' = "opened"
    /\ runs' = runs + 1
    /\ found' = content
    /\ content' = IF kind = "write" THEN left ELSE content
    /\ UNCHANGED <<kind, completion, status, error, result, peer>>

InvokeNothing ==
    /\ CallAccessor
    /\ body = "taken"
    /\ UNCHANGED <<pc, kind, bridge, result, content, peer, runs, found>>

BodyWrites(new) ==
    /\ pc = "opened"
    /\ pc' = "written"
    /\ content' = IF kind = "write" THEN new ELSE content
    /\ UNCHANGED <<kind, bridge, result, peer, history>>

\* The closure returns its value or its own error, or unwinds and is caught.
BodyEnds(ending) ==
    /\ pc \in {"opened", "written"}
    /\ ending = "value" => pc = "written"
    /\ completion' = ending
    /\ pc' = "claimed"
    /\ UNCHANGED <<kind, body, status, error, result, content, peer, history>>

\* The coordinator withdraws the claim and returns, with or without an error.
Release(reported) ==
    /\ pc = "claimed"
    /\ pc' = "returned"
    /\ error' = reported
    /\ UNCHANGED <<kind, body, completion, status, result, content, peer, history>>

\* An NSException from the coordinator or from the cleanup after it.
Throw ==
    /\ pc \in {"native", "claimed", "returned"}
    /\ pc' = "finish"
    /\ status' = "internal"
    /\ UNCHANGED <<kind, body, completion, error, result, content, peer, history>>

LeaveBridge ==
    /\ pc = "returned"
    /\ pc' = "finish"
    /\ status' = IF error = "reported" /\ status = "internal" THEN "coordination failed" ELSE status
    /\ UNCHANGED <<kind, body, completion, error, result, content, peer, history>>

-----------------------------------------------------------------------------
(* Rust: finish_coordinated *)

\* What the bridge's status means to the caller.
Reason ==
    IF status = "coordination failed" THEN "refused" ELSE status

\* Mutant: a failure status is reported even where the body has run.
FinishByStatus ==
    /\ pc = "finish"
    /\ pc' = "done"
    /\ result' = IF status # "internal" THEN Reason
                 ELSE IF completion # "none" THEN completion ELSE "internal"
    /\ UNCHANGED <<kind, bridge, content, peer, history>>

\* The body's completion is authoritative; "internal" panics in the caller.
FinishCoordinated ==
    /\ pc = "finish"
    /\ pc' = "done"
    /\ result' = IF completion # "none" THEN completion ELSE Reason
    /\ UNCHANGED <<kind, bridge, content, peer, history>>

Return ==
    /\ pc = "done"
    /\ pc' = "idle"
    /\ result' = "none"
    /\ UNCHANGED <<kind, bridge, content, peer, history>>

-----------------------------------------------------------------------------
(* The peer, through the same coordinator *)

Claimed == pc \in {"claimed", "opened", "written"}

PeerClaim(k) ==
    /\ peer = "none"
    /\ Claimed => Compatible(k, Intent)
    /\ peer' = k
    /\ UNCHANGED <<pc, kind, bridge, result, content, history>>

PeerWrite(new) ==
    /\ peer = "write"
    /\ content' = new
    /\ UNCHANGED <<pc, kind, bridge, result, peer, history>>

PeerRelease ==
    /\ peer # "none"
    /\ peer' = "none"
    /\ UNCHANGED <<pc, kind, bridge, result, content, history>>

-----------------------------------------------------------------------------
Init ==
    /\ pc = "idle"
    /\ kind = "read"
    /\ body = "taken"
    /\ completion = "none"
    /\ status = "internal"
    /\ error = "nil"
    /\ result = "none"
    /\ content \in Text
    /\ peer = "none"
    /\ calls = 0
    /\ runs = 0
    /\ found = content

Rust ==
    \/ \E reason \in {"unresolved", "not representable"} : RejectPath(reason)
    \/ EnterBridge
    \/ FinishCoordinated
    \/ Return

Coordinator ==
    \/ PathNotRepresentable
    \/ Claim
    \/ RefuseClaim
    \/ AccessorSeesNoPath
    \/ AccessorSeesOtherPath
    \/ \E left \in {content, Cut} : InvokeBody(left)
    \/ InvokeNothing
    \/ \E reported \in {"nil", "reported"} : Release(reported)
    \/ Throw
    \/ LeaveBridge

Body ==
    \/ \E new \in Text : BodyWrites(new)
    \/ \E ending \in Completion : BodyEnds(ending)

Peer ==
    \/ \E k \in Kind : PeerClaim(k)
    \/ \E new \in Text : PeerWrite(new)
    \/ PeerRelease

Next ==
    \/ \E k \in Kind : Begin(k)
    \/ Rust
    \/ Coordinator
    \/ Body
    \/ Peer

Spec == Init /\ [][Next]_vars

-----------------------------------------------------------------------------
(* Properties *)

(***************************************************************************)
(* A caller may trust what it is told: after a failure, or a panic of the  *)
(* bridge, the body has not run and never will, and after anything else it *)
(* ran exactly once (access.rs, AccessPolicy; macos.rs, invoke_body and    *)
(* finish_coordinated), whatever the coordinator reported besides.         *)
(***************************************************************************)
ResultTellsWhetherTheBodyRan ==
    pc = "done" =>
        /\ result \in Completion => runs = 1 /\ result = completion
        /\ result \in Failure \cup {"internal"} => runs = 0

(***************************************************************************)
(* The whole body runs under a claim of its kind: what a reader opened is  *)
(* what it reads to the end, and no peer that claims the file meets the    *)
(* middle of a write (coordinated_access.m, body called in the accessor).  *)
(***************************************************************************)
BodyIsUndisturbed ==
    pc \in {"opened", "written"} =>
        /\ kind = "read" => content = found
        /\ kind = "write" => peer = "none"

(***************************************************************************)
(* A coordinated access is one atomic access (AccessPromise): while a      *)
(* write is under way, a peer that claims the file would find what the     *)
(* body found.                                                             *)
(***************************************************************************)
Visible == IF Claimed /\ runs > 0 /\ kind = "write" THEN found ELSE content

PromisedOutcome ==
    IF pc = "idle" THEN "none"
    ELSE IF pc = "done" THEN result
    ELSE IF pc \in {"returned", "finish"} /\ completion # "none" THEN completion
    ELSE "open"

Promise == INSTANCE AccessPromise WITH content <- Visible, outcome <- PromisedOutcome

ImplementsPromise == Promise!Spec
=============================================================================
