---------------------------- MODULE AccessProofs ----------------------------
(***************************************************************************)
(* Theorems about coordinated access, for any texts, any number of         *)
(* accessor calls and any behaviour of the coordinator the module allows.  *)
(***************************************************************************)
EXTENDS Access, TLAPS

\* The closure is in its state exactly until it runs, and leaves a completion.
ClosureIsTakenOnce ==
    /\ pc \in {"resolve", "native"} => body = "held" /\ completion = "none"
    /\ pc \in {"opened", "written"} => body = "taken" /\ completion = "none"
    /\ pc \in {"claimed", "returned", "finish", "done"} => (body = "held" <=> completion = "none")
    /\ pc # "idle" => runs = IF body = "held" THEN 0 ELSE 1

\* The claims on the file that are held together are compatible.
ClaimsAreCompatible == Claimed => Compatible(Intent, peer)

\* What the body has read or written by now.
BodyStands ==
    /\ Claimed /\ runs > 0 /\ kind = "read" => content = found
    /\ pc = "written" /\ kind = "write" => content \in Text
    /\ pc = "claimed" /\ kind = "write" /\ completion = "value" => content \in Text

ResultStands ==
    IF pc = "done"
      THEN /\ completion # "none" => result = completion
           /\ completion = "none" => result \in Failure \cup {"internal"}
      ELSE result = "none"

IInv ==
    /\ TypeOK
    /\ ClosureIsTakenOnce
    /\ ClaimsAreCompatible
    /\ BodyStands
    /\ ResultStands

(* Nothing has run at first.                                               *)
LEMMA InitIInv == Init => IInv
BY MaxCallsAssumption DEF Init, IInv, TypeOK, Kind, Completion, Failure, Status,
    ClosureIsTakenOnce, ClaimsAreCompatible, Claimed, BodyStands, ResultStands

(* Every step keeps the types.                                             *)
LEMMA TypeKeeps ==
    ASSUME TypeOK, ResultStands, [Next]_vars
    PROVE  TypeOK'
<1> USE MaxCallsAssumption DEF TypeOK, bridge, history
<1>1. CASE UNCHANGED vars
    BY <1>1 DEF vars
<1>2. CASE \E k \in Kind : Begin(k)
    BY <1>2 DEF Begin
<1>3. CASE Rust
    <2>1. CASE \E reason \in {"unresolved", "not representable"} : RejectPath(reason)
        BY <2>1 DEF RejectPath, Status, Failure
    <2>2. CASE EnterBridge
        BY <2>2 DEF EnterBridge, Status, Failure
    <2>3. CASE FinishCoordinated
        BY <2>3 DEF FinishCoordinated, Reason, Status, Failure
    <2>4. CASE Return
        BY <2>4 DEF Return, Status, Failure
    <2>5. QED
        BY <1>3, <2>1, <2>2, <2>3, <2>4 DEF Rust
<1>4. CASE Coordinator
    <2>1. CASE PathNotRepresentable \/ Claim \/ RefuseClaim
        BY <2>1 DEF PathNotRepresentable, Claim, RefuseClaim, Status
    <2>2. CASE AccessorSeesNoPath \/ AccessorSeesOtherPath \/ InvokeNothing
        <3>1. calls' \in 0 .. MaxCalls
            <4>1. CallAccessor
                BY <2>2 DEF AccessorSeesNoPath, AccessorSeesOtherPath, InvokeNothing
            <4>2. QED
                BY <4>1 DEF CallAccessor
        <3>2. UNCHANGED <<pc, kind, body, completion, error, result, content, peer, runs, found>>
            BY <2>2 DEF AccessorSeesNoPath, AccessorSeesOtherPath, InvokeNothing
        <3>3. status' \in Status
            BY <2>2 DEF AccessorSeesNoPath, AccessorSeesOtherPath, InvokeNothing, Status
        <3>4. QED
            BY <3>1, <3>2, <3>3
    <2>3. CASE \E left \in {content, Cut} : InvokeBody(left)
        <3>1. calls' \in 0 .. MaxCalls /\ runs' \in Nat
            BY <2>3 DEF InvokeBody, CallAccessor
        <3>2. content' \in Text \cup {Cut} /\ found' \in Text \cup {Cut}
            BY <2>3 DEF InvokeBody
        <3>3. QED
            BY <2>3, <3>1, <3>2 DEF InvokeBody
    <2>4. CASE \E reported \in {"nil", "reported"} : Release(reported)
        BY <2>4 DEF Release, Status
    <2>5. CASE Throw \/ LeaveBridge
        BY <2>5 DEF Throw, LeaveBridge, Status
    <2>6. QED
        BY <1>4, <2>1, <2>2, <2>3, <2>4, <2>5 DEF Coordinator
<1>5. CASE Body
    <2>1. CASE \E new \in Text : BodyWrites(new)
        BY <2>1 DEF BodyWrites
    <2>2. CASE \E ending \in Completion : BodyEnds(ending)
        BY <2>2 DEF BodyEnds
    <2>3. QED
        BY <1>5, <2>1, <2>2 DEF Body
<1>6. CASE Peer
    BY <1>6 DEF Peer, PeerClaim, PeerWrite, PeerRelease
<1>7. QED
    BY <1>1, <1>2, <1>3, <1>4, <1>5, <1>6 DEF Next

(* No step runs the closure a second time.                                 *)
LEMMA ClosureKeeps ==
    ASSUME TypeOK, ClosureIsTakenOnce, [Next]_vars
    PROVE  ClosureIsTakenOnce'
<1> USE DEF TypeOK, ClosureIsTakenOnce, bridge, history
<1>1. CASE UNCHANGED vars
    BY <1>1 DEF vars
<1>2. CASE \E k \in Kind : Begin(k)
    BY <1>2 DEF Begin
<1>3. CASE Rust
    <2>1. CASE \E reason \in {"unresolved", "not representable"} : RejectPath(reason)
        BY <2>1 DEF RejectPath
    <2>2. CASE EnterBridge
        BY <2>2 DEF EnterBridge
    <2>3. CASE FinishCoordinated
        BY <2>3 DEF FinishCoordinated, Reason
    <2>4. CASE Return
        BY <2>4 DEF Return
    <2>5. QED
        BY <1>3, <2>1, <2>2, <2>3, <2>4 DEF Rust
<1>4. CASE Coordinator
    <2>1. CASE PathNotRepresentable \/ Claim \/ RefuseClaim
        BY <2>1 DEF PathNotRepresentable, Claim, RefuseClaim
    <2>2. CASE AccessorSeesNoPath \/ AccessorSeesOtherPath \/ InvokeNothing
        BY <2>2 DEF AccessorSeesNoPath, AccessorSeesOtherPath, InvokeNothing, CallAccessor
    <2>3. CASE \E left \in {content, Cut} : InvokeBody(left)
        BY <2>3 DEF InvokeBody, CallAccessor
    <2>4. CASE \E reported \in {"nil", "reported"} : Release(reported)
        BY <2>4 DEF Release
    <2>5. CASE Throw \/ LeaveBridge
        BY <2>5 DEF Throw, LeaveBridge
    <2>6. QED
        BY <1>4, <2>1, <2>2, <2>3, <2>4, <2>5 DEF Coordinator
<1>5. CASE Body
    <2>1. CASE \E new \in Text : BodyWrites(new)
        BY <2>1 DEF BodyWrites, Completion
    <2>2. CASE \E ending \in Completion : BodyEnds(ending)
        BY <2>2 DEF BodyEnds, Completion
    <2>3. QED
        BY <1>5, <2>1, <2>2 DEF Body
<1>6. CASE Peer
    BY <1>6 DEF Peer, PeerClaim, PeerWrite, PeerRelease
<1>7. QED
    BY <1>1, <1>2, <1>3, <1>4, <1>5, <1>6 DEF Next

(* No step brings two incompatible claims together.                        *)
LEMMA ClaimsKeep ==
    ASSUME TypeOK, ClaimsAreCompatible, [Next]_vars
    PROVE  ClaimsAreCompatible'
<1> USE DEF TypeOK, ClaimsAreCompatible, Claimed, Compatible, Intent, Kind, bridge, history
<1>1. CASE UNCHANGED vars
    BY <1>1 DEF vars
<1>2. CASE \E k \in Kind : Begin(k)
    BY <1>2 DEF Begin
<1>3. CASE Rust
    <2>1. CASE \E reason \in {"unresolved", "not representable"} : RejectPath(reason)
        BY <2>1 DEF RejectPath
    <2>2. CASE EnterBridge
        BY <2>2 DEF EnterBridge
    <2>3. CASE FinishCoordinated
        BY <2>3 DEF FinishCoordinated, Reason
    <2>4. CASE Return
        BY <2>4 DEF Return
    <2>5. QED
        BY <1>3, <2>1, <2>2, <2>3, <2>4 DEF Rust
<1>4. CASE Coordinator
    <2>1. CASE PathNotRepresentable \/ Claim \/ RefuseClaim
        BY <2>1 DEF PathNotRepresentable, Claim, RefuseClaim
    <2>2. CASE AccessorSeesNoPath \/ AccessorSeesOtherPath \/ InvokeNothing
        BY <2>2 DEF AccessorSeesNoPath, AccessorSeesOtherPath, InvokeNothing, CallAccessor
    <2>3. CASE \E left \in {content, Cut} : InvokeBody(left)
        BY <2>3 DEF InvokeBody, CallAccessor
    <2>4. CASE \E reported \in {"nil", "reported"} : Release(reported)
        BY <2>4 DEF Release
    <2>5. CASE Throw \/ LeaveBridge
        BY <2>5 DEF Throw, LeaveBridge
    <2>6. QED
        BY <1>4, <2>1, <2>2, <2>3, <2>4, <2>5 DEF Coordinator
<1>5. CASE Body
    <2>1. CASE \E new \in Text : BodyWrites(new)
        BY <2>1 DEF BodyWrites
    <2>2. CASE \E ending \in Completion : BodyEnds(ending)
        BY <2>2 DEF BodyEnds
    <2>3. QED
        BY <1>5, <2>1, <2>2 DEF Body
<1>6. CASE Peer
    BY <1>6 DEF Peer, PeerClaim, PeerWrite, PeerRelease
<1>7. QED
    BY <1>1, <1>2, <1>3, <1>4, <1>5, <1>6 DEF Next

(* No step disturbs what the body has read or written.                     *)
LEMMA BodyKeeps ==
    ASSUME TypeOK, ClosureIsTakenOnce, ClaimsAreCompatible, BodyStands, [Next]_vars
    PROVE  BodyStands'
<1> USE DEF TypeOK, ClosureIsTakenOnce, ClaimsAreCompatible, Claimed, Compatible, Intent, BodyStands, bridge, history
<1>1. CASE UNCHANGED vars
    BY <1>1 DEF vars
<1>2. CASE \E k \in Kind : Begin(k)
    BY <1>2 DEF Begin
<1>3. CASE Rust
    <2>1. CASE \E reason \in {"unresolved", "not representable"} : RejectPath(reason)
        BY <2>1 DEF RejectPath
    <2>2. CASE EnterBridge
        BY <2>2 DEF EnterBridge
    <2>3. CASE FinishCoordinated
        BY <2>3 DEF FinishCoordinated, Reason
    <2>4. CASE Return
        BY <2>4 DEF Return
    <2>5. QED
        BY <1>3, <2>1, <2>2, <2>3, <2>4 DEF Rust
<1>4. CASE Coordinator
    <2>1. CASE PathNotRepresentable \/ Claim \/ RefuseClaim
        <3>1. runs' = 0 /\ completion' = "none" /\ pc' # "written"
            BY <2>1 DEF PathNotRepresentable, Claim, RefuseClaim
        <3>2. QED
            BY <3>1
    <2>2. CASE AccessorSeesNoPath \/ AccessorSeesOtherPath \/ InvokeNothing
        BY <2>2 DEF AccessorSeesNoPath, AccessorSeesOtherPath, InvokeNothing, CallAccessor
    <2>3. CASE \E left \in {content, Cut} : InvokeBody(left)
        BY <2>3 DEF InvokeBody, CallAccessor
    <2>4. CASE \E reported \in {"nil", "reported"} : Release(reported)
        BY <2>4 DEF Release
    <2>5. CASE Throw \/ LeaveBridge
        BY <2>5 DEF Throw, LeaveBridge
    <2>6. QED
        BY <1>4, <2>1, <2>2, <2>3, <2>4, <2>5 DEF Coordinator
<1>5. CASE Body
    <2>1. CASE \E new \in Text : BodyWrites(new)
        BY <2>1 DEF BodyWrites
    <2>2. CASE \E ending \in Completion : BodyEnds(ending)
        BY <2>2 DEF BodyEnds
    <2>3. QED
        BY <1>5, <2>1, <2>2 DEF Body
<1>6. CASE Peer
    BY <1>6 DEF Peer, PeerClaim, PeerWrite, PeerRelease
<1>7. QED
    BY <1>1, <1>2, <1>3, <1>4, <1>5, <1>6 DEF Next

(* The result is what the body or the bridge recorded.                     *)
LEMMA ResultKeeps ==
    ASSUME TypeOK, ClosureIsTakenOnce, ResultStands, [Next]_vars
    PROVE  ResultStands'
<1> USE DEF TypeOK, ClosureIsTakenOnce, ResultStands, bridge, history
<1>1. CASE UNCHANGED vars
    BY <1>1 DEF vars
<1>2. CASE \E k \in Kind : Begin(k)
    BY <1>2 DEF Begin
<1>3. CASE Rust
    <2>1. CASE \E reason \in {"unresolved", "not representable"} : RejectPath(reason)
        BY <2>1 DEF RejectPath, Status, Failure
    <2>2. CASE EnterBridge
        BY <2>2 DEF EnterBridge, Status, Failure
    <2>3. CASE FinishCoordinated
        BY <2>3 DEF FinishCoordinated, Reason, Status, Failure
    <2>4. CASE Return
        BY <2>4 DEF Return, Status, Failure
    <2>5. QED
        BY <1>3, <2>1, <2>2, <2>3, <2>4 DEF Rust
<1>4. CASE Coordinator
    <2>1. CASE PathNotRepresentable \/ Claim \/ RefuseClaim
        BY <2>1 DEF PathNotRepresentable, Claim, RefuseClaim
    <2>2. CASE AccessorSeesNoPath \/ AccessorSeesOtherPath \/ InvokeNothing
        BY <2>2 DEF AccessorSeesNoPath, AccessorSeesOtherPath, InvokeNothing, CallAccessor
    <2>3. CASE \E left \in {content, Cut} : InvokeBody(left)
        BY <2>3 DEF InvokeBody, CallAccessor
    <2>4. CASE \E reported \in {"nil", "reported"} : Release(reported)
        BY <2>4 DEF Release
    <2>5. CASE Throw \/ LeaveBridge
        BY <2>5 DEF Throw, LeaveBridge
    <2>6. QED
        BY <1>4, <2>1, <2>2, <2>3, <2>4, <2>5 DEF Coordinator
<1>5. CASE Body
    <2>1. CASE \E new \in Text : BodyWrites(new)
        BY <2>1 DEF BodyWrites
    <2>2. CASE \E ending \in Completion : BodyEnds(ending)
        BY <2>2 DEF BodyEnds
    <2>3. QED
        BY <1>5, <2>1, <2>2 DEF Body
<1>6. CASE Peer
    BY <1>6 DEF Peer, PeerClaim, PeerWrite, PeerRelease
<1>7. QED
    BY <1>1, <1>2, <1>3, <1>4, <1>5, <1>6 DEF Next

(* Every step keeps the invariant.                                         *)
LEMMA NextIInv == IInv /\ [Next]_vars => IInv'
BY TypeKeeps, ClosureKeeps, ClaimsKeep, BodyKeeps, ResultKeeps DEF IInv

(* The inductive invariant of an access: the closure is taken once, and a  *)
(* claim stands over the whole of it.                                      *)
THEOREM AccessInvariant == Spec => []IInv
<1>1. QED
    BY InitIInv, NextIInv, PTL DEF Spec

(* Every variable of an access keeps its type.                             *)
THEOREM TypeCorrect == Spec => []TypeOK
<1>1. IInv => TypeOK
    BY DEF IInv
<1>2. QED
    BY <1>1, AccessInvariant, PTL

(* After a failure the body has not run, and after anything else it ran    *)
(* exactly once (macos.rs, finish_coordinated).                            *)
THEOREM ResultsTell == Spec => []ResultTellsWhetherTheBodyRan
<1>1. IInv => ResultTellsWhetherTheBodyRan
    BY DEF IInv, TypeOK, ResultTellsWhetherTheBodyRan, ClosureIsTakenOnce, ResultStands,
        Completion, Failure
<1>2. QED
    BY <1>1, AccessInvariant, PTL

(* The whole body runs under a claim of its kind (coordinated_access.m).   *)
THEOREM BodiesAreUndisturbed == Spec => []BodyIsUndisturbed
<1>1. IInv => BodyIsUndisturbed
    BY DEF IInv, BodyIsUndisturbed, BodyStands, ClosureIsTakenOnce, ClaimsAreCompatible,
        Claimed, Compatible, Intent
<1>2. QED
    BY <1>1, AccessInvariant, PTL

-----------------------------------------------------------------------------
(* The refinement *)

(* The initial states promise what AccessPromise does at first.            *)
LEMMA InitPromised == Init => Promise!Init
BY DEF Init, Promise!Init, Visible, PromisedOutcome, Claimed

\* Nothing of the step can be told through the promise.
Unnoticed == UNCHANGED <<kind, Visible, PromisedOutcome>>

(* Every step is one of AccessPromise or changes nothing of it.            *)
LEMMA NextPromised == IInv /\ [Next]_vars => [Promise!Next]_(Promise!vars)
<1> SUFFICES ASSUME IInv, [Next]_vars
             PROVE  Promise!Next \/ Unnoticed
    BY DEF Promise!vars, Unnoticed
<1> USE DEF Visible, PromisedOutcome, Claimed, bridge, history
<1>1. CASE UNCHANGED vars
    BY <1>1 DEF vars, Unnoticed
<1>2. CASE \E k \in Kind : Begin(k)
    BY <1>2 DEF Begin, Promise!Begin, Promise!Next, Promise!Kind, Kind
<1>3. CASE Rust
    <2>1. CASE \E reason \in {"unresolved", "not representable"} : RejectPath(reason)
        BY <2>1 DEF RejectPath, Promise!Fail, Promise!Next, Promise!Failure
    <2>2. CASE EnterBridge
        BY <2>2 DEF EnterBridge, Unnoticed
    <2>3. CASE FinishCoordinated /\ completion # "none"
        BY <2>3 DEF FinishCoordinated, Unnoticed
    <2>4. CASE FinishCoordinated /\ completion = "none"
        <3>1. Reason \in Failure \cup {"internal"}
            BY DEF IInv, TypeOK, Status, Failure, Reason
        <3>2. Promise!Fail(Reason)
            BY <2>4 DEF FinishCoordinated, Promise!Fail
        <3>3. QED
            BY <3>1, <3>2 DEF Promise!Next, Promise!Failure, Failure
    <2>5. CASE Return
        <3>1. result \in Completion \cup Failure \cup {"internal"}
            BY <2>5 DEF Return, IInv, TypeOK, ClosureIsTakenOnce, ResultStands
        <3>2. Promise!Return
            BY <2>5, <3>1 DEF Return, Promise!Return, Promise!Ended, Promise!Completion,
                Promise!Failure, Completion, Failure
        <3>3. QED
            BY <3>2 DEF Promise!Next
    <2>6. QED
        BY <1>3, <2>1, <2>2, <2>3, <2>4, <2>5 DEF Rust
<1>4. CASE Coordinator
    <2>1. CASE PathNotRepresentable \/ Claim \/ RefuseClaim
        <3>1. pc = "native" /\ runs = 0 /\ completion = "none"
            BY <2>1 DEF PathNotRepresentable, Claim, RefuseClaim, IInv, ClosureIsTakenOnce
        <3>2. /\ kind' = kind /\ completion' = completion /\ content' = content /\ runs' = runs
              /\ pc' \in {"finish", "claimed", "returned"}
            BY <2>1 DEF PathNotRepresentable, Claim, RefuseClaim
        <3>3. Visible = content /\ Visible' = content
            BY <3>1, <3>2
        <3>4. PromisedOutcome = "open" /\ PromisedOutcome' = "open"
            BY <3>1, <3>2
        <3>5. QED
            BY <3>2, <3>3, <3>4 DEF Unnoticed
    <2>2. CASE AccessorSeesNoPath \/ AccessorSeesOtherPath \/ InvokeNothing
        BY <2>2 DEF AccessorSeesNoPath, AccessorSeesOtherPath, InvokeNothing, CallAccessor,
            Unnoticed
    <2>3. CASE \E left \in {content, Cut} : InvokeBody(left)
        <3>1. pc = "claimed" /\ runs = 0
            BY <2>3 DEF InvokeBody, CallAccessor, IInv, ClosureIsTakenOnce
        <3>2. pc' = "opened" /\ kind' = kind /\ found' = content /\ runs' = 1
            BY <2>3, <3>1 DEF InvokeBody
        <3>3. kind # "write" => content' = content
            BY <2>3 DEF InvokeBody
        <3>4. Visible = content /\ Visible' = content
            BY <3>1, <3>2, <3>3
        <3>5. PromisedOutcome = "open" /\ PromisedOutcome' = "open"
            BY <3>1, <3>2
        <3>6. QED
            BY <3>2, <3>4, <3>5 DEF Unnoticed
    <2>4. CASE (\E reported \in {"nil", "reported"} : Release(reported))
               \/ (Throw /\ pc = "claimed")
        <3>1. /\ pc = "claimed" /\ pc' \in {"returned", "finish"}
              /\ UNCHANGED <<kind, completion, content, runs, found>>
            BY <2>4 DEF Release, Throw
        <3>2. /\ PromisedOutcome = "open"
              /\ PromisedOutcome' = IF completion = "none" THEN "open" ELSE completion
              /\ Visible' = content
            BY <3>1
        <3>3. CASE completion = "none"
            <4>1. runs = 0
                BY <3>1, <3>3 DEF IInv, ClosureIsTakenOnce
            <4>2. Visible = content
                BY <4>1
            <4>3. QED
                BY <3>1, <3>2, <3>3, <4>2 DEF Unnoticed
        <3>4. CASE completion # "none"
            <4>1. content # Visible => kind = "write"
                BY <3>1
            <4>2. kind = "write" /\ completion = "value" => content # Cut
                BY <3>1, CutAssumption DEF IInv, BodyStands
            <4>3. Promise!Perform(completion, content)
                BY <3>1, <3>2, <3>4, <4>1, <4>2 DEF Promise!Perform
            <4>4. completion \in Completion /\ content \in Text \cup {Cut}
                BY <3>4 DEF IInv, TypeOK
            <4>5. QED
                BY <4>3, <4>4 DEF Promise!Next, Promise!Completion, Completion
        <3>5. QED
            BY <3>3, <3>4
    <2>5. CASE (Throw /\ pc # "claimed") \/ LeaveBridge
        <3>1. /\ pc \in {"native", "returned"} /\ pc' = "finish"
              /\ UNCHANGED <<kind, completion, content>>
            BY <2>5 DEF Throw, LeaveBridge
        <3>2. pc = "native" => completion = "none"
            BY DEF IInv, ClosureIsTakenOnce
        <3>3. PromisedOutcome' = PromisedOutcome /\ Visible' = Visible
            BY <3>1, <3>2
        <3>4. QED
            BY <3>1, <3>3 DEF Unnoticed
    <2>6. QED
        BY <1>4, <2>1, <2>2, <2>3, <2>4, <2>5 DEF Coordinator
<1>5. CASE Body
    <2>1. /\ pc \in {"opened", "written"} /\ pc' \in {"written", "claimed"}
          /\ UNCHANGED <<kind, runs, found>>
          /\ kind # "write" => content' = content
        BY <1>5 DEF Body, BodyWrites, BodyEnds
    <2>2. runs > 0
        BY <2>1 DEF IInv, ClosureIsTakenOnce
    <2>3. Visible' = Visible
        BY <2>1, <2>2
    <2>4. PromisedOutcome = "open" /\ PromisedOutcome' = "open"
        BY <2>1
    <2>5. QED
        BY <2>1, <2>3, <2>4 DEF Unnoticed
<1>6. CASE Peer
    <2>1. CASE (\E k \in Kind : PeerClaim(k)) \/ PeerRelease
        BY <2>1 DEF PeerClaim, PeerRelease, Unnoticed
    <2>2. CASE \E new \in Text : PeerWrite(new)
        <3>1. PICK new \in Text : PeerWrite(new)
            BY <2>2
        <3>2. ~Claimed
            BY <3>1 DEF PeerWrite, IInv, TypeOK, Kind, ClaimsAreCompatible, Compatible, Intent
        <3>3. Promise!PeerWrite(new)
            BY <3>1, <3>2 DEF PeerWrite, Promise!PeerWrite
        <3>4. QED
            BY <3>3 DEF Promise!Next
    <2>3. QED
        BY <1>6, <2>1, <2>2 DEF Peer
<1>7. QED
    BY <1>1, <1>2, <1>3, <1>4, <1>5, <1>6 DEF Next

(* A coordinated access is one atomic access that runs its body once or    *)
(* not at all and returns what the body returned.                          *)
THEOREM AccessIsAtomic == Spec => ImplementsPromise
<1>1. QED
    BY InitPromised, NextPromised, AccessInvariant, PTL DEF Spec, ImplementsPromise, Promise!Spec
=============================================================================
