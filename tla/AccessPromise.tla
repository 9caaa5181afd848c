---------------------------- MODULE AccessPromise ----------------------------
(***************************************************************************)
(* What the access policy promises its callers (src/src/access.rs,         *)
(* AccessPolicy): a named access fails without running its body, or runs   *)
(* the body once, as one step for every cooperating process, and returns   *)
(* what the body returned.                                                 *)
(***************************************************************************)
CONSTANTS
    Text,       \* the whole contents of the named file
    Cut         \* what a body that fails half way leaves behind

Kind == {"read", "write"}
Completion == {"value", "error", "panic"}
Failure == {"not representable", "unresolved", "refused", "path changed"}
Ended == Completion \cup Failure \cup {"internal"}

VARIABLES
    kind,       \* of the access under way
    content,    \* of the named file, as a cooperating process may find it
    outcome     \* "none" between accesses, "open" during one, then its result

vars == <<kind, content, outcome>>

Begin(k) ==
    /\ outcome = "none"
    /\ outcome' = "open"
    /\ kind' = k
    /\ UNCHANGED content

\* Only a write changes the file, and one that reports a value wrote it whole.
Perform(completion, new) ==
    /\ outcome = "open"
    /\ new # content => kind = "write"
    /\ kind = "write" /\ completion = "value" => new # Cut
    /\ content' = new
    /\ outcome' = completion
    /\ UNCHANGED kind

\* The policy fails, or its bridge is broken: the body never runs.
Fail(reason) ==
    /\ outcome = "open"
    /\ outcome' = reason
    /\ UNCHANGED <<kind, content>>

Return ==
    /\ outcome \in Ended
    /\ outcome' = "none"
    /\ UNCHANGED <<kind, content>>

\* A cooperating process writes the file between accesses, or before the body.
PeerWrite(new) ==
    /\ content' = new
    /\ UNCHANGED <<kind, outcome>>

Init ==
    /\ kind = "read"
    /\ content \in Text
    /\ outcome = "none"

Next ==
    \/ \E k \in Kind : Begin(k)
    \/ \E completion \in Completion, new \in Text \cup {Cut} : Perform(completion, new)
    \/ \E reason \in Failure \cup {"internal"} : Fail(reason)
    \/ Return
    \/ \E new \in Text : PeerWrite(new)

Spec == Init /\ [][Next]_vars
=============================================================================
