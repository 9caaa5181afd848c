------------------------------- MODULE Ledger -------------------------------
(***************************************************************************)
(* What zwirn promises for one fragment, with no snapshot, ordering or     *)
(* commit protocol: its embedded source, baseline hash and file change by  *)
(* the user's hand between commands, and during a command only by the      *)
(* decision of the state table on what the three are at that very moment   *)
(* (docs/design.md, "Synchronization states"; src/src/reconcile.rs).       *)
(* A file is looked at only while the document has the fragment.  Module   *)
(* EngineLedger shows that the engine implements it for every fragment.    *)
(***************************************************************************)
EXTENDS Reconcile

CONSTANTS
    Malformed,  \* a target whose content is not fragment source
    NoFragment, \* the saved document has no such fragment
    NoCommand   \* no command is running

ASSUME LedgerAssumption ==
    /\ Malformed \notin Source \cup {NoFile}
    /\ NoFragment \notin Source

VARIABLES embedded, baseline, filesystem, command

fragment == <<embedded, baseline>>
vars == <<embedded, baseline, filesystem, command>>

Status == [kind |-> "status", force |-> FALSE]

\* A running command selects the fragment with `selected`, or leaves it out.
Command == [operation : Operation \cup {Status}, selection : SelectionKind, selected : BOOLEAN]

Torn == Source \cup {Malformed}

TypeOK ==
    /\ embedded \in Source \cup {NoFragment}
    /\ baseline \in Digest \cup {NoHash}
    /\ filesystem \in Torn \cup {NoFile}
    /\ command \in Command \cup {NoCommand}

Init ==
    /\ embedded \in Source \cup {NoFragment}
    /\ baseline \in Digest \cup {NoHash}
    /\ filesystem \in Torn \cup {NoFile}
    /\ embedded = NoFragment => baseline = NoHash /\ filesystem = NoFile
    /\ command = NoCommand

\* The user edits the document or the file between commands.
Edit ==
    /\ command = NoCommand
    /\ embedded' \in Source \cup {NoFragment}
    /\ baseline' \in Digest \cup {NoHash}
    /\ filesystem' \in Torn \cup {NoFile}
    /\ embedded' = NoFragment => baseline' = NoHash /\ filesystem' = NoFile
    /\ UNCHANGED command

Begin(c) ==
    /\ command = NoCommand
    /\ command' = c
    /\ UNCHANGED <<fragment, filesystem>>

End ==
    /\ command # NoCommand
    /\ command' = NoCommand
    /\ UNCHANGED <<fragment, filesystem>>

-----------------------------------------------------------------------------

Class == Classify(embedded, baseline, filesystem)

Decision1 ==
    IF ~command.operation.force THEN PlanOne(command.operation, command.selection, Class)
    ELSE IF command.selection = "explicit" /\ Class \in Forceable THEN command.operation.kind
    ELSE "unresolved"

Mutating ==
    /\ command # NoCommand
    /\ command.selected
    /\ command.operation # Status
    /\ embedded # NoFragment
    /\ filesystem # Malformed

\* The command goes on, or ends with this step.
MayEnd == command' \in {command, NoCommand}

Extract ==
    /\ Mutating
    /\ Decision1 = "extract"
    /\ filesystem' = embedded
    /\ MayEnd
    /\ UNCHANGED fragment

\* The write of an extraction is cut short, and the command with it.
TearTarget ==
    /\ Mutating
    /\ Decision1 = "extract"
    /\ filesystem' \in Torn
    /\ command' = NoCommand
    /\ UNCHANGED fragment

Embed ==
    /\ Mutating
    /\ Decision1 = "embed"
    /\ embedded' = filesystem
    /\ baseline' = Hash[filesystem]
    /\ MayEnd
    /\ UNCHANGED filesystem

Record ==
    /\ Mutating
    /\ filesystem = embedded
    /\ baseline' = Hash[embedded]
    /\ MayEnd
    /\ UNCHANGED <<embedded, filesystem>>

\* The document write is cut short: the document no longer parses.
TearDocument ==
    /\ command # NoCommand
    /\ embedded' = NoFragment
    /\ baseline' = NoHash
    /\ filesystem' = NoFile
    /\ command' = NoCommand

\* An absent target comes to exist through an alias of it.
Appear ==
    /\ command # NoCommand
    /\ embedded # NoFragment
    /\ filesystem = NoFile
    /\ filesystem' \in Torn
    /\ MayEnd
    /\ UNCHANGED fragment

Next ==
    \/ Edit
    \/ \E c \in Command : Begin(c)
    \/ End
    \/ Extract
    \/ TearTarget
    \/ Embed
    \/ Record
    \/ TearDocument
    \/ Appear

Spec == Init /\ [][Next]_vars

-----------------------------------------------------------------------------
(* The rows of the state table in docs/design.md, as conditions. *)

DesignRow(state, F, E, H) ==
    \/ state = "unadopted absent"   /\ H = NoHash /\ F = NoFile
    \/ state = "unadopted matching" /\ H = NoHash /\ F # NoFile /\ F = E
    \/ state = "unadopted conflict" /\ H = NoHash /\ F # NoFile /\ F # E
    \/ state = "missing"            /\ H # NoHash /\ F = NoFile
    \/ /\ H # NoHash
       /\ F # NoFile
       /\ \/ state = "synchronized" /\ F = E /\ Hash[E] = H
          \/ state = "embed" /\ Hash[E] = H /\ Hash[F] # H
          \/ state = "extract" /\ Hash[F] = H /\ Hash[E] # H
          \/ state = "converged" /\ F = E /\ Hash[F] # H
          \/ state = "conflict" /\ F # E /\ (Hash[F] = H <=> Hash[E] = H)

(***************************************************************************)
(* Exactly one row of the state table applies to any fragment and it is    *)
(* the one classify names, collisions included; and sync is the union of   *)
(* the two directions: where unforced embed or extract acts on a batch,    *)
(* sync takes that same action, and it acts nowhere else (docs/design.md,  *)
(* "One-shot commands"; reconcile.rs, classify and plan_one).              *)
(***************************************************************************)
MatchesDesignTable ==
    embedded # NoFragment /\ filesystem # Malformed =>
        LET actions(kind) ==
                {PlanOne([kind |-> kind, force |-> FALSE], "all", Class)}
                    \ {"settled", "unresolved"}
        IN  /\ {state \in Classification : DesignRow(state, filesystem, embedded, baseline)}
                    = {Class}
            /\ actions("sync") = actions("embed") \cup actions("extract")

(***************************************************************************)
(* Repeated syncs settle a fragment: once the user stops editing and no    *)
(* write is torn, syncs that are rerun, and that do not fail every time,   *)
(* leave it synchronized or in a state that needs the user, for good; the  *)
(* two directions never chase each other (reconcile.rs; the live command   *)
(* reruns exactly this sync).                                              *)
(***************************************************************************)
SyncAll == [operation |-> Sync, selection |-> "all", selected |-> TRUE]

Act == Extract \/ Embed \/ Record

Reruns ==
    /\ SF_vars(Begin(SyncAll))
    /\ SF_vars(command = SyncAll /\ Act)
    /\ WF_vars(End)

FairSpec == Spec /\ Reruns

Settleable == {"unadopted absent", "unadopted matching", "converged", "embed", "extract"}

Settles ==
    <>[][~(Edit \/ TearTarget \/ TearDocument \/ Appear)]_vars =>
        <>[](embedded # NoFragment /\ filesystem # Malformed => Class \notin Settleable)
=============================================================================
