---------------------------- MODULE EngineLedger ----------------------------
(***************************************************************************)
(* The engine, with its snapshot, its ordered writes, its batches and its  *)
(* failures, implements the Ledger of every single fragment.               *)
(***************************************************************************)
EXTENDS Engine

CONSTANT NoCommand

ASSUME LedgerSentinelAssumption ==
    /\ NoFragment \notin Source
    /\ NoCommand \notin [operation : Operation \cup {Status}, selection : SelectionKind,
                         selected : BOOLEAN]

LedgerFragment(p) ==
    IF document = Invalid THEN NoFragment ELSE document[p]

\* A path whose target is the document itself has no file of its own.
LedgerFile(p) ==
    IF LedgerFragment(p) = NoFragment THEN NoFile
    ELSE IF entry[p] = DocumentEntry THEN Malformed
    ELSE file[entry[p]]

LedgerEmbedded(p) ==
    IF LedgerFragment(p) = NoFragment THEN NoFragment ELSE LedgerFragment(p).source

LedgerBaseline(p) ==
    IF LedgerFragment(p) = NoFragment THEN NoHash ELSE LedgerFragment(p).baseline

LedgerCommand(p) ==
    IF AtRest THEN NoCommand
    ELSE [operation |-> request.mode, selection |-> Selection,
          selected |-> request.selectors = {} \/ p \in request.selectors]

L(p) == INSTANCE Ledger WITH
            embedded   <- LedgerEmbedded(p),
            baseline   <- LedgerBaseline(p),
            filesystem <- LedgerFile(p),
            command    <- LedgerCommand(p)

(***************************************************************************)
(* Seen from any one fragment, a command is atomic decisions on the        *)
(* current document and file: the snapshot it works from is never stale,   *)
(* the order and the failures of the other outputs are invisible, and an   *)
(* interrupted commit is just a command that did less (engine.rs,          *)
(* mutate_with_access; commit.rs, commit_using).                           *)
(***************************************************************************)
LedgerVars(p) == <<LedgerEmbedded(p), LedgerBaseline(p), LedgerFile(p), LedgerCommand(p)>>

ImplementsLedger ==
    /\ \A p \in Path : L(p)!Init
    /\ [][\A p \in Path : [L(p)!Next]_(LedgerVars(p))]_vars
=============================================================================
