----------------------------- MODULE Reconcile -----------------------------
(***************************************************************************)
(* The pure core of zwirn, src/src/reconcile.rs: the classification of one *)
(* fragment from its embedded source, its stored baseline hash and its     *)
(* filesystem source, and the decision a command takes on each selected    *)
(* fragment.  A source stands for canonical text (fragment.rs,             *)
(* CanonicalSource); only equality and the truncated hash are looked at.   *)
(***************************************************************************)

CONSTANTS
    Source,     \* the canonical source texts
    Digest,     \* the 64-bit baseline hashes
    Hash,       \* the truncated digest of each source; it may collide
    NoFile,     \* the filesystem input of an absent target
    NoHash      \* the baseline of a closing marker that carries no hash

ASSUME HashAssumption == Hash \in [Source -> Digest]
ASSUME AbsenceAssumption == NoFile \notin Source /\ NoHash \notin Digest

(***************************************************************************)
(* Classifications.  The two forms of `unadopted` are reported alike and   *)
(* planned differently.                                                    *)
(***************************************************************************)
Classification ==
    {"unadopted absent", "unadopted matching", "unadopted conflict", "missing",
     "synchronized", "embed", "extract", "converged", "conflict"}

ClassifyUnadopted(embedded, filesystem) ==
    CASE filesystem = NoFile -> "unadopted absent"
      [] filesystem # NoFile /\ filesystem = embedded -> "unadopted matching"
      [] filesystem # NoFile /\ filesystem # embedded -> "unadopted conflict"

\* Mutant: equality of texts taken for equality of their hashes.
ClassifyAdoptedByHash(embedded, baseline, filesystem) ==
    LET filesystemMatches == Hash[filesystem] = baseline
        embeddedMatches   == Hash[embedded] = baseline
        equal             == Hash[filesystem] = Hash[embedded]
    IN  CASE equal /\ filesystemMatches -> "synchronized"
          [] equal /\ ~filesystemMatches -> "converged"
          [] ~equal /\ ~filesystemMatches /\ embeddedMatches -> "embed"
          [] ~equal /\ filesystemMatches /\ ~embeddedMatches -> "extract"
          [] ~equal /\ filesystemMatches = embeddedMatches -> "conflict"

ClassifyAdopted(embedded, baseline, filesystem) ==
    LET filesystemMatches == Hash[filesystem] = baseline
        embeddedMatches   == Hash[embedded] = baseline
        equal             == filesystem = embedded
    IN  CASE equal /\ filesystemMatches -> "synchronized"
          [] equal /\ ~filesystemMatches -> "converged"
          [] ~equal /\ ~filesystemMatches /\ embeddedMatches -> "embed"
          [] ~equal /\ filesystemMatches /\ ~embeddedMatches -> "extract"
          [] ~equal /\ filesystemMatches = embeddedMatches -> "conflict"

Classify(embedded, baseline, filesystem) ==
    CASE baseline = NoHash -> ClassifyUnadopted(embedded, filesystem)
      [] baseline # NoHash /\ filesystem = NoFile -> "missing"
      [] baseline # NoHash /\ filesystem # NoFile ->
            ClassifyAdopted(embedded, baseline, filesystem)

(***************************************************************************)
(* Planning.  The state carried by Decision::Unresolved is the fragment's  *)
(* own classification, so the decision is only named here.                 *)
(***************************************************************************)
Sync == [kind |-> "sync", force |-> FALSE]
Operation == [kind : {"embed", "extract"}, force : BOOLEAN] \cup {Sync}
SelectionKind == {"all", "explicit"}
Decision == {"settled", "record", "embed", "extract", "unresolved"}

Forceable == {"conflict", "unadopted conflict"}

\* Mutant: the arm for sync is forgotten.
PlanExtractsUnlessSync(operation, selection, class) ==
    \/ operation.kind = "extract" /\ class \in {"unadopted absent", "extract"}
    \/ operation.kind = "extract" /\ class = "missing" /\ selection = "explicit"

\* Mutant: extraction also overwrites a file that is ahead of the document.
PlanExtractsNewer(operation, selection, class) ==
    \/ operation.kind \in {"extract", "sync"} /\ class \in {"unadopted absent", "extract"}
    \/ operation.kind = "extract" /\ class \in {"missing", "embed"} /\ selection = "explicit"

PlanExtracts(operation, selection, class) ==
    \/ operation.kind \in {"extract", "sync"} /\ class \in {"unadopted absent", "extract"}
    \/ operation.kind = "extract" /\ class = "missing" /\ selection = "explicit"

PlanEmbeds(operation, class) ==
    operation.kind \in {"embed", "sync"} /\ class = "embed"

PlanOne(operation, selection, class) ==
    IF class = "synchronized" THEN "settled"
    ELSE IF class \in {"unadopted matching", "converged"} THEN "record"
    ELSE IF PlanExtracts(operation, selection, class) THEN "extract"
    ELSE IF PlanEmbeds(operation, class) THEN "embed"
    ELSE "unresolved"

\* Mutant: force is not confined to explicit selections.
PlanRefusedUnlessForceable(operation, selection, classes) ==
    /\ operation.force
    /\ \/ DOMAIN classes = {}
       \/ \E p \in DOMAIN classes : classes[p] \notin Forceable

\* classes maps each selected path to its classification.
PlanRefused(operation, selection, classes) ==
    /\ operation.force
    /\ \/ selection # "explicit"
       \/ DOMAIN classes = {}
       \/ \E p \in DOMAIN classes : classes[p] \notin Forceable

Plan(operation, selection, classes) ==
    [p \in DOMAIN classes |->
        IF operation.force THEN operation.kind
                           ELSE PlanOne(operation, selection, classes[p])]
=============================================================================
