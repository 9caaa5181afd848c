---------------------------- MODULE LedgerProofs ----------------------------
(***************************************************************************)
(* Theorems about one fragment: its types, and the state table of          *)
(* docs/design.md, for every hash function.                                *)
(***************************************************************************)
EXTENDS Ledger, TLAPS

-----------------------------------------------------------------------------
(* The classification and the plan, for every hash function                *)

(* Each classification holds exactly under the condition of its match arm. *)
LEMMA ClassifyRows ==
    ASSUME NEW E \in Source, NEW H \in Digest \cup {NoHash}, NEW F \in Source \cup {NoFile}
    PROVE  /\ Classify(E, H, F) \in Classification
           /\ Classify(E, H, F) = "unadopted absent" <=> H = NoHash /\ F = NoFile
           /\ Classify(E, H, F) = "unadopted matching" <=> H = NoHash /\ F = E
           /\ Classify(E, H, F) = "unadopted conflict" <=>
                 H = NoHash /\ F # NoFile /\ F # E
           /\ Classify(E, H, F) = "missing" <=> H # NoHash /\ F = NoFile
           /\ Classify(E, H, F) = "synchronized" <=>
                 H # NoHash /\ F = E /\ Hash[F] = H
           /\ Classify(E, H, F) = "converged" <=>
                 H # NoHash /\ F = E /\ Hash[F] # H
           /\ Classify(E, H, F) = "embed" <=>
                 H # NoHash /\ F # NoFile /\ F # E /\ Hash[F] # H /\ Hash[E] = H
           /\ Classify(E, H, F) = "extract" <=>
                 H # NoHash /\ F # NoFile /\ F # E /\ Hash[F] = H /\ Hash[E] # H
           /\ Classify(E, H, F) = "conflict" <=>
                 H # NoHash /\ F # NoFile /\ F # E /\ (Hash[F] = H <=> Hash[E] = H)
<1>1. CASE H = NoHash
    BY <1>1, AbsenceAssumption DEF Classify, ClassifyUnadopted, Classification
<1>2. CASE H # NoHash /\ F = NoFile
    BY <1>2, AbsenceAssumption DEF Classify, Classification
<1>3. CASE H # NoHash /\ F # NoFile
    <2>1. F \in Source
        BY <1>3
    <2>2. Classify(E, H, F) = ClassifyAdopted(E, H, F)
        BY <1>3 DEF Classify
    <2>3. CASE F = E
        BY <1>3, <2>1, <2>2, <2>3 DEF ClassifyAdopted, Classification
    <2>4. CASE F # E /\ Hash[F] = H /\ Hash[E] = H
        BY <1>3, <2>1, <2>2, <2>4 DEF ClassifyAdopted, Classification
    <2>5. CASE F # E /\ Hash[F] # H /\ Hash[E] # H
        BY <1>3, <2>1, <2>2, <2>5 DEF ClassifyAdopted, Classification
    <2>6. CASE F # E /\ Hash[F] # H /\ Hash[E] = H
        BY <1>3, <2>1, <2>2, <2>6 DEF ClassifyAdopted, Classification
    <2>7. CASE F # E /\ Hash[F] = H /\ Hash[E] # H
        BY <1>3, <2>1, <2>2, <2>7 DEF ClassifyAdopted, Classification
    <2>8. QED
        BY <2>3, <2>4, <2>5, <2>6, <2>7
<1>4. QED
    BY <1>1, <1>2, <1>3

(* An unforced decision is one of five, and each has its classifications. *)
LEMMA PlanOneRows ==
    ASSUME NEW operation \in Operation, NEW selection \in SelectionKind,
           NEW class \in Classification
    PROVE  /\ PlanOne(operation, selection, class) \in Decision
           /\ PlanOne(operation, selection, class) = "settled" <=> class = "synchronized"
           /\ PlanOne(operation, selection, class) = "record" <=>
                 class \in {"unadopted matching", "converged"}
           /\ PlanOne(operation, selection, class) = "extract" =>
                 class \in {"unadopted absent", "missing", "extract"}
           /\ PlanOne(operation, selection, class) = "embed" => class = "embed"
BY DEF PlanOne, PlanExtracts, PlanEmbeds, Decision, Classification

(* Sync is the union of the two directions, as docs/design.md promises.    *)
LEMMA SyncIsTheUnion ==
    ASSUME NEW class \in Classification
    PROVE  LET one(kind) == PlanOne([kind |-> kind, force |-> FALSE], "all", class)
           IN  {one("sync")} \ {"settled", "unresolved"} =
                  ({one("embed")} \cup {one("extract")}) \ {"settled", "unresolved"}
<1> DEFINE one(kind) == PlanOne([kind |-> kind, force |-> FALSE], "all", class)
<1>1. CASE class \in {"unadopted absent", "extract"}
    <2>1. one("sync") = "extract" /\ one("extract") = "extract" /\ one("embed") = "unresolved"
        BY <1>1 DEF PlanOne, PlanExtracts, PlanEmbeds
    <2>2. QED
        BY <2>1
<1>2. CASE class = "embed"
    <2>1. one("sync") = "embed" /\ one("embed") = "embed" /\ one("extract") = "unresolved"
        BY <1>2 DEF PlanOne, PlanExtracts, PlanEmbeds
    <2>2. QED
        BY <2>1
<1>3. CASE class \notin {"unadopted absent", "extract", "embed"}
    <2>1. one("sync") = one("embed") /\ one("sync") = one("extract")
        BY <1>3 DEF PlanOne, PlanExtracts, PlanEmbeds
    <2>2. QED
        BY <2>1
<1>4. QED
    BY <1>1, <1>2, <1>3

-----------------------------------------------------------------------------
(* One fragment                                                            *)

(* A running command embeds, forced or not, only a file that is there.     *)
LEMMA EmbedsAFile ==
    ASSUME TypeOK, Mutating, Decision1 = "embed"
    PROVE  filesystem \in Source
<1>1. embedded \in Source /\ baseline \in Digest \cup {NoHash}
      /\ filesystem \in Source \cup {NoFile}
    BY DEF TypeOK, Mutating, Torn
<1>2. /\ Class \in Classification
      /\ Class \in {"embed", "conflict", "unadopted conflict"} => filesystem # NoFile
    <2>1. ASSUME NEW c, c = Classify(embedded, baseline, filesystem)
          PROVE  /\ c \in Classification
                 /\ c \in {"embed", "conflict", "unadopted conflict"} => filesystem # NoFile
        BY <1>1, <2>1, ClassifyRows
    <2>2. QED
        BY <2>1 DEF Class
<1>3. Class \in {"embed", "conflict", "unadopted conflict"}
    <2>1. CASE command.operation.force
        BY <2>1 DEF Decision1, Forceable
    <2>2. CASE ~command.operation.force
        <3>1. command.operation \in Operation /\ command.selection \in SelectionKind
            BY DEF TypeOK, Mutating, Command
        <3>2. \A c \in Classification :
                 PlanOne(command.operation, command.selection, c) = "embed" => c = "embed"
            BY <3>1, PlanOneRows
        <3>3. QED
            BY <1>2, <2>2, <3>2 DEF Decision1
    <2>3. QED
        BY <2>1, <2>2
<1>4. QED
    BY <1>1, <1>2, <1>3

(* Every variable keeps its type.                                          *)
THEOREM LedgerTypeCorrect == Spec => []TypeOK
<1>1. Init => TypeOK
    BY DEF Init, TypeOK
<1>2. TypeOK /\ [Next]_vars => TypeOK'
    <2> SUFFICES ASSUME TypeOK, [Next]_vars PROVE TypeOK'
        OBVIOUS
    <2>1. CASE UNCHANGED vars
        BY <2>1 DEF vars, TypeOK
    <2>2. CASE Edit
        BY <2>2 DEF Edit, TypeOK
    <2>3. CASE \E c \in Command : Begin(c)
        BY <2>3 DEF Begin, TypeOK, fragment
    <2>4. CASE End
        BY <2>4 DEF End, TypeOK, fragment
    <2>5. CASE Extract
        BY <2>5 DEF Extract, TypeOK, fragment, Mutating, MayEnd, Torn
    <2>6. CASE TearTarget
        BY <2>6 DEF TearTarget, TypeOK, fragment
    <2>7. CASE Embed
        <3>1. filesystem \in Source
            BY <2>7, EmbedsAFile DEF Embed
        <3>2. QED
            BY <2>7, <3>1, HashAssumption DEF Embed, TypeOK, MayEnd
    <2>8. CASE Record
        <3>1. embedded \in Source
            BY <2>8 DEF Record, Mutating, TypeOK
        <3>2. QED
            BY <2>8, <3>1, HashAssumption DEF Record, TypeOK, MayEnd
    <2>9. CASE TearDocument
        BY <2>9 DEF TearDocument, TypeOK, Torn
    <2>10. CASE Appear
        BY <2>10 DEF Appear, TypeOK, MayEnd, fragment
    <2>11. QED
        BY <2>1, <2>2, <2>3, <2>4, <2>5, <2>6, <2>7, <2>8, <2>9, <2>10 DEF Next
<1>3. QED
    BY <1>1, <1>2, PTL DEF Spec

(* The row of the table that applies is the one classify names.            *)
LEMMA OneRow ==
    ASSUME NEW E \in Source, NEW H \in Digest \cup {NoHash}, NEW F \in Source \cup {NoFile},
           NEW state \in Classification
    PROVE  DesignRow(state, F, E, H) <=> state = Classify(E, H, F)
<1>1. CASE state = "unadopted absent"
    <2>1. DesignRow("unadopted absent", F, E, H) <=> Classify(E, H, F) = "unadopted absent"
        BY ZenonT(40), ClassifyRows, AbsenceAssumption DEF DesignRow
    <2>2. QED
        BY <1>1, <2>1
<1>2. CASE state = "unadopted matching"
    <2>1. DesignRow("unadopted matching", F, E, H) <=> Classify(E, H, F) = "unadopted matching"
        BY ClassifyRows, AbsenceAssumption DEF DesignRow
    <2>2. QED
        BY <1>2, <2>1
<1>3. CASE state = "unadopted conflict"
    <2>1. DesignRow("unadopted conflict", F, E, H) <=> Classify(E, H, F) = "unadopted conflict"
        BY ClassifyRows, AbsenceAssumption DEF DesignRow
    <2>2. QED
        BY <1>3, <2>1
<1>4. CASE state = "missing"
    <2>1. DesignRow("missing", F, E, H) <=> H # NoHash /\ F = NoFile
        BY AbsenceAssumption DEF DesignRow
    <2>2. Classify(E, H, F) = "missing" <=> H # NoHash /\ F = NoFile
        BY ClassifyRows
    <2>3. QED
        BY <1>4, <2>1, <2>2
<1>5. CASE state = "synchronized"
    <2>1. DesignRow("synchronized", F, E, H) <=> H # NoHash /\ F = E /\ Hash[F] = H
        BY AbsenceAssumption DEF DesignRow
    <2>2. Classify(E, H, F) = "synchronized" <=> H # NoHash /\ F = E /\ Hash[F] = H
        BY ClassifyRows
    <2>3. QED
        BY <1>5, <2>1, <2>2
<1>6. CASE state = "converged"
    <2>1. DesignRow("converged", F, E, H) <=> Classify(E, H, F) = "converged"
        BY ClassifyRows, AbsenceAssumption DEF DesignRow
    <2>2. QED
        BY <1>6, <2>1
<1>7. CASE state = "embed"
    <2>1. DesignRow("embed", F, E, H) <=> Classify(E, H, F) = "embed"
        BY ZenonT(40), ClassifyRows, AbsenceAssumption DEF DesignRow
    <2>2. QED
        BY <1>7, <2>1
<1>8. CASE state = "extract"
    <2>1. DesignRow("extract", F, E, H) <=> Classify(E, H, F) = "extract"
        BY ZenonT(40), ClassifyRows, AbsenceAssumption DEF DesignRow
    <2>2. QED
        BY <1>8, <2>1
<1>9. CASE state = "conflict"
    <2>1. DesignRow("conflict", F, E, H) <=> H # NoHash /\ F # NoFile /\ F # E /\ (Hash[F] = H <=> Hash[E] = H)
        BY AbsenceAssumption DEF DesignRow
    <2>2. Classify(E, H, F) = "conflict" <=> H # NoHash /\ F # NoFile /\ F # E /\ (Hash[F] = H <=> Hash[E] = H)
        BY ClassifyRows
    <2>3. QED
        BY <1>9, <2>1, <2>2
<1>10. QED
    BY <1>1, <1>2, <1>3, <1>4, <1>5, <1>6, <1>7, <1>8, <1>9 DEF Classification

(* Exactly one row of the state table applies, it is the one classify      *)
(* names, and sync is the union of the two directions.                     *)
THEOREM TableIsMatched == Spec => []MatchesDesignTable
<1>1. TypeOK => MatchesDesignTable
    <2> SUFFICES ASSUME TypeOK, embedded # NoFragment, filesystem # Malformed
                 PROVE  MatchesDesignTable
        BY DEF MatchesDesignTable
    <2> DEFINE row(state) == DesignRow(state, filesystem, embedded, baseline)
               one(kind) == PlanOne([kind |-> kind, force |-> FALSE], "all", Class)
               actions(kind) == {one(kind)} \ {"settled", "unresolved"}
    <2>1. embedded \in Source /\ baseline \in Digest \cup {NoHash}
          /\ filesystem \in Source \cup {NoFile}
        BY DEF TypeOK, Torn
    <2>2. Class \in Classification
        BY <2>1, ClassifyRows DEF Class
    <2>3. ASSUME NEW state \in Classification
          PROVE  row(state) <=> state = Class
        BY <2>1, OneRow DEF Class
    <2>4. {state \in Classification : row(state)} = {Class}
        BY <2>2, <2>3
    <2>5. actions("sync") = actions("embed") \cup actions("extract")
        BY <2>2, SyncIsTheUnion
    <2>6. QED
        BY <2>4, <2>5 DEF MatchesDesignTable
<1>2. QED
    BY <1>1, LedgerTypeCorrect, PTL
=============================================================================
