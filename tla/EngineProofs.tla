---------------------------- MODULE EngineProofs ----------------------------
(***************************************************************************)
(* Theorems about one command: its types, the ordered commit, what it may  *)
(* overwrite and record, the truth of its exit status and report, and that *)
(* seen from any one fragment it is the ledger of that fragment; for any   *)
(* paths, texts, entries, aliases and hash collisions.                     *)
(***************************************************************************)
EXTENDS EngineLedger, TLAPS

-----------------------------------------------------------------------------
(* The classification and the plan, for every hash function, collisions     *)
(* included                                                                *)

(* Each classification holds exactly under the condition of its match arm. *)
LEMMA ClassifyRows ==
    ASSUME NEW E \in Source, NEW H \in Digest \cup {NoHash}, NEW F \in Source \cup {NoFile}
    PROVE  /\ Classify(E, H, F) \in Classification
           /\ Classify(E, H, F) = "unadopted absent" <=> H = NoHash /\ F = NoFile
           /\ Classify(E, H, F) = "unadopted matching" <=> H = NoHash /\ F = E
           /\ Classify(E, H, F) = "unadopted conflict" <=>
                 H = NoHash /\ F # NoFile /\ F # E
           /\ Classify(E, H, F) = "missing" <=> H # NoHash /\ F = NoFile
           /\ Classify(E, H, F) = "synchronized" <=>
                 H # NoHash /\ F = E /\ Hash[F] = H
           /\ Classify(E, H, F) = "converged" <=>
                 H # NoHash /\ F = E /\ Hash[F] # H
           /\ Classify(E, H, F) = "embed" <=>
                 H # NoHash /\ F # NoFile /\ F # E /\ Hash[F] # H /\ Hash[E] = H
           /\ Classify(E, H, F) = "extract" <=>
                 H # NoHash /\ F # NoFile /\ F # E /\ Hash[F] = H /\ Hash[E] # H
           /\ Classify(E, H, F) = "conflict" <=>
                 H # NoHash /\ F # NoFile /\ F # E /\ (Hash[F] = H <=> Hash[E] = H)
<1>1. CASE H = NoHash
    BY <1>1, AbsenceAssumption DEF Classify, ClassifyUnadopted, Classification
<1>2. CASE H # NoHash /\ F = NoFile
    BY <1>2, AbsenceAssumption DEF Classify, Classification
<1>3. CASE H # NoHash /\ F # NoFile
    <2>1. F \in Source
        BY <1>3
    <2>2. Classify(E, H, F) = ClassifyAdopted(E, H, F)
        BY <1>3 DEF Classify
    <2>3. CASE F = E
        BY <1>3, <2>1, <2>2, <2>3 DEF ClassifyAdopted, Classification
    <2>4. CASE F # E /\ Hash[F] = H /\ Hash[E] = H
        BY <1>3, <2>1, <2>2, <2>4 DEF ClassifyAdopted, Classification
    <2>5. CASE F # E /\ Hash[F] # H /\ Hash[E] # H
        BY <1>3, <2>1, <2>2, <2>5 DEF ClassifyAdopted, Classification
    <2>6. CASE F # E /\ Hash[F] # H /\ Hash[E] = H
        BY <1>3, <2>1, <2>2, <2>6 DEF ClassifyAdopted, Classification
    <2>7. CASE F # E /\ Hash[F] = H /\ Hash[E] # H
        BY <1>3, <2>1, <2>2, <2>7 DEF ClassifyAdopted, Classification
    <2>8. QED
        BY <2>3, <2>4, <2>5, <2>6, <2>7
<1>4. QED
    BY <1>1, <1>2, <1>3

(* An unforced decision is one of five, and each has its classifications. *)
LEMMA PlanOneRows ==
    ASSUME NEW operation \in Operation, NEW selection \in SelectionKind,
           NEW class \in Classification
    PROVE  /\ PlanOne(operation, selection, class) \in Decision
           /\ PlanOne(operation, selection, class) = "settled" <=> class = "synchronized"
           /\ PlanOne(operation, selection, class) = "record" <=>
                 class \in {"unadopted matching", "converged"}
           /\ PlanOne(operation, selection, class) = "extract" =>
                 class \in {"unadopted absent", "missing", "extract"}
           /\ PlanOne(operation, selection, class) = "embed" => class = "embed"
BY DEF PlanOne, PlanExtracts, PlanEmbeds, Decision, Classification

-----------------------------------------------------------------------------
(* The strengthening *)

\* Before it reads the document a command knows nothing.
NothingKnown ==
    phase \in {"idle", "document"} =>
        /\ input = Invalid
        /\ completed = {}
        /\ \A p \in Path : target[p] = Unread

\* Only targets of the document that was read are read, and never the document.
TargetsAreDiscovered ==
    \A p \in Path : target[p] # Unread =>
        input # Invalid /\ p \in Fragments /\ entry[p] \in Entry

\* Two targets that existed when they were read are different files.
TargetsAreDistinct ==
    \A p, q \in Path :
        target[p] \in Source /\ target[q] \in Source /\ p # q => entry[p] # entry[q]

\* A target that existed when it was read still does.
TargetsStillExist ==
    \A p \in Path : target[p] \in Source => file[entry[p]] # NoFile

\* Until it is written, everything is as it was read.
SnapshotIsFresh ==
    phase \in {"targets", "external"} =>
        /\ input # Invalid
        /\ document = input
        /\ \A p \in Path \ completed : target[p] \in Source => file[entry[p]] = target[p]

\* Nothing is written before the whole plan stands.
PlanBeforeWrites ==
    /\ phase = "external" => HasPlan
    /\ completed # {} => HasPlan /\ phase \in {"external", "done"}

\* A created target is none of the files that existed.
CreatedIsNew ==
    \A p \in completed : target[p] = NoFile =>
        \A q \in Path : entry[q] = entry[p] => target[q] \notin Source

\* An interrupted command leaves the document as it was read, or torn.
DocumentIsKnown ==
    Interrupted /\ input # Invalid => document \in {input, Invalid}

IInv ==
    /\ TypeOK
    /\ NothingKnown
    /\ TargetsAreDiscovered
    /\ TargetsAreDistinct
    /\ TargetsStillExist
    /\ SnapshotIsFresh
    /\ PlanBeforeWrites
    /\ CreatedIsNew
    /\ DocumentIsKnown
    /\ CommitIsOrderedPrefix

-----------------------------------------------------------------------------
(* What the snapshot determines *)

(* Whatever is derived from the request and the snapshot stands with them. *)
LEMMA ViewDerives ==
    ASSUME UNCHANGED view
    PROVE  /\ Fragments' = Fragments /\ UnreadPaths' = UnreadPaths
           /\ Selected' = Selected /\ Extracted' = Extracted /\ Prepared' = Prepared
           /\ HasPlan' <=> HasPlan
<1>1. input' = input /\ target' = target /\ request' = request
    BY DEF view
<1>2. /\ Fragments' = Fragments /\ UnreadPaths' = UnreadPaths /\ Selected' = Selected
      /\ Selection' = Selection /\ Classes' = Classes /\ Decisions' = Decisions
    BY <1>1 DEF Fragments, UnreadPaths, Selected, Selection, Class, Classes, Decisions
<1>3. Extracted' = Extracted
    BY <1>2 DEF Extracted, Decided
<1>4. Prepared' = Prepared
    BY <1>1, <1>2 DEF Prepared
<1>5. HasPlan' <=> HasPlan
    BY <1>1, <1>2 DEF HasPlan, SelectionKnown, Mutates
<1>6. QED
    BY <1>2, <1>3, <1>4, <1>5

(* Once a plan stands every fragment has been read, and every decision     *)
(* rests on a classification or on a force of that very fragment.          *)
LEMMA PlanRests ==
    ASSUME TypeOK, HasPlan
    PROVE  /\ input \in [Path -> Fragment \cup {NoFragment}]
           /\ \A p \in Fragments : target[p] \in Source \cup {NoFile} /\ input[p] \in Fragment
           /\ Selected \subseteq Fragments
           /\ Selection \in SelectionKind
           /\ request.mode \in Operation
           /\ \A p \in Selected : Class(p) \in Classification
           /\ request.mode.force =>
                 /\ request.mode.kind \in {"embed", "extract"}
                 /\ Selected = request.selectors
                 /\ \A p \in Selected : Class(p) \in Forceable
                                      /\ Decisions[p] = request.mode.kind
           /\ ~request.mode.force =>
                 \A p \in Selected : Decisions[p] = PlanOne(request.mode, Selection, Class(p))
<1>1. input \in [Path -> Fragment \cup {NoFragment}]
    BY DEF TypeOK, HasPlan, Document
<1>2. \A p \in Fragments : target[p] \in Source \cup {NoFile} /\ input[p] \in Fragment
    BY <1>1 DEF TypeOK, HasPlan, Fragments, UnreadPaths
<1>3. Selected \subseteq Fragments
    BY DEF HasPlan, SelectionKnown
<1>4. Selection \in SelectionKind
    BY DEF Selection, SelectionKind
<1>5. request.mode \in Operation
    BY DEF TypeOK, Request, HasPlan, Mutates
<1>6. \A p \in Selected : Class(p) \in Classification
    BY <1>2, <1>3, ClassifyRows DEF Class, Fragment
<1>7. DOMAIN Classes = Selected /\ \A p \in Selected : Classes[p] = Class(p)
    BY DEF Classes
<1>8. ASSUME request.mode.force
      PROVE  /\ request.mode.kind \in {"embed", "extract"}
             /\ Selected = request.selectors
             /\ \A p \in Selected : Class(p) \in Forceable
                                  /\ Decisions[p] = request.mode.kind
    <2>1. request.mode.kind \in {"embed", "extract"}
        BY <1>5, <1>8 DEF Operation, Sync
    <2>2. ~PlanRefused(request.mode, Selection, Classes)
        BY DEF HasPlan
    <2>3. Selection = "explicit" /\ \A p \in DOMAIN Classes : Classes[p] \in Forceable
        BY <1>8, <2>2 DEF PlanRefused
    <2>4. Selected = request.selectors
        BY <2>3 DEF Selection, Selected
    <2>5. \A p \in Selected : Decisions[p] = request.mode.kind
        BY <1>7, <1>8 DEF Decisions, Plan
    <2>6. QED
        BY <1>7, <2>1, <2>3, <2>4, <2>5
<1>9. ASSUME ~request.mode.force
      PROVE  \A p \in Selected : Decisions[p] = PlanOne(request.mode, Selection, Class(p))
    BY <1>7, <1>9 DEF Decisions, Plan
<1>10. QED
    BY <1>1, <1>2, <1>3, <1>4, <1>5, <1>6, <1>8, <1>9

(* What each decision says of the snapshot it was taken on. *)
LEMMA DecisionRows ==
    ASSUME TypeOK, HasPlan, NEW p \in Selected
    PROVE  /\ Decisions[p] \in Decision
           /\ Decisions[p] = "settled" =>
                 target[p] = input[p].source /\ input[p] = Recorded(target[p])
           /\ Decisions[p] = "record" => target[p] = input[p].source
           /\ Decisions[p] = "embed" =>
                 target[p] # NoFile /\ MayOverwrite(p, input[p].source)
           /\ Decisions[p] = "extract" =>
                 target[p] = NoFile \/ MayOverwrite(p, target[p])
<1> DEFINE E == input[p].source
           H == input[p].baseline
           F == target[p]
<1>1. p \in Path /\ p \in Fragments
    BY PlanRests DEF Fragments
<1>2. E \in Source /\ H \in Digest \cup {NoHash} /\ F \in Source \cup {NoFile}
    BY <1>1, PlanRests DEF Fragment
<1>3. /\ Class(p) = "unadopted absent" => F = NoFile
      /\ Class(p) = "missing" => F = NoFile
      /\ Class(p) = "unadopted matching" => F = E
      /\ Class(p) = "converged" => F = E
      /\ Class(p) = "synchronized" => F = E /\ H = Hash[F]
      /\ Class(p) = "embed" => F # NoFile /\ Hash[E] = H
      /\ Class(p) = "extract" => F # NoFile /\ Hash[F] = H
      /\ Class(p) \in {"conflict", "unadopted conflict"} => F # NoFile
    <2>1. ASSUME NEW c, c = Classify(E, H, F)
          PROVE  /\ c = "unadopted absent" => F = NoFile
                 /\ c = "missing" => F = NoFile
                 /\ c = "unadopted matching" => F = E
                 /\ c = "converged" => F = E
                 /\ c = "synchronized" => F = E /\ H = Hash[F]
                 /\ c = "embed" => F # NoFile /\ Hash[E] = H
                 /\ c = "extract" => F # NoFile /\ Hash[F] = H
                 /\ c \in {"conflict", "unadopted conflict"} => F # NoFile
        <3> HIDE DEF E, H, F
        <3>1. /\ c = "unadopted absent" => F = NoFile
              /\ c = "missing" => F = NoFile
              /\ c = "unadopted matching" => F = E
              /\ c = "converged" => F = E
            BY ZenonT(40), <1>2, <2>1, ClassifyRows
        <3>2. c = "synchronized" => F = E /\ H = Hash[F]
            BY <1>2, <2>1, ClassifyRows
        <3>3. c = "embed" => F # NoFile /\ Hash[E] = H
            BY <1>2, <2>1, ClassifyRows
        <3>4. c = "extract" => F # NoFile /\ Hash[F] = H
            BY <1>2, <2>1, ClassifyRows
        <3>5. c \in {"conflict", "unadopted conflict"} => F # NoFile
            BY <1>2, <2>1, ClassifyRows
        <3>6. QED
            BY <3>1, <3>2, <3>3, <3>4, <3>5
    <2>2. QED
        BY <2>1 DEF Class
<1>4. Class(p) \in Classification
    BY PlanRests
<1> HIDE DEF E, H, F
<1>5. CASE request.mode.force
    <2>1. /\ p \in request.selectors
          /\ Decisions[p] \in {"embed", "extract"}
          /\ Class(p) \in Forceable
        BY <1>5, PlanRests
    <2>2. F # NoFile
        BY <1>3, <2>1 DEF Forceable
    <2>3. QED
        BY <1>5, <2>1, <2>2 DEF MayOverwrite, Decision, F
<1>6. CASE ~request.mode.force
    <2>1. Decisions[p] = PlanOne(request.mode, Selection, Class(p))
        BY <1>6, PlanRests
    <2>2. request.mode \in Operation /\ Selection \in SelectionKind
        BY PlanRests
    <2>3. /\ Decisions[p] \in Decision
          /\ Decisions[p] = "settled" => Class(p) = "synchronized"
          /\ Decisions[p] = "record" => Class(p) \in {"unadopted matching", "converged"}
          /\ Decisions[p] = "extract" =>
                Class(p) \in {"unadopted absent", "missing", "extract"}
          /\ Decisions[p] = "embed" => Class(p) = "embed"
        <3>1. ASSUME NEW c \in Classification, NEW d, d = PlanOne(request.mode, Selection, c)
              PROVE  /\ d \in Decision
                     /\ d = "settled" => c = "synchronized"
                     /\ d = "record" => c \in {"unadopted matching", "converged"}
                     /\ d = "extract" => c \in {"unadopted absent", "missing", "extract"}
                     /\ d = "embed" => c = "embed"
            BY <2>2, <3>1, PlanOneRows
        <3>2. QED
            BY <1>4, <2>1, <3>1
    <2>4. F = E /\ H = Hash[F] => input[p] = Recorded(F)
        BY <1>1, PlanRests DEF Fragment, Recorded, E, H
    <2>5. QED
        BY <1>3, <2>3, <2>4 DEF MayOverwrite, E, F, H
<1>7. QED
    BY <1>5, <1>6

(* An extraction overwrites an edit only, unless it restores a missing     *)
(* target or is forced over a collision.                                   *)
LEMMA ExtractedDiffers ==
    ASSUME TypeOK, HasPlan, NEW p \in Selected, Decisions[p] = "extract",
           Class(p) # "missing",
           ~(Class(p) = "conflict" /\ Hash[target[p]] = Hash[input[p].source])
    PROVE  input[p].baseline = NoHash \/ Hash[input[p].source] # input[p].baseline
<1> DEFINE E == input[p].source
           H == input[p].baseline
           F == target[p]
<1>1. E \in Source /\ H \in Digest \cup {NoHash} /\ F \in Source \cup {NoFile}
    BY PlanRests DEF Fragment
<1>2. ASSUME NEW c, c = Classify(E, H, F)
      PROVE  /\ c \in {"unadopted absent", "unadopted conflict"} => H = NoHash
             /\ c = "extract" => Hash[E] # H
             /\ c = "conflict" => (Hash[F] = H <=> Hash[E] = H)
    <2> HIDE DEF E, H, F
    <2>1. QED
        BY <1>1, <1>2, ClassifyRows
<1>3. Class(p) \in {"unadopted absent", "extract", "conflict", "unadopted conflict"}
    <2>1. CASE request.mode.force
        BY <2>1, PlanRests DEF Forceable
    <2>2. CASE ~request.mode.force
        <3>1. Decisions[p] = PlanOne(request.mode, Selection, Class(p))
            BY <2>2, PlanRests
        <3>2. \A c \in Classification : PlanOne(request.mode, Selection, c) = "extract" =>
                 c \in {"unadopted absent", "missing", "extract"}
            BY PlanRests, PlanOneRows
        <3>3. QED
            BY <3>1, <3>2, PlanRests
    <2>3. QED
        BY <2>1, <2>2
<1>4. QED
    BY <1>2, <1>3 DEF Class

(* The prepared document changes only selected fragments: to what the file *)
(* holds, or, where it is extracted, to what the file will hold.           *)
LEMMA PreparedRows ==
    ASSUME TypeOK, HasPlan
    PROVE  /\ Prepared \in Document
           /\ Prepared # Invalid
           /\ \A p \in Path : Prepared[p] # input[p] => p \in Selected
           /\ \A p \in Selected :
                 /\ p \in Path /\ input[p] \in Fragment
                 /\ Decisions[p] \in {"record", "extract"} =>
                       Prepared[p] = Recorded(input[p].source)
                 /\ Decisions[p] = "embed" => Prepared[p] = Recorded(target[p])
                 /\ Decisions[p] \in {"settled", "unresolved"} => Prepared[p] = input[p]
<1>1. \A p \in Selected : p \in Path /\ p \in Fragments
    BY PlanRests DEF Fragments
<1>2. \A p \in Selected :
         /\ input[p] \in Fragment
         /\ target[p] \in Source \cup {NoFile}
    BY <1>1, PlanRests
<1>3. \A p \in Selected :
         /\ Decisions[p] \in {"record", "extract"} =>
               Prepared[p] = Recorded(input[p].source)
         /\ Decisions[p] = "embed" => Prepared[p] = Recorded(target[p])
         /\ Decisions[p] \in {"settled", "unresolved"} => Prepared[p] = input[p]
    BY <1>1 DEF Prepared
<1>4. \A p \in Path : Prepared[p] # input[p] => p \in Selected
    BY DEF Prepared
<1>5. \A s \in Source : Recorded(s) \in Fragment
    BY HashAssumption DEF Recorded, Fragment
<1>6. ASSUME NEW p \in Path
      PROVE  Prepared[p] \in Fragment \cup {NoFragment}
    <2>1. CASE p \notin Selected
        <3>1. Prepared[p] = input[p]
            BY <1>4, <2>1
        <3>2. QED
            BY <3>1, PlanRests
    <2>2. CASE p \in Selected
        <3>1. Decisions[p] \in Decision /\ (Decisions[p] = "embed" => target[p] # NoFile)
            BY <2>2, DecisionRows
        <3>2. input[p].source \in Source
            BY <1>2, <2>2 DEF Fragment
        <3>3. QED
            BY <1>2, <1>3, <1>5, <2>2, <3>1, <3>2 DEF Decision
    <2>3. QED
        BY <2>1, <2>2
<1>7. Prepared \in [Path -> Fragment \cup {NoFragment}]
    <2>1. Prepared = [p \in Path |-> Prepared[p]]
        BY DEF Prepared
    <2>2. QED
        BY <1>6, <2>1
<1>8. Prepared \in Document /\ Prepared # Invalid
    BY <1>7, SentinelAssumption DEF Document, Fragment
<1>9. QED
    BY <1>1, <1>2, <1>3, <1>4, <1>8

-----------------------------------------------------------------------------
(* The invariant is inductive *)

(* The initial states satisfy the invariant.                               *)
LEMMA InitIInv == Init => IInv
<1> SUFFICES ASSUME Init PROVE IInv
    OBVIOUS
<1>1. TypeOK
    BY DEF Init, TypeOK, Phase, Outcome, Request, Status, Document
<1>2. NothingKnown /\ TargetsAreDiscovered /\ PlanBeforeWrites /\ SnapshotIsFresh
    BY DEF Init, NothingKnown, TargetsAreDiscovered, PlanBeforeWrites, SnapshotIsFresh
<1>3. TargetsAreDistinct /\ TargetsStillExist /\ CreatedIsNew
    BY SentinelAssumption DEF Init, TargetsAreDistinct, TargetsStillExist, CreatedIsNew
<1>4. DocumentIsKnown /\ CommitIsOrderedPrefix
    BY DEF Init, DocumentIsKnown, Interrupted, CommitIsOrderedPrefix
<1>5. QED
    BY <1>1, <1>2, <1>3, <1>4 DEF IInv

\* Between commands: the disk may change, nothing is known.
AtUser ==
    /\ phase' \in {"idle", "document"}
    /\ input' = Invalid
    /\ completed' = {}
    /\ \A p \in Path : target'[p] = Unread

(* The invariant says nothing else while no command runs.                  *)
LEMMA UserKeeps ==
    ASSUME TypeOK', AtUser
    PROVE  IInv'
<1>1. NothingKnown' /\ TargetsAreDiscovered' /\ PlanBeforeWrites' /\ SnapshotIsFresh'
    BY DEF AtUser, NothingKnown, TargetsAreDiscovered, PlanBeforeWrites, SnapshotIsFresh
<1>2. TargetsAreDistinct' /\ TargetsStillExist' /\ CreatedIsNew'
    BY SentinelAssumption DEF AtUser, TargetsAreDistinct, TargetsStillExist, CreatedIsNew
<1>3. DocumentIsKnown' /\ CommitIsOrderedPrefix'
    BY DEF AtUser, DocumentIsKnown, Interrupted, CommitIsOrderedPrefix
<1>4. QED
    BY <1>1, <1>2, <1>3 DEF IInv

\* The command stops and leaves everything as it is.
Stop ==
    /\ Running
    /\ phase' = "done"
    /\ outcome' \in Outcome
    /\ UNCHANGED <<disk, view, completed>>

(* A command may stop anywhere.                                            *)
LEMMA StopKeeps ==
    ASSUME IInv, Stop
    PROVE  IInv'
<1> USE DEF disk, view
<1>1. TypeOK'
    BY DEF IInv, TypeOK, Stop, Phase
<1>2. NothingKnown' /\ TargetsAreDiscovered' /\ SnapshotIsFresh'
    BY DEF IInv, Stop, NothingKnown, TargetsAreDiscovered, SnapshotIsFresh, Fragments
<1>3. TargetsAreDistinct' /\ TargetsStillExist' /\ CreatedIsNew'
    BY DEF IInv, Stop, TargetsAreDistinct, TargetsStillExist, CreatedIsNew
<1>4. PlanBeforeWrites' /\ DocumentIsKnown'
    <2>1. HasPlan' <=> HasPlan
        BY ViewDerives DEF Stop
    <2>2. QED
        BY <2>1 DEF IInv, Stop, PlanBeforeWrites, DocumentIsKnown, NothingKnown,
            SnapshotIsFresh, Running, AtRest, TypeOK, Phase
<1>5. CommitIsOrderedPrefix'
    <2>1. /\ HasPlan' <=> HasPlan
          /\ Extracted' = Extracted /\ Fragments' = Fragments
        BY ViewDerives DEF Stop
    <2>2. CASE phase = "external"
        BY <2>1, <2>2 DEF IInv, Stop, CommitIsOrderedPrefix, Remaining, NextOutput
    <2>3. CASE phase = "targets" /\ HasPlan
        <3>1. completed = {} /\ document = input
            BY <2>3 DEF IInv, PlanBeforeWrites, SnapshotIsFresh
        <3>2. \A p \in Fragments : target[p] # NoFile => file[entry[p]] = target[p]
            <4>1. \A p \in Fragments : p \in Path /\ target[p] \in Source \cup {NoFile}
                BY <2>3, PlanRests DEF Fragments, IInv
            <4>2. QED
                BY <2>3, <3>1, <4>1 DEF IInv, SnapshotIsFresh
        <3>3. QED
            BY <2>1, <3>1, <3>2 DEF Stop, CommitIsOrderedPrefix
    <2>4. CASE phase = "document" \/ ~HasPlan
        BY <2>1, <2>4 DEF IInv, Stop, NothingKnown, PlanBeforeWrites, CommitIsOrderedPrefix,
            HasPlan, Running, AtRest, TypeOK, Phase
    <2>5. QED
        BY <2>2, <2>3, <2>4 DEF IInv, Stop, Running, AtRest, TypeOK, Phase
<1>6. QED
    BY <1>1, <1>2, <1>3, <1>4, <1>5 DEF IInv

(* Reading is taking the snapshot that stays fresh until it is written.    *)
LEMMA ReadDocumentKeeps ==
    ASSUME IInv, ReadDocument
    PROVE  IInv'
<1> USE DEF disk, view
<1>1. TypeOK'
    BY DEF IInv, TypeOK, ReadDocument, Phase
<1>2. /\ NothingKnown' /\ TargetsAreDiscovered' /\ SnapshotIsFresh'
      /\ TargetsAreDistinct' /\ TargetsStillExist' /\ CreatedIsNew'
    BY SentinelAssumption DEF IInv, ReadDocument, NothingKnown, TargetsAreDiscovered,
        SnapshotIsFresh, TargetsAreDistinct, TargetsStillExist, CreatedIsNew
<1>3. PlanBeforeWrites' /\ DocumentIsKnown' /\ CommitIsOrderedPrefix'
    BY DEF IInv, ReadDocument, NothingKnown, PlanBeforeWrites, DocumentIsKnown,
        CommitIsOrderedPrefix
<1>4. QED
    BY <1>1, <1>2, <1>3 DEF IInv

(* What discovery reads of a target is what the target holds.              *)
LEMMA ReadTargetKeeps ==
    ASSUME IInv, NEW p \in Path, ReadTarget(p)
    PROVE  IInv'
<1> USE DEF disk
<1>1. /\ target' = [target EXCEPT ![p] = file[entry[p]]]
      /\ phase = "targets" /\ phase' = phase /\ p \in Fragments /\ target[p] = Unread
      /\ entry[p] \in Entry /\ file[entry[p]] \in Source \cup {NoFile}
      /\ completed = {} /\ UNCHANGED <<document, file, entry, request, input, completed, outcome>>
    BY DEF IInv, TypeOK, ReadTarget, NextUnread, UnreadPaths, Admissible, Content,
        PlanBeforeWrites
<1>2. /\ \A q \in Path \ {p} : target'[q] = target[q]
      /\ target'[p] = file[entry[p]]
    BY <1>1 DEF IInv, TypeOK
<1>3. TypeOK'
    BY <1>1 DEF IInv, TypeOK
<1>4. NothingKnown' /\ TargetsAreDiscovered' /\ SnapshotIsFresh'
    BY <1>1, <1>2 DEF IInv, NothingKnown, TargetsAreDiscovered, SnapshotIsFresh, Fragments
<1>5. TargetsStillExist' /\ CreatedIsNew'
    BY <1>1, <1>2, AbsenceAssumption DEF IInv, TargetsStillExist, CreatedIsNew
<1>6. TargetsAreDistinct'
    <2>1. ASSUME NEW q \in Path, q # p, target[q] \in Source, file[entry[p]] \in Source
          PROVE  entry[q] # entry[p]
        <3>1. q \in Fragments
            BY <2>1, SentinelAssumption DEF IInv, TargetsAreDiscovered
        <3>2. QED
            BY <2>1, <3>1, AbsenceAssumption DEF ReadTarget, Admissible
    <2>2. QED
        BY <1>1, <1>2, <2>1 DEF IInv, TargetsAreDistinct
<1>7. PlanBeforeWrites' /\ DocumentIsKnown' /\ CommitIsOrderedPrefix'
    BY <1>1 DEF PlanBeforeWrites, DocumentIsKnown, Interrupted, CommitIsOrderedPrefix
<1>8. QED
    BY <1>3, <1>4, <1>5, <1>6, <1>7 DEF IInv

(* The first write is planned on a whole snapshot.                         *)
LEMMA BeginCommitKeeps ==
    ASSUME IInv, BeginCommit
    PROVE  IInv'
<1> USE DEF disk, view
<1>1. /\ phase = "targets" /\ phase' = "external" /\ completed = {}
      /\ UNCHANGED <<disk, view, completed, outcome>>
    BY DEF IInv, BeginCommit, Planned, Discovered, PlanBeforeWrites
<1>2. /\ HasPlan' <=> HasPlan
      /\ Extracted' = Extracted /\ Fragments' = Fragments
    BY <1>1, ViewDerives
<1>3. HasPlan
    BY <1>1 DEF IInv, SnapshotIsFresh, BeginCommit, Planned, Discovered, HasPlan
<1>4. TypeOK'
    BY <1>1 DEF IInv, TypeOK, Phase
<1>5. /\ NothingKnown' /\ TargetsAreDiscovered' /\ SnapshotIsFresh'
      /\ TargetsAreDistinct' /\ TargetsStillExist' /\ CreatedIsNew'
    BY <1>1, <1>2 DEF IInv, NothingKnown, TargetsAreDiscovered, SnapshotIsFresh,
        TargetsAreDistinct, TargetsStillExist, CreatedIsNew
<1>6. PlanBeforeWrites' /\ DocumentIsKnown'
    BY <1>1, <1>2, <1>3 DEF PlanBeforeWrites, DocumentIsKnown, Interrupted
<1>7. CommitIsOrderedPrefix'
    <2>1. document = input /\ \A p \in Path : target[p] \in Source => file[entry[p]] = target[p]
        BY <1>1 DEF IInv, SnapshotIsFresh
    <2>2. \A p \in Fragments : p \in Path /\ target[p] \in Source \cup {NoFile}
        BY <1>3, PlanRests DEF Fragments, IInv
    <2>3. QED
        BY <1>1, <1>2, <2>1, <2>2 DEF CommitIsOrderedPrefix
<1>8. QED
    BY <1>4, <1>5, <1>6, <1>7 DEF IInv

\* The file that p resolves to is written, and nothing else on the disk.
Writes(p, content) ==
    /\ phase = "external"
    /\ NextOutput(p)
    /\ target[p] = NoFile => file[entry[p]] = NoFile
    /\ file' = [file EXCEPT ![entry[p]] = content]
    /\ UNCHANGED <<document, entry, view>>

(* What a write reaches is the file as it was read, or no file at all, and *)
(* is the file of no other output written so far or target that existed.   *)
LEMMA WritesItsOwn ==
    ASSUME IInv, NEW p \in Path, NEW content, Writes(p, content)
    PROVE  /\ HasPlan /\ input[p] \in Fragment
           /\ p \in Extracted \ completed /\ p \in Selected /\ p \in Fragments
           /\ Decisions[p] = "extract"
           /\ \A q \in Remaining \ {p} : p < q
           /\ target[p] \in Source \cup {NoFile}
           /\ file[entry[p]] = target[p]
           /\ entry[p] \in Entry
           /\ \A q \in completed : entry[q] # entry[p]
           /\ \A q \in Path \ {p} : target[q] \in Source => entry[q] # entry[p]
           /\ \A e \in Entry : e # entry[p] => file'[e] = file[e]
<1>1. HasPlan
    BY DEF IInv, PlanBeforeWrites, Writes
<1>2. p \in Extracted /\ p \notin completed /\ \A q \in Remaining : p <= q
    BY DEF Writes, NextOutput, Remaining
<1>3. p \in Selected /\ Decisions[p] = "extract"
    BY <1>2 DEF Extracted, Decided
<1>4. p \in Fragments /\ input[p] \in Fragment /\ target[p] \in Source \cup {NoFile}
    BY <1>1, <1>3, PlanRests DEF IInv
<1>5. \A q \in Remaining \ {p} : p < q
    <2>1. ASSUME NEW q \in Remaining, q # p
          PROVE  p < q
        <3>1. q \in Path
            BY <1>1, PlanRests DEF IInv, Remaining, Extracted, Decided, Fragments
        <3>2. p \in Int /\ q \in Int
            BY <3>1, PathAssumption
        <3>3. p <= q
            BY <1>2
        <3>4. QED
            BY <2>1, <3>2, <3>3
    <2>2. QED
        BY <2>1
<1>6. file[entry[p]] = target[p]
    BY <1>2, <1>4 DEF IInv, SnapshotIsFresh, Writes
<1>7. entry[p] \in Entry
    BY <1>4, SentinelAssumption DEF IInv, TargetsAreDiscovered
<1>8. ASSUME NEW q \in completed
      PROVE  entry[q] # entry[p]
    <2>1. q \in Path /\ q # p
        BY <1>2 DEF IInv, TypeOK
    <2>2. q \in Extracted /\ file[entry[q]] = input[q].source
        BY DEF IInv, CommitIsOrderedPrefix, Writes
    <2>3. input[q].source \in Source /\ target[q] \in Source \cup {NoFile}
        BY <1>1, <2>2, PlanRests DEF IInv, Extracted, Decided, Fragment
    <2>4. CASE target[p] = NoFile
        BY <1>6, <2>2, <2>3, <2>4, AbsenceAssumption
    <2>5. CASE target[p] \in Source /\ target[q] = NoFile
        BY <2>1, <2>5 DEF IInv, CreatedIsNew
    <2>6. CASE target[p] \in Source /\ target[q] \in Source
        BY <2>1, <2>6 DEF IInv, TargetsAreDistinct
    <2>7. QED
        BY <1>4, <2>3, <2>4, <2>5, <2>6
<1>9. ASSUME NEW q \in Path \ {p}, target[q] \in Source
      PROVE  entry[q] # entry[p]
    <2>1. CASE target[p] = NoFile
        BY <1>6, <1>9, <2>1 DEF IInv, TargetsStillExist
    <2>2. CASE target[p] \in Source
        BY <1>9, <2>2 DEF IInv, TargetsAreDistinct
    <2>3. QED
        BY <1>4, <2>1, <2>2
<1>10. \A e \in Entry : e # entry[p] => file'[e] = file[e]
    BY DEF IInv, TypeOK, Writes
<1>11. QED
    BY <1>1, <1>2, <1>3, <1>4, <1>5, <1>6, <1>7, <1>8, <1>9, <1>10

(* A whole write extends the prefix.                                       *)
LEMMA CompletionKeeps ==
    ASSUME IInv, NEW p \in Path, Writes(p, input[p].source),
           completed' = completed \cup {p},
           \/ UNCHANGED <<phase, outcome>>
           \/ phase' = "done" /\ outcome' = "failed"
    PROVE  IInv'
<1> USE DEF view
<1>1. /\ HasPlan' <=> HasPlan
      /\ Extracted' = Extracted /\ Fragments' = Fragments
    BY ViewDerives DEF Writes
<1>2. /\ HasPlan /\ p \in Extracted \ completed /\ p \in Fragments /\ input[p] \in Fragment
      /\ \A q \in Remaining \ {p} : p < q
      /\ entry[p] \in Entry
      /\ \A q \in completed : entry[q] # entry[p]
      /\ \A q \in Path \ {p} : target[q] \in Source => entry[q] # entry[p]
      /\ \A e \in Entry : e # entry[p] => file'[e] = file[e]
      /\ file[entry[p]] = target[p]
    BY WritesItsOwn
<1>3. input[p].source \in Source
    BY <1>2 DEF Fragment
<1>4. file'[entry[p]] = input[p].source
    BY <1>2 DEF Writes, IInv, TypeOK
<1>5. TypeOK'
    BY <1>3 DEF IInv, TypeOK, Writes, Phase, Outcome, Content
<1>6. NothingKnown' /\ TargetsAreDiscovered'
    BY <1>1 DEF IInv, Writes, NothingKnown, TargetsAreDiscovered
<1>7. \A q \in Path \ {p} : target[q] \in Source => file'[entry[q]] = file[entry[q]]
    <2>1. \A q \in Path : target[q] \in Source => entry[q] \in Entry
        BY SentinelAssumption DEF IInv, TargetsAreDiscovered
    <2>2. QED
        BY <1>2, <2>1
<1>8. SnapshotIsFresh'
    BY <1>7 DEF IInv, Writes, SnapshotIsFresh
<1>9. TargetsAreDistinct' /\ TargetsStillExist'
    <2>1. TargetsAreDistinct'
        BY DEF IInv, Writes, TargetsAreDistinct
    <2>2. TargetsStillExist'
        BY <1>3, <1>4, <1>7, AbsenceAssumption DEF IInv, Writes, TargetsStillExist
    <2>3. QED
        BY <2>1, <2>2
<1>10. PlanBeforeWrites' /\ DocumentIsKnown'
    BY <1>1, <1>2 DEF IInv, Writes, PlanBeforeWrites, DocumentIsKnown, SnapshotIsFresh
<1>11. CreatedIsNew'
    <2>1. target[p] = NoFile =>
             \A q \in Path : entry[q] = entry[p] => target[q] \notin Source
        BY <1>2, AbsenceAssumption
    <2>2. QED
        BY <2>1 DEF IInv, Writes, CreatedIsNew
<1>12. CommitIsOrderedPrefix'
    <2>1. completed' \subseteq Extracted'
        BY <1>1, <1>2 DEF IInv, Writes, CommitIsOrderedPrefix
    <2>2. ASSUME NEW q \in completed'
          PROVE  /\ file'[entry'[q]] = input'[q].source
                 /\ \A r \in Remaining' : q < r
        <3>1. Remaining' = Remaining \ {p}
            BY <1>1 DEF Remaining
        <3>2. CASE q = p
            BY <1>2, <1>4, <3>1, <3>2 DEF Writes
        <3>3. CASE q \in completed /\ q # p
            <4>1. /\ file[entry[q]] = input[q].source
                  /\ \A r \in Remaining : q < r
                BY <3>3 DEF IInv, CommitIsOrderedPrefix, Writes
            <4>2. entry[q] \in Entry
                <5>1. q \in Extracted
                    BY <3>3 DEF IInv, CommitIsOrderedPrefix, Writes
                <5>2. q \in Fragments
                    BY <1>2, <5>1, PlanRests DEF IInv, Extracted, Decided
                <5>3. q \in Path /\ target[q] \in Source \cup {NoFile}
                    BY <1>2, <5>2, PlanRests DEF IInv, Fragments
                <5>4. QED
                    BY <5>3, SentinelAssumption DEF IInv, TargetsAreDiscovered
            <4>3. file'[entry[q]] = file[entry[q]]
                BY <1>2, <3>3, <4>2
            <4>4. QED
                BY <3>1, <4>1, <4>3 DEF Writes
        <3>4. QED
            BY <2>2, <3>2, <3>3
    <2>3. ASSUME NEW q \in Fragments \ completed'
          PROVE  ~(target'[q] # NoFile /\ file'[entry'[q]] # target'[q])
        <3>1. q \in Path \ {p} /\ q \notin completed /\ target[q] \in Source \cup {NoFile}
            BY <1>2, PlanRests DEF IInv, Fragments
        <3>2. QED
            BY <1>7, <3>1 DEF IInv, SnapshotIsFresh, Writes
    <2>4. document' = input'
        BY DEF IInv, SnapshotIsFresh, Writes
    <2>5. QED
        BY <1>1, <2>1, <2>2, <2>3, <2>4 DEF CommitIsOrderedPrefix
<1>13. QED
    BY <1>5, <1>6, <1>8, <1>9, <1>10, <1>11, <1>12 DEF IInv

(* What a completed output names: a fragment whose file exists.            *)
LEMMA CompletedRows ==
    ASSUME IInv, NEW p \in completed
    PROVE  /\ HasPlan /\ p \in Path /\ p \in Extracted /\ p \in Selected /\ p \in Fragments
           /\ entry[p] \in Entry
           /\ file[entry[p]] = input[p].source
           /\ input[p].source \in Source
<1>1. HasPlan /\ phase \in {"external", "done"}
    BY DEF IInv, PlanBeforeWrites
<1>2. p \in Extracted /\ file[entry[p]] = input[p].source
    BY <1>1 DEF IInv, CommitIsOrderedPrefix
<1>3. p \in Selected /\ p \in Fragments
    BY <1>1, <1>2, PlanRests DEF IInv, Extracted, Decided
<1>4. p \in Path /\ target[p] \in Source \cup {NoFile} /\ input[p].source \in Source
    BY <1>1, <1>3, PlanRests DEF IInv, Fragments, Fragment
<1>5. entry[p] \in Entry
    BY <1>4, SentinelAssumption DEF IInv, TargetsAreDiscovered
<1>6. QED
    BY <1>1, <1>2, <1>3, <1>4, <1>5

(* A torn write tears only the next output.                                *)
LEMMA TearKeeps ==
    ASSUME IInv, NEW p \in Path, NEW content \in Torn, Writes(p, content),
           completed' = completed, phase' = "done", outcome' \in {"failed", "crashed"}
    PROVE  IInv'
<1> USE DEF view
<1>1. /\ HasPlan' <=> HasPlan
      /\ Extracted' = Extracted /\ Fragments' = Fragments
    BY ViewDerives DEF Writes
<1>2. /\ HasPlan /\ p \in Extracted \ completed /\ p \in Fragments
      /\ entry[p] \in Entry
      /\ \A q \in completed : entry[q] # entry[p]
      /\ \A q \in Path \ {p} : target[q] \in Source => entry[q] # entry[p]
      /\ \A e \in Entry : e # entry[p] => file'[e] = file[e]
    BY WritesItsOwn
<1>3. file'[entry[p]] = content /\ content # NoFile /\ content \in Content
    BY <1>2, AbsenceAssumption, SentinelAssumption DEF Writes, IInv, TypeOK, Torn, Content
<1>4. TypeOK'
    BY <1>3 DEF IInv, TypeOK, Writes, Phase, Outcome
<1>5. NothingKnown' /\ TargetsAreDiscovered' /\ SnapshotIsFresh'
    BY <1>1 DEF IInv, Writes, NothingKnown, TargetsAreDiscovered, SnapshotIsFresh
<1>6. \A q \in Path \ {p} : target[q] \in Source => file'[entry[q]] = file[entry[q]]
    <2>1. \A q \in Path : target[q] \in Source => entry[q] \in Entry
        BY SentinelAssumption DEF IInv, TargetsAreDiscovered
    <2>2. QED
        BY <1>2, <2>1
<1>7. TargetsAreDistinct' /\ CreatedIsNew'
    BY DEF IInv, Writes, TargetsAreDistinct, CreatedIsNew
<1>8. TargetsStillExist'
    BY <1>3, <1>6 DEF IInv, Writes, TargetsStillExist
<1>9. PlanBeforeWrites' /\ DocumentIsKnown'
    BY <1>1, <1>2 DEF IInv, Writes, PlanBeforeWrites, DocumentIsKnown, SnapshotIsFresh
<1>10. CommitIsOrderedPrefix'
    <2>1. Remaining' = Remaining /\ (NextOutput(p))' /\ completed' \subseteq Extracted'
        BY <1>1 DEF IInv, Writes, Remaining, NextOutput, CommitIsOrderedPrefix
    <2>2. ASSUME NEW q \in completed'
          PROVE  /\ file'[entry'[q]] = input'[q].source
                 /\ \A r \in Remaining' : q < r
        <3>1. entry[q] \in Entry /\ file[entry[q]] = input[q].source
            BY CompletedRows
        <3>2. \A r \in Remaining : q < r
            BY DEF IInv, CommitIsOrderedPrefix, Writes
        <3>3. QED
            BY <1>2, <2>1, <3>1, <3>2 DEF Writes
    <2>3. ASSUME NEW q \in Fragments \ completed, q # p
          PROVE  ~(target'[q] # NoFile /\ file'[entry'[q]] # target'[q])
        <3>1. q \in Path /\ target[q] \in Source \cup {NoFile}
            BY <1>2, PlanRests DEF IInv, Fragments
        <3>2. QED
            BY <1>6, <2>3, <3>1 DEF IInv, SnapshotIsFresh, Writes
    <2>4. document' = input'
        BY DEF IInv, SnapshotIsFresh, Writes
    <2>5. QED
        BY <1>1, <2>1, <2>2, <2>3, <2>4 DEF CommitIsOrderedPrefix
<1>11. QED
    BY <1>4, <1>5, <1>7, <1>8, <1>9, <1>10 DEF IInv

\* The document is written, in full or not, and the command is over.
WritesDocument(new) ==
    /\ phase = "external"
    /\ Remaining = {}
    /\ document' = new
    /\ phase' = "done"
    /\ UNCHANGED <<file, entry, view, completed>>

(* The document comes last.                                                *)
LEMMA DocumentKeeps ==
    ASSUME IInv, NEW new \in Document, WritesDocument(new),
           \/ outcome' \in {"synchronized", "attention"}
           \/ outcome' \in {"failed", "crashed"} /\ new = Invalid
    PROVE  IInv'
<1> USE DEF view
<1>1. /\ HasPlan' <=> HasPlan
      /\ Extracted' = Extracted /\ Fragments' = Fragments
    BY ViewDerives DEF WritesDocument
<1>2. TypeOK'
    BY DEF IInv, TypeOK, WritesDocument, Phase, Outcome
<1>3. NothingKnown' /\ TargetsAreDiscovered' /\ SnapshotIsFresh' /\ DocumentIsKnown'
    BY <1>1 DEF IInv, WritesDocument, NothingKnown, TargetsAreDiscovered, SnapshotIsFresh,
        DocumentIsKnown, Interrupted
<1>4. TargetsAreDistinct' /\ TargetsStillExist' /\ CreatedIsNew' /\ PlanBeforeWrites'
    BY <1>1 DEF IInv, WritesDocument, TargetsAreDistinct, TargetsStillExist, CreatedIsNew,
        PlanBeforeWrites
<1>5. CommitIsOrderedPrefix'
    <2>1. Remaining' = Remaining /\ completed' = Extracted'
        BY <1>1 DEF IInv, WritesDocument, Remaining, CommitIsOrderedPrefix
    <2>2. QED
        BY <1>1, <2>1 DEF IInv, WritesDocument, CommitIsOrderedPrefix, NextOutput
<1>6. QED
    BY <1>2, <1>3, <1>4, <1>5 DEF IInv

(* Another program only ever fills an absence.                             *)
LEMMA AppearKeeps ==
    ASSUME IInv, NEW e \in Entry, NEW content \in Torn, Appear(e, content)
    PROVE  IInv'
<1> USE DEF view
<1>1. /\ HasPlan' <=> HasPlan
      /\ Extracted' = Extracted /\ Fragments' = Fragments
    BY ViewDerives DEF Appear
<1>2. /\ file'[e] # NoFile /\ file[e] = NoFile
      /\ \A other \in Entry \ {e} : file'[other] = file[other]
      /\ file' \in [Entry -> Content]
    BY AbsenceAssumption, SentinelAssumption DEF IInv, TypeOK, Appear, Torn, Content
<1>3. \A p \in Path : target[p] \in Source => file'[entry[p]] = file[entry[p]]
    <2>1. \A p \in Path : target[p] \in Source => entry[p] \in Entry /\ entry[p] # e
        BY <1>2, SentinelAssumption DEF IInv, TargetsAreDiscovered, TargetsStillExist
    <2>2. QED
        BY <1>2, <2>1
<1>4. TypeOK'
    BY <1>2 DEF IInv, TypeOK, Appear
<1>5. NothingKnown' /\ TargetsAreDiscovered' /\ SnapshotIsFresh'
    BY <1>1, <1>3 DEF IInv, Appear, NothingKnown, TargetsAreDiscovered, SnapshotIsFresh
<1>6. TargetsAreDistinct' /\ TargetsStillExist' /\ CreatedIsNew'
    BY <1>3 DEF IInv, Appear, TargetsAreDistinct, TargetsStillExist, CreatedIsNew
<1>7. PlanBeforeWrites' /\ DocumentIsKnown'
    BY <1>1 DEF IInv, Appear, PlanBeforeWrites, DocumentIsKnown, Interrupted
<1>8. CommitIsOrderedPrefix'
    <2>1. SUFFICES ASSUME phase = "external"
                   PROVE  CommitIsOrderedPrefix'
        BY DEF Appear, Running, AtRest, CommitIsOrderedPrefix
    <2>2. Remaining' = Remaining /\ completed' \subseteq Extracted'
        BY <1>1, <2>1 DEF IInv, Appear, Remaining, CommitIsOrderedPrefix
    <2>3. ASSUME NEW p \in completed
          PROVE  /\ file'[entry[p]] = input[p].source
                 /\ \A q \in Remaining : p < q
        <3>1. entry[p] \in Entry /\ file[entry[p]] = input[p].source /\ input[p].source \in Source
            BY CompletedRows
        <3>2. entry[p] # e
            BY <1>2, <3>1, AbsenceAssumption
        <3>3. QED
            BY <1>2, <2>1, <3>1, <3>2 DEF IInv, CommitIsOrderedPrefix
    <2>4. ASSUME NEW p \in Fragments \ completed
          PROVE  ~(target[p] # NoFile /\ file'[entry[p]] # target[p])
        <3>1. HasPlan
            BY <2>1 DEF IInv, PlanBeforeWrites
        <3>2. p \in Path /\ target[p] \in Source \cup {NoFile}
            BY <3>1, PlanRests DEF IInv, Fragments
        <3>3. QED
            BY <1>3, <2>1, <3>2 DEF IInv, SnapshotIsFresh
    <2>5. document' = input'
        BY <2>1 DEF IInv, SnapshotIsFresh, Appear
    <2>6. QED
        BY <1>1, <2>2, <2>3, <2>4, <2>5 DEF CommitIsOrderedPrefix, Appear
<1>9. QED
    BY <1>4, <1>5, <1>6, <1>7, <1>8 DEF IInv

(* Every step keeps the invariant.                                         *)
LEMMA NextIInv == IInv /\ [Next]_vars => IInv'
<1> SUFFICES ASSUME IInv, [Next]_vars PROVE IInv'
    OBVIOUS
<1>1. CASE UNCHANGED vars
    <2> USE <1>1 DEF vars, view, IInv
    <2>1. /\ HasPlan' <=> HasPlan
          /\ Extracted' = Extracted /\ Fragments' = Fragments
        BY ViewDerives
    <2>2. TypeOK' /\ NothingKnown' /\ TargetsAreDistinct' /\ TargetsStillExist' /\ CreatedIsNew'
        BY DEF TypeOK, NothingKnown, TargetsAreDistinct, TargetsStillExist, CreatedIsNew
    <2>3. TargetsAreDiscovered' /\ SnapshotIsFresh' /\ PlanBeforeWrites' /\ DocumentIsKnown'
        BY <2>1 DEF TargetsAreDiscovered, SnapshotIsFresh, PlanBeforeWrites, DocumentIsKnown,
            Interrupted
    <2>4. CommitIsOrderedPrefix'
        BY <2>1 DEF CommitIsOrderedPrefix, Remaining, NextOutput
    <2>5. QED
        BY <2>2, <2>3, <2>4
<1>2. CASE User
    <2>1. CASE Exit
        <3>1. TypeOK'
            BY <2>1 DEF Exit, disk, IInv, TypeOK, Phase, Outcome, Request, Status, Document
        <3>2. AtUser
            BY <2>1 DEF Exit, AtUser
        <3>3. QED
            BY <3>1, <3>2, UserKeeps
    <2>2. CASE \E e \in Entry, content \in Content : EditFile(e, content)
        <3>1. PICK e \in Entry, content \in Content : EditFile(e, content)
            BY <2>2
        <3>2. TypeOK' /\ AtUser
            BY <3>1 DEF EditFile, process, view, IInv, TypeOK, NothingKnown, AtUser
        <3>3. QED
            BY <3>2, UserKeeps
    <2>3. CASE \E p \in Path, fragment \in Fragment \cup {NoFragment} :
                  EditFragment(p, fragment)
        <3>1. PICK p \in Path, fragment \in Fragment \cup {NoFragment} :
                  EditFragment(p, fragment)
            BY <2>3
        <3>2. TypeOK' /\ AtUser
            BY <3>1 DEF EditFragment, process, view, IInv, TypeOK, Document, NothingKnown, AtUser
        <3>3. QED
            BY <3>2, UserKeeps
    <2>4. CASE \E new \in Document : ReplaceDocument(new)
        <3>1. TypeOK' /\ AtUser
            BY <2>4 DEF ReplaceDocument, process, view, IInv, TypeOK, NothingKnown, AtUser
        <3>2. QED
            BY <3>1, UserKeeps
    <2>5. QED
        BY <1>2, <2>1, <2>2, <2>3, <2>4 DEF User
<1>3. CASE \E r \in Request : Start(r)
    <2>1. TypeOK' /\ AtUser
        BY <1>3 DEF Start, disk, IInv, TypeOK, Phase, NothingKnown, AtUser
    <2>2. QED
        BY <2>1, UserKeeps
<1>4. CASE Discover
    <2>1. CASE ReadDocument
        BY <2>1, ReadDocumentKeeps
    <2>2. CASE RejectDocument
        BY <2>2, StopKeeps DEF RejectDocument, Fail, Finish, Stop, Running, AtRest, Outcome
    <2>3. CASE \E p \in Path : ReadTarget(p)
        BY <2>3, ReadTargetKeeps
    <2>4. CASE \E p \in Path : RejectTarget(p)
        BY <2>4, StopKeeps DEF RejectTarget, Fail, Finish, Stop, Running, AtRest, Outcome
    <2>5. CASE RejectSelection
        BY <2>5, StopKeeps DEF RejectSelection, Discovered, Fail, Finish, Stop, Running, AtRest,
            Outcome
    <2>6. QED
        BY <1>4, <2>1, <2>2, <2>3, <2>4, <2>5 DEF Discover
<1>5. CASE Decide
    <2> USE DEF Discovered, Planned, Fail, Finish, ExitState, Stop, Running, AtRest, Outcome
    <2>1. CASE ReportStatus
        BY <2>1, StopKeeps DEF ReportStatus
    <2>2. CASE RefusePlan
        BY <2>2, StopKeeps DEF RefusePlan
    <2>3. CASE NothingToWrite
        BY <2>3, StopKeeps DEF NothingToWrite
    <2>4. CASE BeginCommit
        BY <2>4, BeginCommitKeeps
    <2>5. CASE RejectPrepared
        BY <2>5, StopKeeps DEF RejectPrepared
    <2>6. QED
        BY <1>5, <2>1, <2>2, <2>3, <2>4, <2>5 DEF Decide
<1>6. CASE Commit
    <2>1. ASSUME NEW p \in Path, CreateTarget(p)
          PROVE  IInv'
        <3>1. Writes(p, input[p].source)
            BY <2>1 DEF CreateTarget, Writes
        <3>2. QED
            BY <2>1, <3>1, CompletionKeeps DEF CreateTarget, Fail, Finish
    <2>2. ASSUME NEW p \in Path, ReplaceTarget(p)
          PROVE  IInv'
        <3>1. Writes(p, input[p].source)
            BY <2>2 DEF ReplaceTarget, Writes
        <3>2. QED
            BY <2>2, <3>1, CompletionKeeps DEF ReplaceTarget
    <2>3. ASSUME NEW p \in Path, CreateBlocked(p)
          PROVE  IInv'
        BY <2>3, StopKeeps DEF CreateBlocked, Fail, Finish, Stop, Running, AtRest, Outcome
    <2>4. CASE WriteDocument
        <3>1. Prepared \in Document
            BY <2>4, PreparedRows DEF WriteDocument, IInv, PlanBeforeWrites
        <3>2. WritesDocument(Prepared) /\ outcome' \in {"synchronized", "attention"}
            BY <2>4 DEF WriteDocument, WritesDocument, Finish, ExitState
        <3>3. QED
            BY <3>1, <3>2, DocumentKeeps
    <2>5. CASE LeaveDocument
        BY <2>5, StopKeeps DEF LeaveDocument, Finish, ExitState, Stop, Running, AtRest, Outcome
    <2>6. QED
        BY <1>6, <2>1, <2>2, <2>3, <2>4, <2>5 DEF Commit
<1>7. CASE Disturb
    <2>1. CASE Refuse
        BY <2>1, StopKeeps DEF Refuse, Fail, Finish, Stop, Outcome
    <2>2. ASSUME NEW p \in Path, NEW content \in Torn, NEW result \in {"failed", "crashed"},
                 TearTarget(p, content, result)
          PROVE  IInv'
        <3>1. Writes(p, content)
            BY <2>2 DEF TearTarget, Writes
        <3>2. QED
            BY <2>2, <3>1, TearKeeps DEF TearTarget, Finish
    <2>3. CASE \E result \in {"failed", "crashed"} : TearDocument(result)
        <3>1. WritesDocument(Invalid) /\ outcome' \in {"failed", "crashed"}
            BY <2>3 DEF TearDocument, WritesDocument, Finish
        <3>2. Invalid \in Document
            BY DEF Document
        <3>3. QED
            BY <3>1, <3>2, DocumentKeeps
    <2>4. CASE Crash
        BY <2>4, StopKeeps DEF Crash, Finish, Stop, Outcome
    <2>5. CASE \E e \in Entry, content \in Torn : Appear(e, content)
        BY <2>5, AppearKeeps
    <2>6. QED
        BY <1>7, <2>1, <2>2, <2>3, <2>4, <2>5 DEF Disturb
<1>8. QED
    BY <1>1, <1>2, <1>3, <1>4, <1>5, <1>6, <1>7 DEF Next

-----------------------------------------------------------------------------
(* Theorems *)

(* The strengthened invariant holds of every behaviour of a command.       *)
THEOREM StrengthenedInvariant == Spec => []IInv
<1>1. QED
    BY InitIInv, NextIInv, PTL DEF Spec

(* Every variable keeps its type through every command and every fault.    *)
THEOREM TypeCorrect == Spec => []TypeOK
<1>1. IInv => TypeOK
    BY DEF IInv
<1>2. QED
    BY <1>1, StrengthenedInvariant, PTL

(* Outputs are written in path order, each in full before the next, and    *)
(* the document last; what an error names as completed is written          *)
(* (commit.rs, commit_using).                                              *)
THEOREM OrderedCommit == Spec => []CommitIsOrderedPrefix
<1>1. IInv => CommitIsOrderedPrefix
    BY DEF IInv
<1>2. QED
    BY <1>1, StrengthenedInvariant, PTL

(* Rerunning heals an interrupted commit, whatever the fault was.          *)
THEOREM InterruptionHeals == Spec => []InterruptedCommitHeals
<1>1. IInv => InterruptedCommitHeals
    <2>1. SUFFICES ASSUME IInv, Interrupted, document # Invalid, NEW p \in completed
                   PROVE  ClassNow(p) \in {"unadopted matching", "converged", "synchronized"}
        BY DEF InterruptedCommitHeals
    <2>2. document = input
        <3>1. input # Invalid
            BY <2>1, CompletedRows DEF HasPlan
        <3>2. QED
            BY <2>1, <3>1 DEF IInv, DocumentIsKnown
    <2>3. HasPlan /\ p \in Fragments /\ file[entry[p]] = input[p].source
          /\ input[p].source \in Source
        BY <2>1, CompletedRows
    <2>4. input[p].baseline \in Digest \cup {NoHash}
        BY <2>1, <2>3, PlanRests DEF IInv, Fragment
    <2>5. \A s \in Source, h \in Digest \cup {NoHash} :
             Classify(s, h, s) \in {"unadopted matching", "converged", "synchronized"}
        <3>1. SUFFICES ASSUME NEW s \in Source, NEW h \in Digest \cup {NoHash}
                       PROVE  Classify(s, h, s)
                                \in {"unadopted matching", "converged", "synchronized"}
            OBVIOUS
        <3>2. h = NoHash \/ Hash[s] = h \/ Hash[s] # h
            OBVIOUS
        <3>3. QED
            BY <3>2, ClassifyRows
    <2>6. QED
        BY <2>2, <2>3, <2>4, <2>5 DEF ClassNow
<1>2. QED
    BY <1>1, StrengthenedInvariant, PTL

-----------------------------------------------------------------------------
(* What a step of a running command may do to the disk *)

(* What a step of a running command may change on the disk.                *)
LEMMA DiskSteps ==
    ASSUME IInv, Next, Running
    PROVE  \/ UNCHANGED disk
           \/ \E p \in Path, content \in Torn :
                 Writes(p, content) /\ (content = input[p].source \/ phase' = "done")
           \/ \E e \in Entry, content \in Torn : Appear(e, content)
           \/ WritesDocument(Prepared)
           \/ WritesDocument(Invalid)
<1>1. CASE User \/ \E r \in Request : Start(r)
    BY <1>1 DEF User, EditFile, EditFragment, ReplaceDocument, Exit, Start, Running, AtRest
<1>2. CASE Discover
    BY <1>2 DEF Discover, ReadDocument, RejectDocument, ReadTarget, RejectTarget,
        RejectSelection, disk
<1>3. CASE Decide
    BY <1>3 DEF Decide, ReportStatus, RefusePlan, NothingToWrite, BeginCommit, RejectPrepared,
        disk
<1>4. CASE Commit
    <2>1. ASSUME NEW p \in Path, CreateTarget(p) \/ ReplaceTarget(p)
          PROVE  \E content \in Torn : Writes(p, content) /\ content = input[p].source
        <3>1. Writes(p, input[p].source)
            BY <2>1 DEF CreateTarget, ReplaceTarget, Writes
        <3>2. input[p].source \in Torn
            BY <3>1, WritesItsOwn DEF Fragment, Torn
        <3>3. QED
            BY <3>1, <3>2
    <2>2. ASSUME NEW p \in Path, CreateBlocked(p)
          PROVE  UNCHANGED disk
        BY <2>2 DEF CreateBlocked
    <2>3. CASE WriteDocument
        BY <2>3 DEF WriteDocument, WritesDocument, Finish
    <2>4. CASE LeaveDocument
        BY <2>4 DEF LeaveDocument
    <2>5. QED
        BY <1>4, <2>1, <2>2, <2>3, <2>4 DEF Commit
<1>5. CASE Disturb
    <2>1. ASSUME NEW p \in Path, NEW content \in Torn, NEW result, TearTarget(p, content, result)
          PROVE  Writes(p, content) /\ phase' = "done"
        BY <2>1 DEF TearTarget, Writes, Finish
    <2>2. ASSUME NEW result, TearDocument(result)
          PROVE  WritesDocument(Invalid)
        BY <2>2 DEF TearDocument, WritesDocument, Finish
    <2>3. CASE Refuse \/ Crash
        BY <2>3 DEF Refuse, Crash
    <2>4. QED
        BY <1>5, <2>1, <2>2, <2>3 DEF Disturb
<1>6. QED
    BY <1>1, <1>2, <1>3, <1>4, <1>5 DEF Next

(* When the document is written, each change in it is of a fragment whose  *)
(* file agrees with it, and replaces only what may be overwritten.         *)
LEMMA DocumentChanges ==
    ASSUME IInv, WritesDocument(Prepared), NEW p \in Path, Prepared[p] # document[p]
    PROVE  /\ document = input /\ p \in Selected
           /\ document[p] \in Fragment /\ Prepared[p] \in Fragment
           /\ Prepared[p] = Recorded(file[entry[p]])
           /\ \/ Prepared[p].source = document[p].source
              \/ MayOverwrite(p, document[p].source)
<1>1. HasPlan /\ document = input
    BY DEF WritesDocument, IInv, PlanBeforeWrites, SnapshotIsFresh
<1>2. p \in Selected /\ input[p] \in Fragment
    BY <1>1, PreparedRows DEF IInv
<1>3. Prepared[p] \in Fragment \cup {NoFragment}
    BY <1>1, PreparedRows DEF IInv, Document
<1>4. /\ Decisions[p] \in Decision
      /\ Decisions[p] = "record" => target[p] = input[p].source
      /\ Decisions[p] = "embed" => target[p] # NoFile /\ MayOverwrite(p, input[p].source)
    BY <1>1, <1>2, DecisionRows DEF IInv
<1>5. /\ Decisions[p] \in {"record", "extract"} => Prepared[p] = Recorded(input[p].source)
      /\ Decisions[p] = "embed" => Prepared[p] = Recorded(target[p])
      /\ Decisions[p] \in {"settled", "unresolved"} => Prepared[p] = input[p]
    BY <1>1, <1>2, PreparedRows DEF IInv
<1>6. target[p] \in Source \cup {NoFile} /\ input[p].source \in Source
    BY <1>1, <1>2, PlanRests DEF IInv, Fragment
<1>7. p \notin completed /\ target[p] \in Source => file[entry[p]] = target[p]
    BY DEF WritesDocument, IInv, SnapshotIsFresh
<1>8. \A s : Recorded(s).source = s
    BY DEF Recorded
<1>9. \A s \in Source : Recorded(s) \in Fragment
    BY HashAssumption DEF Recorded, Fragment
<1>10. CASE Decisions[p] = "extract"
    <2>1. p \in completed
        BY <1>2, <1>10 DEF WritesDocument, Remaining, Extracted, Decided
    <2>2. file[entry[p]] = input[p].source
        BY <2>1, CompletedRows
    <2>3. QED
        BY <1>1, <1>2, <1>5, <1>6, <1>8, <1>9, <1>10, <2>2
<1>11. CASE Decisions[p] = "record"
    <2>1. p \notin completed
        BY <1>11 DEF WritesDocument, IInv, CommitIsOrderedPrefix, Extracted, Decided
    <2>2. QED
        BY <1>1, <1>2, <1>4, <1>5, <1>6, <1>7, <1>8, <1>9, <1>11, <2>1
<1>12. CASE Decisions[p] = "embed"
    <2>1. p \notin completed
        BY <1>12 DEF WritesDocument, IInv, CommitIsOrderedPrefix, Extracted, Decided
    <2>2. QED
        BY <1>1, <1>2, <1>4, <1>5, <1>6, <1>7, <1>9, <1>12, <2>1
<1>13. CASE Decisions[p] \in {"settled", "unresolved"}
    BY <1>1, <1>5, <1>13
<1>14. QED
    BY <1>4, <1>10, <1>11, <1>12, <1>13 DEF Decision

(* No command destroys text that is nowhere else: what it overwrites has   *)
(* the baseline hash or was forced by name, for every fault and alias.     *)
THEOREM NoEditIsLost == Spec => NoLostEdit
<1> DEFINE Kept ==
        /\ \A e \in Entry :
              file[e] # NoFile /\ file'[e] # file[e] =>
                 /\ file[e] # Malformed
                 /\ \E p \in Fragments : entry[p] = e /\ MayOverwrite(p, file[e])
        /\ \A p \in Path :
              /\ document \notin {Invalid, document'} /\ document' # Invalid
              /\ document[p] # document'[p]
              => /\ document[p] # NoFragment /\ document'[p] # NoFragment
                 /\ \/ document'[p].source = document[p].source
                    \/ MayOverwrite(p, document[p].source)
<1>1. IInv /\ [Next]_vars => [Running => Kept]_vars
    <2> SUFFICES ASSUME IInv, Next, Running PROVE Kept
        OBVIOUS
    <2>2. CASE UNCHANGED disk
        BY <2>2 DEF disk
    <2>3. ASSUME NEW p \in Path, NEW content \in Torn, Writes(p, content)
          PROVE  Kept
        <3>1. /\ HasPlan /\ p \in Selected /\ p \in Fragments /\ Decisions[p] = "extract"
              /\ file[entry[p]] = target[p] /\ target[p] \in Source \cup {NoFile}
              /\ \A e \in Entry : e # entry[p] => file'[e] = file[e]
            BY <2>3, WritesItsOwn
        <3>2. target[p] # NoFile => MayOverwrite(p, target[p])
            BY <3>1, DecisionRows DEF IInv
        <3>3. document' = document
            BY <2>3 DEF Writes
        <3>4. QED
            BY <3>1, <3>2, <3>3, SentinelAssumption
    <2>4. ASSUME NEW e \in Entry, NEW content \in Torn, Appear(e, content)
          PROVE  Kept
        BY <2>4 DEF Appear, IInv, TypeOK
    <2>5. CASE WritesDocument(Prepared)
        <3>1. file' = file /\ document' = Prepared
            BY <2>5 DEF WritesDocument
        <3>2. ASSUME NEW p \in Path, document[p] # document'[p]
              PROVE  /\ document[p] # NoFragment /\ document'[p] # NoFragment
                     /\ \/ document'[p].source = document[p].source
                        \/ MayOverwrite(p, document[p].source)
            BY <2>5, <3>1, <3>2, DocumentChanges, SentinelAssumption DEF Fragment
        <3>3. QED
            BY <3>1, <3>2
    <2>6. CASE WritesDocument(Invalid)
        BY <2>6 DEF WritesDocument
    <2>7. QED
        BY <2>2, <2>3, <2>4, <2>5, <2>6, DiskSteps
<1>2. QED
    BY <1>1, StrengthenedInvariant, PTL DEF Spec, NoLostEdit

(* A recorded hash is one of text the document and the file then share.    *)
THEOREM HashesRecordAgreement == Spec => BaselineRecordsAgreement
<1> DEFINE Agreed ==
        document' # Invalid =>
            \A p \in Path :
                document'[p] # document[p] => document'[p] = Recorded(file[entry[p]])
<1>1. IInv /\ [Next]_vars => [Running => Agreed]_vars
    <2> SUFFICES ASSUME IInv, Next, Running PROVE Agreed
        OBVIOUS
    <2>2. CASE UNCHANGED disk
        BY <2>2 DEF disk
    <2>3. CASE \E p \in Path, content \in Torn : Writes(p, content)
        BY <2>3 DEF Writes
    <2>4. CASE \E e \in Entry, content \in Torn : Appear(e, content)
        BY <2>4 DEF Appear
    <2>5. CASE WritesDocument(Prepared)
        <3>1. document' = Prepared
            BY <2>5 DEF WritesDocument
        <3>2. QED
            BY <2>5, <3>1, DocumentChanges
    <2>6. CASE WritesDocument(Invalid)
        BY <2>6 DEF WritesDocument
    <2>7. QED
        BY <2>2, <2>3, <2>4, <2>5, <2>6, DiskSteps
<1>2. QED
    BY <1>1, StrengthenedInvariant, PTL DEF Spec, BaselineRecordsAgreement

(* What was absent is created once and then left alone.                    *)
THEOREM ExclusiveCreation == Spec => CreatesExclusively
<1> DEFINE Spared ==
        \A e \in Entry :
            /\ file[e] # NoFile
            /\ \A p \in Path : entry[p] = e => target[p] \notin Source
            => file'[e] = file[e]
<1>1. IInv /\ [Next]_vars => [Running => Spared]_vars
    <2> SUFFICES ASSUME IInv, Next, Running PROVE Spared
        OBVIOUS
    <2>2. CASE UNCHANGED file
        BY <2>2
    <2>3. ASSUME NEW p \in Path, NEW content \in Torn, Writes(p, content)
          PROVE  Spared
        BY <2>3, WritesItsOwn
    <2>4. ASSUME NEW e \in Entry, NEW content \in Torn, Appear(e, content)
          PROVE  Spared
        BY <2>4 DEF Appear, IInv, TypeOK
    <2>5. CASE WritesDocument(Prepared) \/ WritesDocument(Invalid)
        BY <2>5 DEF WritesDocument
    <2>6. QED
        BY <2>2, <2>3, <2>4, <2>5, DiskSteps DEF disk
<1>2. QED
    BY <1>1, StrengthenedInvariant, PTL DEF Spec, CreatesExclusively

(* A torn extraction is read back as nothing to embed: sync embeds only    *)
(* where the document still has the baseline hash, and there an extraction *)
(* is of a missing target or forced over a colliding hash.                 *)
THEOREM TornIsNotEmbedded == Spec => []TornTargetIsNotEmbedded
<1>1. IInv => TornTargetIsNotEmbedded
    <2> SUFFICES ASSUME IInv, Interrupted, HasPlan, document # Invalid, NEW p \in Remaining,
                        file[entry[p]] \notin {target[p], NoFile, Malformed},
                        Class(p) # "missing",
                        ~(Class(p) = "conflict" /\ Hash[target[p]] = Hash[input[p].source])
                 PROVE  PlanOne(Sync, "all", ClassNow(p)) # "embed"
        BY DEF TornTargetIsNotEmbedded
    <2>1. p \in Selected /\ p \in Fragments /\ p \in Path /\ Decisions[p] = "extract"
        BY PlanRests DEF IInv, Remaining, Extracted, Decided, Fragments
    <2>2. input[p] \in Fragment /\ target[p] \in Source \cup {NoFile}
        BY <2>1, PlanRests DEF IInv
    <2>3. document = input
        BY DEF IInv, DocumentIsKnown, HasPlan
    <2>4. file[entry[p]] \in Source
        <3>1. entry[p] \in Entry
            BY <2>1, <2>2, SentinelAssumption DEF IInv, TargetsAreDiscovered
        <3>2. QED
            BY <3>1 DEF IInv, TypeOK, Content
    <2>5. input[p].baseline = NoHash \/ Hash[input[p].source] # input[p].baseline
        BY <2>1, <2>2, ExtractedDiffers DEF IInv
    <2>6. ClassNow(p) # "embed" /\ ClassNow(p) \in Classification
        <3>1. \A e \in Source, h \in Digest \cup {NoHash}, f \in Source :
                 /\ Classify(e, h, f) \in Classification
                 /\ h = NoHash \/ Hash[e] # h => Classify(e, h, f) # "embed"
            BY ClassifyRows
        <3>2. QED
            BY <2>2, <2>3, <2>4, <2>5, <3>1 DEF ClassNow, Fragment
    <2>7. QED
        <3>1. \A c \in Classification : PlanOne(Sync, "all", c) = "embed" => c = "embed"
            BY PlanOneRows DEF Operation, SelectionKind
        <3>2. QED
            BY <2>6, <3>1
<1>2. QED
    BY <1>1, StrengthenedInvariant, PTL


-----------------------------------------------------------------------------
(* How a command ends                                                      *)

(* Text that agrees with the file and is recorded is synchronized.         *)
LEMMA RecordedIsSynchronized ==
    ASSUME NEW s \in Source
    PROVE  Classify(Recorded(s).source, Recorded(s).baseline, s) = "synchronized"
<1>1. Recorded(s).source = s /\ Recorded(s).baseline = Hash[s]
    BY DEF Recorded
<1>2. Hash[s] \in Digest /\ Hash[s] # NoHash
    BY HashAssumption, AbsenceAssumption
<1>3. \A e \in Source, h \in Digest : h # NoHash /\ Hash[e] = h
         => Classify(e, h, e) = "synchronized"
    BY ClassifyRows
<1>4. QED
    BY <1>1, <1>2, <1>3

(* Once every planned output is written, each selected fragment of the     *)
(* prepared document is what the report says of it.                        *)
LEMMA PreparedIsTrue ==
    ASSUME IInv, HasPlan, phase \in {"targets", "external"}, Remaining = {},
           NEW p \in Selected
    PROVE  /\ Prepared[p] \in Fragment
           /\ Decisions[p] # "unresolved" =>
                 /\ file[entry[p]] = Prepared[p].source
                 /\ Classify(Prepared[p].source, Prepared[p].baseline, file[entry[p]])
                       = "synchronized"
           /\ Decisions[p] = "unresolved" =>
                 /\ Prepared[p] = input[p]
                 /\ target[p] = NoFile \/ file[entry[p]] = target[p]
<1>1. TypeOK /\ p \in Path /\ p \in Fragments
    BY PlanRests DEF IInv, Fragments
<1>2. input[p] \in Fragment /\ input[p].source \in Source /\ target[p] \in Source \cup {NoFile}
    BY <1>1, PlanRests DEF Fragment
<1>3. /\ Decisions[p] \in Decision
      /\ Decisions[p] = "settled" => target[p] = input[p].source /\ input[p] = Recorded(target[p])
      /\ Decisions[p] = "record" => target[p] = input[p].source
      /\ Decisions[p] = "embed" => target[p] # NoFile
    BY <1>1, DecisionRows
<1>4. /\ Decisions[p] \in {"record", "extract"} => Prepared[p] = Recorded(input[p].source)
      /\ Decisions[p] = "embed" => Prepared[p] = Recorded(target[p])
      /\ Decisions[p] \in {"settled", "unresolved"} => Prepared[p] = input[p]
    BY <1>1, PreparedRows
<1>5. Decisions[p] # "extract" => p \notin completed
    <2>1. completed \subseteq Extracted
        BY DEF IInv, CommitIsOrderedPrefix, PlanBeforeWrites
    <2>2. QED
        BY <2>1 DEF Extracted, Decided
<1>6. Decisions[p] # "extract" /\ target[p] \in Source => file[entry[p]] = target[p]
    BY <1>1, <1>5 DEF IInv, SnapshotIsFresh
<1>7. Decisions[p] = "extract" => file[entry[p]] = input[p].source
    <2>1. Decisions[p] = "extract" => p \in completed
        BY DEF Remaining, Extracted, Decided
    <2>2. QED
        BY <2>1, CompletedRows
<1>8. \A s \in Source : Recorded(s) \in Fragment
    BY HashAssumption DEF Recorded, Fragment
<1>9. CASE Decisions[p] \in {"record", "extract"}
    <2>1. file[entry[p]] = input[p].source /\ Prepared[p] = Recorded(input[p].source)
        BY <1>2, <1>3, <1>4, <1>6, <1>7, <1>9
    <2>2. Recorded(input[p].source).source = file[entry[p]]
        BY <2>1 DEF Recorded
    <2>3. QED
        BY <1>2, <1>8, <1>9, <2>1, <2>2, RecordedIsSynchronized
<1>10. CASE Decisions[p] = "embed"
    <2>1. target[p] \in Source /\ file[entry[p]] = target[p] /\ Prepared[p] = Recorded(target[p])
        BY <1>2, <1>3, <1>4, <1>6, <1>10
    <2>2. Recorded(target[p]).source = file[entry[p]]
        BY <2>1 DEF Recorded
    <2>3. QED
        BY <1>8, <1>10, <2>1, <2>2, RecordedIsSynchronized
<1>11. CASE Decisions[p] = "settled"
    <2>1. target[p] \in Source /\ file[entry[p]] = target[p] /\ Prepared[p] = Recorded(target[p])
        BY <1>2, <1>3, <1>4, <1>6, <1>11
    <2>2. Recorded(target[p]).source = file[entry[p]]
        BY <2>1 DEF Recorded
    <2>3. QED
        BY <1>8, <1>11, <2>1, <2>2, RecordedIsSynchronized
<1>12. CASE Decisions[p] = "unresolved"
    BY <1>2, <1>4, <1>6, <1>12
<1>13. QED
    BY <1>3, <1>9, <1>10, <1>11, <1>12 DEF Decision

\* The command completes normally, having changed no file with this step.
Completes ==
    /\ Running
    /\ phase' = "done"
    /\ outcome' = ExitState
    /\ UNCHANGED <<file, entry, view, completed>>

\* It has a plan whose outputs are all written, or it was to report only.
CompletesMutation ==
    /\ Completes
    /\ phase \in {"targets", "external"}
    /\ HasPlan
    /\ Remaining = {}
    /\ document' = Prepared

CompletesStatus ==
    /\ Completes
    /\ phase = "targets"
    /\ UnreadPaths = {}
    /\ SelectionKnown
    /\ ~Mutates
    /\ document' = document

(* A step that ends a command is a completion, a failure or a crash.       *)
LEMMA EndingSteps ==
    ASSUME IInv, Next, phase' = "done"
    PROVE  \/ CompletesMutation
           \/ CompletesStatus
           \/ outcome' \in {"failed", "crashed"}
<1> USE DEF disk, view, Running, AtRest
<1>1. CASE User \/ \E r \in Request : Start(r)
    BY <1>1 DEF User, EditFile, EditFragment, ReplaceDocument, Exit, Start, process
<1>2. CASE Discover
    BY <1>2 DEF Discover, ReadDocument, RejectDocument, ReadTarget, RejectTarget,
        RejectSelection, Fail, Finish, Discovered
<1>3. CASE Decide
    <2>1. CASE ReportStatus
        BY <2>1 DEF ReportStatus, Discovered, Finish, CompletesStatus, Completes
    <2>2. CASE NothingToWrite
        <3>1. phase = "targets" /\ HasPlan
            BY <2>2 DEF NothingToWrite, Planned, Discovered, HasPlan, IInv, SnapshotIsFresh
        <3>2. document' = Prepared /\ Remaining = {}
            BY <2>2, <3>1 DEF NothingToWrite, Remaining, IInv, SnapshotIsFresh
        <3>3. QED
            BY <2>2, <3>1, <3>2 DEF NothingToWrite, Finish, CompletesMutation, Completes
    <2>3. CASE RefusePlan \/ RejectPrepared
        BY <2>3 DEF RefusePlan, RejectPrepared, Fail, Finish
    <2>4. CASE BeginCommit
        BY <2>4 DEF BeginCommit
    <2>5. QED
        BY <1>3, <2>1, <2>2, <2>3, <2>4 DEF Decide
<1>4. CASE Commit
    <2>1. CASE \E p \in Path : CreateTarget(p) \/ ReplaceTarget(p) \/ CreateBlocked(p)
        BY <2>1 DEF CreateTarget, ReplaceTarget, CreateBlocked, Fail, Finish
    <2>2. CASE WriteDocument \/ LeaveDocument
        <3>1. phase = "external" /\ HasPlan
            BY <2>2 DEF WriteDocument, LeaveDocument, IInv, PlanBeforeWrites
        <3>2. document' = Prepared
            BY <2>2, <3>1 DEF WriteDocument, LeaveDocument, IInv, SnapshotIsFresh
        <3>3. QED
            BY <2>2, <3>1, <3>2 DEF WriteDocument, LeaveDocument, Finish, CompletesMutation,
                Completes
    <2>3. QED
        BY <1>4, <2>1, <2>2 DEF Commit
<1>5. CASE Disturb
    BY <1>5 DEF Disturb, Refuse, TearTarget, TearDocument, Crash, Appear, Fail, Finish
<1>6. QED
    BY <1>1, <1>2, <1>3, <1>4, <1>5 DEF Next

(* The report and the attention it calls for stand with the view.          *)
LEMMA ReportDerives ==
    ASSUME UNCHANGED view
    PROVE  /\ Selected' = Selected /\ Decisions' = Decisions /\ Report' = Report
           /\ request' = request /\ target' = target /\ input' = input
<1>1. input' = input /\ target' = target /\ request' = request
    BY DEF view
<1>2. /\ Fragments' = Fragments /\ Selected' = Selected
      /\ Selection' = Selection /\ Classes' = Classes /\ Decisions' = Decisions
    BY <1>1 DEF Fragments, Selected, Selection, Class, Classes, Decisions
<1>3. Report' = Report
    BY <1>1, <1>2 DEF Report, Class
<1>4. QED
    BY <1>1, <1>2, <1>3

\* What a completed command leaves of a selected fragment, in terms of its plan.
LeavesTrue(p) ==
    IF request.mode = Status \/ Decisions[p] = "unresolved"
      THEN \/ target[p] = NoFile /\ file[entry[p]] # NoFile
           \/ ClassNow(p) = Report[p]
      ELSE ClassNow(p) = "synchronized"

(* A status command that reports success found every selection settled.    *)
LEMMA StatusIsTrue ==
    ASSUME IInv, CompletesStatus, NEW p \in Selected
    PROVE  /\ document'[p] \in Fragment
           /\ LeavesTrue(p)'
           /\ outcome' = "synchronized" => ClassNow(p)' = "synchronized"
<1>1. p \in Path /\ p \in Fragments /\ request.mode = Status /\ document = input
    BY DEF CompletesStatus, SelectionKnown, Fragments, Mutates, IInv, SnapshotIsFresh
<1>2. input[p] \in Fragment /\ target[p] \in Source \cup {NoFile}
    BY <1>1 DEF CompletesStatus, UnreadPaths, Fragments, IInv, TypeOK, Document, SnapshotIsFresh
<1>3. completed = {}
    BY DEF IInv, PlanBeforeWrites, CompletesStatus
<1>4. target[p] = NoFile \/ file[entry[p]] = target[p]
    BY <1>1, <1>2, <1>3 DEF IInv, SnapshotIsFresh, CompletesStatus
<1>5. /\ document' = document /\ file' = file /\ entry' = entry /\ target' = target
      /\ request' = request /\ Report' = Report /\ Decisions' = Decisions
    BY ReportDerives DEF CompletesStatus, Completes
<1>6. Report[p] = Class(p)
    BY <1>1 DEF Report, Classes
<1>7. ClassNow(p)' = Classify(input[p].source, input[p].baseline, file[entry[p]])
    BY <1>1, <1>5 DEF ClassNow
<1>8. file[entry[p]] = target[p] => ClassNow(p)' = Class(p)
    BY <1>7 DEF Class
<1>9. LeavesTrue(p)'
    BY <1>1, <1>4, <1>5, <1>6, <1>8 DEF LeavesTrue
<1>10. outcome' = "synchronized" => ClassNow(p)' = "synchronized"
    <2>1. outcome' = "synchronized" => Class(p) = "synchronized"
        BY <1>1 DEF CompletesStatus, Completes, ExitState, Attention
    <2>2. Class(p) = "synchronized" => target[p] # NoFile
        <3>1. \A e \in Source, h \in Digest \cup {NoHash} :
                 Classify(e, h, NoFile) # "synchronized"
            BY ClassifyRows, AbsenceAssumption
        <3>2. QED
            BY <1>2, <3>1 DEF Class, Fragment
    <2>3. QED
        BY <1>4, <1>8, <2>1, <2>2
<1>11. QED
    BY <1>1, <1>2, <1>5, <1>9, <1>10

(* A mutating command that reports success has settled its selections.     *)
LEMMA MutationIsTrue ==
    ASSUME IInv, CompletesMutation, NEW p \in Selected
    PROVE  /\ document'[p] \in Fragment
           /\ LeavesTrue(p)'
           /\ outcome' = "synchronized" => ClassNow(p)' = "synchronized"
<1>1. HasPlan /\ request.mode # Status
    BY DEF CompletesMutation, HasPlan, Mutates
<1>2. /\ document' = Prepared /\ file' = file /\ entry' = entry /\ target' = target
      /\ request' = request /\ Report' = Report /\ Decisions' = Decisions
    BY ReportDerives DEF CompletesMutation, Completes
<1>3. /\ Prepared[p] \in Fragment
      /\ Decisions[p] # "unresolved" =>
            Classify(Prepared[p].source, Prepared[p].baseline, file[entry[p]]) = "synchronized"
      /\ Decisions[p] = "unresolved" =>
            /\ Prepared[p] = input[p]
            /\ target[p] = NoFile \/ file[entry[p]] = target[p]
    BY PreparedIsTrue DEF CompletesMutation
<1>4. ClassNow(p)' = Classify(Prepared[p].source, Prepared[p].baseline, file[entry[p]])
    BY <1>2 DEF ClassNow
<1>5. Decisions[p] = "unresolved" => Report[p] = Class(p)
    BY <1>1 DEF Report
<1>6. Decisions[p] = "unresolved" /\ file[entry[p]] = target[p] => ClassNow(p)' = Class(p)
    BY <1>3, <1>4 DEF Class
<1>7. LeavesTrue(p)'
    BY <1>1, <1>2, <1>3, <1>4, <1>5, <1>6 DEF LeavesTrue
<1>8. outcome' = "synchronized" => Decisions[p] # "unresolved"
    BY <1>1 DEF CompletesMutation, Completes, ExitState, Attention, Decided
<1>9. QED
    BY <1>2, <1>3, <1>4, <1>7, <1>8

-----------------------------------------------------------------------------

(* No command has reported anything at first.                              *)
LEMMA InitTrue == Init => ExitZeroMeansSynchronized /\ ReportIsTrue
BY DEF Init, ExitZeroMeansSynchronized, ReportIsTrue, Succeeded

(* Every step keeps the reports true.                                      *)
LEMMA NextTrue ==
    IInv /\ ExitZeroMeansSynchronized /\ ReportIsTrue /\ [Next]_vars =>
        ExitZeroMeansSynchronized' /\ ReportIsTrue'
<1> SUFFICES ASSUME IInv, ExitZeroMeansSynchronized, ReportIsTrue, [Next]_vars
             PROVE  ExitZeroMeansSynchronized' /\ ReportIsTrue'
    OBVIOUS
<1>1. CASE UNCHANGED vars
    <2>1. /\ Selected' = Selected /\ Decisions' = Decisions /\ Report' = Report
          /\ request' = request /\ target' = target
        BY <1>1, ReportDerives DEF vars, view
    <2>2. QED
        BY <1>1, <2>1 DEF vars, ExitZeroMeansSynchronized, ReportIsTrue, Succeeded, ClassNow
<1>2. CASE Next /\ phase' # "done"
    BY <1>2 DEF ExitZeroMeansSynchronized, ReportIsTrue, Succeeded
<1>3. CASE Next /\ phase' = "done" /\ outcome' \in {"failed", "crashed"}
    BY <1>3 DEF ExitZeroMeansSynchronized, ReportIsTrue, Succeeded
<1>4. CASE CompletesMutation \/ CompletesStatus
    <2>1. Selected' = Selected
        BY <1>4, ReportDerives DEF CompletesMutation, CompletesStatus, Completes
    <2>2. \A p \in Selected :
             /\ document'[p] \in Fragment
             /\ LeavesTrue(p)'
             /\ outcome' = "synchronized" => ClassNow(p)' = "synchronized"
        BY <1>4, MutationIsTrue, StatusIsTrue
    <2>3. document' # Invalid
        <3>1. CASE CompletesMutation
            BY <3>1, PreparedRows DEF CompletesMutation, IInv
        <3>2. CASE CompletesStatus
            BY <3>2 DEF CompletesStatus, IInv, SnapshotIsFresh
        <3>3. QED
            BY <1>4, <3>1, <3>2
    <2>4. ExitZeroMeansSynchronized'
        BY <2>1, <2>2, <2>3, SentinelAssumption DEF ExitZeroMeansSynchronized, Fragment
    <2>5. ReportIsTrue'
        BY <2>1, <2>2 DEF ReportIsTrue, LeavesTrue
    <2>6. QED
        BY <2>4, <2>5
<1>5. QED
    BY <1>1, <1>2, <1>3, <1>4, EndingSteps

(* Exit status 0 means that every selected fragment is synchronized on     *)
(* disk, for every batch, alias, collision and interference.               *)
THEOREM ExitZeroIsTrue == Spec => []ExitZeroMeansSynchronized
<1>1. IInv /\ ExitZeroMeansSynchronized /\ ReportIsTrue /\ [Next]_vars =>
          (ExitZeroMeansSynchronized /\ ReportIsTrue)'
    BY NextTrue
<1>2. QED
    BY <1>1, InitTrue, StrengthenedInvariant, PTL DEF Spec

(* A completed command's report is true of the disk it leaves.             *)
THEOREM ReportsAreTrue == Spec => []ReportIsTrue
<1>1. IInv /\ ExitZeroMeansSynchronized /\ ReportIsTrue /\ [Next]_vars =>
          (ExitZeroMeansSynchronized /\ ReportIsTrue)'
    BY NextTrue
<1>2. QED
    BY <1>1, InitTrue, StrengthenedInvariant, PTL DEF Spec

-----------------------------------------------------------------------------
(* A torn document *)

(* Every step keeps a torn document recoverable.                           *)
LEMMA NextRecoverable ==
    IInv /\ TornDocumentIsRecoverable /\ [Next]_vars => TornDocumentIsRecoverable'
<1> SUFFICES ASSUME IInv, TornDocumentIsRecoverable, [Next]_vars,
                    document' = Invalid, phase' # "idle"
             PROVE  /\ phase' = "document" \/ Interrupted'
                    /\ input' # Invalid =>
                          \A p \in Selected' :
                             Decisions'[p] # "unresolved" =>
                                 file'[entry'[p]] = Prepared'[p].source
    BY DEF TornDocumentIsRecoverable
<1>1. CASE UNCHANGED vars
    <2>1. Selected' = Selected /\ Decisions' = Decisions /\ Prepared' = Prepared
        BY <1>1, ReportDerives, ViewDerives DEF vars, view
    <2>2. QED
        BY <1>1, <2>1 DEF vars, TornDocumentIsRecoverable, Interrupted
<1>2. CASE \E result \in {"failed", "crashed"} : TearDocument(result)
    <2>1. /\ phase = "external" /\ Remaining = {} /\ HasPlan
          /\ UNCHANGED <<file, entry, view>> /\ Interrupted'
        BY <1>2 DEF TearDocument, Finish, Interrupted, IInv, PlanBeforeWrites
    <2>2. Selected' = Selected /\ Decisions' = Decisions /\ Prepared' = Prepared
        BY <2>1, ReportDerives, ViewDerives
    <2>3. QED
        BY <2>1, <2>2, PreparedIsTrue
<1>3. CASE Next /\ phase \in {"idle", "done"}
    <2>1. \E r \in Request : Start(r)
        BY <1>3 DEF process, Next, User, EditFile, EditFragment, ReplaceDocument, Exit, Start, Discover,
            ReadDocument, RejectDocument, ReadTarget, RejectTarget, RejectSelection, Decide,
            ReportStatus, RefusePlan, NothingToWrite, BeginCommit, RejectPrepared, Planned,
            Discovered, Commit, CreateTarget, ReplaceTarget, CreateBlocked, WriteDocument,
            LeaveDocument, Disturb, Refuse, TearTarget, TearDocument, Crash, Appear,
            Fail, Finish, Running, AtRest
    <2>2. QED
        BY <2>1 DEF Start, IInv, NothingKnown
<1>4. CASE Next /\ phase = "document"
    <2>1. /\ document' = document /\ input' = input
          /\ phase' = "document" \/ Interrupted'
        BY <1>4 DEF Interrupted, disk, view, Next, User, EditFile, EditFragment, ReplaceDocument, Exit, Start, Discover,
            ReadDocument, RejectDocument, ReadTarget, RejectTarget, RejectSelection, Decide,
            ReportStatus, RefusePlan, NothingToWrite, BeginCommit, RejectPrepared, Planned,
            Discovered, Commit, CreateTarget, ReplaceTarget, CreateBlocked, WriteDocument,
            LeaveDocument, Disturb, Refuse, TearTarget, TearDocument, Crash, Appear,
            Fail, Finish, Running, AtRest
    <2>2. QED
        BY <1>4, <2>1 DEF IInv, NothingKnown
<1>5. CASE Next /\ phase = "targets"
    <2>1. document' = document
        BY <1>5 DEF disk, Next, User, EditFile, EditFragment, ReplaceDocument, Exit, Start, Discover,
            ReadDocument, RejectDocument, ReadTarget, RejectTarget, RejectSelection, Decide,
            ReportStatus, RefusePlan, NothingToWrite, BeginCommit, RejectPrepared, Planned,
            Discovered, Commit, CreateTarget, ReplaceTarget, CreateBlocked, WriteDocument,
            LeaveDocument, Disturb, Refuse, TearTarget, TearDocument, Crash, Appear,
            Fail, Finish, Running, AtRest
    <2>2. QED
        BY <1>5, <2>1 DEF IInv, SnapshotIsFresh
<1>6. CASE Next /\ phase = "external" /\ ~\E result \in {"failed", "crashed"} : TearDocument(result)
    <2>1. document' \in {document, Prepared}
        BY <1>6 DEF disk, Next, User, EditFile, EditFragment, ReplaceDocument, Exit, Start, Discover,
            ReadDocument, RejectDocument, ReadTarget, RejectTarget, RejectSelection, Decide,
            ReportStatus, RefusePlan, NothingToWrite, BeginCommit, RejectPrepared, Planned,
            Discovered, Commit, CreateTarget, ReplaceTarget, CreateBlocked, WriteDocument,
            LeaveDocument, Disturb, Refuse, TearTarget, Crash, Appear,
            Fail, Finish, Running, AtRest
    <2>2. Prepared # Invalid
        BY <1>6, PreparedRows DEF IInv, PlanBeforeWrites
    <2>3. QED
        BY <1>6, <2>1, <2>2 DEF IInv, SnapshotIsFresh
<1>7. QED
    BY <1>1, <1>2, <1>3, <1>4, <1>5, <1>6 DEF IInv, TypeOK, Phase

(* A torn document costs the document alone: the text a command chose for  *)
(* each fragment it resolved stands in the target, whatever the batch, the *)
(* aliases and the faults (commit.rs, the document after every target).    *)
THEOREM TornDocumentRecovers == Spec => []TornDocumentIsRecoverable
<1>1. Init => TornDocumentIsRecoverable
    BY DEF Init, TornDocumentIsRecoverable
<1>2. QED
    BY <1>1, NextRecoverable, StrengthenedInvariant, PTL DEF Spec

-----------------------------------------------------------------------------
(* Aliases *)

\* Nothing else in the document resolves to a file that was created.
CreatedIsUnshared ==
    phase = "external" \/ Succeeded =>
        \A p \in completed : target[p] = NoFile =>
            \A q \in Fragments \ {p} : entry[q] # entry[p]

\* A completed mutation has written its every output.
SuccessIsWhole == Succeeded /\ Mutates => HasPlan /\ Remaining = {}

(* Where probing tells aliases apart no step creates one.                  *)
LEMMA NextUnshared ==
    ASSUME "probe" \notin Faults
    PROVE  IInv /\ CreatedIsUnshared /\ SuccessIsWhole /\ [Next]_vars =>
               CreatedIsUnshared' /\ SuccessIsWhole'
<1> SUFFICES ASSUME IInv, CreatedIsUnshared, SuccessIsWhole, [Next]_vars
             PROVE  CreatedIsUnshared' /\ SuccessIsWhole'
    OBVIOUS
<1>1. CASE UNCHANGED vars
    <2>1. /\ HasPlan' <=> HasPlan
          /\ Extracted' = Extracted /\ Fragments' = Fragments
        BY <1>1, ViewDerives DEF vars, view
    <2>2. QED
        BY <1>1, <2>1 DEF vars, CreatedIsUnshared, SuccessIsWhole, Succeeded, Mutates, Remaining
<1>2. CASE Next /\ phase' = "done" /\ outcome' \in {"failed", "crashed"}
    BY <1>2 DEF CreatedIsUnshared, SuccessIsWhole, Succeeded
<1>3. CASE CompletesStatus
    <2>1. completed' = {} /\ ~Mutates'
        BY <1>3 DEF CompletesStatus, Completes, view, Mutates, IInv, PlanBeforeWrites
    <2>2. QED
        BY <2>1 DEF CreatedIsUnshared, SuccessIsWhole
<1>4. CASE CompletesMutation
    <2>1. /\ HasPlan' <=> HasPlan
          /\ Extracted' = Extracted /\ Fragments' = Fragments
        BY <1>4, ViewDerives DEF CompletesMutation, Completes
    <2>2. SuccessIsWhole'
        BY <1>4, <2>1 DEF CompletesMutation, Completes, SuccessIsWhole, Remaining
    <2>3. CASE phase = "external"
        BY <1>4, <2>1, <2>2, <2>3 DEF CompletesMutation, Completes, CreatedIsUnshared, view
    <2>4. CASE phase = "targets"
        <3>1. completed' = {}
            BY <1>4, <2>4 DEF CompletesMutation, Completes, IInv, PlanBeforeWrites
        <3>2. QED
            BY <2>2, <3>1 DEF CreatedIsUnshared
    <2>5. QED
        BY <1>4, <2>3, <2>4 DEF CompletesMutation
<1>5. CASE Next /\ phase' # "done"
    <2>1. SuccessIsWhole'
        BY <1>5 DEF SuccessIsWhole, Succeeded
    <2>2. CASE phase' # "external"
        BY <1>5, <2>1, <2>2 DEF CreatedIsUnshared, Succeeded
    <2>3. CASE phase' = "external" /\ phase # "external"
        <3>1. BeginCommit
            BY <1>5, <2>3 DEF Next, User, EditFile, EditFragment, ReplaceDocument, Exit, Start,
                Discover, ReadDocument, RejectDocument, ReadTarget, RejectTarget,
                RejectSelection, Decide, ReportStatus, RefusePlan, NothingToWrite,
                RejectPrepared, Commit, CreateTarget, ReplaceTarget, CreateBlocked,
                WriteDocument, LeaveDocument, Disturb, Refuse, TearTarget, TearDocument, Crash,
                Appear, Fail, Finish, process
        <3>2. completed' = {}
            BY <3>1 DEF BeginCommit, Planned, Discovered, IInv, PlanBeforeWrites
        <3>3. QED
            BY <2>1, <3>2 DEF CreatedIsUnshared
    <2>4. CASE phase' = "external" /\ phase = "external"
        <3>1. \/ \E p \in Path : CreateTarget(p) \/ ReplaceTarget(p)
              \/ UNCHANGED <<entry, view, completed>>
            BY <1>5, <2>4 DEF Next, User, EditFile, EditFragment, ReplaceDocument, Exit, Start,
                Discover, ReadDocument, RejectDocument, ReadTarget, RejectTarget,
                RejectSelection, Decide, ReportStatus, RefusePlan, NothingToWrite, BeginCommit,
                RejectPrepared, Planned, Discovered, Commit, CreateBlocked,
                WriteDocument, LeaveDocument, Disturb, Refuse, TearTarget, TearDocument, Crash,
                Appear, Fail, Finish
        <3>2. CASE UNCHANGED <<entry, view, completed>>
            <4>1. Fragments' = Fragments /\ target' = target
                BY <3>2, ViewDerives DEF view
            <4>2. QED
                BY <2>1, <2>4, <3>2, <4>1 DEF CreatedIsUnshared
        <3>3. ASSUME NEW p \in Path, CreateTarget(p) \/ ReplaceTarget(p)
              PROVE  CreatedIsUnshared'
            <4>1. UNCHANGED <<entry, view>> /\ completed' = completed \cup {p}
                BY <3>3 DEF CreateTarget, ReplaceTarget
            <4>2. Fragments' = Fragments /\ target' = target /\ entry' = entry
                BY <4>1, ViewDerives DEF view
            <4>3. ASSUME target[p] = NoFile, NEW q \in Fragments \ {p}
                  PROVE  entry[q] # entry[p]
                <5>1. CreateTarget(p) /\ Writes(p, input[p].source)
                    BY <3>3, <4>3 DEF CreateTarget, ReplaceTarget, Writes
                <5>2. HasPlan /\ q \in Path
                    BY <5>1, WritesItsOwn DEF Fragments
                <5>3. target[q] \in Source \cup {NoFile}
                    BY <5>2, PlanRests DEF IInv
                <5>4. CASE target[q] \in Source
                    BY <5>1, <5>2, <5>4, <4>3, WritesItsOwn
                <5>5. CASE target[q] = NoFile
                    <6>1. Aliases(p) = {}
                        BY <1>5, <5>1 DEF CreateTarget, Detected, Fail, Finish
                    <6>2. q \in AbsentTargets \ {p}
                        BY <4>3, <5>5 DEF AbsentTargets
                    <6>3. QED
                        BY <6>1, <6>2 DEF Aliases
                <5>6. QED
                    BY <5>3, <5>4, <5>5
            <4>4. QED
                BY <2>4, <4>1, <4>2, <4>3 DEF CreatedIsUnshared
        <3>4. QED
            BY <2>1, <3>1, <3>2, <3>3
    <2>5. QED
        BY <2>2, <2>3, <2>4
<1>6. QED
    BY <1>1, <1>2, <1>3, <1>4, <1>5, EndingSteps

(* Where no identity probe fails, a command that completes has created no  *)
(* file that two fragments share.                                          *)
THEOREM NoAliasIsCreated ==
    ASSUME "probe" \notin Faults
    PROVE  Spec => []CreatesNoAlias
<1>1. Init => CreatedIsUnshared /\ SuccessIsWhole
    BY DEF Init, CreatedIsUnshared, SuccessIsWhole, Succeeded
<1>2. IInv /\ CreatedIsUnshared /\ SuccessIsWhole /\ [Next]_vars =>
          (CreatedIsUnshared /\ SuccessIsWhole)'
    BY NextUnshared
<1>3. IInv /\ CreatedIsUnshared /\ SuccessIsWhole => CreatesNoAlias
    <2> SUFFICES ASSUME IInv, CreatedIsUnshared, SuccessIsWhole, Succeeded, Mutates,
                        NEW p \in Extracted, NEW q \in Fragments, target[p] = NoFile, p # q
                 PROVE  entry[p] # entry[q]
        BY DEF CreatesNoAlias
    <2>1. p \in completed
        BY DEF SuccessIsWhole, Remaining
    <2>2. QED
        BY <2>1 DEF CreatedIsUnshared
<1>4. QED
    BY <1>1, <1>2, <1>3, StrengthenedInvariant, PTL DEF Spec

-----------------------------------------------------------------------------
(* The ledger of a fragment, in the state of a command                     *)

(* Both specifications look the same state up in the same table.           *)
LEMMA SameTable ==
    ASSUME NEW p
    PROVE  /\ \A E, H, F : L(p)!Classify(E, H, F) = Classify(E, H, F)
           /\ \A o, s, c : L(p)!PlanOne(o, s, c) = PlanOne(o, s, c)
           /\ L(p)!Forceable = Forceable
<1>1. \A E, H, F : L(p)!Classify(E, H, F) = Classify(E, H, F)
    BY DEF L!Classify, L!ClassifyUnadopted, L!ClassifyAdopted,
        Classify, ClassifyUnadopted, ClassifyAdopted
<1>2. \A o, s, c : L(p)!PlanOne(o, s, c) = PlanOne(o, s, c)
    BY DEF L!PlanOne, L!PlanExtracts, L!PlanEmbeds, PlanOne, PlanExtracts, PlanEmbeds
<1>3. L(p)!Forceable = Forceable
    BY DEF L!Forceable, Forceable
<1>4. QED
    BY <1>1, <1>2, <1>3

(* What a fragment's ledger shows has its type, and shows nothing of a     *)
(* fragment that the document does not have.                               *)
LEMMA LedgerTypes ==
    ASSUME TypeOK, NEW p \in Path
    PROVE  /\ LedgerEmbedded(p) \in Source \cup {NoFragment}
           /\ LedgerBaseline(p) \in Digest \cup {NoHash}
           /\ LedgerFile(p) \in Torn \cup {NoFile}
           /\ LedgerFragment(p) \in Fragment \cup {NoFragment}
           /\ LedgerEmbedded(p) = NoFragment <=> LedgerFragment(p) = NoFragment
           /\ LedgerFragment(p) = NoFragment =>
                 LedgerBaseline(p) = NoHash /\ LedgerFile(p) = NoFile
<1>1. LedgerFragment(p) \in Fragment \cup {NoFragment}
    BY DEF TypeOK, Document, LedgerFragment
<1>2. /\ LedgerEmbedded(p) \in Source \cup {NoFragment}
      /\ LedgerBaseline(p) \in Digest \cup {NoHash}
      /\ LedgerEmbedded(p) = NoFragment <=> LedgerFragment(p) = NoFragment
    BY <1>1, LedgerSentinelAssumption DEF LedgerEmbedded, LedgerBaseline, Fragment
<1>3. LedgerFile(p) \in Torn \cup {NoFile}
    BY DEF TypeOK, LedgerFile, Content, Torn
<1>4. LedgerFragment(p) = NoFragment => LedgerBaseline(p) = NoHash /\ LedgerFile(p) = NoFile
    BY DEF LedgerBaseline, LedgerFile
<1>5. QED
    BY <1>1, <1>2, <1>3, <1>4

(* A command that runs is a command of the ledger.                         *)
LEMMA LedgerCommands ==
    ASSUME TypeOK, NEW p \in Path
    PROVE  /\ AtRest => LedgerCommand(p) = NoCommand
           /\ Running =>
                 /\ LedgerCommand(p) \in L(p)!Command
                 /\ LedgerCommand(p) # NoCommand
                 /\ LedgerCommand(p).operation = request.mode
                 /\ LedgerCommand(p).selection = Selection
                 /\ p \in Selected => LedgerCommand(p).selected
<1>1. SUFFICES ASSUME Running
               PROVE  /\ LedgerCommand(p) \in L(p)!Command
                      /\ LedgerCommand(p) # NoCommand
                      /\ LedgerCommand(p).operation = request.mode
                      /\ LedgerCommand(p).selection = Selection
                      /\ p \in Selected => LedgerCommand(p).selected
    BY DEF LedgerCommand
<1>2. LedgerCommand(p) = [operation |-> request.mode, selection |-> Selection,
                          selected |-> request.selectors = {} \/ p \in request.selectors]
    BY <1>1 DEF LedgerCommand, Running
<1>3. request.mode \in Operation \cup {Status} /\ Selection \in SelectionKind
    BY DEF TypeOK, Request, Selection, SelectionKind
<1>4. LedgerCommand(p) \in [operation : Operation \cup {Status}, selection : SelectionKind,
                            selected : BOOLEAN]
    BY <1>2, <1>3
<1>5. LedgerCommand(p) \in L(p)!Command
    BY <1>4 DEF L!Command, L!Operation, L!Sync, L!Status, L!SelectionKind,
        Operation, Sync, Status, SelectionKind
<1>6. ASSUME p \in Selected
      PROVE  LedgerCommand(p).selected
    <2>1. request.selectors = {} \/ p \in request.selectors
        BY <1>6 DEF Selected
    <2>2. LedgerCommand(p).selected = (request.selectors = {} \/ p \in request.selectors)
        BY <1>2
    <2>3. QED
        BY <2>1, <2>2
<1>7. LedgerCommand(p).operation = request.mode /\ LedgerCommand(p).selection = Selection
    BY <1>2
<1>8. QED
    BY <1>4, <1>5, <1>6, <1>7, LedgerSentinelAssumption

-----------------------------------------------------------------------------
(* Two paths of one entry are both absent, or neither is                   *)

\* Without other programs, a target that was absent shares no file that existed.
AbsentApart ==
    /\ phase = "targets" =>
          \A p \in Path : target[p] = NoFile => file[entry[p]] = NoFile
    /\ \A p, q \in Path :
          target[p] = NoFile /\ target[q] \in Source => entry[p] # entry[q]

(* Only reading a target changes what is known, and nothing is written     *)
(* while targets are read.                                                 *)
LEMMA KnowledgeSteps ==
    ASSUME IInv, Next, "appear" \notin Faults
    PROVE  \/ \A p \in Path : target'[p] = Unread
           \/ \E p \in Path : ReadTarget(p)
           \/ /\ UNCHANGED <<target, entry>>
              /\ phase' = "targets" => phase = "targets" /\ file' = file
<1> USE DEF disk, view, process
<1>1. CASE User \/ \E r \in Request : Start(r)
    BY <1>1 DEF User, EditFile, EditFragment, ReplaceDocument, Exit, Start, IInv, NothingKnown
<1>2. CASE Discover
    BY <1>2 DEF Discover, ReadDocument, RejectDocument, RejectTarget, RejectSelection, Fail,
        Finish, IInv, NothingKnown
<1>3. CASE Decide
    BY <1>3 DEF Decide, ReportStatus, RefusePlan, NothingToWrite, BeginCommit, RejectPrepared,
        Fail, Finish
<1>4. CASE Commit
    BY <1>4 DEF Commit, CreateTarget, ReplaceTarget, CreateBlocked, WriteDocument,
        LeaveDocument, Fail, Finish
<1>5. CASE Disturb
    BY <1>5 DEF Disturb, Refuse, TearTarget, TearDocument, Crash, Appear, Fail, Finish
<1>6. QED
    BY <1>1, <1>2, <1>3, <1>4, <1>5 DEF Next

(* Every step keeps what is absent apart from what is there.               *)
LEMMA NextApart ==
    ASSUME IInv, AbsentApart, [Next]_vars, "appear" \notin Faults
    PROVE  AbsentApart'
<1>1. CASE UNCHANGED vars
    BY <1>1 DEF vars, AbsentApart
<1>2. CASE \A p \in Path : target'[p] = Unread
    BY <1>2, SentinelAssumption DEF AbsentApart
<1>3. ASSUME NEW p \in Path, ReadTarget(p)
      PROVE  AbsentApart'
    <2>1. /\ UNCHANGED <<file, entry, phase>> /\ phase = "targets"
          /\ target'[p] = file[entry[p]]
          /\ \A q \in Path \ {p} : target'[q] = target[q]
        BY <1>3 DEF ReadTarget, disk, IInv, TypeOK
    <2>2. /\ \A q \in Path : target[q] = NoFile => file[entry[q]] = NoFile
          /\ \A q \in Path : target[q] \in Source => file[entry[q]] # NoFile
        BY <2>1 DEF IInv, TargetsStillExist, AbsentApart
    <2>3. QED
        BY <2>1, <2>2, AbsenceAssumption DEF AbsentApart
<1>4. CASE /\ UNCHANGED <<target, entry>>
           /\ phase' = "targets" => phase = "targets" /\ file' = file
    BY <1>4 DEF AbsentApart
<1>5. QED
    BY <1>1, <1>2, <1>3, <1>4, KnowledgeSteps

-----------------------------------------------------------------------------
(* What the steps of the engine are to the ledger of one fragment          *)

(* A command keeps its request until it is over.                           *)
LEMMA RequestStands ==
    ASSUME Next, Running
    PROVE  /\ UNCHANGED <<request, entry>>
           /\ \A p \in Path : LedgerCommand(p)' \in {LedgerCommand(p), NoCommand}
           /\ phase' = "done" => \A p \in Path : LedgerCommand(p)' = NoCommand
<1> USE DEF disk, view
<1>1. UNCHANGED <<request, entry>>
    <2>1. CASE User \/ \E r \in Request : Start(r)
        BY <2>1 DEF User, EditFile, EditFragment, ReplaceDocument, Exit, Start, Running, AtRest
    <2>2. CASE Discover
        BY <2>2 DEF Discover, ReadDocument, RejectDocument, ReadTarget, RejectTarget,
            RejectSelection
    <2>3. CASE Decide
        BY <2>3 DEF Decide, ReportStatus, RefusePlan, NothingToWrite, BeginCommit,
            RejectPrepared
    <2>4. CASE Commit
        BY <2>4 DEF Commit, CreateTarget, ReplaceTarget, CreateBlocked, WriteDocument,
            LeaveDocument
    <2>5. CASE Disturb
        BY <2>5 DEF Disturb, Refuse, TearTarget, TearDocument, Crash, Appear
    <2>6. QED
        BY <2>1, <2>2, <2>3, <2>4, <2>5 DEF Next
<1>2. Selection' = Selection
    BY <1>1 DEF Selection
<1>3. \A p \in Path : LedgerCommand(p)' \in {LedgerCommand(p), NoCommand}
    BY <1>1, <1>2 DEF LedgerCommand, Running
<1>4. phase' = "done" => \A p \in Path : LedgerCommand(p)' = NoCommand
    BY DEF LedgerCommand, AtRest
<1>5. QED
    BY <1>1, <1>3, <1>4

(* Where the document and the file stay, the command goes on or ends.      *)
LEMMA LedgerRests ==
    ASSUME Next, Running, TypeOK, NEW p \in Path,
           UNCHANGED <<LedgerEmbedded(p), LedgerBaseline(p), LedgerFile(p)>>
    PROVE  [L(p)!Next]_(LedgerVars(p))
<1>1. CASE LedgerCommand(p)' = LedgerCommand(p)
    BY <1>1 DEF LedgerVars
<1>2. CASE LedgerCommand(p)' = NoCommand
    BY <1>2, LedgerCommands DEF L!Next, L!End, L!fragment
<1>3. QED
    BY <1>1, <1>2, RequestStands

\* What Edit may leave.
LedgerTyped(p) ==
    /\ LedgerEmbedded(p) \in Source \cup {NoFragment}
    /\ LedgerBaseline(p) \in Digest \cup {NoHash}
    /\ LedgerFile(p) \in Torn \cup {NoFile}
    /\ LedgerEmbedded(p) = NoFragment => LedgerBaseline(p) = NoHash /\ LedgerFile(p) = NoFile

(* Every step keeps the types of each fragment's ledger.                   *)
LEMMA NextLedgerTypes == TypeOK' => (\A p \in Path : LedgerTyped(p))'
<1>1. TypeOK => \A p \in Path : LedgerTyped(p)
    BY LedgerTypes DEF LedgerTyped
<1>2. QED
    BY <1>1, PTL

(* Between commands everything may change.                                 *)
LEMMA LedgerEdits ==
    ASSUME TypeOK, TypeOK', AtRest, AtRest', NEW p \in Path
    PROVE  L(p)!Next
<1>1. LedgerCommand(p) = NoCommand /\ LedgerCommand(p)' = NoCommand
    BY DEF LedgerCommand
<1>2. /\ LedgerEmbedded(p)' \in Source \cup {NoFragment}
      /\ LedgerBaseline(p)' \in Digest \cup {NoHash}
      /\ LedgerFile(p)' \in Torn \cup {NoFile}
      /\ LedgerEmbedded(p)' = NoFragment =>
            LedgerBaseline(p)' = NoHash /\ LedgerFile(p)' = NoFile
    BY NextLedgerTypes DEF LedgerTyped
<1>3. QED
    BY <1>1, <1>2 DEF L!Next, L!Edit, L!Torn, Torn

(* Where the file is as it was read, the ledger decides as the plan does.  *)
LEMMA LedgerDecides ==
    ASSUME IInv, HasPlan, Running, NEW p \in Selected, LedgerFragment(p) = input[p],
           LedgerFile(p) = target[p]
    PROVE  L(p)!Mutating /\ L(p)!Decision1 = Decisions[p]
<1>1. /\ p \in Path /\ input[p] \in Fragment /\ target[p] \in Source \cup {NoFile}
      /\ input[p] # NoFragment
    BY PlanRests, SentinelAssumption DEF IInv, Fragments, Fragment
<1>2. /\ LedgerCommand(p) # NoCommand /\ LedgerCommand(p).selected
      /\ LedgerCommand(p).operation = request.mode
      /\ LedgerCommand(p).selection = Selection
    BY <1>1, LedgerCommands DEF IInv
<1>3. LedgerEmbedded(p) = input[p].source /\ LedgerBaseline(p) = input[p].baseline
    BY <1>1 DEF LedgerEmbedded, LedgerBaseline
<1>4. L(p)!Mutating
    <2>1. LedgerEmbedded(p) # NoFragment /\ LedgerFile(p) # Malformed
        BY <1>1, <1>3, LedgerSentinelAssumption, SentinelAssumption DEF Fragment
    <2>2. request.mode # L(p)!Status
        BY DEF HasPlan, Mutates, L!Status, Status
    <2>3. QED
        BY <1>2, <2>1, <2>2 DEF L!Mutating
<1>5. L(p)!Class = Class(p)
    BY <1>3, SameTable DEF L!Class, Class
<1>6. CASE request.mode.force
    <2>1. /\ Selected = request.selectors /\ Class(p) \in Forceable
          /\ Decisions[p] = request.mode.kind
        BY <1>6, PlanRests DEF IInv
    <2>2. Selection = "explicit"
        BY <2>1 DEF Selection
    <2>3. QED
        BY <1>2, <1>4, <1>5, <1>6, <2>1, <2>2, SameTable DEF L!Decision1
<1>7. CASE ~request.mode.force
    <2>1. Decisions[p] = PlanOne(request.mode, Selection, Class(p))
        BY <1>7, PlanRests DEF IInv
    <2>2. QED
        BY <1>2, <1>4, <1>5, <1>7, <2>1, SameTable DEF L!Decision1
<1>8. QED
    BY <1>6, <1>7

\* No other path resolves to the file of p.
Alone(p) == \A q \in Path \ {p} : entry[q] # entry[p]

(* A write of a target is its extraction; a path that shares the file, and *)
(* so was absent as well, sees it appear; no other path sees anything.     *)
LEMMA LedgerWrites ==
    ASSUME IInv, Next, Running, NEW q \in Path, NEW content \in Torn, Writes(q, content),
           content = input[q].source \/ phase' = "done", NEW p \in Path,
           AbsentApart \/ Alone(p)
    PROVE  [L(p)!Next]_(LedgerVars(p))
<1>1. /\ UNCHANGED <<document, entry>> /\ document = input /\ HasPlan
      /\ q \in Selected /\ Decisions[q] = "extract" /\ input[q] \in Fragment
      /\ target[q] \in Source \cup {NoFile} /\ file[entry[q]] = target[q]
      /\ entry[q] \in Entry /\ \A e \in Entry : e # entry[q] => file'[e] = file[e]
      /\ file'[entry[q]] = content
      /\ \A r \in Path \ {q} : target[r] \in Source => entry[r] # entry[q]
    BY WritesItsOwn DEF Writes, IInv, SnapshotIsFresh, TypeOK
<1>2. /\ input # Invalid /\ entry[q] # DocumentEntry
      /\ input[q] # NoFragment
    BY <1>1, EntryAssumption, SentinelAssumption DEF HasPlan, Fragment
<1>3. \A r \in Path : LedgerFragment(r) = input[r] /\ LedgerFragment(r)' = input[r]
    BY <1>1, <1>2 DEF LedgerFragment
<1>4. UNCHANGED <<LedgerEmbedded(p), LedgerBaseline(p)>>
    BY <1>3 DEF LedgerEmbedded, LedgerBaseline
<1>5. CASE p # q /\ (input[p] = NoFragment \/ entry[p] # entry[q])
    <2>1. entry[p] = DocumentEntry \/ entry[p] \in Entry
        BY DEF IInv, TypeOK
    <2>2. LedgerFile(p)' = LedgerFile(p)
        BY <1>1, <1>3, <1>5, <2>1 DEF LedgerFile
    <2>3. QED
        BY <1>4, <2>2, LedgerRests DEF IInv
<1>6. CASE p # q /\ input[p] # NoFragment /\ entry[p] = entry[q]
    <2>1. target[p] = NoFile
        BY <1>1, <1>6, PlanRests DEF IInv, Fragments
    <2>2. target[q] = NoFile
        BY <1>1, <1>6, <2>1 DEF AbsentApart, Alone
    <2>3. /\ LedgerFile(p) = NoFile /\ LedgerFile(p)' = content
          /\ LedgerEmbedded(p) # NoFragment
        <3>1. LedgerEmbedded(p) # NoFragment
            BY <1>3, <1>6, LedgerTypes DEF IInv
        <3>2. QED
            BY <1>1, <1>2, <1>3, <1>6, <2>2, <3>1 DEF LedgerFile
    <2>4. LedgerCommand(p) # NoCommand /\ LedgerCommand(p)' \in {LedgerCommand(p), NoCommand}
        BY LedgerCommands, RequestStands DEF IInv
    <2>5. L(p)!Appear
        BY <1>4, <2>3, <2>4 DEF L!Appear, L!MayEnd, L!fragment, L!Torn, Torn
    <2>6. QED
        BY <2>5 DEF L!Next
<1>7. CASE p = q
    <2>1. /\ LedgerFile(p) = target[p] /\ LedgerFile(p)' = content
          /\ LedgerEmbedded(p) = input[p].source /\ LedgerBaseline(p) = input[p].baseline
        BY <1>1, <1>2, <1>3, <1>7 DEF LedgerFile, LedgerEmbedded, LedgerBaseline
    <2>2. L(p)!Mutating /\ L(p)!Decision1 = "extract"
        BY <1>1, <1>3, <1>7, <2>1, LedgerDecides
    <2>3. CASE content = input[q].source
        <3>1. LedgerCommand(p)' \in {LedgerCommand(p), NoCommand}
            BY RequestStands
        <3>2. L(p)!Extract
            BY <1>4, <1>7, <2>1, <2>2, <2>3, <3>1 DEF L!Extract, L!MayEnd, L!fragment
        <3>3. QED
            BY <3>2 DEF L!Next
    <2>4. CASE phase' = "done"
        <3>1. LedgerCommand(p)' = NoCommand
            BY <2>4, RequestStands
        <3>2. L(p)!TearTarget
            BY <1>4, <2>1, <2>2, <3>1 DEF L!TearTarget, L!fragment, L!Torn, Torn
        <3>3. QED
            BY <3>2 DEF L!Next
    <2>5. QED
        BY <2>3, <2>4
<1>8. QED
    BY <1>5, <1>6, <1>7

(* Another program's file is one that appears.                             *)
LEMMA LedgerAppears ==
    ASSUME IInv, Next, Running, NEW e \in Entry, NEW content \in Torn, Appear(e, content),
           NEW p \in Path
    PROVE  [L(p)!Next]_(LedgerVars(p))
<1>1. /\ UNCHANGED <<document, entry>> /\ file[e] = NoFile /\ file'[e] = content
      /\ \A other \in Entry : other # e => file'[other] = file[other]
      /\ e # DocumentEntry
    BY EntryAssumption DEF Appear, IInv, TypeOK
<1>2. LedgerFragment(p)' = LedgerFragment(p)
    BY <1>1 DEF LedgerFragment
<1>3. UNCHANGED <<LedgerEmbedded(p), LedgerBaseline(p)>>
    BY <1>2 DEF LedgerEmbedded, LedgerBaseline
<1>4. CASE LedgerFragment(p) = NoFragment \/ entry[p] # e
    <2>1. entry[p] = DocumentEntry \/ entry[p] \in Entry
        BY DEF IInv, TypeOK
    <2>2. LedgerFile(p)' = LedgerFile(p)
        BY <1>1, <1>2, <1>4, <2>1 DEF LedgerFile
    <2>3. QED
        BY <1>3, <2>2, LedgerRests DEF IInv
<1>5. CASE LedgerFragment(p) # NoFragment /\ entry[p] = e
    <2>1. LedgerFile(p) = NoFile /\ LedgerFile(p)' = content
        BY <1>1, <1>2, <1>5 DEF LedgerFile
    <2>2. LedgerEmbedded(p) # NoFragment
        BY <1>5, LedgerTypes DEF IInv
    <2>3. LedgerCommand(p) # NoCommand /\ LedgerCommand(p)' \in {LedgerCommand(p), NoCommand}
        BY LedgerCommands, RequestStands DEF IInv
    <2>4. L(p)!Appear
        BY <1>3, <2>1, <2>2, <2>3 DEF L!Appear, L!MayEnd, L!fragment, L!Torn, Torn
    <2>5. QED
        BY <2>4 DEF L!Next
<1>6. QED
    BY <1>4, <1>5

(* The document is written last: a changed fragment is one that embeds     *)
(* what its file still holds, or whose file is what the document says.     *)
LEMMA LedgerRecords ==
    ASSUME IInv, Next, Running, WritesDocument(Prepared), NEW p \in Path
    PROVE  [L(p)!Next]_(LedgerVars(p))
<1>1. /\ HasPlan /\ document = input /\ document' = Prepared /\ phase' = "done"
      /\ UNCHANGED <<file, entry>> /\ input # Invalid /\ Prepared # Invalid
    BY PreparedRows DEF WritesDocument, IInv, PlanBeforeWrites, SnapshotIsFresh
<1>2. LedgerFragment(p) = input[p] /\ LedgerFragment(p)' = Prepared[p]
    BY <1>1 DEF LedgerFragment
<1>3. LedgerCommand(p)' = NoCommand
    BY <1>1, RequestStands
<1>4. CASE Prepared[p] = input[p]
    <2>1. LedgerFragment(p)' = LedgerFragment(p)
        BY <1>2, <1>4
    <2>2. UNCHANGED <<LedgerEmbedded(p), LedgerBaseline(p), LedgerFile(p)>>
        BY <1>1, <2>1 DEF LedgerEmbedded, LedgerBaseline, LedgerFile
    <2>3. QED
        BY <2>2, LedgerRests DEF IInv
<1>5. CASE Prepared[p] # input[p]
    <2>1. /\ p \in Selected /\ p \in Fragments
          /\ input[p] \in Fragment /\ Prepared[p] \in Fragment
          /\ Prepared[p] = Recorded(file[entry[p]])
        BY <1>1, <1>5, DocumentChanges, PlanRests DEF IInv
    <2>2. /\ target[p] \in Source \cup {NoFile} /\ entry[p] \in Entry
          /\ entry[p] # DocumentEntry
        BY <1>1, <2>1, PlanRests, SentinelAssumption, EntryAssumption
            DEF IInv, TargetsAreDiscovered
    <2>3. /\ LedgerFile(p) = file[entry[p]] /\ LedgerFile(p)' = file[entry[p]]
          /\ LedgerEmbedded(p) = input[p].source
          /\ LedgerEmbedded(p)' = file[entry[p]] /\ LedgerBaseline(p)' = Hash[file[entry[p]]]
        BY <1>1, <1>2, <2>1, <2>2, SentinelAssumption
            DEF LedgerFile, LedgerEmbedded, LedgerBaseline, Recorded, Fragment
    <2>4. file[entry[p]] \in Source
        BY <2>1 DEF Recorded, Fragment
    <2>5. CASE file[entry[p]] = input[p].source
        <3>1. L(p)!Mutating
            <4>1. LedgerCommand(p) # NoCommand /\ LedgerCommand(p).selected
                BY <2>1, LedgerCommands DEF IInv
            <4>2. LedgerCommand(p).operation # L(p)!Status
                BY <1>1, LedgerCommands DEF IInv, HasPlan, Mutates, L!Status, Status
            <4>3. LedgerEmbedded(p) # NoFragment /\ LedgerFile(p) # Malformed
                BY <2>1, <2>3, <2>4, LedgerSentinelAssumption, SentinelAssumption DEF Fragment
            <4>4. QED
                BY <4>1, <4>2, <4>3 DEF L!Mutating
        <3>2. L(p)!Record
            BY <1>3, <2>3, <2>5, <3>1 DEF L!Record, L!MayEnd
        <3>3. QED
            BY <3>2 DEF L!Next
    <2>6. CASE file[entry[p]] # input[p].source
        <3>1. Decisions[p] = "embed" /\ target[p] = file[entry[p]]
            <4>1. /\ Decisions[p] \in {"record", "extract"} =>
                        Prepared[p] = Recorded(input[p].source)
                  /\ Decisions[p] = "embed" => Prepared[p] = Recorded(target[p])
                  /\ Decisions[p] \in {"settled", "unresolved"} => Prepared[p] = input[p]
                  /\ Decisions[p] \in Decision
                BY <1>1, <2>1, PreparedRows, DecisionRows DEF IInv
            <4>2. \A s, t : Recorded(s) = Recorded(t) => s = t
                BY DEF Recorded
            <4>3. QED
                BY <1>5, <2>1, <2>6, <4>1, <4>2 DEF Decision
        <3>2. L(p)!Mutating /\ L(p)!Decision1 = "embed"
            BY <1>1, <1>2, <2>1, <2>3, <3>1, LedgerDecides
        <3>3. L(p)!Embed
            BY <1>3, <2>3, <3>2 DEF L!Embed, L!MayEnd
        <3>4. QED
            BY <3>3 DEF L!Next
    <2>7. QED
        BY <2>5, <2>6
<1>6. QED
    BY <1>4, <1>5

(* A damaged document has no fragments.                                    *)
LEMMA LedgerTears ==
    ASSUME IInv, Next, Running, WritesDocument(Invalid), NEW p \in Path
    PROVE  L(p)!Next
<1>1. LedgerFragment(p)' = NoFragment
    BY DEF WritesDocument, LedgerFragment
<1>2. /\ LedgerEmbedded(p)' = NoFragment /\ LedgerBaseline(p)' = NoHash
      /\ LedgerFile(p)' = NoFile
    BY <1>1 DEF LedgerEmbedded, LedgerBaseline, LedgerFile
<1>3. LedgerCommand(p) # NoCommand /\ LedgerCommand(p)' = NoCommand
    BY LedgerCommands, RequestStands DEF IInv, WritesDocument
<1>4. QED
    BY <1>2, <1>3 DEF L!Next, L!TearDocument

(* A command begins with its request and nothing else.                     *)
LEMMA LedgerBegins ==
    ASSUME TypeOK, NEW r \in Request, Start(r), NEW p \in Path
    PROVE  L(p)!Next
<1>1. UNCHANGED disk /\ AtRest /\ ~AtRest' /\ request' = r
    BY DEF Start, AtRest
<1>2. LedgerFragment(p)' = LedgerFragment(p)
    BY <1>1 DEF disk, LedgerFragment
<1>3. UNCHANGED <<LedgerEmbedded(p), LedgerBaseline(p), LedgerFile(p)>>
    BY <1>1, <1>2 DEF disk, LedgerEmbedded, LedgerBaseline, LedgerFile
<1>4. LedgerCommand(p) = NoCommand
    BY <1>1 DEF LedgerCommand
<1>5. LedgerCommand(p)' \in L(p)!Command
    <2>1. LedgerCommand(p)' =
             [operation |-> r.mode, selection |-> Selection',
              selected |-> r.selectors = {} \/ p \in r.selectors]
        BY <1>1 DEF LedgerCommand
    <2>2. r.mode \in Operation \cup {Status} /\ Selection' \in SelectionKind
        BY DEF Request, Selection, SelectionKind
    <2>3. LedgerCommand(p)' \in [operation : Operation \cup {Status},
                                 selection : SelectionKind, selected : BOOLEAN]
        BY <2>1, <2>2
    <2>4. QED
        BY <2>3 DEF L!Command, L!Operation, L!Sync, L!Status, L!SelectionKind,
            Operation, Sync, Status, SelectionKind
<1>6. QED
    BY <1>3, <1>4, <1>5 DEF L!Next, L!Begin, L!fragment

(* Between commands nothing but a new command runs.                        *)
LEMMA RestSteps ==
    ASSUME Next, AtRest
    PROVE  AtRest' \/ \E r \in Request : Start(r)
<1> USE DEF AtRest
<1>1. CASE User
    BY <1>1 DEF User, EditFile, EditFragment, ReplaceDocument, Exit, process
<1>2. CASE Discover
    BY <1>2 DEF Discover, ReadDocument, RejectDocument, ReadTarget, RejectTarget,
        RejectSelection, Discovered
<1>3. CASE Decide
    BY <1>3 DEF Decide, ReportStatus, RefusePlan, NothingToWrite, BeginCommit, RejectPrepared,
        Planned, Discovered
<1>4. CASE Commit
    BY <1>4 DEF Commit, CreateTarget, ReplaceTarget, CreateBlocked, WriteDocument,
        LeaveDocument
<1>5. CASE Disturb
    BY <1>5 DEF Disturb, Refuse, TearTarget, TearDocument, Crash, Appear, Running
<1>6. QED
    BY <1>1, <1>2, <1>3, <1>4, <1>5 DEF Next

(* Every step of the engine is a step of each ledger, or no step of it.    *)
LEMMA LedgerSteps ==
    ASSUME IInv, [Next]_vars, NEW p \in Path, AbsentApart \/ Alone(p)
    PROVE  [L(p)!Next]_(LedgerVars(p))
<1>1. CASE UNCHANGED vars
    <2>1. LedgerFragment(p)' = LedgerFragment(p) /\ Selection' = Selection
        BY <1>1 DEF vars, LedgerFragment, Selection
    <2>2. QED
        BY <1>1, <2>1 DEF vars, LedgerVars, LedgerEmbedded, LedgerBaseline, LedgerFile,
            LedgerCommand, AtRest
<1>2. CASE Next /\ AtRest
    <2>1. TypeOK /\ TypeOK'
        BY NextIInv DEF IInv
    <2>2. QED
        BY <1>2, <2>1, RestSteps, LedgerEdits, LedgerBegins
<1>3. CASE Next /\ Running
    <2>1. CASE UNCHANGED disk
        <3>1. LedgerFragment(p)' = LedgerFragment(p)
            BY <2>1 DEF disk, LedgerFragment
        <3>2. UNCHANGED <<LedgerEmbedded(p), LedgerBaseline(p), LedgerFile(p)>>
            BY <2>1, <3>1 DEF disk, LedgerEmbedded, LedgerBaseline, LedgerFile
        <3>3. QED
            BY <1>3, <3>2, LedgerRests DEF IInv
    <2>2. CASE \E q \in Path, content \in Torn :
                  Writes(q, content) /\ (content = input[q].source \/ phase' = "done")
        BY <1>3, <2>2, LedgerWrites
    <2>3. CASE \E e \in Entry, content \in Torn : Appear(e, content)
        BY <1>3, <2>3, LedgerAppears
    <2>4. CASE WritesDocument(Prepared)
        BY <1>3, <2>4, LedgerRecords
    <2>5. CASE WritesDocument(Invalid)
        BY <1>3, <2>5, LedgerTears
    <2>6. QED
        BY <1>3, <2>1, <2>2, <2>3, <2>4, <2>5, DiskSteps
<1>4. QED
    BY <1>1, <1>2, <1>3 DEF Running

(* The initial states are initial for each fragment's ledger.              *)
LEMMA LedgerInit == Init => \A p \in Path : L(p)!Init
<1> SUFFICES ASSUME Init, NEW p \in Path
             PROVE  L(p)!Init
    OBVIOUS
<1>1. TypeOK
    BY InitIInv DEF IInv
<1>2. LedgerCommand(p) = NoCommand
    BY DEF Init, LedgerCommand, AtRest
<1>3. QED
    BY <1>1, <1>2, LedgerTypes DEF L!Init, L!Torn, Torn

-----------------------------------------------------------------------------
(* The refinement *)

(* While no other program creates a target, the engine implements the      *)
(* ledger of every fragment: snapshot, batch, order, failures and aliases  *)
(* are invisible (engine.rs, mutate_with_access; commit.rs, commit_using). *)
THEOREM EngineImplementsLedger ==
    ASSUME "appear" \notin Faults
    PROVE  Spec => ImplementsLedger
<1> DEFINE Step == \A p \in Path : [L(p)!Next]_(LedgerVars(p))
<1>1. Init => AbsentApart
    BY SentinelAssumption DEF Init, AbsentApart
<1>2. IInv /\ AbsentApart /\ [Next]_vars => AbsentApart'
    BY NextApart
<1>3. IInv /\ AbsentApart /\ [Next]_vars => [Step]_vars
    BY LedgerSteps
<1>4. QED
    BY <1>1, <1>2, <1>3, LedgerInit, StrengthenedInvariant, PTL DEF Spec, ImplementsLedger

(* And whatever other programs create, a fragment whose file no other path *)
(* resolves to still sees nothing but its ledger.                          *)
THEOREM UnaliasedImplementsLedger ==
    Spec => [][\A p \in Path : Alone(p) => [L(p)!Next]_(LedgerVars(p))]_vars
<1> DEFINE Step == \A p \in Path : Alone(p) => [L(p)!Next]_(LedgerVars(p))
<1>1. IInv /\ [Next]_vars => [Step]_vars
    BY LedgerSteps
<1>2. QED
    BY <1>1, StrengthenedInvariant, PTL DEF Spec
=============================================================================
