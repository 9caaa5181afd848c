-------------------------------- MODULE Node --------------------------------
(***************************************************************************)
(* Commands on the text of one source node and the files of its fragments: *)
(* what Engine takes as given about documents, down to line breaks and     *)
(* marker lines (src/src/engine.rs, materialize_document, over             *)
(* src/src/fragment.rs).  A command discovers the fragments and then acts  *)
(* in one step; Engine has its accesses, its failures and its order of     *)
(* writes.  The user's edits lead to a state that is initial too, so the   *)
(* initial states stand for them.                                          *)
(***************************************************************************)
EXTENDS Fragment

CONSTANTS
    NodeTexts,  \* the texts the editor may have saved in the node
    FileTexts   \* the texts the user may have saved in each source file

\* A source without its first line, an empty one, is a source too.
ASSUME TextsAssumption ==
    /\ \A s \in Source : s # <<>> /\ s[1] = LF => SubSeq(s, 2, Len(s)) \in Source
    /\ NodeTexts \subseteq Seq(Symbol)
    /\ \A t \in NodeTexts : Parses(t) =>
          \A f \in Fragments(t) : Canonicalize(f.source) \in Source
    /\ DOMAIN FileTexts = Path
    /\ \A p \in Path : \A t \in FileTexts[p] :
          t \in Seq(Symbol) /\ Canonicalize(t) \in Source

VARIABLES
    text,       \* the node's source in the saved document
    file,       \* the content of each fragment's file
    inventory,  \* the fragments a running command has discovered
    request,    \* the last command that completed
    outcome,    \* how the last command ended
    \* Not in the program:
    joined      \* a command has joined two line breaks

vars == <<text, file, inventory, request, outcome, joined>>

Request == [operation : Operation, selectors : SUBSET Path]

TypeOK ==
    /\ text \in Seq(Symbol)
    /\ DOMAIN file = Path /\ \A p \in Path : file[p] \in Seq(Symbol) \cup {NoFile}
    /\ inventory = {} \/ inventory = Fragments(text)
    /\ request \in Request
    /\ outcome \in {"none", "running", "synchronized", "attention", "failed"}
    /\ joined \in BOOLEAN

Init ==
    /\ text \in NodeTexts
    /\ file \in [Path -> (UNION {FileTexts[p] : p \in Path}) \cup {NoFile}]
    /\ \A p \in Path : file[p] \in FileTexts[p] \cup {NoFile}
    /\ inventory = {}
    /\ request = [operation |-> Sync, selectors |-> {}]
    /\ outcome = "none"
    /\ joined = FALSE

-----------------------------------------------------------------------------
(* What a command finds *)

ReadFile(p) == IF file[p] = NoFile THEN NoFile ELSE Canonicalize(file[p])

Discoverable ==
    /\ Valid(text)
    /\ \A f \in Fragments(text) :
          file[f.path] # NoFile => ~BeginsWithMark(file[f.path])

Class(f) == Classify(Canonicalize(f.source), f.baseline, ReadFile(f.path))

Discover ==
    /\ outcome # "running"
    /\ IF Discoverable
         THEN inventory' = Fragments(text) /\ outcome' = "running"
         ELSE inventory' = {} /\ outcome' = "failed"
    /\ request' = [operation |-> Sync, selectors |-> {}]
    /\ UNCHANGED <<text, file, joined>>

-----------------------------------------------------------------------------
(* What it decides *)

FragmentOf(p) == CHOOSE f \in inventory : f.path = p
Paths == {f.path : f \in inventory}

Selected(r) == IF r.selectors = {} THEN Paths ELSE r.selectors
Selection(r) == IF r.selectors = {} THEN "all" ELSE "explicit"

Classes(r) == [p \in Selected(r) |-> Class(FragmentOf(p))]

Planned(r) ==
    /\ outcome = "running"
    /\ Selected(r) \subseteq Paths
    /\ ~PlanRefused(r.operation, Selection(r), Classes(r))

Decisions(r) == Plan(r.operation, Selection(r), Classes(r))

-----------------------------------------------------------------------------
(* What it writes *)

\* Mutant: only a fragment without a hash has one recorded.
UpdateUnrecorded(decisions) ==
    [p \in {q \in DOMAIN decisions :
                \/ decisions[q] \in {"extract", "embed"}
                \/ decisions[q] = "record" /\ FragmentOf(q).baseline = NoHash} |->
        IF decisions[p] = "embed" THEN ReadFile(p) ELSE NoFile]

\* The update of each acted-on fragment: a replacement, or a record only.
Update(decisions) ==
    [p \in {q \in DOMAIN decisions : decisions[q] \in {"record", "extract", "embed"}} |->
        IF decisions[p] = "embed" THEN ReadFile(p) ELSE NoFile]

\* Mutant: the prepared text is only checked for its markers.
AcceptableUnchecked(prepared) == Parses(prepared)

\* validate_prepared_document
Acceptable(prepared) == Valid(prepared)

\* A replacement that begins with an empty line comes after an opening line
\* that ends in a lone CR: the two breaks are one CRLF when they are read back.
Joins(p) ==
    /\ text[FragmentOf(p).first - 1] = CR
    /\ ReadFile(p) # <<>> /\ ReadFile(p)[1] = LF

Forget == inventory' = {}

Command(r) ==
    /\ Planned(r)
    /\ LET decisions == Decisions(r)
           prepared  == Rewrite(text, Update(decisions))
       IN  /\ Acceptable(prepared)
           /\ text' = prepared
           /\ file' = [p \in Path |->
                          IF p \in DOMAIN decisions /\ decisions[p] = "extract"
                            THEN Canonicalize(FragmentOf(p).source) ELSE file[p]]
           /\ joined' = (joined \/ \E p \in DOMAIN decisions :
                                        decisions[p] = "embed" /\ Joins(p))
           /\ outcome' = IF \E p \in DOMAIN decisions : decisions[p] = "unresolved"
                           THEN "attention" ELSE "synchronized"
    /\ request' = r
    /\ Forget

RejectCommand(r) ==
    /\ outcome = "running"
    /\ Planned(r) => ~Acceptable(Rewrite(text, Update(Decisions(r))))
    /\ outcome' = "failed"
    /\ Forget
    /\ UNCHANGED <<text, file, request, joined>>

Next ==
    \/ Discover
    \/ \E r \in Request : Command(r) \/ RejectCommand(r)

Spec == Init /\ [][Next]_vars

-----------------------------------------------------------------------------
(* Properties *)

(***************************************************************************)
(* Canonicalization is the line form: every physical line without its      *)
(* break, followed by one LF; so it forgets how lines were broken and      *)
(* nothing else, and applied again it changes nothing (docs/design.md,     *)
(* "Canonical source"; fragment.rs, canonicalize_source, PhysicalLines).   *)
(***************************************************************************)
LineForm(t) ==
    FlattenSeq([i \in DOMAIN t |->
        IF i \in LineStarts(t) THEN Append(Line(t, i), LF) ELSE <<>>])

CanonicalIsLineForm ==
    \A t \in {text} \cup {file[p] : p \in {q \in Path : file[q] # NoFile}} :
        /\ Canonicalize(t) = LineForm(t)
        /\ Canonicalize(Canonicalize(t)) = Canonicalize(t)

(***************************************************************************)
(* What is read back is what was written: a rewritten node has the same    *)
(* fragments in the same order, whatever lines the replacements contain;   *)
(* each of them is as it was or has the source of its file and the hash of *)
(* it, unless line breaks were joined, which the run node_join shows       *)
(* (engine.rs, validate_prepared_document; fragment.rs, rewrite).          *)
(***************************************************************************)
InOrder(old, new) ==
    /\ {f.path : f \in old} = {g.path : g \in new}
    /\ \A f1, f2 \in old, g1, g2 \in new :
          f1.path = g1.path /\ f2.path = g2.path => (f1.first < f2.first <=> g1.first < g2.first)

FragmentsAreAsWritten ==
    [][text' # text /\ ~joined' =>
        /\ Valid(text')
        /\ InOrder(Fragments(text), Fragments(text'))
        /\ \A f \in Fragments(text), g \in Fragments(text') :
              f.path = g.path =>
                \/ f.source = g.source /\ f.baseline = g.baseline
                \/ /\ Canonicalize(g.source) = ReadFile(g.path)'
                   /\ g.baseline = Hash[ReadFile(g.path)']]_vars

(***************************************************************************)
(* All other text is preserved exactly: outside the sources of fragments   *)
(* and the hash tokens not one symbol is added, lost or moved              *)
(* (docs/design.md, "Writes"; fragment.rs, rewrite).                       *)
(***************************************************************************)
Skeleton(t) ==
    LET fragments == Fragments(t)
        dropped(i) == \E f \in fragments :
            \/ f.first <= i /\ i < f.close
            \/ i = f.close + 1 /\ f.baseline # NoHash
    IN  FlattenSeq([i \in DOMAIN t |-> IF dropped(i) THEN <<>> ELSE <<t[i]>>])

OtherTextIsPreserved ==
    [][text' # text /\ ~joined' => Skeleton(text') = Skeleton(text)]_vars

(***************************************************************************)
(* A rerun is quiet: after a command without force, the same command finds *)
(* nothing more to do, whatever line breaks and marker lines the texts     *)
(* contain; sync would otherwise wake the live session for ever            *)
(* (engine.rs, mutate_with_access).                                        *)
(***************************************************************************)
Completed == outcome \in {"synchronized", "attention"}

SelectedNow ==
    {f \in Fragments(text) : request.selectors = {} \/ f.path \in request.selectors}

RerunIsQuiet ==
    Completed /\ ~request.operation.force /\ ~joined =>
        /\ Discoverable
        /\ \A f \in SelectedNow :
              PlanOne(request.operation, Selection(request), Class(f))
                  \in {"settled", "unresolved"}

(***************************************************************************)
(* Exit status 0: every selected fragment is synchronized after the        *)
(* command (docs/design.md, "One-shot reporting and exit status").         *)
(***************************************************************************)
ExitZeroMeansSynchronized ==
    outcome = "synchronized" => \A f \in SelectedNow : Class(f) = "synchronized"
=============================================================================
