------------------------------- MODULE Engine -------------------------------
(***************************************************************************)
(* One zwirn command from discovery through ordered commit: engine.rs,     *)
(* inventory.rs, source_root.rs and commit.rs under src/src.  The document *)
(* and the fragment targets live on a volume that the user edits between   *)
(* commands.  A command reads the document, reads every target in path     *)
(* order, plans, writes the extracted targets in path order and the        *)
(* document last.  Any access may fail, the process may be killed at any   *)
(* step, and a failing write may leave its destination torn.               *)
(***************************************************************************)
EXTENDS Reconcile, Integers, FiniteSets

CONSTANTS
    Path,           \* canonical fragment paths; integer order is path order
    Entry,          \* filesystem entries (device and inode) of targets
    DocumentEntry,  \* the entry of the document itself
    Malformed,      \* a target that is not UTF-8, carries a BOM, or is no file
    NoFragment,     \* the document has no fragment of that path
    Invalid,        \* a document that does not parse or breaks a marker rule
    Unread,         \* a target the command has not read
    Faults          \* the interference and failures that may strike, below

ASSUME PathAssumption == Path \subseteq Int
ASSUME EntryAssumption == DocumentEntry \notin Entry
ASSUME SentinelAssumption ==
    /\ Malformed \notin Source \cup {NoFile}
    /\ Unread \notin Source \cup {NoFile}
    /\ NoFragment \notin [source : Source, baseline : Digest \cup {NoHash}]
    /\ Invalid \notin [Path -> [source : Source, baseline : Digest \cup {NoHash}]
                                 \cup {NoFragment}]
\* "refuse": an access fails with no effect.  "tear": a write is cut short.
\* "crash": the process dies.  "appear": another program creates an absent
\* target.  "probe": the identity probe of a possible alias fails.
ASSUME FaultsAssumption == Faults \subseteq {"refuse", "tear", "crash", "appear", "probe"}

VARIABLES
    document,   \* the saved document: Invalid, or a fragment for each path
    file,       \* the content of each filesystem entry
    entry,      \* the entry each path resolves to; aliases share one
    phase,      \* where the command stands
    request,    \* its mode and selectors
    input,      \* the document as it was read
    target,     \* each target as it was read
    completed,  \* the external fragments written in full so far
    outcome     \* how the last command ended

disk == <<document, file, entry>>
view == <<request, input, target>>
process == <<phase, view, completed, outcome>>
vars == <<document, file, entry, phase, request, input, target, completed, outcome>>

Fragment == [source : Source, baseline : Digest \cup {NoHash}]
Document == {Invalid} \cup [Path -> Fragment \cup {NoFragment}]
Content == Source \cup {NoFile, Malformed}
Status == [kind |-> "status", force |-> FALSE]
Request == [mode : Operation \cup {Status}, selectors : SUBSET Path]
Phase == {"idle", "document", "targets", "external", "done"}
Outcome == {"none", "synchronized", "attention", "failed", "crashed"}

TypeOK ==
    /\ document \in Document
    /\ file \in [Entry -> Content]
    /\ entry \in [Path -> Entry \cup {DocumentEntry}]
    /\ phase \in Phase
    /\ request \in Request
    /\ input \in Document
    /\ target \in [Path -> Source \cup {NoFile, Unread}]
    /\ completed \in SUBSET Path
    /\ outcome \in Outcome

-----------------------------------------------------------------------------
(* What a command derives from its snapshot *)

Fragments == {p \in Path : input[p] # NoFragment}
UnreadPaths == {p \in Fragments : target[p] = Unread}

\* Mutant: selectors are ignored.
SelectedRegardless == Fragments

Selected == IF request.selectors = {} THEN Fragments ELSE request.selectors
Selection == IF request.selectors = {} THEN "all" ELSE "explicit"

Class(p) == Classify(input[p].source, input[p].baseline, target[p])
Classes == [p \in Selected |-> Class(p)]
Decisions == Plan(request.mode, Selection, Classes)
Decided(decision) == {p \in Selected : Decisions[p] = decision}
Extracted == Decided("extract")

Recorded(source) == [source |-> source, baseline |-> Hash[source]]

\* Mutant: a fragment whose two texts agree already gets no hash.
PreparedUnrecorded ==
    LET decisions == Decisions
    IN  [p \in Path |->
            IF p \in Selected /\ decisions[p] = "extract" THEN Recorded(input[p].source)
            ELSE IF p \in Selected /\ decisions[p] = "embed" THEN Recorded(target[p])
            ELSE input[p]]

\* The document as materialize_document leaves it; an unchanged one is not written.
Prepared ==
    LET decisions == Decisions
    IN  [p \in Path |->
            IF p \in Selected /\ decisions[p] \in {"record", "extract"}
              THEN Recorded(input[p].source)
            ELSE IF p \in Selected /\ decisions[p] = "embed"
              THEN Recorded(target[p])
            ELSE input[p]]

\* Mutant: only the selected targets are probed for aliases.
AbsentSelected == {p \in Selected : target[p] = NoFile}

AbsentTargets == {p \in Fragments : target[p] = NoFile}

\* The report and exit status of a command that completes normally.
Report ==
    IF request.mode = Status
      THEN Classes
      ELSE [p \in {q \in Selected : Decisions[q] # "settled"} |->
                IF Decisions[p] = "unresolved" THEN Class(p) ELSE Decisions[p]]

\* Mutant: unresolved fragments are forgotten once something was written.
AttentionUnlessWriting ==
    IF request.mode = Status
      THEN \E p \in Selected : Class(p) # "synchronized"
      ELSE Decided("unresolved") # {} /\ Extracted = {}

Attention ==
    IF request.mode = Status
      THEN \E p \in Selected : Class(p) # "synchronized"
      ELSE Decided("unresolved") # {}

ExitState == IF Attention THEN "attention" ELSE "synchronized"

Finish(result) == phase' = "done" /\ outcome' = result
Fail == Finish("failed")

-----------------------------------------------------------------------------
(* The user, between commands *)

AtRest == phase \in {"idle", "done"}
Running == ~AtRest

\* The process has exited; nothing of it is left but the disk.
Exit ==
    /\ phase = "done"
    /\ phase' = "idle"
    /\ outcome' = "none"
    /\ completed' = {}
    /\ request' = [mode |-> Status, selectors |-> {}]
    /\ input' = Invalid
    /\ target' = [p \in Path |-> Unread]
    /\ UNCHANGED disk

EditFile(e, content) ==
    /\ phase = "idle"
    /\ file[e] # content
    /\ file' = [file EXCEPT ![e] = content]
    /\ UNCHANGED <<document, entry, process>>

\* The editor saves the document with one fragment changed, added or removed.
EditFragment(p, fragment) ==
    /\ phase = "idle"
    /\ document # Invalid
    /\ document[p] # fragment
    /\ document' = [document EXCEPT ![p] = fragment]
    /\ UNCHANGED <<file, entry, process>>

\* The document is broken by an edit, or restored from a broken one.
ReplaceDocument(new) ==
    /\ phase = "idle"
    /\ (document = Invalid) # (new = Invalid)
    /\ document' = new
    /\ UNCHANGED <<file, entry, process>>

User ==
    \/ \E e \in Entry, content \in Content : EditFile(e, content)
    \/ \E p \in Path, fragment \in Fragment \cup {NoFragment} : EditFragment(p, fragment)
    \/ \E new \in Document : ReplaceDocument(new)
    \/ Exit

-----------------------------------------------------------------------------
(* Discovery *)

Start(r) ==
    /\ phase = "idle"
    /\ phase' = "document"
    /\ request' = r
    /\ UNCHANGED <<disk, input, target, completed, outcome>>

ReadDocument ==
    /\ phase = "document"
    /\ document # Invalid
    /\ input' = document
    /\ phase' = "targets"
    /\ UNCHANGED <<disk, request, target, completed, outcome>>

RejectDocument ==
    /\ phase = "document"
    /\ document = Invalid
    /\ Fail
    /\ UNCHANGED <<disk, view, completed>>

NextUnread(p) == p \in UnreadPaths /\ \A q \in UnreadPaths : p <= q

\* The target is not the document, nor an existing file that an earlier path
\* already names, and is either absent or a regular file of valid text.
Admissible(p) ==
    /\ entry[p] # DocumentEntry
    /\ file[entry[p]] # Malformed
    /\ \/ file[entry[p]] = NoFile
       \/ \A q \in Fragments : target[q] \in Source => entry[q] # entry[p]

\* Mutant: whatever is at the target is taken for text.
ReadTargetUnchecked(p) ==
    /\ phase = "targets"
    /\ NextUnread(p)
    /\ entry[p] # DocumentEntry
    /\ target' = [target EXCEPT ![p] = file[entry[p]]]
    /\ UNCHANGED <<disk, phase, request, input, completed, outcome>>

\* Mutant: an absent target is read again.
ReadTargetAgain(p) ==
    /\ phase = "targets"
    /\ NextUnread(p)
    /\ Admissible(p)
    /\ target' = [target EXCEPT ![p] =
                     IF file[entry[p]] = NoFile THEN Unread ELSE file[entry[p]]]
    /\ UNCHANGED <<disk, phase, request, input, completed, outcome>>

ReadTarget(p) ==
    /\ phase = "targets"
    /\ NextUnread(p)
    /\ Admissible(p)
    /\ target' = [target EXCEPT ![p] = file[entry[p]]]
    /\ UNCHANGED <<disk, phase, request, input, completed, outcome>>

RejectTarget(p) ==
    /\ phase = "targets"
    /\ NextUnread(p)
    /\ ~Admissible(p)
    /\ Fail
    /\ UNCHANGED <<disk, view, completed>>

-----------------------------------------------------------------------------
(* Selection, classification, planning and materialization: no effect yet *)

Discovered == phase = "targets" /\ UnreadPaths = {}
SelectionKnown == Selected \subseteq Fragments
Mutates == request.mode # Status

RejectSelection ==
    /\ Discovered
    /\ ~SelectionKnown
    /\ Fail
    /\ UNCHANGED <<disk, view, completed>>

ReportStatus ==
    /\ Discovered
    /\ SelectionKnown
    /\ ~Mutates
    /\ Finish(ExitState)
    /\ UNCHANGED <<disk, view, completed>>

RefusePlan ==
    /\ Discovered
    /\ SelectionKnown
    /\ Mutates
    /\ PlanRefused(request.mode, Selection, Classes)
    /\ Fail
    /\ UNCHANGED <<disk, view, completed>>

Planned ==
    /\ Discovered
    /\ SelectionKnown
    /\ Mutates
    /\ ~PlanRefused(request.mode, Selection, Classes)

NothingToWrite ==
    /\ Planned
    /\ Extracted = {} /\ Prepared = input
    /\ Finish(ExitState)
    /\ UNCHANGED <<disk, view, completed>>

BeginCommit ==
    /\ Planned
    /\ Extracted # {} \/ Prepared # input
    /\ phase' = "external"
    /\ UNCHANGED <<disk, view, completed, outcome>>

\* The rewritten document is too large, or embedded text reads as markers.
RejectPrepared ==
    /\ Planned
    /\ Prepared # input
    /\ Fail
    /\ UNCHANGED <<disk, view, completed>>

-----------------------------------------------------------------------------
(* Commit *)

Remaining == Extracted \ completed

\* Mutant: outputs are written in any order.
NextOutputUnordered(p) == p \in Remaining

NextOutput(p) == p \in Remaining /\ \A q \in Remaining : p <= q

\* Other targets absent at discovery that the created entry also answers to.
Aliases(p) == {q \in AbsentTargets \ {p} : entry[q] = entry[p]}

\* Each probe of an alias finds it, unless the probe itself fails.
Detected(p) == IF "probe" \in Faults THEN SUBSET Aliases(p) ELSE {Aliases(p)}

\* Mutant: creation truncates what has appeared in the meantime.
CreateTargetTruncating(p) ==
    /\ phase = "external"
    /\ NextOutput(p)
    /\ target[p] = NoFile
    /\ file' = [file EXCEPT ![entry[p]] = input[p].source]
    /\ completed' = completed \cup {p}
    /\ \E detected \in Detected(p) :
          IF detected # {} THEN Fail ELSE UNCHANGED <<phase, outcome>>
    /\ UNCHANGED <<document, entry, view>>

CreateTarget(p) ==
    /\ phase = "external"
    /\ NextOutput(p)
    /\ target[p] = NoFile
    /\ file[entry[p]] = NoFile
    /\ file' = [file EXCEPT ![entry[p]] = input[p].source]
    /\ completed' = completed \cup {p}
    /\ \E detected \in Detected(p) :
          IF detected # {} THEN Fail ELSE UNCHANGED <<phase, outcome>>
    /\ UNCHANGED <<document, entry, view>>

ReplaceTarget(p) ==
    /\ phase = "external"
    /\ NextOutput(p)
    /\ target[p] # NoFile
    /\ file' = [file EXCEPT ![entry[p]] = input[p].source]
    /\ completed' = completed \cup {p}
    /\ UNCHANGED <<document, entry, view, phase, outcome>>

\* Exclusive creation finds an entry that appeared since discovery.
CreateBlocked(p) ==
    /\ phase = "external"
    /\ NextOutput(p)
    /\ target[p] = NoFile
    /\ file[entry[p]] # NoFile
    /\ Fail
    /\ UNCHANGED <<disk, view, completed>>

\* Mutant: the document is not held back until every target is written.
WriteDocumentEarly ==
    /\ phase = "external"
    /\ Prepared # input
    /\ document' = Prepared
    /\ Finish(ExitState)
    /\ UNCHANGED <<file, entry, view, completed>>

WriteDocument ==
    /\ phase = "external"
    /\ Remaining = {}
    /\ Prepared # input
    /\ document' = Prepared
    /\ Finish(ExitState)
    /\ UNCHANGED <<file, entry, view, completed>>

LeaveDocument ==
    /\ phase = "external"
    /\ Remaining = {}
    /\ Prepared = input
    /\ Finish(ExitState)
    /\ UNCHANGED <<disk, view, completed>>

-----------------------------------------------------------------------------
(* Failures and interference *)

\* An access fails before its operation: open, read, parent, coordination.
Refuse ==
    /\ "refuse" \in Faults
    /\ Running
    /\ ~Discovered
    /\ phase = "external" => Remaining # {} \/ Prepared # input
    /\ Fail
    /\ UNCHANGED <<disk, view, completed>>

\* Mutant: an output is counted as completed before it is written.
TearTargetCounted(p, content, result) ==
    /\ "tear" \in Faults
    /\ phase = "external"
    /\ NextOutput(p)
    /\ target[p] = NoFile => file[entry[p]] = NoFile
    /\ file' = [file EXCEPT ![entry[p]] = content]
    /\ Finish(result)
    /\ completed' = completed \cup {p}
    /\ UNCHANGED <<document, entry, view>>

\* A target is opened, created or truncated, and then not written in full.
TearTarget(p, content, result) ==
    /\ "tear" \in Faults
    /\ phase = "external"
    /\ NextOutput(p)
    /\ target[p] = NoFile => file[entry[p]] = NoFile
    /\ file' = [file EXCEPT ![entry[p]] = content]
    /\ Finish(result)
    /\ UNCHANGED <<document, entry, view, completed>>

\* Mutant: the document may be torn while targets are still to be written.
TearDocumentEarly(result) ==
    /\ "tear" \in Faults
    /\ phase = "external"
    /\ Prepared # input
    /\ document' = Invalid
    /\ Finish(result)
    /\ UNCHANGED <<file, entry, view, completed>>

\* The document is truncated and not written in full; it no longer parses.
TearDocument(result) ==
    /\ "tear" \in Faults
    /\ phase = "external"
    /\ Remaining = {}
    /\ Prepared # input
    /\ document' = Invalid
    /\ Finish(result)
    /\ UNCHANGED <<file, entry, view, completed>>

Crash ==
    /\ "crash" \in Faults
    /\ Running
    /\ Finish("crashed")
    /\ UNCHANGED <<disk, view, completed>>

\* Another program creates an entry while the command runs.
Appear(e, content) ==
    /\ "appear" \in Faults
    /\ Running
    /\ file[e] = NoFile
    /\ file' = [file EXCEPT ![e] = content]
    /\ UNCHANGED <<document, entry, phase, view, completed, outcome>>

-----------------------------------------------------------------------------
Torn == Source \cup {Malformed}

Discover ==
    \/ ReadDocument
    \/ RejectDocument
    \/ \E p \in Path : ReadTarget(p) \/ RejectTarget(p)
    \/ RejectSelection

Decide ==
    \/ ReportStatus
    \/ RefusePlan
    \/ NothingToWrite
    \/ BeginCommit
    \/ RejectPrepared

Commit ==
    \/ \E p \in Path : CreateTarget(p) \/ ReplaceTarget(p) \/ CreateBlocked(p)
    \/ WriteDocument
    \/ LeaveDocument

Disturb ==
    \/ Refuse
    \/ \E p \in Path, content \in Torn, result \in {"failed", "crashed"} :
          TearTarget(p, content, result)
    \/ \E result \in {"failed", "crashed"} : TearDocument(result)
    \/ Crash
    \/ \E e \in Entry, content \in Torn : Appear(e, content)

Init ==
    /\ document \in Document
    /\ file \in [Entry -> Content]
    /\ entry \in [Path -> Entry \cup {DocumentEntry}]
    /\ phase = "idle"
    /\ request = [mode |-> Status, selectors |-> {}]
    /\ input = Invalid
    /\ target = [p \in Path |-> Unread]
    /\ completed = {}
    /\ outcome = "none"

Next ==
    \/ User
    \/ \E r \in Request : Start(r)
    \/ Discover
    \/ Decide
    \/ Commit
    \/ Disturb

Spec == Init /\ [][Next]_vars

\* A command that runs keeps taking its own steps.
Fairness == WF_vars(Discover \/ Decide \/ Commit)

FairSpec == Spec /\ Fairness
-----------------------------------------------------------------------------
(* Properties *)

Succeeded == phase = "done" /\ outcome \in {"synchronized", "attention"}
Interrupted == phase = "done" /\ outcome \in {"failed", "crashed"}

\* The classification of p by what is on disk now.
ClassNow(p) == Classify(document[p].source, document[p].baseline, file[entry[p]])

\* The command got as far as planning its batch.
HasPlan ==
    /\ input # Invalid
    /\ UnreadPaths = {}
    /\ SelectionKnown
    /\ Mutates
    /\ ~PlanRefused(request.mode, Selection, Classes)

(***************************************************************************)
(* Exit status 0 means what docs/design.md says: every selected fragment   *)
(* is synchronized on disk once the command has ended (engine.rs,          *)
(* exit_state; the batch is written through aliases, partial plans and     *)
(* targets recreated without a document change).                           *)
(***************************************************************************)
ExitZeroMeansSynchronized ==
    phase = "done" /\ outcome = "synchronized" =>
        /\ document # Invalid
        /\ \A p \in Selected : document[p] # NoFragment /\ ClassNow(p) = "synchronized"

(***************************************************************************)
(* A completed command's report is true of the disk it leaves: a fragment  *)
(* not reported or reported with an action is synchronized, one reported   *)
(* with a state is in that state unless another program created its target *)
(* meanwhile (engine.rs, status_report and mutate_with_access).            *)
(***************************************************************************)
ReportIsTrue ==
    Succeeded =>
        \A p \in Selected :
            IF request.mode = Status \/ Decisions[p] = "unresolved"
              THEN \/ target[p] = NoFile /\ file[entry[p]] # NoFile
                   \/ ClassNow(p) = Report[p]
              ELSE ClassNow(p) = "synchronized"

(***************************************************************************)
(* No edit is lost: a running command overwrites a file, or the embedded   *)
(* source of a fragment, only where the overwritten text still has the     *)
(* baseline hash, or where the user forced that very fragment; torn writes *)
(* of targets included (reconcile.rs classify and plan_one, and the        *)
(* snapshot they were computed from being the text that is overwritten).   *)
(***************************************************************************)
MayOverwrite(p, old) ==
    \/ Hash[old] = input[p].baseline
    \/ request.mode.force /\ p \in request.selectors

NoLostEdit ==
    [][Running =>
        /\ \A e \in Entry :
              file[e] # NoFile /\ file'[e] # file[e] =>
                 /\ file[e] # Malformed
                 /\ \E p \in Fragments : entry[p] = e /\ MayOverwrite(p, file[e])
        /\ \A p \in Path :
              /\ document \notin {Invalid, document'} /\ document' # Invalid
              /\ document[p] # document'[p]
              => /\ document[p] # NoFragment /\ document'[p] # NoFragment
                 /\ \/ document'[p].source = document[p].source
                    \/ MayOverwrite(p, document[p].source)]_vars

(***************************************************************************)
(* A command writes a baseline hash only for text that the document and    *)
(* the file share at that moment: a hash is a record of agreement, never   *)
(* of an intention (commit.rs writes the document last).                   *)
(***************************************************************************)
BaselineRecordsAgreement ==
    [][Running /\ document' # Invalid =>
        \A p \in Path :
            document'[p] # document[p] =>
                document'[p] = Recorded(file[entry[p]])]_vars

(***************************************************************************)
(* The commit is an ordered prefix: the paths an error names as completed  *)
(* hold their whole text and precede every other output; an existing       *)
(* target that differs from what was read is completed or is the next one; *)
(* the document differs from what was read only once all are completed     *)
(* (commit.rs, commit_using; engine.rs, Error::committed_external).        *)
(***************************************************************************)
CommitIsOrderedPrefix ==
    phase = "external" \/ (phase = "done" /\ HasPlan) =>
        /\ completed \subseteq Extracted
        /\ \A p \in completed :
              /\ file[entry[p]] = input[p].source
              /\ \A q \in Remaining : p < q
        /\ \A p \in Fragments \ completed :
              target[p] # NoFile /\ file[entry[p]] # target[p] => NextOutput(p)
        /\ document # input => completed = Extracted

(***************************************************************************)
(* Rerunning heals an interrupted commit: a fragment whose file was        *)
(* written before the command failed or died needs no more than its hash   *)
(* recorded, which every later mutating command does (commit.rs and the    *)
(* `converged` and `unadopted` rows of the state table).                   *)
(***************************************************************************)
InterruptedCommitHeals ==
    Interrupted /\ document # Invalid =>
        \A p \in completed :
            ClassNow(p) \in {"unadopted matching", "converged", "synchronized"}

(***************************************************************************)
(* A torn target is never mistaken for an edit: no later sync embeds the   *)
(* text a failed extraction left behind, except where the command was      *)
(* recreating a missing target, or forcing a hash collision, whose         *)
(* embedded source still has the baseline hash (commit.rs, write_external  *)
(* cut short; reconcile.rs, classify).                                     *)
(***************************************************************************)
TornTargetIsNotEmbedded ==
    Interrupted /\ HasPlan /\ document # Invalid =>
        \A p \in Remaining :
            /\ file[entry[p]] \notin {target[p], NoFile, Malformed}
            /\ Class(p) # "missing"
            /\ ~(Class(p) = "conflict" /\ Hash[target[p]] = Hash[input[p].source])
            => PlanOne(Sync, "all", ClassNow(p)) # "embed"

(***************************************************************************)
(* A torn document costs the document alone: the command that tore it ends *)
(* as failed or killed, and the text that it chose for each fragment it    *)
(* resolved stands in that fragment's target; while the document is        *)
(* damaged no command gets past reading it (commit.rs, write_document      *)
(* after every write_external; inventory.rs, discover_inner).              *)
(***************************************************************************)
TornDocumentIsRecoverable ==
    document = Invalid /\ phase # "idle" =>
        /\ phase = "document" \/ Interrupted
        /\ input # Invalid =>
              \A p \in Selected :
                 Decisions[p] # "unresolved" => file[entry[p]] = Prepared[p].source

(***************************************************************************)
(* An entry that nothing but absent targets resolve to is created          *)
(* exclusively: once something stands there, written by this command or by *)
(* another program, the command does not write it again (commit.rs,        *)
(* ExternalWrite::CreateNew; source_root.rs, create_target).               *)
(***************************************************************************)
CreatesExclusively ==
    [][Running =>
        \A e \in Entry :
            /\ file[e] # NoFile
            /\ \A p \in Path : entry[p] = e => target[p] \notin Source
            => file'[e] = file[e]]_vars

(***************************************************************************)
(* A mutating command that completes creates no target that identifies the *)
(* same file as another fragment target, selected or not (docs/design.md,  *)
(* "Paths"; source_root.rs, create_target over every absent target).       *)
(***************************************************************************)
CreatesNoAlias ==
    Succeeded /\ Mutates =>
        \A p \in Extracted, q \in Fragments :
            target[p] = NoFile /\ p # q => entry[p] # entry[q]

(* Every command ends. *)
CommandEnds == Running ~> AtRest
=============================================================================
