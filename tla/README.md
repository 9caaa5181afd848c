# A formal model of zwirn

zwirn keeps source fragments on the filesystem synchronized with the text of
source nodes inside an `.audulus4` document. A fragment has three pieces of
state: its embedded source (in the document), the baseline hash on its closing
marker (in the document) and its file. Commands compare the three and transfer
text in one direction or the other; on macOS a foreground session reruns `sync`
whenever the filesystem changes.

This directory holds TLA+ modules for that system, the TLC configurations that
check them on small instances, and TLAPS proofs of what matters most for every
instance. `src/...` paths below are relative to the repository's root.

## The system

| Component | State | Operations | Model |
|---|---|---|---|
| Classification and planning (`src/reconcile.rs`) | none | `classify`, `plan` | `Reconcile`, `Ledger` |
| Engine (`src/engine.rs`) | one command: snapshot, decisions, prepared document, report | `execute`: `status`, `embed`, `extract`, `sync` | `Engine` |
| Inventory (`src/inventory.rs`) | the fragments and their targets as read | `discover_for_document_with_access`, `select` | `Engine`, `Volume` |
| Ordered commit (`src/commit.rs`) | the completed prefix | `commit_using` | `Engine`, `Volume` |
| Source root (`src/source_root.rs`) | the directory capability | `create_target`, `replace_target`, metadata | `Volume`, `Engine` |
| Live session (`src/live.rs`) | wake channel, shutdown flag, last blocker | `Driver::run`, the signal thread, `Diagnostics` | `Live`, `Session` |
| FSEvents monitor (`src/live/macos.rs`, `native/macos/session_monitor.c`) | the stream, its queue, the callback state | start, callback, stop | `Monitor`, `Live` |
| Marker text (`src/fragment.rs`) | none | parse, canonicalize, rewrite | `Fragment`, `Node` |
| ADLS binary (`src/adls.rs`) | the parsed document: bytes, sources, their fields | parse, append and redirect | `SourceView`, `Layout`, `Adls` |
| Access and coordination (`src/access.rs`, `src/access/macos.rs`, `native/macos/coordinated_access.m`) | one access, its closure and its outcome | read, write | `Access`, `AccessPromise`; a refused access in `Engine` |
| Command line (`src/main.rs`), build script | none | argument parsing, printing | not modelled |

How they interact: the command line or the live driver calls `execute`. It reads
the document, parses every source node, sorts the fragments by path and reads
every target through the access policy; classifies and plans the selected ones;
prepares the whole new document in memory; then writes the extracted targets in
path order and the document last. Nothing is persisted besides the document and
the files, and nothing is locked. The live session has three threads: the driver,
the signal thread and the FSEvents delivery queue, which share one channel of
capacity one and one atomic flag.

Each read and write goes through the access policy; on macOS that means a closure
handed to an Objective-C bridge, which calls it from a block that NSFileCoordinator
runs, so control passes through three languages and may come back without the
closure having run. The document's bytes are a FlatBuffer of which zwirn knows only
the part that holds sources: a rewrite appends strings and redirects fields, and
must leave what it does not understand as it was.

What is hard: everything a command does after discovery acts on a snapshot;
several paths can resolve to one file; any access may fail and any write may be
cut short, by an error or by a kill; hashes are truncated and may collide;
creating a directory for one target can change what another path names;
embedded text is spliced into text with other line breaks and with marker lines,
and files may contain marker lines themselves; structures of the document may be
shared; and the live session drops prompts on purpose, so that neither a change
nor a shutdown may depend on a prompt having been delivered.

## What a correct component is

- Classification: exactly one row of the state table of `docs/design.md` applies
  and `classify` names it; `sync` is the union of the two directions and settles.
- Engine and commit: no edit is overwritten unless it is the text the baseline
  hash records, or the user forced it; hashes record agreement, never intention;
  a report and an exit status are true of the disk; an interrupted commit is
  healed by rerunning, and a torn document costs the document alone; what appears
  at an absent target is not written over; no alias is created.
- Paths: what a command wrote to a path is what the path reads, whatever links,
  hard links and names that differ in case there are; what it did not write keeps
  its text; what discovery has validated can be committed.
- ADLS: each source reads what it was last given, all other data is kept, no two
  structures share a byte unless they are one structure, what was built parses
  again, and the size limit is met exactly.
- Access: the caller learns whether its body ran; the body runs at most once, and
  as a whole under its claim, so that the access is atomic.
- Monitor: callbacks find their state, what was taken is given back, and the
  outcome names what failed.
- Marker text: what is read back is what was written, all other text is kept
  symbol for symbol, line breaks are all that canonicalization forgets, and a
  rerun finds nothing to do.
- Live: no change is forgotten, no shutdown is lost, at most one run begins late,
  callbacks end before their state is released, the diagnostics are current, and
  once nothing is edited or rewritten the session comes to rest.

## Modules

- **`Reconcile`** — `classify`, `plan`, `plan_one` as operators. A source stands
  for canonical text; `Hash` is any function, so collisions are included.
- **`Ledger`** — the abstract specification: one fragment, changed by the user
  between commands and during a command only by the decision of the state table
  on what the fragment is at that very moment. No snapshot, order or commit.
- **`Engine`** — one command on a volume. `document` maps each path to its
  fragment, or is `Invalid`; `entry` says which filesystem entry a path resolves
  to (aliases share one, `DocumentEntry` is the document); `file` is the content
  of each entry. `input` and `target` are the snapshot, `completed` the prefix
  that `commit.rs` reports. One action per access, in the order of the code; the
  pure work between the last read and the first write (selection, classification,
  planning, materialization) has no effect on the disk and is one step, with an
  action for each of its outcomes. `Refuse`, `TearTarget`, `TearDocument`,
  `Crash` and `Appear` are what may go wrong, switched on by `Faults`. `Crash` is a
  process that is killed; a write that the system has accepted and a loss of power
  then undoes is not modelled.
- **`EngineLedger`** — the refinement mapping from `Engine` to the `Ledger` of
  each path.
- **`Live`** — the session, one action per load, receive, send and native call.
  The engine is two steps: it reads the workspace, and later ends with a result
  and perhaps writes. Four history variables say what the program cannot:
  whether the workspace is `stale`, what the last read `found`, what was `shown`
  to the user, and how many runs began `late`.
- **`Session`** — what `Live` promises a user who knows of no threads: runs one at
  a time, each change read by one of them, one more run at most after a request.
  `Live` refines it with `Phase`, `stale`, `shutdown` and `status`.
- **`Monitor`** — the construction of one FSEvents monitor, step by step with the
  failure of each, and its destructor, beside a delivery queue on which batches
  may be as soon as the stream is being started. `cause` is a history variable:
  what failed. `Live` takes construction and release for one step each; a batch
  that comes before the construction has returned is, for the session, one that
  comes right after it, since nothing looks at the channel in between.
- **`AccessPromise`** — an access as the engine takes it: it opens, its body runs
  once as one atomic step or not at all, and the caller is told which.
- **`Access`** — the access as it is: `pc` walks through Rust, the bridge and the
  coordinator; `body` and `completion` are `BodyState`; `status` and `error` are
  what the bridge records. The body opens and then writes, and may end between.
  A peer that coordinates too uses the file. `calls`, `runs` and `found` are
  history. Under the refinement mapping (`Visible`) a write takes effect when its
  claim ends, which is what any participant can observe.
- **`Layout`** — regions and `Layout::add`, which looks at two neighbours only.
- **`SourceView`** — what `adls.rs` reads from the bytes of a document and every
  check on the way: `TableFits`, `FieldFits`, `StringFits`... for each parser
  function, and `Parses` for `Document::parse`.
- **`Adls`** — a document that Audulus saved, perhaps with one half-word damaged,
  and rewritten batch after batch. `promised` (what each source was last given)
  and `kept` (what a reader of everything found at first) are history.
- **`Volume`** — one commit on a directory tree: names, directories, files with
  identities, symbolic and hard links, and `Fold`, the names the volume stores.
  `Steps` resolves a path beneath the root, one component or link at a time, and
  `Walk` is where it ends; discovery applies the rules of `inventory.rs` to what it
  finds, and the commit makes parents, creates and
  replaces. It has in full what is the constant `entry` of `Engine`; failures, hashes
  and the document's text are `Engine`'s.
- **`Fragment`** — the text of a node as a sequence of symbols (`Symbol`): `CR`,
  `LF`, the byte-order mark, markers, hash tokens, and `Other`, any set of whatever
  else stands on a line; with `Canonicalize`, the physical
  lines, which texts parse (`Parses`), the fragments of one (`Fragments`), and the
  surgical `Rewrite`. `LineForm` in `Node` is what canonicalization promises.
- **`Node`** — commands on that text and its files. Discovery fails or keeps the
  fragments; the command classifies and plans them (`Reconcile`), rewrites the
  text, checks what it prepared, and writes, in one step: accesses, failures and
  order are `Engine`'s. The history variable `joined` says that a command joined
  two line breaks (see Findings).
- **`MCLedger`, `MCEngine`, `MCLive`, `MCMonitor`, `MCAccess`, `MCNode`, `MCAdls`,
  `MCVolume`** — the instances for TLC.
- **`LedgerProofs`, `EngineProofs`, `NodeProofs`, `VolumeProofs`, `LiveProofs`,
  `MonitorProofs`, `AccessProofs`, `AdlsProofs`** — the theorems. The two lemmas on
  `classify` and `plan_one` (`ClassifyRows`, `PlanOneRows`) stand in each of the first
  three, which use them and extend different modules.

Definitions marked `Mutant:` are deliberate mistakes, kept beside the definition
they damage. Each property has one; with the mistake in place the run that checks
the property fails, which shows that the property can fail.

### Abstractions

- Texts are members of a small set: the engine only compares, hashes and copies
  them. Line endings are canonical on both sides, as in `CanonicalSource`.
- A path is an integer and integer order is path order; parent directories and
  the spelling rules of paths are folded into the outcomes `Invalid`, `Malformed`
  and a refused access.
- The document changes as a whole. A cut-short document write leaves `Invalid`.
- While a command runs, other programs may only create absent entries.
  `docs/design.md:33-36` leaves commands unspecified under other interference
  ("Apart from races described explicitly below"), so edits happen between
  commands.
- `RejectPrepared` in `Engine` may refuse any changed document; which texts cause
  it is in `Node` (`Acceptable`).
- In `Node` a marker symbol stands for comment, indentation, marker token and
  path, and is a marker only at the start of a line. The two comment styles and
  blanks at the end of a marker line change no line, path or hash and are left
  out. There is one source node; the check for duplicate paths across nodes is
  the same check within one. Hashes are the texts themselves, because `Ledger`
  and `Engine` have the collisions. An edit by the user leads to a state that is
  initial too, so the initial states stand for edits.
- In `SourceView` and `Adls` a number of 65536 or more is the one value `Far`,
  which is beyond the end of every document; a byte of 128 or more makes a text
  invalid UTF-8 (no valid multi-byte text occurs). Running out of memory is left
  out.
- `OtherFields` in `Adls` lets a field extend to the next one, since the widths of
  fields that zwirn does not know are unknown: bytes of an unknown field that
  reach into `f10` from before it cannot be told from `f10`'s, here as in the
  code. `Holders` leaves out strings that lie across known structures.
- In `Access` the coordinator is external: readers share a file and a writer has
  it alone; it may refuse, call the accessor up to `MaxCalls` times with the path,
  another path or none, and throw. Access without a coordinator is the body alone.
- In `Volume` resolution beneath a root is `cap-std`'s, and external. The write
  of the document, failures of accesses and contents other than who wrote them
  are left out.
- In `Monitor` the checks of arguments that no caller violates and the flush that
  only tests call are left out.
- In `Live` the engine may end with any result and may have written or not,
  whatever it read. That a run of an unchanged workspace does not write again
  (`Rewrite`) is an assumption of `ComesToRest` alone, stated in the property: it
  holds after runs that settle (`Settles` in `Ledger`, `RerunIsQuiet` in `Node`)
  and need not hold while writes fail (see Observed). The signal thread may panic
  while it waits; the session learns of that when it joins the thread.

## Runs

| Run | Module, config | What it asks | Distinct states |
|---|---|---|---|
| `ledger` | `MCLedger`, `Ledger.cfg` | `MatchesDesignTable`, `Settles` | 1.5 thousand |
| `engine_command` | `MCEngine`, `EngineCommand.cfg` | `ExitZeroMeansSynchronized`, `ReportIsTrue`, `CreatesNoAlias`, `ImplementsLedger`, `CommandEnds` | 1.9 million |
| `engine_faults` | `MCEngine`, `EngineFaults.cfg` | `TypeOK`, `CommitIsOrderedPrefix`, `InterruptedCommitHeals`, `TornTargetIsNotEmbedded`, `TornDocumentIsRecoverable`, `NoLostEdit`, `BaselineRecordsAgreement`, `CreatesExclusively` | 3.4 million |
| `engine_probe` | `MCEngine`, `EngineProbe.cfg` | `CreatesNoAlias`, expected to fail | — |
| `volume` | `MCVolume`, `Volume.cfg` | `CreatesNoAlias`, `TargetsReadAsLeft`, `ValidatedCanBeCommitted` | 210 thousand |
| `volume_upward` | `MCVolume`, `VolumeUpward.cfg` | `CreatesNoAlias`, expected to fail | — |
| `live` | `MCLive`, `Live.cfg` | `NoChangeForgotten`, `NoLostShutdown`, `AtMostOneLateRun`, `DiagnosticsAreCurrent`, `ShutdownEnds`, `ComesToRest`, `KeepsPromise` | 73 thousand |
| `monitor` | `MCMonitor`, `Monitor.cfg` | `CallbacksHaveTheirState`, `NothingLeaks`, `OutcomeIsTrue` | 386 |
| `access` | `MCAccess`, `Access.cfg` | `ResultTellsWhetherTheBodyRan`, `BodyIsUndisturbed`, `ImplementsPromise` | 12 thousand |
| `node` | `MCNode`, `Node.cfg` | `CanonicalIsLineForm`, `RerunIsQuiet`, `FragmentsAreAsWritten`, `OtherTextIsPreserved` | 46 thousand |
| `node_join` | `MCNode`, `NodeJoin.cfg` | `ExitZeroMeansSynchronized`, expected to fail | — |
| `adls` | `MCAdls`, `Adls.cfg` | `ReadBack`, `OtherDataIsKept`, `LayoutIsDisjoint`, `ReparseAccepts`, `PlanIsExact` | 17 thousand |

Deadlock is checked in every run but `adls`: a document that does not parse has no
`Document`, and nothing can be done to it.

`CommandEnds` closes a circle: `Live` assumes that the engine ends what it begins.
That every change is read (the liveness of `Session`), that only a request or a
failure ends the session, and that at most one run begins late are all parts of
`KeepsPromise`; the last two are theorems by themselves too.

### Bounds

- `ledger`: three texts, two of which collide, and a hash `old` that no text has.
  Every row of the state table, the two collision rows included, is reached.
- `engine_*`: two paths and two entries, so that aliases, a document target and a
  commit of two outputs exist; a batch of three adds no new relation between two
  outputs. `engine_faults` has a collision among three texts and drops the hash
  nothing has; the other runs have two texts and the stale hash. Initial states
  are all disks, not just settled ones, and the volume is edited without bound.
  The entries are symmetric; `engine_command` checks liveness and uses no symmetry.
- `engine_command` leaves `refuse` out, which does to the disk what a kill does at
  the same place, and `appear`. An entry that appears through one of two
  absent aliases is, seen from the other fragment, a file that comes and is
  written in one command; the ledger of one fragment does not allow that.
- `volume`: the paths `A/f`, `a`, `a/f`, `b/f` and `z/f` on a volume that stores
  `A` as `a`, so that a path can be a directory of another, a case variant of it,
  or neither. Each name at the top is nothing, a file, a directory with or without
  `f`, or a link to any other; `f` may be a file that is shared, the document, or
  a link. Resolution gives up after 8 steps (`MaxSteps`) more than the path has
  names; in none of the trees does one that ends take more than 6 in all. `volume_upward` has the link `z/../b` instead.
- `live`: the channel has capacity one as in the code. Two reports and two
  failures make every blocker transition. The counter `late` needs no bound:
  `AtMostOneLateRun` holds it at one.
- `monitor`: two scopes that are equal or differ, and one path that has no
  representation; one batch at a time, since the queue is serial.
- `access`: two texts and a cut-short one; three calls of the accessor, so that
  one can come before and one after the call that runs the body.
- `adls`: a root, two source nodes and a node of another type, with shared and
  separate vtables and strings, vtables behind the tables, and a source that is
  absent; 166 bytes each, and a limit of 182 (`MaxSize`), which admits one or two
  appended strings before it is met. Each half-word is damaged in turn, with
  offsets that lead to other structures, other types, and nowhere. The batches
  replace one or two sources, repeat a handle, and come from another document.
- `node`: fragment 1 comes with each break after its opening line, each body of
  up to two symbols among text, `CR` and `LF` and each kind of awkward line
  (markers that close and reopen, that repeat or nest a path, that are damaged or
  stand inside a line, a byte-order mark), without a hash, with a stale and with a
  current one; fragment 2 follows it in one form, after a `CR`. Two breaks and two
  fragments are the most that an edit touches: a replacement meets the break before
  it and the closing marker after it, and the next fragment's positions shift.
- `node_join` has only the opening lines that end in a lone `CR`.

### Fairness

- `Engine`: weak fairness of the command's own steps. The code never waits for
  anything but an access, and an access returns.
- `Live`: weak fairness of the driver, the signal thread, and the delivery queue,
  each a thread of its own that the scheduler runs. FSEvents delivers what it has
  observed; the iterator of the signal crate returns when it has been closed,
  even while signals arrive (`EndSignals`). The engine ends what it begins, by
  `CommandEnds`. Nothing is assumed of users, signals or failures.
- `Session`: it promises fairness itself (a run begins when something is unread,
  reads and ends; a request leads to the end), which `KeepsPromise` derives from
  the fairness of `Live`.
- `Ledger`: the liveness property speaks of a user who reruns `sync`; strong
  fairness of starting it and of its effect, since `End` may come first any
  finite number of times.

## Proofs

TLAPS proves the following for every value of the constants under the
assumptions the modules name (hashes are any function from sources to digests;
sentinels differ from values; paths are integers; faults are any subset; line breaks,
markers and the byte-order mark are different symbols, `SymbolsAssumption`; the texts
a node and a file may begin with are texts of symbols whose canonical sources are
among `Source`, and so is a source without its empty first line, `TextsAssumption`).

- **Engine.** The safety properties are not inductive. `IInv` in `EngineProofs`
  strengthens them: the snapshot of each phase (`NothingKnown`,
  `TargetsAreDiscovered`), no two targets that were read as existing share an
  entry (`TargetsAreDistinct`) and they still exist (`TargetsStillExist`), what
  was read is still true except where an entry was created or the command has
  written it (`SnapshotIsFresh`), nothing is written before the plan
  (`PlanBeforeWrites`), what the command creates was absent (`CreatedIsNew`), the
  document is what was read or what was prepared (`DocumentIsKnown`), and
  `CommitIsOrderedPrefix` itself. Freshness and distinctness carry the argument:
  they say that the text which is overwritten is the text that was classified,
  which `NoLostEdit` and `BaselineRecordsAgreement` need, and which is what could
  go wrong when one output aliases another. The proof has one lemma for each kind
  of step (`StopKeeps`, `ReadTargetKeeps`, `CompletionKeeps`, `TearKeeps`,
  `DocumentKeeps`, `AppearKeeps`...).
- **Reports.** From the same invariant follows that exit status 0
  and the report are true of the disk, and that no alias is created if probes
  do not fail (`"probe" \notin Faults` is the theorem's hypothesis; the run
  `engine_probe` shows that it is needed).
- **Refinement.** `EngineImplementsLedger`: every step of a command is, for each
  fragment, a step of its `Ledger` or a stutter. Besides `IInv` it needs
  `AbsentApart` (no path that was read as absent shares an entry with one that was not)
  and the hypothesis that nothing else creates entries meanwhile
  (`"appear" \notin Faults`): otherwise an alias could read and replace what another
  program put at the entry that this path had read as absent, and this path's file
  would pass from one source to another within one command.
  `UnaliasedImplementsLedger` has no hypothesis: whatever appears, a fragment whose
  entry no other path names takes only steps of its ledger.
- **Ledger.** Type correctness, and the correspondence of `classify` with the
  table of the design for every hash function.
- **Live.** `IInv` in `LiveProofs` relates the threads' places (who may have set
  the flag, who has a prompt, which phases have a stream); all the safety
  properties follow, and so does `SessionKeepsPromise`: the steps of `Live` are
  steps of `Session`, because the status is `running` until the teardown, and
  after that only the join of a thread that panicked makes it a failure.
- **Monitor.** `IInv` in `MonitorProofs` says what is alive at each place of the
  constructor and destructor, and that a batch exists only between the start of
  the stream and the end of the drain; `scheduled`, not `started`, tells the
  destructor whether to drain.
- **Access.** `IInv` in `AccessProofs`: the closure is gone exactly when the body
  has run, the claims of the access and of the peer are compatible, and what a
  body under way found still stands. From it follow the safety properties and
  `AccessIsAtomic`, the refinement of `AccessPromise` with every peer and every
  number of calls.
- **ADLS.** All five properties, for ASCII documents of every shape, every damage
  and every sequence of batches, as long as the size limit is below `Far` (64 KiB).
  `NeighboursSuffice`: among regions that are apart, a new one clear of its two
  neighbours is clear of all; `AddKeepsApart` and an induction over the regions
  make the layout disjoint. The rewrite is an induction over the pool: appending a
  string and redirecting one field leaves every structure where it was, all other
  fields and strings as they were, and a document that parses (`DocumentInv`). That
  the regions are apart is what the argument rests on: a redirected field lies in
  one table only, and in no string and no vtable. The pool is a recursive function
  on numbers, which is shown to satisfy its equation; the induction takes the least
  counterexample (`UpTo`), as the library's induction rules cannot be instantiated.
- **Marker text.** The four properties of `node`, for texts and files of any length
  with any symbols, any number of fragments, and any sequence of commands. A text
  that is built symbol by symbol is a join of pieces, one for each symbol
  (`Joined`), so each argument is an induction over positions. Canonicalization:
  the pieces of the scan and those of `LineForm` agree up to each line
  (`ToLine`, `ToLineStep`), and at the end. Rewriting: `To(t, u, i)` is where the
  piece of symbol `i` ends and `Pos(t, u, i)` where the symbol itself is put; kept
  symbols stay in order (`OrderKept`), a line that begins with a marker still
  begins there, and what stands between two markers is the new source (`BodyIs`).
  An embedded source may contain marker lines, and the rewrite does not look: that
  none of them counts follows from the check of the prepared document
  (`NoMarkerInserted`). The old opening and the old closing marker are markers still,
  with the same path. In a text that parses each belongs to a fragment of that path,
  and with a marker between them these are two fragments, as when the source closes
  its fragment and opens it again: the check refuses two with one path. So the fragments
  correspond one to one and in order (`ReadBack`, `SameOrder`), and what is left
  of both texts without their sources and hashes is the same (`SkeletonKept`). The
  sources are exact because no line breaks are joined; but for
  that (`~joined`, see Findings) the properties hold of every text. The inductive invariant is
  `TypeOK`, that the inventory of a running command is that of the text
  (`InventoryIsCurrent`), and that every fragment and file has a source of which the
  hash is defined (`SourcesAreKnown`), also after a join: the digest of a text outside
  `Source` would be anything, and a rerun would not find what was recorded.
  `RerunStaysQuiet` then follows: what was acted on has equal
  sources and their hash, all other fragments and files are as classified before, and
  nothing that was written hinders the discovery that follows.
- **Volume.** All three properties, for trees of every size, with any links, names
  and paths. A walk is a recursive function on its steps. `WalkInGrown`: in a tree
  that grows, a walk that misses nothing stays as it is. `IInv` in `VolumeProofs`:
  targets that were there or were written (`Settled`) lead to files
  (`TargetsStand`), no two to the same one (`TargetsAreApart`), and each reads what
  was read or written there last (`TargetsRead`); so `TargetsReadAsLeft` holds
  whatever links do. `CommandCreatesNoAlias` has a hypothesis, that no link goes
  down and up again (`NoUpwardLinks`), which `volume_upward` shows to be needed:
  without such links, a walk that enters a new directory finds nothing
  (`NoFileByDirectories`), so no target that was absent is completed by the
  directories of another, and only the file that has just been created, with which
  `create_target` compares, can make it a file (`NoOtherFileByFile`).
  `PlainCommandsDoNotFail`: with neither links nor case variants a path leads to its
  own place (`PlainStatus`), no file is above a target that was read
  (`NoFileAbove`), and nothing but itself is created at a new one
  (`NewTargetsAreFree`), since no path is a directory of another.

Only model-checked: the liveness properties (`CommandEnds`, `ShutdownEnds`,
`ComesToRest`, `Settles`) and the fairness of `Session` in `KeepsPromise`, since the
prover does not reason about fairness. Every other property of a run that is
expected to pass is stated by a theorem.

## Findings

- **An ignored probe** (`src/source_root.rs:79`). `create_target` compares the
  identity of the file it created with every other target that was absent at
  discovery, and takes a probe that fails for a target that differs. So a
  command may complete normally with two fragment targets that are one file,
  while `docs/design.md:134` says that it does not; `docs/implementation.md:45`
  concedes that such a failure "is ignored".

- **Joined line breaks** (`src/fragment.rs:445`, run `node_join`). `rewrite`
  puts the replacement right after the opening line. A lone `CR` ends a physical
  line, so an opening line may end in one; if the file begins with an empty line,
  the `CR` and the `LF` of that empty line are one `CRLF` when the node is read
  back. The fragment then lacks the file's first line, but the hash recorded is
  the file's, and the check of the prepared document finds its markers in order.
  The command ends with status 0, of which `docs/design.md:346` says "Every
  selected fragment is synchronized after the command."; the next `sync` takes
  the shorter text for an edit and extracts it over the file. The other
  properties of `node` exempt states after such a join (`joined`) and hold
  everywhere else.

- **A late alias** (`src/source_root.rs:72`, `src/commit.rs:119`, run
  `volume_upward`). `create_target` compares the file it created with what the
  other absent targets resolve to at that moment, but the commit makes the parent
  directories of later targets afterwards. With `a` a link to `z/../b` and no `z`,
  the fragments `a/f`, `b/f` and `z/f` are all absent; `b/f` is created and
  compared with `a/f`, which resolves to nothing; the directory `z`, made for
  `z/f`, then completes the link, and `a/f` is the file `b/f`. The command
  completes normally with an alias, against `docs/design.md:134`;
  `docs/design.md:30` permits such links.

Observed, without a document that says otherwise:

- An explicit `extract` of a `missing` fragment that is cut short leaves a torn
  file beside an embedded source that still has its baseline hash. The state is
  `embed`, and the next `sync` embeds the truncated text. The forced extraction
  of a collision has the same effect. `TornTargetIsNotEmbedded` names both.
- A document write that is cut short (`src/commit.rs:252`) leaves a document
  that does not parse; nothing but the user's backup restores it.
  `TornDocumentIsRecoverable` says what is not lost with it: every text the
  command had chosen stands in its target.
- An edited file whose truncated hash equals the baseline counts as unchanged.
- A live session may chase a write that keeps failing (`src/commit.rs:244`). The
  truncation is an event, so another run follows; it tries again if what is left
  of the file still counts as the baseline's text, as when the file was empty and
  the disk is full. In general a cut-short target is a conflict and a cut-short
  document does not parse, and neither is tried again. `docs/design.md:265-266`
  only rules out retries on a timer. This is the case that `ComesToRest` leaves
  out by its assumption.

## Not modelled, and what is left

- The command line (`src/main.rs`) and the build script have no state: argument
  parsing, printing, and compiler flags.
- Marker text: the two comment styles, several source nodes of one document, and
  line numbers in errors. A duplicate path across nodes is the same check as one
  within a node, and each node is rewritten by itself.
- Proofs of liveness, which are out of the prover's reach, and of what the three
  failing runs show: there a counterexample is the result.
- `Volume` with failing accesses and a user who edits between commands; `Engine`
  has both, on entries.
