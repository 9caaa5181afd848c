SPECIFICATION FairSpec
CONSTANTS
    a = a
    b = b
    c = c
    ha = ha
    hb = hb
    old = old
    Source = {a, b}
    Digest = {ha, hb, old}
    Hash <- DistinctHash
    NoFile = NoFile
    NoHash = NoHash
    Path = {1, 2}
    Entry = {e1, e2}
    DocumentEntry = DocumentEntry
    Malformed = Malformed
    NoFragment = NoFragment
    Invalid = Invalid
    Unread = Unread
    NoCommand = NoCommand
    Faults = {"tear", "crash"}
INVARIANTS
    ExitZeroMeansSynchronized
    ReportIsTrue
    CreatesNoAlias
PROPERTIES
    ImplementsLedger
    CommandEnds
