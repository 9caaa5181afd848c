SPECIFICATION Spec
CONSTANTS
    a = a
    b = b
    c = c
    ha = ha
    hb = hb
    old = old
    Source = {a, b, c}
    Digest = {ha, hb}
    Hash <- CollidingHash
    NoFile = NoFile
    NoHash = NoHash
    Path = {1, 2}
    Entry = {e1, e2}
    DocumentEntry = DocumentEntry
    Malformed = Malformed
    NoFragment = NoFragment
    Invalid = Invalid
    Unread = Unread
    NoCommand = NoCommand
    Faults = {"refuse", "tear", "crash", "appear"}
SYMMETRY MCSymmetry
INVARIANTS
    TypeOK
    CommitIsOrderedPrefix
    InterruptedCommitHeals
    TornTargetIsNotEmbedded
    TornDocumentIsRecoverable
PROPERTIES
    NoLostEdit
    BaselineRecordsAgreement
    CreatesExclusively
