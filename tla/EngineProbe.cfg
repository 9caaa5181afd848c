SPECIFICATION Spec
CONSTANTS
    a = a
    b = b
    c = c
    ha = ha
    hb = hb
    old = old
    Source = {a, b}
    Digest = {ha, hb, old}
    Hash <- DistinctHash
    NoFile = NoFile
    NoHash = NoHash
    Path = {1, 2}
    Entry = {e1, e2}
    DocumentEntry = DocumentEntry
    Malformed = Malformed
    NoFragment = NoFragment
    Invalid = Invalid
    Unread = Unread
    NoCommand = NoCommand
    Faults = {"probe"}
SYMMETRY MCSymmetry
INVARIANTS
    CreatesNoAlias
