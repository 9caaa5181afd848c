SPECIFICATION FairSpec
CONSTANTS
    a = a
    b = b
    c = c
    hab = hab
    hc = hc
    old = old
    Source = {a, b, c}
    Digest = {hab, hc, old}
    Hash <- CollidingHash
    NoFile = NoFile
    NoHash = NoHash
    Malformed = Malformed
    NoFragment = NoFragment
    NoCommand = NoCommand
INVARIANTS
    MatchesDesignTable
PROPERTIES
    Settles
