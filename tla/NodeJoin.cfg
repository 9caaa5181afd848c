SPECIFICATION Spec
CONSTANTS
    x = x
    Other = {x}
    CR = CR
    LF = LF
    BOM = BOM
    Damaged = Damaged
    Path = {1, 2}
    NoFile = NoFile
    NoHash = NoHash
    Source <- MCSource
    Digest <- MCSource
    Hash <- MCHash
    NodeTexts <- JoinTexts
    FileTexts <- MCFileTexts
INVARIANTS
    ExitZeroMeansSynchronized
