SPECIFICATION Spec
CONSTANTS
    x = x
    Other = {x}
    CR = CR
    LF = LF
    BOM = BOM
    Damaged = Damaged
    Path = {1, 2}
    NoFile = NoFile
    NoHash = NoHash
    Source <- MCSource
    Digest <- MCSource
    Hash <- MCHash
    NodeTexts <- MCNodeTexts
    FileTexts <- MCFileTexts
INVARIANTS
    CanonicalIsLineForm
    RerunIsQuiet
PROPERTIES
    FragmentsAreAsWritten
    OtherTextIsPreserved
