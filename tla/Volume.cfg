SPECIFICATION Spec
CONSTANTS
    Fold <- MCFold
    PathOrder <- MCPathOrder
    Links <- PlainLinks
    Leaves <- SomeLeaves
    Trees <- MCTrees
    MaxSteps = 8
INVARIANTS
    CreatesNoAlias
    TargetsReadAsLeft
    ValidatedCanBeCommitted
