SPECIFICATION Spec
CONSTANTS
    Fold <- MCFold
    PathOrder <- PlainPathOrder
    Links <- UpwardLinks
    Leaves <- NoLeaves
    Trees <- MCTrees
    MaxSteps = 8
INVARIANTS
    CreatesNoAlias
