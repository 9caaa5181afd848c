SPECIFICATION Spec
CONSTANTS
    Saved <- MCSaved
    Damage <- MCDamage
    Batches <- MCBatches
    MaxSize = 182
INVARIANTS
    ReadBack
    OtherDataIsKept
    LayoutIsDisjoint
    ReparseAccepts
    PlanIsExact
CHECK_DEADLOCK FALSE
