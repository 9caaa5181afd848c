SPECIFICATION FairSpec
CONSTANTS
    s1 = s1
    s2 = s2
    f1 = f1
    f2 = f2
    States = {s1, s2}
    Failures = {f1, f2}
    NoBlocker = NoBlocker
    Faults = {"start", "diagnostic", "thread"}
INVARIANTS
    NoChangeForgotten
    NoLostShutdown
    AtMostOneLateRun
    DiagnosticsAreCurrent
PROPERTIES
    ShutdownEnds
    ComesToRest
    KeepsPromise
