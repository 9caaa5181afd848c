SPECIFICATION Spec
CONSTANTS
    Text = {t1, t2}
    Cut = Cut
    MaxCalls = 3
INVARIANTS
    ResultTellsWhetherTheBodyRan
    BodyIsUndisturbed
PROPERTIES
    ImplementsPromise
