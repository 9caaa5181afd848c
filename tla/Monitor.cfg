SPECIFICATION Spec
CONSTANTS
    root = root
    documents = documents
    odd = odd
    Path = {root, documents, odd}
    Unrepresentable = {odd}
INVARIANTS
    CallbacksHaveTheirState
    NothingLeaks
    OutcomeIsTrue
