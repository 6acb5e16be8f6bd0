SPECIFICATION Spec
CONSTANTS
    None = None
    Agent = {a1}
    Messages = {m1}
    Wants <- PlainWants
    MaxFailures = 1
INVARIANTS
    UnlockRemovesOverlay
