SPECIFICATION Spec
CONSTANTS
    FiberCount = 3
    Fiber <- MCFiber
    Root <- MCRoot
    None = None
    Source = {s1}
    ChildDone = ChildDone
    Listed = {}
    Careless = FALSE
    Respawn = {"returned", "threw"}
INVARIANT
    NoStrandedFiber
CHECK_DEADLOCK FALSE
