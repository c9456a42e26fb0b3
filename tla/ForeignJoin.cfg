SPECIFICATION Spec
CONSTANTS
    FiberCount = 3
    Fiber <- MCFiber
    Root <- MCRoot
    None = None
    Source = {s1}
    ChildDone = ChildDone
    Listed = {}
    Careless = TRUE
    Respawn = {"returned"}
INVARIANT
    ForeignJoinFails
CHECK_DEADLOCK FALSE
