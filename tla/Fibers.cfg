SPECIFICATION FairSpec
CONSTANTS
    FiberCount = 3
    Fiber <- MCFiber
    Root <- MCRoot
    None = None
    Source = {s1}
    ChildDone = ChildDone
    Listed = {}
    Careless = FALSE
    Respawn = {"returned"}
INVARIANTS
    TypeOK
    QueueOK
    StackOK
    NoStrandedFiber
    NoLostWakeup
    TreeOK
    NoFailure
PROPERTIES
    ExceptionsDelivered
    ReadyRuns
    JoinReturns
