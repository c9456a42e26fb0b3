SPECIFICATION Spec
CONSTANTS
    FiberCount = 3
    Fiber <- MCFiber
    Root <- MCRoot
    None = None
    Source = {s1, s2}
    ChildDone = ChildDone
    Listed = {s2}
    Careless = TRUE
    Respawn = {"returned", "threw"}
INVARIANTS
    QueueOK
    StackOK
    OneRunner
    TreeOK
    RootLast
    DumpReachesAll
    BookkeepingHolds
PROPERTIES
    ImplementsTaskTree
\* An assertion that fails stops the program.
CHECK_DEADLOCK FALSE
