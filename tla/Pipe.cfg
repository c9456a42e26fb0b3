\* Two producers, a reader that may also put, and anybody who closes.
SPECIFICATION FairSpec
CONSTANTS
    Fiber = {f1, f2, f3}
    None = None
    Reader = f1
    Context = {"elsewhere", "read", "write"}
INVARIANTS
    SleepersHaveReason
    WokenFindsData
PROPERTY
    ImplementsChannel
