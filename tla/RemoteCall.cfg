\* Two callers and a server.
SPECIFICATION CallFairSpec
CONSTANTS
    Fiber = {f1, f2, f3}
    None = None
    Reader = f1
    Context = {"elsewhere", "read", "write", f1, f2, f3}
INVARIANTS
    EventOutlivesClosure
    CallersAnswered
PROPERTY
    ImplementsService
