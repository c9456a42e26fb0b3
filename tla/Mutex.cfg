\* A fiber that holds the lock, two that wait for it and one that barges in.
SPECIFICATION FairSpec
CONSTANTS
    Fiber = {f1, f2, f3, f4}
    None = None
    Context = {"elsewhere"}
INVARIANTS
    Exclusion
    WaitersListed
    NoSleeperAtFreeLock
PROPERTY
    FreeLockTaken
