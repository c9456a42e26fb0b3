\* Two workers, two tasks and two pills; the workers look again before they pop.
SPECIFICATION FairSpec
CONSTANTS
    Fiber = {f1, f2}
    Task = {t1, t2}
    None = None
    Context = {"elsewhere", "queue"}
    Rechecks = TRUE
INVARIANTS
    NoEmptyPop
    PushReachesSleepers
PROPERTY
    PoolWindsUp
