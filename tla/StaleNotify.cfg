\* One worker that pops whenever it was woken.
SPECIFICATION Spec
CONSTANTS
    Fiber = {f1}
    Task = {t1}
    None = None
    Context = {"elsewhere", "queue"}
    Rechecks = FALSE
INVARIANT
    NoEmptyPop
