\* Two pairs and a list of one; two fibers.
SPECIFICATION FairSpec
CONSTANTS
    Fiber = {f1, f2}
    None = None
    Context = {"elsewhere"}
    Direct = {s1, s2}
    Dynamic = {s3}
    List = List
INVARIANTS
    AwaitersEndWithAwait
    SelectorsSleepOnAll
PROPERTY
    ReadySourceEndsAwait
