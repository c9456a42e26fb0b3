\* One pair and a list of two.
SPECIFICATION Spec
CONSTANTS
    Fiber = {f1}
    None = None
    Context = {"elsewhere"}
    Direct = {s1}
    Dynamic = {s2, s3}
    List = List
INVARIANT
    AwaitersEndWithAwait
