\* Two fibers and memory for the frames of four coroutines.
SPECIFICATION Spec
CONSTANTS
    Fiber = {f1, f2}
    None = None
    Context = {"elsewhere"}
    Frame = {c1, c2, c3, c4}
SYMMETRY Symmetry
INVARIANTS
    DumpSeesLiveFrames
    FramesGoWithScope
    FrameHasOneFiber
PROPERTY
    ImplementsCallStack
