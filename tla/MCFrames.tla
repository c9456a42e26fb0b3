------------------------------ MODULE MCFrames ------------------------------
(***************************************************************************)
(* Frames for TLC: frames of coroutines differ in nothing, nor do fibers,   *)
(* and what is checked is safety.                                           *)
(***************************************************************************)
EXTENDS Frames, TLC

Symmetry == Permutations(Frame) \cup Permutations(Fiber)

=============================================================================
