------------------------------ MODULE MCFibers ------------------------------
(***************************************************************************
Fibers for TLC: the addresses are small numbers, so that the order of the
std::sets is theirs; the root's is the smallest.
***************************************************************************)
EXTENDS Fibers

CONSTANT FiberCount

MCFiber == 0 .. FiberCount - 1
MCRoot == 0

=============================================================================
