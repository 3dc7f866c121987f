------------------------ MODULE MCEphemeralAllocator ------------------------
(***************************************************************************)
(* Small instances of the allocator for TLC.                               *)
(***************************************************************************)
EXTENDS EphemeralAllocator, TLC

ContextSymmetry == Permutations(Contexts)
=============================================================================
