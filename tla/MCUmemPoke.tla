----------------------------- MODULE MCUmemPoke -----------------------------
(***************************************************************************)
(* UmemPoke with interchangeable tasks and writers.                        *)
(***************************************************************************)
EXTENDS UmemPoke, TLC

Symmetry == Permutations(Tasks) \cup Permutations(Writers)
=============================================================================
