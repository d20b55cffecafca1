---------------------------- MODULE MCHeldInput ----------------------------
(* Small instances of HeldInput for TLC. *)
EXTENDS HeldInput, TLC

CallerSymmetry == Permutations(Callers)
=============================================================================
