------------------------ MODULE MCCoexistenceGuard ------------------------
(* Small instances of CoexistenceGuard for TLC. *)
EXTENDS CoexistenceGuard, TLC

SessionSymmetry == Permutations(Sessions)
=============================================================================
