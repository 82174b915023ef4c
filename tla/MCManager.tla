----------------------------- MODULE MCManager ------------------------------
(* Three sessions are interchangeable where no liveness is checked.        *)
EXTENDS ConnectionManager, TLC

SessionSymmetry == Permutations(Sessions)
=============================================================================
