----------------------------- MODULE MCBaseCore -----------------------------
(* Finite instances of BaseCore for TLC.                                   *)
EXTENDS BaseCore, TLC

CONSTANTS w1, w2

MCWorkers == {w1, w2}

MCSymmetry == Permutations(Workers)
=============================================================================
