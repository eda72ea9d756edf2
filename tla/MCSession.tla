------------------------------ MODULE MCSession ------------------------------
(* Model-checking instances of Session.                                      *)
EXTENDS SessionInvariant, TLC

CONSTANTS a, b

MCCallers == {a, b}
MCOneCaller == {a}
MCSymmetry == Permutations(MCCallers)
=============================================================================
