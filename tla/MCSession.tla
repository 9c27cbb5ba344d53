----------------------------- MODULE MCSession ------------------------------
(* Instances of Session for TLC. *)
EXTENDS Session, TLC

CONSTANTS p1, p2, p3

MCProcs == {p1, p2}
MCProcs3 == {p1, p2, p3}
MCSalts == {0, 1}
MCSymmetry == Permutations(MCProcs3)
=============================================================================
