---------------------------- MODULE MCLoginGuard ----------------------------
(* Two requests at a time for one account from two addresses.              *)
EXTENDS LoginGuard, TLC

CONSTANTS w1, w2

MCWriters == {w1, w2}
MCSymmetry == Permutations(MCWriters)
=============================================================================
