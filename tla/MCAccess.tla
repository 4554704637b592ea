------------------------------- MODULE MCAccess -------------------------------
(* Two installs of one account; the phrases are alike.                       *)
EXTENDS Access, TLC

CONSTANTS one, two, p1, p2

Symmetric == Permutations(Phrases)
=============================================================================
