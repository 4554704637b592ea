------------------------------ MODULE MCAccounts ------------------------------
(* A console with two browsers; one who shares a folder and two who join.  *)
EXTENDS Accounts, TLC
CONSTANTS ann, bea, cy, b1, b2

MCSymmetry == Permutations({bea, cy}) \cup Permutations({b1, b2})
=============================================================================
