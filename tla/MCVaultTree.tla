---------------------------- MODULE MCVaultTree ----------------------------
(* VaultTree on small sets, for TLC. *)
EXTENDS VaultTree, TLC

CONSTANTS r, a, b, p, q, x, y, w1, w2

MCThree == {r, a, b}
MCNames == {x, y}
MCContents == {p, q}
MCWriters == {w1, w2}

Symmetric ==
  Permutations({a, b}) \cup Permutations(MCNames) \cup Permutations(MCContents)
    \cup Permutations(MCWriters)
=============================================================================
