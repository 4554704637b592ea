---------------------------- MODULE MCDeltaFeed ----------------------------
(***************************************************************************)
(* An instance of DeltaFeed for TLC: one device, three nodes, pages of one *)
(* node, two restores.  The second may be of the copy of the first, and is *)
(* then pending.                                                           *)
(***************************************************************************)
EXTENDS DeltaFeed, TLC

\* Nothing is explored beyond a second restore where the secret was rotated or a
\* reset is in effect that the copy did not undo.  The first may meet both.
SecondRestoreAlone == epoch.restore > 2 => secret = 0 /\ epoch.reset = 1

Symmetric == Permutations(Nodes) \cup Permutations(Contents)
=============================================================================
