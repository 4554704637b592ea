----------------------------- MODULE MCSharing -----------------------------
(* Sharing on small sets, for TLC. *)
EXTENDS Sharing, TLC

CONSTANTS i, p, q, c1, c2

MCContents == {c1, c2}

\* The initiator has room for both contents and may come to have it for one; the
\* others store elsewhere all they have room for, until there is more of it.
MCQuota == [u \in {i, p, q} |-> IF u = i THEN 2 ELSE 0]
MCRooms == [u \in {i, p, q} |-> IF u = i THEN {1} ELSE {1, 2}]

\* What the passing runs keep out.
MCNoMishaps == {}

Symmetric == Permutations({p, q}) \cup Permutations(MCContents)
=============================================================================
