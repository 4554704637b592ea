--------------------------- MODULE MCBlobLifecycle ---------------------------
(* BlobLifecycle for TLC: two accounts that hold one content between them. *)
EXTENDS BlobLifecycle, TLC

CONSTANTS u1, u2, n1, n2

\* A node of each account.
OneNodeEach == n1 :> u1 @@ n2 :> u2
=============================================================================
