----------------------------- MODULE MCSyncPass -----------------------------
(* SyncPass on two paths and their conflict copies of two days.            *)
EXTENDS SyncPass, TLC
CONSTANTS a, b, aCopy, bCopy, aCopy2, bCopy2, x, y, z
MCPaths == {a, b, aCopy, bCopy, aCopy2, bCopy2}
MCCopyOf == [p \in MCPaths |->
    CASE p = a -> {aCopy, aCopy2} [] p = b -> {bCopy, bCopy2} [] OTHER -> {}]
MCContents == {x, y, z}
=============================================================================
