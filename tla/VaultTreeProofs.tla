--------------------------- MODULE VaultTreeProofs ---------------------------
(***************************************************************************)
(* The tree of one vault is a tree, for any number of connections, nodes   *)
(* and revisions: proofs about module VaultTree.                           *)
(***************************************************************************)
EXTENDS VaultTree, SequenceTheorems, TLAPS

\* What the requests in flight know of the root: it is never trashed, never a
\* file, and no request is about it.
RootInv ==
    /\ ~nodes[Root].deleted
    /\ ~nodes[Root].file
    /\ \A v \in versions : v.node # Root
    /\ \A w \in Writers :
        /\ tx[w].op \in {"create", "put", "delete", "move", "restore"} => tx[w].node # Root
        /\ tx[w].op = "purge" => Root \notin tx[w].doomed

TypeInv == TypeOK /\ RootInv

-----------------------------------------------------------------------------
(* Lemmas about the rows a write makes.                                     *)

\* A chain extended by a node is a chain of nodes.
LEMMA ChainUnderType ==
    ASSUME NEW rows, NEW p \in DOMAIN rows, rows[p] \in Row, p \in Nodes
    PROVE  ChainUnder(rows, p) \in Seq(Nodes)
BY DEF ChainUnder, Row

\* What stands below a node in a chain of nodes is a chain of nodes.
LEMMA BelowType ==
    ASSUME NEW chain \in Seq(Nodes), NEW n \in Range(chain)
    PROVE  Below(chain, n) \in Seq(Nodes)
<1> DEFINE at == CHOOSE i \in DOMAIN chain : chain[i] = n
<1>1. at \in DOMAIN chain
  BY DEF Range
<1>2. at + 1 \in 1..Len(chain) + 1 /\ Len(chain) \in Nat
  BY <1>1, LenProperties
<1>3. \A i \in at + 1..Len(chain) : chain[i] \in Nodes
  BY <1>2, ElementOfSeq
<1>4. SubSeq(chain, at + 1, Len(chain)) \in Seq(Nodes)
  BY <1>2, <1>3, SubSeqProperties
<1> QED
  BY <1>4 DEF Below

\* The rewrite of a subtree touches nothing but ancestry.
LEMMA RewriteType ==
    ASSUME NEW P, NEW rows \in [P -> Row], NEW n \in Nodes, NEW chain \in Seq(Nodes)
    PROVE  /\ RewriteSubtreeAncestry(rows, n, chain) \in [P -> Row]
           /\ \A m \in P :
                LET new == RewriteSubtreeAncestry(rows, n, chain)[m] IN
                /\ new.parent = rows[m].parent
                /\ new.name = rows[m].name
                /\ new.file = rows[m].file
                /\ new.sha = rows[m].sha
                /\ new.rev = rows[m].rev
                /\ new.deleted = rows[m].deleted
                /\ n \notin Range(rows[m].ancestry) => new = rows[m]
<1> DEFINE new == RewriteSubtreeAncestry(rows, n, chain)
<1> SUFFICES ASSUME NEW m \in P
             PROVE  /\ new[m] \in Row
                    /\ new[m].parent = rows[m].parent
                    /\ new[m].name = rows[m].name
                    /\ new[m].file = rows[m].file
                    /\ new[m].sha = rows[m].sha
                    /\ new[m].rev = rows[m].rev
                    /\ new[m].deleted = rows[m].deleted
                    /\ n \notin Range(rows[m].ancestry) => new[m] = rows[m]
  BY DEF RewriteSubtreeAncestry
<1>1. CASE n \in Range(rows[m].ancestry)
  <2>1. Below(rows[m].ancestry, n) \in Seq(Nodes)
    BY <1>1, BelowType DEF Row
  <2>2. Append(chain, n) \o Below(rows[m].ancestry, n) \in Seq(Nodes)
    BY <2>1
  <2>3. new[m] = [rows[m] EXCEPT !.ancestry =
                      Append(chain, n) \o Below(rows[m].ancestry, n)]
    BY <1>1 DEF RewriteSubtreeAncestry
  <2> QED
    BY <1>1, <2>2, <2>3 DEF Row
<1>2. CASE n \notin Range(rows[m].ancestry)
  BY <1>2 DEF RewriteSubtreeAncestry
<1> QED
  BY <1>1, <1>2

\* What every constructor of rows keeps: rows are rows, the root stays, it
\* stays a live folder, and it alone has no parent.
RowsKept(new) ==
    /\ new \in [DOMAIN new -> Row]
    /\ Root \in DOMAIN new
    /\ ~new[Root].deleted /\ ~new[Root].file
    /\ \A n \in DOMAIN new : new[n].parent = None <=> n = Root

\* The tree createNode leaves is a tree of well-formed rows.
LEMMA CreatedType ==
    ASSUME TypeInv, NEW w \in Writers, tx[w].op = "create"
    PROVE  RowsKept(Created(tx[w])) /\ DOMAIN Created(tx[w]) = Present \cup {tx[w].node}
<1> DEFINE t == tx[w]
<1>1. t \in [op : {"create"}, node : Nodes, parent : Nodes, name : Names,
             sha : Contents \cup {None}, chain : Seq(Nodes)]
  BY DEF TypeInv, TypeOK, Txs, Idle
<1>2. t.parent # None /\ t.node # Root
  BY <1>1, ConstantsAssumption DEF TypeInv, RootInv
<1>3. [parent |-> t.parent, name |-> t.name, file |-> t.sha # None,
       sha |-> t.sha, rev |-> head + 1, deleted |-> FALSE,
       ancestry |-> t.chain] \in Row
  BY <1>1 DEF Row, TypeInv, TypeOK
<1> QED
  BY <1>1, <1>2, <1>3 DEF TypeInv, TypeOK, RootInv, RowsKept, Created, Present

\* So is the one putContent leaves: one row has new content and revision.
LEMMA PutType ==
    ASSUME TypeInv, NEW w \in Writers, tx[w].op = "put"
    PROVE  RowsKept(Put(tx[w])) /\ DOMAIN Put(tx[w]) = Present
<1> DEFINE t == tx[w]
<1>1. t \in [op : {"put"}, node : Nodes, base : Contents, sha : Contents]
  BY DEF TypeInv, TypeOK, Txs, Idle
<1>2. nodes \in [Present -> Row] /\ head + 1 \in Nat /\ t.sha \in Contents \cup {None}
  BY <1>1 DEF TypeInv, TypeOK
<1>3. /\ Put(t) \in [Present -> Row]
      /\ \A n \in Present : Put(t)[n].parent = nodes[n].parent
  BY <1>2, ZenonT(60) DEF Put, Row
<1>4. Put(t)[Root] = nodes[Root]
  BY <1>1, <1>2 DEF Put, TypeInv, TypeOK, RootInv
<1> QED
  BY <1>3, <1>4 DEF TypeInv, TypeOK, RootInv, RowsKept

\* So is the one deleteNode leaves: rows of a subtree get deleted_at.
LEMMA DeletedType ==
    ASSUME TypeInv, NEW w \in Writers, tx[w].op = "delete"
    PROVE  RowsKept(Deleted(tx[w])) /\ DOMAIN Deleted(tx[w]) = Present
<1>1. nodes \in [Present -> Row] /\ head + 1 \in Nat
  BY DEF TypeInv, TypeOK
<1>2. /\ Deleted(tx[w]) \in [Present -> Row]
      /\ \A n \in Present : Deleted(tx[w])[n].parent = nodes[n].parent
  <2> SUFFICES ASSUME NEW n \in Present
               PROVE  /\ Deleted(tx[w])[n] \in Row
                      /\ Deleted(tx[w])[n].parent = nodes[n].parent
    BY <1>1 DEF Deleted
  <2>1. nodes[n] \in Row
    BY <1>1
  <2>2. Deleted(tx[w])[n] = IF n = tx[w].node
                            THEN [nodes[n] EXCEPT !.deleted = TRUE, !.rev = head + 1]
                            ELSE nodes[n]
    BY <1>1 DEF Deleted
  <2>3. PICK row : row = [nodes[n] EXCEPT !.deleted = TRUE, !.rev = head + 1]
    OBVIOUS
  <2>4. row \in Row /\ row.parent = nodes[n].parent
    BY <1>1, <2>1, <2>3 DEF Row
  <2> QED
    BY <2>1, <2>2, <2>3, <2>4
<1>3. Deleted(tx[w])[Root] = nodes[Root]
  BY <1>1 DEF Deleted, TypeInv, TypeOK, RootInv
<1> QED
  BY <1>2, <1>3 DEF TypeInv, TypeOK, RootInv, RowsKept

\* So is the one moveNode leaves: a subtree gets new ancestries.
LEMMA MovedType ==
    ASSUME TypeInv, NEW w \in Writers, tx[w].op = "move"
    PROVE  RowsKept(Moved(tx[w])) /\ DOMAIN Moved(tx[w]) = Present
<1> DEFINE t == tx[w]
           rows == [nodes EXCEPT ![t.node] = [@ EXCEPT !.parent = t.parent, !.name = t.name,
                                            !.rev = head + 1, !.ancestry = t.chain]]
<1>1. t \in [op : {"move"}, node : Nodes, parent : Nodes, name : Names, rev : Nat,
             chain : Seq(Nodes)]
  BY DEF TypeInv, TypeOK, Txs, Idle
<1>2. t.parent # None /\ t.node # Root
  BY <1>1, ConstantsAssumption DEF TypeInv, RootInv
<1>0. nodes \in [Present -> Row] /\ head + 1 \in Nat
  BY DEF TypeInv, TypeOK
<1>3. /\ rows \in [Present -> Row]
      /\ \A n \in Present : rows[n].parent = IF n = t.node THEN t.parent
                                                             ELSE nodes[n].parent
  <2> SUFFICES ASSUME NEW n \in Present
               PROVE  /\ rows[n] \in Row
                      /\ rows[n].parent = IF n = t.node THEN t.parent ELSE nodes[n].parent
    BY <1>0
  <2>1. nodes[n] \in Row
    BY <1>0
  <2>2. rows[n] = IF n = t.node
                  THEN [nodes[n] EXCEPT !.parent = t.parent, !.name = t.name,
                                        !.rev = head + 1, !.ancestry = t.chain]
                  ELSE nodes[n]
    BY <1>0
  <2> QED
    BY <1>1, <1>0, <2>1, <2>2 DEF Row
<1>4. \A n \in Present : rows[n].parent = None <=> n = Root
  BY <1>2, <1>3 DEF TypeInv, TypeOK
<1>7. rows[Root] = nodes[Root]
  BY <1>0, <1>2 DEF TypeInv, TypeOK
<1>5. Moved(t) = RewriteSubtreeAncestry(rows, t.node, t.chain)
  BY DEF Moved
<1> HIDE DEF rows
<1>6. /\ RewriteSubtreeAncestry(rows, t.node, t.chain) \in [Present -> Row]
      /\ \A m \in Present :
            LET new == RewriteSubtreeAncestry(rows, t.node, t.chain)[m] IN
            /\ new.parent = rows[m].parent
            /\ new.deleted = rows[m].deleted
            /\ new.file = rows[m].file
  BY <1>1, <1>3, RewriteType
<1> QED
  BY <1>4, <1>5, <1>6, <1>7 DEF RowsKept, TypeInv, TypeOK, RootInv

\* So is the one restoreNode leaves: the chain of a node is lifted.
LEMMA RestoredType ==
    ASSUME TypeInv, NEW w \in Writers, tx[w].op = "restore"
    PROVE  RowsKept(Restored(tx[w])) /\ DOMAIN Restored(tx[w]) = Present
<1> DEFINE t == tx[w]
<1>1. t \in [op : {"restore"}, node : Nodes, rev : Nat, sha : Contents \cup {None},
             lift : Seq(Nodes)]
  BY DEF TypeInv, TypeOK, Txs, Idle
<1>2. Len(t.lift) \in Nat /\ head \in Nat /\ DOMAIN t.lift = 1..Len(t.lift)
  BY <1>1, LenProperties DEF TypeInv, TypeOK
<1>3. ASSUME NEW n \in Range(t.lift)
      PROVE  head + (CHOOSE i \in DOMAIN t.lift : t.lift[i] = n) \in Nat
  <2>1. \E i \in DOMAIN t.lift : t.lift[i] = n
    BY <1>3 DEF Range
  <2>2. (CHOOSE i \in DOMAIN t.lift : t.lift[i] = n) \in 1..Len(t.lift)
    BY <2>1, <1>2
  <2> QED
    BY <2>2, <1>2
<1>4. \A n \in Present : Restored(t)[n] \in Row /\ Restored(t)[n].parent = nodes[n].parent
  <2> SUFFICES ASSUME NEW n \in Present
               PROVE  Restored(t)[n] \in Row /\ Restored(t)[n].parent = nodes[n].parent
    OBVIOUS
  <2>1. nodes[n] \in Row
    BY DEF TypeInv, TypeOK
  <2>2. CASE n = t.node
    <3>1. Restored(t)[n] = [nodes[n] EXCEPT !.deleted = FALSE, !.sha = t.sha,
                                            !.rev = head + Len(t.lift) + 1]
      BY <2>2 DEF Restored
    <3>2. head + Len(t.lift) + 1 \in Nat /\ t.sha \in Contents \cup {None}
      BY <1>1, <1>2
    <3> QED
      BY <2>1, <3>1, <3>2 DEF Row
  <2>3. CASE n # t.node /\ n \in Range(t.lift)
    BY <1>3, <2>1, <2>3 DEF Restored, Row
  <2>4. CASE n # t.node /\ n \notin Range(t.lift)
    BY <2>1, <2>4 DEF Restored
  <2> QED
    BY <2>2, <2>3, <2>4
<1>5. DOMAIN Restored(t) = Present
  BY DEF Restored
<1>6. Restored(t) \in [Present -> Row]
  BY <1>4, <1>5 DEF Restored
<1>7. Root # t.node
  BY DEF TypeInv, RootInv
<1>8. ~Restored(t)[Root].deleted /\ ~Restored(t)[Root].file
  BY <1>7 DEF Restored, TypeInv, TypeOK, RootInv, Row
<1> QED
  BY <1>4, <1>5, <1>6, <1>8 DEF RowsKept, TypeInv, TypeOK

\* So is the one a purge leaves: some rows are absent.
LEMMA WithoutType ==
    ASSUME TypeInv, NEW gone, Root \notin gone
    PROVE  RowsKept(Without(gone)) /\ DOMAIN Without(gone) = Present \ gone
BY DEF TypeInv, TypeOK, RootInv, RowsKept, Without, Present

-----------------------------------------------------------------------------
(* Type correctness.                                                        *)

\* A request that begins carries values of the right kinds, and none is about
\* the root.
LEMMA StartKeepsTypes ==
    ASSUME TypeInv, NEW w \in Writers, NEW t \in Txs, Start(w, t),
           t.op \in {"create", "put", "delete", "move", "restore"} => t.node # Root,
           t.op = "purge" => Root \notin t.doomed
    PROVE  TypeInv'
BY DEF TypeInv, TypeOK, RootInv, Start, Present

\* A request that ends leaves rows, journal and history of the right kinds.
LEMMA EndKeepsTypes ==
    ASSUME TypeInv, NEW w \in Writers, tx' = [tx EXCEPT ![w] = Idle],
           RowsKept(nodes'), DOMAIN nodes' \subseteq Nodes,
           head' \in Nat, resetEpoch' \in Nat, frozen' = frozen,
           journal' \subseteq [rev : Nat, node : Nodes, op : {"put", "del", "move"}],
           versions' \subseteq [node : Nodes, rev : Nat, sha : Contents \cup {None}],
           \A v \in versions' : v.node # Root
    PROVE  TypeInv'
<1>1. Idle \in Txs /\ Idle.op = "idle"
  BY DEF Txs, Idle
<1>2. tx' \in [Writers -> Txs]
  BY <1>1 DEF TypeInv, TypeOK
<1>3. \A u \in Writers : tx'[u] = tx[u] \/ tx'[u].op = "idle"
  BY <1>1 DEF TypeInv, TypeOK
<1>4. RootInv'
  BY <1>3 DEF RootInv, RowsKept, TypeInv
<1> QED
  BY <1>2, <1>4 DEF TypeInv, TypeOK, RowsKept, Present

\* A request that reads its rows changes no row and records a well-formed
\* request.
LEMMA BeginKeepsTypes ==
    ASSUME TypeInv, NEW w \in Writers, Begin(w)
    PROVE  TypeInv'
<1>0. nodes \in [Present -> Row] /\ Present \subseteq Nodes
  BY DEF TypeInv, TypeOK
<1>1. ASSUME NEW n \in Nodes, NEW p \in Nodes, NEW name \in Names,
             NEW sha \in Contents \cup {None}, BeginCreate(w, n, p, name, sha)
      PROVE  TypeInv'
  <2> DEFINE t == [op |-> "create", node |-> n, parent |-> p, name |-> name,
                   sha |-> sha, chain |-> ChainUnder(nodes, p)]
  <2>1. ChainUnder(nodes, p) \in Seq(Nodes)
    BY <1>0, <1>1, ChainUnderType DEF BeginCreate, IsLive, Present
  <2>2. t \in Txs
    BY <2>1 DEF Txs
  <2>3. n # Root
    BY <1>1 DEF BeginCreate, FreshId, TypeInv, TypeOK
  <2> QED
    BY <1>1, <2>2, <2>3, StartKeepsTypes DEF BeginCreate
<1>2. ASSUME NEW n \in Nodes, NEW base \in Contents, NEW sha \in Contents,
             BeginPut(w, n, base, sha)
      PROVE  TypeInv'
  <2> DEFINE t == [op |-> "put", node |-> n, base |-> base, sha |-> sha]
  <2>1. t \in Txs
    BY DEF Txs
  <2>2. n # Root
    BY <1>2 DEF BeginPut, TypeInv, RootInv
  <2> QED
    BY <1>2, <2>1, <2>2, StartKeepsTypes DEF BeginPut
<1>3. ASSUME NEW n \in Present, BeginDelete(w, n, nodes[n].rev)
      PROVE  TypeInv'
  <2> DEFINE t == [op |-> "delete", node |-> n, rev |-> nodes[n].rev]
  <2>1. t \in Txs
    BY <1>0 DEF Txs, Row
  <2> QED
    BY <1>3, <2>1, StartKeepsTypes DEF BeginDelete
<1>4. ASSUME NEW n \in Present, NEW p \in Nodes, NEW name \in Names,
             BeginMove(w, n, p, name, nodes[n].rev)
      PROVE  TypeInv'
  <2> DEFINE t == [op |-> "move", node |-> n, parent |-> p, name |-> name,
                   rev |-> nodes[n].rev, chain |-> ChainUnder(nodes, p)]
  <2>1. ChainUnder(nodes, p) \in Seq(Nodes)
    BY <1>0, <1>4, ChainUnderType DEF BeginMove, IsLive, Present
  <2>2. t \in Txs
    BY <1>0, <2>1 DEF Txs, Row
  <2> QED
    BY <1>4, <2>2, StartKeepsTypes DEF BeginMove
<1>5. ASSUME NEW v \in versions, NEW k \in 0..Len(nodes[v.node].ancestry),
             NEW lift \in [1..k -> Range(nodes[v.node].ancestry)],
             BeginRestore(w, v.node, v, lift)
      PROVE  TypeInv'
  <2> DEFINE t == [op |-> "restore", node |-> v.node, rev |-> v.rev,
                   sha |-> v.sha, lift |-> lift]
  <2>1. nodes[v.node].ancestry \in Seq(Nodes)
    BY <1>0, <1>5 DEF BeginRestore, Row
  <2>2. Range(nodes[v.node].ancestry) \subseteq Nodes
    BY <2>1, ElementOfSeq DEF Range
  <2>3. k \in Nat
    BY <2>1, LenProperties
  <2>4. lift \in Seq(Nodes)
    BY <2>2, <2>3, IsASeq
  <2>5. v \in [node : Nodes, rev : Nat, sha : Contents \cup {None}]
    BY DEF TypeInv, TypeOK
  <2>6. t \in Txs
    BY <2>4, <2>5 DEF Txs
  <2>7. v.node # Root
    BY DEF TypeInv, RootInv
  <2> QED
    BY <1>5, <2>6, <2>7, StartKeepsTypes DEF BeginRestore
<1>6. ASSUME NEW target \in Nodes \cup {None}, BeginPurge(w, target)
      PROVE  TypeInv'
  <2> DEFINE t == [op |-> "purge", doomed |-> Doomed(target)]
  <2>1. t \in Txs
    BY <1>0 DEF Txs, Doomed
  <2>2. Root \notin Doomed(target)
    BY DEF Doomed, TypeInv, RootInv
  <2> QED
    BY <1>6, <2>1, <2>2, StartKeepsTypes DEF BeginPurge
<1>7. ASSUME BeginReset(w)
      PROVE  TypeInv'
  <2>1. [op |-> "reset"] \in Txs
    BY DEF Txs
  <2> QED
    BY <1>7, <2>1, StartKeepsTypes DEF BeginReset
<1> QED
  BY <1>1, <1>2, <1>3, <1>4, <1>5, <1>6, <1>7 DEF Begin

\* The write of a request, or its refusal, keeps rows and counters well-formed.
LEMMA FinishKeepsTypes ==
    ASSUME TypeInv, NEW w \in Writers, Finish(w)
    PROVE  TypeInv'
<1> DEFINE t == tx[w]
<1>0. /\ head \in Nat /\ head + 1 \in Nat /\ resetEpoch \in Nat /\ resetEpoch + 1 \in Nat
      /\ Present \subseteq Nodes
      /\ journal \subseteq [rev : Nat, node : Nodes, op : {"put", "del", "move"}]
      /\ versions \subseteq [node : Nodes, rev : Nat, sha : Contents \cup {None}]
      /\ \A v \in versions : v.node # Root
  BY DEF TypeInv, TypeOK, RootInv
<1>1. CASE CommitCreate(w)
  <2>1. t \in [op : {"create"}, node : Nodes, parent : Nodes, name : Names,
               sha : Contents \cup {None}, chain : Seq(Nodes)]
    BY <1>1 DEF CommitCreate, Commits, TypeInv, TypeOK, Txs, Idle
  <2>2. RowsKept(nodes') /\ DOMAIN nodes' = Present \cup {t.node}
    BY <1>1, CreatedType DEF CommitCreate, Commits
  <2>3. t.node # Root
    BY <2>1 DEF TypeInv, RootInv
  <2>4. journal' \subseteq [rev : Nat, node : Nodes, op : {"put", "del", "move"}]
    BY <1>0, <1>1, <2>1 DEF CommitCreate, Entry
  <2>5. /\ versions' \subseteq [node : Nodes, rev : Nat, sha : Contents \cup {None}]
        /\ \A v \in versions' : v.node # Root
    BY <1>0, <1>1, <2>1, <2>3 DEF CommitCreate, Version
  <2> QED
    BY <1>0, <1>1, <2>1, <2>2, <2>4, <2>5, EndKeepsTypes DEF CommitCreate, Commits
<1>2. CASE CommitPut(w)
  <2>1. t \in [op : {"put"}, node : Nodes, base : Contents, sha : Contents]
    BY <1>2 DEF CommitPut, Commits, TypeInv, TypeOK, Txs, Idle
  <2>2. RowsKept(nodes') /\ DOMAIN nodes' = Present
    BY <1>2, PutType DEF CommitPut, Commits
  <2>3. t.node # Root
    BY <2>1 DEF TypeInv, RootInv
  <2>4. journal' \subseteq [rev : Nat, node : Nodes, op : {"put", "del", "move"}]
    BY <1>0, <1>2, <2>1 DEF CommitPut, Entry
  <2>5. /\ versions' \subseteq [node : Nodes, rev : Nat, sha : Contents \cup {None}]
        /\ \A v \in versions' : v.node # Root
    BY <1>0, <1>2, <2>1, <2>3 DEF CommitPut, Version
  <2> QED
    BY <1>0, <1>2, <2>2, <2>4, <2>5, EndKeepsTypes DEF CommitPut, Commits
<1>3. CASE CommitDelete(w)
  <2>1. t.node \in Nodes
    BY <1>3 DEF CommitDelete, Commits, TypeInv, TypeOK, Txs, Idle
  <2>2. RowsKept(nodes') /\ DOMAIN nodes' = Present
    BY <1>3, DeletedType DEF CommitDelete, Commits
  <2>3. journal' \subseteq [rev : Nat, node : Nodes, op : {"put", "del", "move"}]
    BY <1>0, <1>3, <2>1 DEF CommitDelete, Entry
  <2> QED
    BY <1>0, <1>3, <2>2, <2>3, EndKeepsTypes DEF CommitDelete, Commits
<1>4. CASE CommitMove(w)
  <2>1. t.node \in Nodes
    BY <1>4 DEF CommitMove, Commits, TypeInv, TypeOK, Txs, Idle
  <2>2. RowsKept(nodes') /\ DOMAIN nodes' = Present
    BY <1>4, MovedType DEF CommitMove, Commits
  <2>3. journal' \subseteq [rev : Nat, node : Nodes, op : {"put", "del", "move"}]
    BY <1>0, <1>4, <2>1 DEF CommitMove, Entry
  <2> QED
    BY <1>0, <1>4, <2>2, <2>3, EndKeepsTypes DEF CommitMove, Commits
<1>5. CASE CommitRestore(w)
  <2>1. t \in [op : {"restore"}, node : Nodes, rev : Nat, sha : Contents \cup {None},
               lift : Seq(Nodes)]
    BY <1>5 DEF CommitRestore, Commits, TypeInv, TypeOK, Txs, Idle
  <2>2. RowsKept(nodes') /\ DOMAIN nodes' = Present
    BY <1>5, RestoredType DEF CommitRestore, Commits
  <2>3. t.node # Root
    BY <2>1 DEF TypeInv, RootInv
  <2>4. Len(t.lift) \in Nat /\ DOMAIN t.lift = 1..Len(t.lift)
    BY <2>1, LenProperties
  <2>5. head + Len(t.lift) + 1 \in Nat
    BY <1>0, <2>4
  <2>6. \A i \in DOMAIN t.lift : head + i \in Nat /\ t.lift[i] \in Nodes
    BY <1>0, <2>1, <2>4, ElementOfSeq
  <2>7. journal' \subseteq [rev : Nat, node : Nodes, op : {"put", "del", "move"}]
    BY <1>0, <1>5, <2>1, <2>5, <2>6 DEF CommitRestore, Entry
  <2>8. /\ versions' \subseteq [node : Nodes, rev : Nat, sha : Contents \cup {None}]
        /\ \A v \in versions' : v.node # Root
    BY <1>0, <1>5, <2>1, <2>3, <2>5 DEF CommitRestore, Version
  <2> QED
    BY <1>0, <1>5, <2>2, <2>5, <2>7, <2>8, EndKeepsTypes DEF CommitRestore, Commits
<1>6. CASE CommitPurge(w)
  <2>1. Root \notin t.doomed
    BY <1>6 DEF CommitPurge, Commits, TypeInv, RootInv
  <2>2. RowsKept(nodes') /\ DOMAIN nodes' = Present \ t.doomed
    BY <1>6, <2>1, WithoutType DEF CommitPurge
  <2> QED
    BY <1>0, <1>6, <2>2, EndKeepsTypes DEF CommitPurge, Commits, VersionsWithout
<1>7. CASE CommitReset(w)
  <2>1. RowsKept(nodes') /\ DOMAIN nodes' = Present \ (Present \ {Root})
    BY <1>7, WithoutType DEF CommitReset
  <2> QED
    BY <1>0, <1>7, <2>1, EndKeepsTypes DEF CommitReset, Commits, VersionsWithout
<1>8. CASE Refuse(w) \/ DeadlockAbort(w)
  <2>1. /\ tx' = [tx EXCEPT ![w] = Idle]
        /\ UNCHANGED <<nodes, head, journal, versions, resetEpoch, frozen>>
    BY <1>8 DEF Refuse, DeadlockAbort, Rollback
  <2>2. RowsKept(nodes)
    BY DEF TypeInv, TypeOK, RootInv, RowsKept, Present
  <2> QED
    BY <1>0, <2>1, <2>2, EndKeepsTypes DEF Present
<1> QED
  BY <1>1, <1>2, <1>3, <1>4, <1>5, <1>6, <1>7, <1>8 DEF Finish

\* A new vault, which is its root, is well-formed.
LEMMA InitTypes == Init => TypeInv
<1> SUFFICES ASSUME Init PROVE TypeInv
  OBVIOUS
<1>1. Idle \in Txs /\ Idle.op = "idle"
  BY DEF Txs, Idle
<1>2. nodes \in [Present -> Row] /\ Present = {Root}
  BY DEF Init, Present, Row
<1> QED
  BY <1>1, <1>2, ConstantsAssumption DEF Init, TypeInv, TypeOK, RootInv

\* Every request, walk and step of time keeps the rows well-formed.
LEMMA NextKeepsTypes == TypeInv /\ [Next]_vars => TypeInv'
<1> SUFFICES ASSUME TypeInv, [Next]_vars PROVE TypeInv'
  OBVIOUS
<1>1. CASE \E w \in Writers : Begin(w) \/ Finish(w)
  BY <1>1, BeginKeepsTypes, FinishKeepsTypes
<1>2. CASE SettleFreeze
  BY <1>2 DEF SettleFreeze, TypeInv, TypeOK, RootInv, Present
<1>3. CASE UNCHANGED vars
  BY <1>3 DEF vars, TypeInv, TypeOK, RootInv, Present
<1> QED
  BY <1>1, <1>2, <1>3 DEF Next

\* The state keeps its shape, and the vault its one root, whatever requests
\* interleave.
THEOREM TypeCorrect == Spec => []TypeOK
<1>1. TypeInv => TypeOK
  BY DEF TypeInv
<1> QED
  BY <1>1, InitTypes, NextKeepsTypes, PTL DEF Spec

-----------------------------------------------------------------------------
(* The tree.                                                                *)

Chains(rows) == ParentsHold(rows) /\ ChainsHold(rows, DOMAIN rows)

Lives(rows) ==
    \A n \in DOMAIN rows \ {Root} : ~rows[n].deleted =>
        rows[n].parent \in DOMAIN rows /\ ~rows[rows[n].parent].deleted

\* The id of a node to be created belongs to no row and to no other request.
FreshInv ==
    \A w \in Writers : tx[w].op = "create" =>
        /\ tx[w].node \notin Present
        /\ \A u \in Writers \ {w} : tx[u].op = "create" => tx[u].node # tx[w].node

\* The inductive invariant.  The deferred checks look at the rows a write has
\* touched only; that the others are right is what must be carried along.
TreeInv == TypeInv /\ FreshInv /\ Chains(nodes) /\ Lives(nodes)

\* Rows that keep their places, or go, leave the chains of the others alone.
LEMMA ChainsOfSamePlaces ==
    ASSUME NEW old, NEW new, Chains(old), DOMAIN new \subseteq DOMAIN old,
           \A n \in DOMAIN new : /\ new[n].parent = old[n].parent
                                 /\ new[n].ancestry = old[n].ancestry,
           ParentsHold(new)
    PROVE  Chains(new)
BY DEF Chains, ChainsHold, ParentsHold, ChainUnder

\* A new row, checked, under rows that stand.
LEMMA ChainsOfCreated ==
    ASSUME TreeInv, NEW w \in Writers, tx[w].op = "create", CreateAccepted(tx[w])
    PROVE  Chains(Created(tx[w])) /\ Lives(Created(tx[w]))
<1> DEFINE t == tx[w]
           new == Created(t)
<1>1. t.node \notin Present
  BY DEF TreeInv, FreshInv
<1>2. /\ DOMAIN new = Present \cup {t.node}
      /\ \A n \in Present : new[n] = nodes[n]
      /\ new[t.node].parent = t.parent
      /\ t.parent \in Present
  BY <1>1 DEF Created, CreateAccepted
<1>3. ParentsHold(new)
  BY <1>2 DEF TreeInv, Chains, ParentsHold, Present
<1>4. t.parent # None /\ t.node # Root /\ t.node # None
  <2>1. t \in [op : {"create"}, node : Nodes, parent : Nodes, name : Names,
               sha : Contents \cup {None}, chain : Seq(Nodes)]
    BY DEF TreeInv, TypeInv, TypeOK, Txs, Idle
  <2> QED
    BY <2>1, ConstantsAssumption DEF TreeInv, TypeInv, RootInv
<1>5. new[t.node].ancestry = ChainUnder(new, t.parent)
  BY <1>2, <1>4 DEF CreateAccepted, ChainsHold
<1>6. \A n \in Present : nodes[n].parent # None => nodes[n].parent \in Present
  BY DEF TreeInv, Chains, ParentsHold, Present
<1>7. ChainsHold(new, DOMAIN new)
  <2> SUFFICES ASSUME NEW n \in DOMAIN new
               PROVE  /\ new[n].ancestry = IF new[n].parent = None THEN <<>>
                                           ELSE ChainUnder(new, new[n].parent)
                      /\ \A c \in DOMAIN new : new[c].parent = n =>
                            new[c].ancestry = ChainUnder(new, n)
    BY DEF ChainsHold
  <2> HIDE DEF new, t
  <2>1. \A m \in Present :
           /\ nodes[m].ancestry = IF nodes[m].parent = None THEN <<>>
                                  ELSE ChainUnder(nodes, nodes[m].parent)
           /\ \A c \in Present : nodes[c].parent = m =>
                  nodes[c].ancestry = ChainUnder(nodes, m)
    BY DEF TreeInv, Chains, ChainsHold, Present
  <2>2. \A m \in Present : ChainUnder(new, m) = ChainUnder(nodes, m)
    BY <1>2 DEF ChainUnder
  <2>3. CASE n = t.node
    BY <1>1, <1>2, <1>4, <1>5, <1>6, <2>3
  <2>4. CASE n \in Present
    BY <1>2, <1>4, <1>5, <1>6, <2>1, <2>2, <2>4
  <2> QED
    BY <1>2, <2>3, <2>4
<1>8. Lives(new)
  <2>1. ~new[t.parent].deleted
    BY <1>2, <1>4 DEF CreateAccepted, LiveHolds, Created
  <2> QED
    BY <1>2, <2>1 DEF TreeInv, Lives, Present
<1> QED
  BY <1>3, <1>7, <1>8 DEF Chains

\* A row's parent is a row, and only the root has none.
LEMMA ParentIsPresent ==
    ASSUME TreeInv, NEW n \in Present \ {Root}
    PROVE  nodes[n].parent \in Present /\ nodes[n].parent # None
BY DEF TreeInv, TypeInv, TypeOK, Chains, ParentsHold, Present

\* Content that is replaced moves nothing.
LEMMA TreeOfPut ==
    ASSUME TreeInv, NEW w \in Writers, tx[w].op = "put"
    PROVE  Chains(Put(tx[w])) /\ Lives(Put(tx[w]))
<1> DEFINE new == Put(tx[w])
<1>1. nodes \in [Present -> Row] /\ head + 1 \in Nat
  BY DEF TreeInv, TypeInv, TypeOK
<1>2. /\ DOMAIN new = Present
      /\ \A n \in Present : /\ new[n].parent = nodes[n].parent
                            /\ new[n].ancestry = nodes[n].ancestry
                            /\ new[n].deleted = nodes[n].deleted
  BY <1>1 DEF Put, Row, Present
<1> HIDE DEF new
<1>3. ParentsHold(new)
  BY <1>2 DEF TreeInv, Chains, ParentsHold, Present
<1>4. Chains(new)
  BY <1>2, <1>3, ChainsOfSamePlaces DEF TreeInv, Present
<1>5. Lives(new)
  BY <1>2 DEF TreeInv, Lives, Present
<1> QED
  BY <1>4, <1>5 DEF new

\* A node that is trashed has, by the deferred check, nothing live under it.
LEMMA TreeOfDeleted ==
    ASSUME TreeInv, NEW w \in Writers, tx[w].op = "delete", DeleteAccepted(tx[w])
    PROVE  Chains(Deleted(tx[w])) /\ Lives(Deleted(tx[w]))
<1> DEFINE t == tx[w]
           new == Deleted(t)
<1>1. nodes \in [Present -> Row] /\ head + 1 \in Nat
  BY DEF TreeInv, TypeInv, TypeOK
<1>2. /\ DOMAIN new = Present
      /\ \A n \in Present : /\ new[n].parent = nodes[n].parent
                            /\ new[n].ancestry = nodes[n].ancestry
                            /\ new[n].deleted = (n = t.node \/ nodes[n].deleted)
  <2> SUFFICES ASSUME NEW n \in Present
               PROVE  /\ new[n].parent = nodes[n].parent
                      /\ new[n].ancestry = nodes[n].ancestry
                      /\ new[n].deleted = (n = t.node \/ nodes[n].deleted)
    BY <1>1 DEF Deleted
  <2>1. nodes[n] \in Row
    BY <1>1
  <2>2. new[n] = IF n = t.node THEN [nodes[n] EXCEPT !.deleted = TRUE, !.rev = head + 1]
                               ELSE nodes[n]
    BY <1>1 DEF Deleted
  <2> QED
    BY <2>1, <2>2 DEF Row
<1>3. LiveHolds(new, {t.node})
  BY DEF DeleteAccepted
<1> HIDE DEF new, t
<1>4. ParentsHold(new)
  BY <1>2 DEF TreeInv, Chains, ParentsHold, Present
<1>5. Chains(new)
  BY <1>2, <1>4, ChainsOfSamePlaces DEF TreeInv, Present
<1>6. Lives(new)
  BY <1>2, <1>3 DEF TreeInv, Lives, LiveHolds, Present
<1> QED
  BY <1>5, <1>6 DEF new, t

\* What comes back from the trash comes back under live folders.
LEMMA TreeOfRestored ==
    ASSUME TreeInv, NEW w \in Writers, tx[w].op = "restore", RestoreAccepted(tx[w])
    PROVE  Chains(Restored(tx[w])) /\ Lives(Restored(tx[w]))
<1> DEFINE t == tx[w]
           new == Restored(t)
           touched == {t.node} \cup Range(t.lift)
<1>1. nodes \in [Present -> Row]
  BY DEF TreeInv, TypeInv, TypeOK
<1>2. /\ DOMAIN new = Present
      /\ \A n \in Present : /\ new[n].parent = nodes[n].parent
                            /\ new[n].ancestry = nodes[n].ancestry
                            /\ new[n].deleted = (n \notin touched /\ nodes[n].deleted)
  <2> SUFFICES ASSUME NEW n \in Present
               PROVE  /\ new[n].parent = nodes[n].parent
                      /\ new[n].ancestry = nodes[n].ancestry
                      /\ new[n].deleted = (n \notin touched /\ nodes[n].deleted)
    BY DEF Restored
  <2>1. nodes[n] \in Row
    BY <1>1
  <2>2. CASE n = t.node
    <3>1. new[n] = [nodes[n] EXCEPT !.deleted = FALSE, !.sha = t.sha,
                                    !.rev = head + Len(t.lift) + 1]
      BY <2>2 DEF Restored
    <3> QED
      BY <2>1, <2>2, <3>1 DEF Row
  <2>3. CASE n # t.node /\ n \in Range(t.lift)
    BY <2>1, <2>3 DEF Restored, Row
  <2>4. CASE n \notin touched
    BY <2>1, <2>4 DEF Restored, Row
  <2> QED
    BY <2>2, <2>3, <2>4
<1>3. LiveHolds(new, touched)
  BY DEF RestoreAccepted
<1> HIDE DEF new, touched
<1>4. ParentsHold(new)
  BY <1>2 DEF TreeInv, Chains, ParentsHold, Present
<1>5. Chains(new)
  BY <1>2, <1>4, ChainsOfSamePlaces DEF TreeInv, Present
<1>6. Lives(new)
  <2> SUFFICES ASSUME NEW n \in Present \ {Root}, ~new[n].deleted
               PROVE  new[n].parent \in Present /\ ~new[new[n].parent].deleted
    BY <1>2 DEF Lives
  <2>1. nodes[n].parent \in Present /\ nodes[n].parent # None
    BY ParentIsPresent
  <2>2. CASE n \in touched
    BY <1>2, <1>3, <2>1, <2>2 DEF LiveHolds
  <2>3. CASE n \notin touched
    BY <1>2, <2>1, <2>3 DEF TreeInv, Lives, Present
  <2> QED
    BY <2>2, <2>3
<1> QED
  BY <1>5, <1>6 DEF new

\* What a move makes of the other rows: those outside the moved subtree keep
\* everything, those inside keep everything but their ancestry.
LEMMA MovedRows ==
    ASSUME TreeInv, NEW w \in Writers, tx[w].op = "move"
    PROVE  LET t == tx[w]
               new == Moved(t) IN
           /\ DOMAIN new = Present
           /\ \A n \in Present \ ({t.node} \cup Under(nodes, t.node)) : new[n] = nodes[n]
           /\ \A n \in Present \ {t.node} : /\ new[n].parent = nodes[n].parent
                                            /\ new[n].name = nodes[n].name
                                            /\ new[n].rev = nodes[n].rev
           /\ \A n \in Present : new[n].deleted = nodes[n].deleted
           /\ t.node \in Present => /\ new[t.node].parent = t.parent
                                    /\ new[t.node].rev = head + 1
<1> DEFINE t == tx[w]
           rows == [nodes EXCEPT ![t.node] = [@ EXCEPT !.parent = t.parent, !.name = t.name,
                                            !.rev = head + 1, !.ancestry = t.chain]]
<1>1. t \in [op : {"move"}, node : Nodes, parent : Nodes, name : Names, rev : Nat,
             chain : Seq(Nodes)]
  BY DEF TreeInv, TypeInv, TypeOK, Txs, Idle
<1>2. nodes \in [Present -> Row] /\ head + 1 \in Nat
  BY DEF TreeInv, TypeInv, TypeOK
<1>3. \A n \in Present :
        /\ rows[n] \in Row
        /\ rows[n].deleted = nodes[n].deleted
        /\ n # t.node => rows[n] = nodes[n]
        /\ n = t.node => rows[n].parent = t.parent /\ rows[n].rev = head + 1
  <2> SUFFICES ASSUME NEW n \in Present
               PROVE  /\ rows[n] \in Row
                      /\ rows[n].deleted = nodes[n].deleted
                      /\ n # t.node => rows[n] = nodes[n]
                      /\ n = t.node => /\ rows[n].parent = t.parent
                                        /\ rows[n].rev = head + 1
    OBVIOUS
  <2>1. nodes[n] \in Row
    BY <1>2
  <2>2. rows[n] = IF n = t.node
                  THEN [nodes[n] EXCEPT !.parent = t.parent, !.name = t.name,
                                        !.rev = head + 1, !.ancestry = t.chain]
                  ELSE nodes[n]
    BY <1>2
  <2> QED
    BY <1>1, <1>2, <2>1, <2>2 DEF Row
<1>4. rows \in [Present -> Row]
  BY <1>2, <1>3
<1>5. Moved(t) = RewriteSubtreeAncestry(rows, t.node, t.chain)
  BY DEF Moved
<1> HIDE DEF rows
<1>6. /\ Moved(t) \in [Present -> Row]
      /\ \A m \in Present :
            /\ Moved(t)[m].parent = rows[m].parent
            /\ Moved(t)[m].name = rows[m].name
            /\ Moved(t)[m].rev = rows[m].rev
            /\ Moved(t)[m].deleted = rows[m].deleted
            /\ t.node \notin Range(rows[m].ancestry) => Moved(t)[m] = rows[m]
  BY <1>1, <1>4, <1>5, RewriteType
<1> QED
  BY <1>3, <1>6 DEF Under, Present

\* A moved subtree has its new chains, by the deferred check; a row outside it
\* has kept its own, and no row outside it hangs under a row inside.
LEMMA TreeOfMoved ==
    ASSUME TreeInv, NEW w \in Writers, tx[w].op = "move", MoveAccepted(tx[w])
    PROVE  Chains(Moved(tx[w])) /\ Lives(Moved(tx[w]))
<1> DEFINE t == tx[w]
           new == Moved(t)
           inside == {t.node} \cup Under(nodes, t.node)
<1>1. /\ DOMAIN new = Present
      /\ \A n \in Present \ inside : new[n] = nodes[n]
      /\ \A n \in Present \ {t.node} : new[n].parent = nodes[n].parent
      /\ \A n \in Present : new[n].deleted = nodes[n].deleted
      /\ t.node \in Present => new[t.node].parent = t.parent
  BY MovedRows
<1>2. /\ t.parent \in Present
      /\ ChainsHold(new, inside)
      /\ LiveHolds(new, {t.node})
  BY DEF MoveAccepted
<1>3. \A n \in Present : nodes[n].parent # None => nodes[n].parent \in Present
  BY DEF TreeInv, Chains, ParentsHold, Present
<1>4. \A n \in Present :
        /\ nodes[n].ancestry = IF nodes[n].parent = None THEN <<>>
                               ELSE ChainUnder(nodes, nodes[n].parent)
        /\ \A c \in Present : nodes[c].parent = n =>
              nodes[c].ancestry = ChainUnder(nodes, n)
  BY DEF TreeInv, Chains, ChainsHold, Present
<1>9. t.parent # None
  <2>1. t.parent \in Nodes
    BY DEF TreeInv, TypeInv, TypeOK, Txs, Idle
  <2> QED
    BY <2>1, ConstantsAssumption
<1> HIDE DEF new, inside, t
<1>5. ParentsHold(new)
  BY <1>1, <1>2, <1>3 DEF ParentsHold
<1>6. ChainsHold(new, DOMAIN new)
  <2> SUFFICES ASSUME NEW n \in Present
               PROVE  /\ new[n].ancestry = IF new[n].parent = None THEN <<>>
                                           ELSE ChainUnder(new, new[n].parent)
                      /\ \A c \in Present : new[c].parent = n =>
                            new[c].ancestry = ChainUnder(new, n)
    BY <1>1 DEF ChainsHold
  <2>1. CASE n \in inside
    BY <1>1, <1>2, <2>1 DEF ChainsHold
  <2>2. CASE n \notin inside
    <3>1. new[n] = nodes[n]
      BY <1>1, <2>2
    <3>2. new[n].ancestry = IF new[n].parent = None THEN <<>>
                            ELSE ChainUnder(new, new[n].parent)
      <4>1. CASE new[n].parent \in inside /\ new[n].parent # None
        BY <1>1, <1>2, <1>3, <3>1, <4>1 DEF ChainsHold
      <4>2. CASE new[n].parent \notin inside /\ new[n].parent # None
        BY <1>1, <1>3, <1>4, <3>1, <4>2, SMTT(30) DEF ChainUnder
      <4>3. CASE new[n].parent = None
        BY <1>4, <3>1, <4>3
      <4> QED
        BY <4>1, <4>2, <4>3
    <3>3. ASSUME NEW c \in Present, new[c].parent = n
          PROVE  new[c].ancestry = ChainUnder(new, n)
      <4>1. CASE c \in inside
        <5>1. n # None
          BY ConstantsAssumption DEF TreeInv, TypeInv, TypeOK
        <5> QED
          BY <1>1, <1>2, <3>3, <4>1, <5>1 DEF ChainsHold
      <4>2. CASE c \notin inside
        BY <1>1, <1>4, <3>1, <3>3, <4>2 DEF ChainUnder
      <4> QED
        BY <4>1, <4>2
    <3> QED
      BY <3>2, <3>3
  <2> QED
    BY <2>1, <2>2
<1>7. Lives(new)
  <2> SUFFICES ASSUME NEW n \in Present \ {Root}, ~new[n].deleted
               PROVE  new[n].parent \in Present /\ ~new[new[n].parent].deleted
    BY <1>1 DEF Lives
  <2>1. CASE n = t.node
    BY <1>1, <1>2, <1>9, <2>1 DEF LiveHolds
  <2>2. CASE n # t.node
    BY <1>1, <2>2, ParentIsPresent DEF TreeInv, Lives, Present
  <2> QED
    BY <2>1, <2>2
<1> QED
  BY <1>5, <1>6, <1>7 DEF Chains, new, t

\* Rows that go leave a tree behind when no row is left hanging.
LEMMA TreeOfWithout ==
    ASSUME TreeInv, NEW gone, ParentsHold(Without(gone))
    PROVE  Chains(Without(gone)) /\ Lives(Without(gone))
<1> DEFINE new == Without(gone)
<1>1. DOMAIN new = Present \ gone /\ \A n \in Present \ gone : new[n] = nodes[n]
  BY DEF Without
<1> HIDE DEF new
<1>2. ParentsHold(new)
  BY DEF new
<1>3. Chains(new)
  BY <1>1, <1>2, ChainsOfSamePlaces DEF TreeInv, Present
<1>4. Lives(new)
  <2> SUFFICES ASSUME NEW n \in DOMAIN new \ {Root}, ~new[n].deleted
               PROVE  new[n].parent \in DOMAIN new /\ ~new[new[n].parent].deleted
    BY DEF Lives
  <2>1. nodes[n].parent \in Present /\ nodes[n].parent # None
    BY <1>1, ParentIsPresent
  <2>2. ~nodes[nodes[n].parent].deleted
    BY <1>1 DEF TreeInv, Lives, Present
  <2> QED
    BY <1>1, <1>2, <2>1, <2>2 DEF ParentsHold
<1> QED
  BY <1>3, <1>4 DEF new

-----------------------------------------------------------------------------
(* The tree under every step.                                               *)

\* A new vault has its ancestries and its live nodes in order.
LEMMA InitTree == Init => TreeInv
<1> SUFFICES ASSUME Init PROVE TreeInv
  OBVIOUS
<1>1. TypeInv
  BY InitTypes
<1>2. FreshInv
  BY DEF Init, FreshInv, Idle
<1>3. Chains(nodes) /\ Lives(nodes)
  BY ConstantsAssumption DEF Init, Chains, ChainsHold, ParentsHold, Lives
<1> QED
  BY <1>1, <1>2, <1>3 DEF TreeInv

\* A request that begins changes no row, and gives a new node an id of its own.
LEMMA BeginKeepsTree ==
    ASSUME TreeInv, NEW w \in Writers, Begin(w)
    PROVE  nodes' = nodes /\ FreshInv'
<1>1. PICK t : Start(w, t) /\ (t.op = "create" => FreshId(t.node))
  <2>1. ASSUME NEW n, NEW p, NEW name, NEW sha, BeginCreate(w, n, p, name, sha)
        PROVE  \E t : Start(w, t) /\ (t.op = "create" => FreshId(t.node))
    BY <2>1 DEF BeginCreate
  <2>2. ASSUME NEW n, NEW base, NEW sha, BeginPut(w, n, base, sha)
        PROVE  \E t : Start(w, t) /\ (t.op = "create" => FreshId(t.node))
    BY <2>2 DEF BeginPut
  <2>3. ASSUME NEW n, NEW rev, BeginDelete(w, n, rev)
        PROVE  \E t : Start(w, t) /\ (t.op = "create" => FreshId(t.node))
    BY <2>3 DEF BeginDelete
  <2>4. ASSUME NEW n, NEW p, NEW name, NEW rev, BeginMove(w, n, p, name, rev)
        PROVE  \E t : Start(w, t) /\ (t.op = "create" => FreshId(t.node))
    BY <2>4 DEF BeginMove
  <2>5. ASSUME NEW n, NEW v, NEW lift, BeginRestore(w, n, v, lift)
        PROVE  \E t : Start(w, t) /\ (t.op = "create" => FreshId(t.node))
    BY <2>5 DEF BeginRestore
  <2>6. ASSUME NEW target, BeginPurge(w, target)
        PROVE  \E t : Start(w, t) /\ (t.op = "create" => FreshId(t.node))
    BY <2>6 DEF BeginPurge
  <2>7. ASSUME BeginReset(w)
        PROVE  \E t : Start(w, t) /\ (t.op = "create" => FreshId(t.node))
    BY <2>7 DEF BeginReset
  <2> QED
    BY <2>1, <2>2, <2>3, <2>4, <2>5, <2>6, <2>7 DEF Begin
<1>2. nodes' = nodes
  BY <1>1 DEF Start
<1>3. \A u \in Writers : tx'[u] = IF u = w THEN t ELSE tx[u]
  BY <1>1 DEF Start, TreeInv, TypeInv, TypeOK
<1> QED
  BY <1>1, <1>2, <1>3 DEF TreeInv, FreshInv, FreshId, Present

\* A request that ends leaves a tree, whether it commits or not.
LEMMA FinishKeepsTree ==
    ASSUME TreeInv, NEW w \in Writers, Finish(w)
    PROVE  Chains(nodes') /\ Lives(nodes')
<1>0. ASSUME UNCHANGED nodes
      PROVE  Chains(nodes') /\ Lives(nodes')
  BY <1>0 DEF TreeInv
<1>1. CASE CommitCreate(w)
  BY <1>1, ChainsOfCreated DEF CommitCreate, Commits, Accepted
<1>2. CASE CommitPut(w)
  BY <1>2, TreeOfPut DEF CommitPut, Commits
<1>3. CASE CommitDelete(w)
  BY <1>3, TreeOfDeleted DEF CommitDelete, Commits, Accepted
<1>4. CASE CommitMove(w)
  BY <1>4, TreeOfMoved DEF CommitMove, Commits, Accepted
<1>5. CASE CommitRestore(w)
  BY <1>5, TreeOfRestored DEF CommitRestore, Commits, Accepted
<1>6. CASE CommitPurge(w)
  BY <1>6, TreeOfWithout DEF CommitPurge, Commits, Accepted, PurgeAccepted
<1>7. CASE CommitReset(w)
  <2>1. DOMAIN Without(Present \ {Root}) = {Root}
    BY DEF Without, TreeInv, TypeInv, TypeOK
  <2>2. Without(Present \ {Root})[Root].parent = None
    BY <2>1 DEF Without, TreeInv, TypeInv, TypeOK
  <2>3. ParentsHold(Without(Present \ {Root}))
    BY <2>1, <2>2 DEF ParentsHold
  <2> QED
    BY <1>7, <2>3, TreeOfWithout DEF CommitReset
<1>8. CASE Refuse(w)
  BY <1>0, <1>8 DEF Refuse, Rollback
<1>9. CASE DeadlockAbort(w)
  BY <1>0, <1>9 DEF DeadlockAbort, Rollback
<1> QED
  BY <1>1, <1>2, <1>3, <1>4, <1>5, <1>6, <1>7, <1>8, <1>9 DEF Finish

\* What a request that ends leaves of the set of rows and of the requests.
LEMMA FinishFrame ==
    ASSUME TreeInv, NEW w \in Writers, Finish(w)
    PROVE  /\ tx' = [tx EXCEPT ![w] = Idle]
           /\ \/ DOMAIN nodes' \subseteq Present
              \/ tx[w].op = "create" /\ DOMAIN nodes' = Present \cup {tx[w].node}
<1>1. CASE CommitCreate(w)
  BY <1>1, CreatedType DEF CommitCreate, Commits, TreeInv
<1>2. CASE CommitPut(w)
  BY <1>2, PutType DEF CommitPut, Commits, TreeInv
<1>3. CASE CommitDelete(w)
  BY <1>3, DeletedType DEF CommitDelete, Commits, TreeInv
<1>4. CASE CommitMove(w)
  BY <1>4, MovedType DEF CommitMove, Commits, TreeInv
<1>5. CASE CommitRestore(w)
  BY <1>5, RestoredType DEF CommitRestore, Commits, TreeInv
<1>6. CASE CommitPurge(w)
  BY <1>6 DEF CommitPurge, Commits, Without
<1>7. CASE CommitReset(w)
  BY <1>7 DEF CommitReset, Commits, Without
<1>8. CASE Refuse(w) \/ DeadlockAbort(w)
  BY <1>8 DEF Refuse, DeadlockAbort, Rollback, Present
<1> QED
  BY <1>1, <1>2, <1>3, <1>4, <1>5, <1>6, <1>7, <1>8 DEF Finish

\* Every write keeps ancestry and liveness in order.
LEMMA NextKeepsTree == TreeInv /\ [Next]_vars => TreeInv'
<1> SUFFICES ASSUME TreeInv, [Next]_vars PROVE TreeInv'
  OBVIOUS
<1>1. TypeInv'
  BY NextKeepsTypes DEF TreeInv
<1>2. ASSUME NEW w \in Writers, Begin(w)
      PROVE  FreshInv' /\ Chains(nodes') /\ Lives(nodes')
  BY <1>2, BeginKeepsTree DEF TreeInv
<1>3. ASSUME NEW w \in Writers, Finish(w)
      PROVE  FreshInv' /\ Chains(nodes') /\ Lives(nodes')
  <2>1. /\ tx' = [tx EXCEPT ![w] = Idle]
        /\ \/ DOMAIN nodes' \subseteq Present
           \/ tx[w].op = "create" /\ DOMAIN nodes' = Present \cup {tx[w].node}
    BY <1>3, FinishFrame
  <2>2. \A u \in Writers : tx'[u].op = "create" => u # w /\ tx'[u] = tx[u]
    BY <2>1 DEF TreeInv, TypeInv, TypeOK, Idle
  <2>3. FreshInv'
    BY <2>1, <2>2 DEF TreeInv, FreshInv, Present
  <2> QED
    BY <1>3, <2>3, FinishKeepsTree
<1>4. CASE SettleFreeze \/ UNCHANGED vars
  <2>1. UNCHANGED <<nodes, tx>>
    BY <1>4 DEF SettleFreeze, vars
  <2> QED
    BY <1>1, <2>1 DEF TreeInv, FreshInv, Present
<1> QED
  BY <1>1, <1>2, <1>3, <1>4 DEF Next, TreeInv

\* Whatever requests interleave, for any number of connections and nodes, the
\* ancestry of every row is the chain of its parents, and no row hangs off one
\* that is gone: what nodes_check_ancestry checks row by row holds of all.
THEOREM AncestryAlwaysParentChain == Spec => []AncestryIsParentChain
<1>1. TreeInv => AncestryIsParentChain
  BY DEF TreeInv, Chains, AncestryIsParentChain, Present
<1> QED
  BY <1>1, InitTree, NextKeepsTree, PTL DEF Spec

\* No live node is ever under a trashed folder, although creates, moves and
\* restores look at the folder, and deletes at the children, before the lock.
THEOREM LiveAlwaysUnderLive == Spec => []LiveUnderLive
<1>1. TreeInv => LiveUnderLive
  BY DEF TreeInv, Lives, LiveUnderLive, IsLive, Present
<1> QED
  BY <1>1, InitTree, NextKeepsTree, PTL DEF Spec

-----------------------------------------------------------------------------
(* Sibling names.                                                           *)

\* A write that keeps place, name and death of every row but a few, and has
\* those few checked by the index, leaves the names unique.
LEMMA NamesOfTouched ==
    ASSUME NEW new, NEW touched, touched \subseteq DOMAIN new,
           SiblingNamesUnique,
           \A n \in DOMAIN new \ touched :
                /\ n \in Present
                /\ new[n].parent = nodes[n].parent
                /\ new[n].name = nodes[n].name
                /\ ~new[n].deleted => ~nodes[n].deleted,
           \A n \in touched : ~new[n].deleted =>
                ~NameTaken(new, new[n].parent, new[n].name, n)
    PROVE  \A n \in DOMAIN new \ {Root} : ~new[n].deleted =>
                ~NameTaken(new, new[n].parent, new[n].name, n)
BY DEF SiblingNamesUnique, NameTaken, Present

\* A write that brings no row to a new place, name or life needs no check.
LEMMA NamesOfKept ==
    ASSUME NEW new, SiblingNamesUnique,
           \A n \in DOMAIN new :
                /\ n \in Present
                /\ new[n].parent = nodes[n].parent
                /\ new[n].name = nodes[n].name
                /\ ~new[n].deleted => ~nodes[n].deleted
    PROVE  \A n \in DOMAIN new \ {Root} : ~new[n].deleted =>
                ~NameTaken(new, new[n].parent, new[n].name, n)
BY DEF SiblingNamesUnique, NameTaken, Present

\* A request that ends leaves the names unique.
LEMMA FinishKeepsNames ==
    ASSUME TreeInv, SiblingNamesUnique, NEW w \in Writers, Finish(w)
    PROVE  SiblingNamesUnique'
<1> DEFINE t == tx[w]
           Unique(rows) == \A n \in DOMAIN rows \ {Root} : ~rows[n].deleted =>
                                ~NameTaken(rows, rows[n].parent, rows[n].name, n)
<1>0. /\ nodes \in [Present -> Row] /\ head + 1 \in Nat
      /\ SiblingNamesUnique' = Unique(nodes')
  BY DEF TreeInv, TypeInv, TypeOK, SiblingNamesUnique, Present
<1>1. CASE CommitCreate(w)
  <2> DEFINE new == Created(t)
  <2>1. /\ DOMAIN new = Present \cup {t.node}
        /\ \A n \in Present \ {t.node} : new[n] = nodes[n]
        /\ NamesHold(new, {t.node})
    BY <1>1 DEF Created, CommitCreate, Commits, Accepted, CreateAccepted
  <2> HIDE DEF new
  <2>2. Unique(new)
    BY <2>1, NamesOfTouched DEF NamesHold
  <2> QED
    BY <1>0, <1>1, <2>2 DEF CommitCreate, new
<1>2. CASE CommitPut(w)
  <2> DEFINE new == Put(t)
  <2>1. /\ DOMAIN new = Present
        /\ \A n \in Present : /\ new[n].parent = nodes[n].parent
                              /\ new[n].name = nodes[n].name
                              /\ new[n].deleted = nodes[n].deleted
    BY <1>0 DEF Put, Row
  <2> HIDE DEF new
  <2>2. Unique(new)
    BY <2>1, NamesOfKept
  <2> QED
    BY <1>0, <1>2, <2>2 DEF CommitPut, new
<1>3. CASE CommitDelete(w)
  <2> DEFINE new == Deleted(t)
  <2>1. /\ DOMAIN new = Present
        /\ \A n \in Present : /\ new[n].parent = nodes[n].parent
                              /\ new[n].name = nodes[n].name
                              /\ ~new[n].deleted => ~nodes[n].deleted
    <3> SUFFICES ASSUME NEW n \in Present
                 PROVE  /\ new[n].parent = nodes[n].parent
                        /\ new[n].name = nodes[n].name
                        /\ ~new[n].deleted => ~nodes[n].deleted
      BY <1>0 DEF Deleted
    <3>1. new[n] = IF n = t.node THEN [nodes[n] EXCEPT !.deleted = TRUE, !.rev = head + 1]
                                 ELSE nodes[n]
      BY <1>0 DEF Deleted
    <3>2. nodes[n] \in Row
      BY <1>0
    <3> QED
      BY <3>1, <3>2 DEF Row
  <2> HIDE DEF new
  <2>2. Unique(new)
    BY <2>1, NamesOfKept
  <2> QED
    BY <1>0, <1>3, <2>2 DEF CommitDelete, new
<1>4. CASE CommitMove(w)
  <2> DEFINE new == Moved(t)
  <2>1. /\ DOMAIN new = Present
        /\ \A n \in Present \ {t.node} : /\ new[n].parent = nodes[n].parent
                                         /\ new[n].name = nodes[n].name
                                         /\ new[n].deleted = nodes[n].deleted
        /\ NamesHold(new, {t.node})
    BY <1>4, MovedRows DEF CommitMove, Commits, Accepted, MoveAccepted
  <2> HIDE DEF new
  <2>2. Unique(new)
    <3>1. CASE t.node \in Present
      BY <2>1, <3>1, NamesOfTouched, ZenonT(40) DEF NamesHold
    <3>2. CASE t.node \notin Present
      BY <2>1, <3>2, NamesOfKept
    <3> QED
      BY <3>1, <3>2
  <2> QED
    BY <1>0, <1>4, <2>2 DEF CommitMove, new
<1>5. CASE CommitRestore(w)
  <2> DEFINE new == Restored(t)
             touched == ({t.node} \cup Range(t.lift)) \cap Present
  <2>1. /\ DOMAIN new = Present
        /\ \A n \in Present : /\ new[n].parent = nodes[n].parent
                              /\ new[n].name = nodes[n].name
        /\ \A n \in Present \ touched : new[n] = nodes[n]
    <3>1. DOMAIN new = Present /\ \A n \in Present \ touched : new[n] = nodes[n]
      BY DEF Restored
    <3>2. ASSUME NEW n \in Present
          PROVE  new[n].parent = nodes[n].parent /\ new[n].name = nodes[n].name
      <4>1. nodes[n] \in Row
        BY <1>0
      <4>2. CASE n = t.node
        <5>1. new[n] = [nodes[n] EXCEPT !.deleted = FALSE, !.sha = t.sha,
                                        !.rev = head + Len(t.lift) + 1]
          BY <4>2 DEF Restored
        <5> QED
          BY <4>1, <5>1 DEF Row
      <4>3. CASE n # t.node /\ n \in Range(t.lift)
        BY <4>1, <4>3 DEF Restored, Row
      <4>4. CASE n # t.node /\ n \notin Range(t.lift)
        BY <4>4 DEF Restored
      <4> QED
        BY <4>2, <4>3, <4>4
    <3> QED
      BY <3>1, <3>2
  <2>2. NamesHold(new, {t.node} \cup Range(t.lift))
    BY <1>5 DEF CommitRestore, Commits, Accepted, RestoreAccepted
  <2> HIDE DEF new
  <2>3. \A n \in touched : ~new[n].deleted =>
            ~NameTaken(new, new[n].parent, new[n].name, n)
    BY <2>2 DEF NamesHold
  <2> HIDE DEF touched
  <2>5. touched \subseteq DOMAIN new
    BY <2>1 DEF touched
  <2>4. Unique(new)
    BY <2>1, <2>3, <2>5, NamesOfTouched
  <2> QED
    BY <1>0, <1>5, <2>4 DEF CommitRestore, new
<1>6. CASE CommitPurge(w) \/ CommitReset(w)
  <2>1. PICK gone : nodes' = Without(gone)
    BY <1>6 DEF CommitPurge, CommitReset
  <2>2. DOMAIN nodes' = Present \ gone /\ \A n \in Present \ gone : nodes'[n] = nodes[n]
    BY <2>1 DEF Without
  <2> QED
    BY <1>0, <2>2 DEF SiblingNamesUnique, NameTaken
<1>7. CASE Refuse(w) \/ DeadlockAbort(w)
  BY <1>0, <1>7 DEF Refuse, DeadlockAbort, Rollback, SiblingNamesUnique, Present
<1> QED
  BY <1>1, <1>2, <1>3, <1>4, <1>5, <1>6, <1>7 DEF Finish

\* Two live siblings never share a name, whatever a restore lifts and a move
\* brings beside them.
THEOREM SiblingNamesAlwaysUnique == Spec => []SiblingNamesUnique
<1>1. Init => SiblingNamesUnique
  BY DEF Init, SiblingNamesUnique, Present
<1>2. TreeInv /\ SiblingNamesUnique /\ [Next]_vars => SiblingNamesUnique'
  <2> SUFFICES ASSUME TreeInv, SiblingNamesUnique, [Next]_vars
               PROVE  SiblingNamesUnique'
    OBVIOUS
  <2>1. ASSUME NEW w \in Writers, Begin(w)
        PROVE  SiblingNamesUnique'
    BY <2>1, BeginKeepsTree DEF SiblingNamesUnique, Present
  <2>2. ASSUME NEW w \in Writers, Finish(w)
        PROVE  SiblingNamesUnique'
    BY <2>2, FinishKeepsNames
  <2>3. CASE SettleFreeze \/ UNCHANGED vars
    BY <2>3 DEF SettleFreeze, vars, SiblingNamesUnique, Present
  <2> QED
    BY <2>1, <2>2, <2>3 DEF Next
<1> QED
  BY <1>1, <1>2, InitTree, NextKeepsTree, PTL DEF Spec

-----------------------------------------------------------------------------
(* Row locks.                                                               *)

\* Two requests never have the same row locked.
LocksApart == \A u, w \in Writers : u # w => Held(u) \cap Held(w) = {}

LockInv == LocksApart /\ CheckedIsStillSo

\* What a request that locks a row has found when it begins.
FoundAsAsked(t) ==
    /\ t.op \in Locking => t.node \in Present /\ ~Locked(t.node)
    /\ t.op \in Locking \ {"restore"} => IsLive(t.node)
    /\ t.op = "put" => nodes[t.node].sha = t.base
    /\ t.op \in {"delete", "move"} => nodes[t.node].rev = t.rev

\* A commit leaves the rows that others have locked as they are: its own row
\* is another, and it waits for the locks on every other row it touches.
LEMMA LockedRowsKept ==
    ASSUME TreeInv, LockInv, NEW w \in Writers, Finish(w),
           NEW u \in Writers \ {w}, NEW x \in Held(u)
    PROVE  x \in DOMAIN nodes' /\ nodes'[x] = nodes[x]
<1> DEFINE t == tx[w]
<1>0. /\ x = tx[u].node /\ tx[u].op \in Locking
      /\ x \in Present
      /\ x # Root
      /\ nodes \in [Present -> Row]
  BY DEF Held, LockInv, CheckedIsStillSo, Locking, TreeInv, TypeInv, TypeOK, RootInv
<1>1. t.op \in Locking => x # t.node
  BY DEF LockInv, LocksApart, Held
<1>2. Blockers(w) = {} => x \notin Needs(t)
  BY DEF Blockers
<1>3. CASE CommitCreate(w)
  BY <1>0, <1>3 DEF CommitCreate, Commits, Created, TreeInv, FreshInv
<1>4. CASE CommitPut(w)
  BY <1>0, <1>1, <1>4 DEF CommitPut, Commits, Put, Locking
<1>5. CASE CommitDelete(w)
  BY <1>0, <1>1, <1>5 DEF CommitDelete, Commits, Deleted, Locking
<1>6. CASE CommitMove(w)
  <2>1. x # t.node /\ x \notin Under(nodes, t.node)
    BY <1>1, <1>2, <1>6 DEF CommitMove, Commits, Needs, Locking
  <2> QED
    BY <1>0, <1>6, <2>1, MovedRows DEF CommitMove, Commits
<1>7. CASE CommitRestore(w)
  <2>1. x # t.node /\ x \notin Range(t.lift)
    BY <1>1, <1>2, <1>7 DEF CommitRestore, Commits, Needs, Locking
  <2> QED
    BY <1>0, <1>7, <2>1 DEF CommitRestore, Restored
<1>8. CASE CommitPurge(w)
  <2>1. x \notin t.doomed
    BY <1>0, <1>2, <1>8 DEF CommitPurge, Commits, Needs
  <2> QED
    BY <1>0, <1>8, <2>1 DEF CommitPurge, Without
<1>9. CASE CommitReset(w)
  BY <1>0, <1>2, <1>9 DEF CommitReset, Commits, Needs
<1>10. CASE Refuse(w) \/ DeadlockAbort(w)
  BY <1>0, <1>10 DEF Refuse, DeadlockAbort, Rollback, Present
<1> QED
  BY <1>3, <1>4, <1>5, <1>6, <1>7, <1>8, <1>9, <1>10 DEF Finish

\* A request that locks a row finds it unlocked, and as the client said.
LEMMA BeginFindsAsAsked ==
    ASSUME NEW w \in Writers, Begin(w)
    PROVE  \E t : Start(w, t) /\ FoundAsAsked(t)
<1>1. ASSUME NEW n, NEW p, NEW name, NEW sha, BeginCreate(w, n, p, name, sha)
      PROVE  \E t : Start(w, t) /\ FoundAsAsked(t)
  BY <1>1 DEF BeginCreate, FoundAsAsked, Locking
<1>2. ASSUME NEW n, NEW base, NEW sha, BeginPut(w, n, base, sha)
      PROVE  \E t : Start(w, t) /\ FoundAsAsked(t)
  <2> DEFINE t == [op |-> "put", node |-> n, base |-> base, sha |-> sha]
  <2>1. FoundAsAsked(t)
    BY <1>2 DEF BeginPut, FoundAsAsked, IsLive
  <2> QED
    BY <1>2, <2>1 DEF BeginPut
<1>3. ASSUME NEW n, NEW rev, BeginDelete(w, n, rev)
      PROVE  \E t : Start(w, t) /\ FoundAsAsked(t)
  <2> DEFINE t == [op |-> "delete", node |-> n, rev |-> rev]
  <2>1. FoundAsAsked(t)
    BY <1>3 DEF BeginDelete, FoundAsAsked, IsLive
  <2> QED
    BY <1>3, <2>1 DEF BeginDelete
<1>4. ASSUME NEW n, NEW p, NEW name, NEW rev, BeginMove(w, n, p, name, rev)
      PROVE  \E t : Start(w, t) /\ FoundAsAsked(t)
  <2> DEFINE t == [op |-> "move", node |-> n, parent |-> p, name |-> name,
                   rev |-> rev, chain |-> ChainUnder(nodes, p)]
  <2>1. FoundAsAsked(t)
    BY <1>4 DEF BeginMove, FoundAsAsked, IsLive
  <2> QED
    BY <1>4, <2>1 DEF BeginMove
<1>5. ASSUME NEW n, NEW v, NEW lift, BeginRestore(w, n, v, lift)
      PROVE  \E t : Start(w, t) /\ FoundAsAsked(t)
  <2> DEFINE t == [op |-> "restore", node |-> n, rev |-> v.rev,
                   sha |-> v.sha, lift |-> lift]
  <2>1. FoundAsAsked(t)
    BY <1>5 DEF BeginRestore, FoundAsAsked
  <2> QED
    BY <1>5, <2>1 DEF BeginRestore
<1>6. ASSUME NEW target, BeginPurge(w, target)
      PROVE  \E t : Start(w, t) /\ FoundAsAsked(t)
  BY <1>6 DEF BeginPurge, FoundAsAsked, Locking
<1>7. ASSUME BeginReset(w)
      PROVE  \E t : Start(w, t) /\ FoundAsAsked(t)
  BY <1>7 DEF BeginReset, FoundAsAsked, Locking
<1> QED
  BY <1>1, <1>2, <1>3, <1>4, <1>5, <1>6, <1>7 DEF Begin

\* No write of one request undoes what another checked under its lock.
LEMMA NextKeepsLocks == TreeInv /\ LockInv /\ [Next]_vars => LockInv'
<1> SUFFICES ASSUME TreeInv, LockInv, [Next]_vars PROVE LockInv'
  OBVIOUS
<1>0. tx \in [Writers -> Txs]
  BY DEF TreeInv, TypeInv, TypeOK
<1>1. ASSUME NEW w \in Writers, Begin(w)
      PROVE  LockInv'
  <2>1. PICK t : Start(w, t) /\ FoundAsAsked(t)
    BY <1>1, BeginFindsAsAsked
  <2>2. /\ nodes' = nodes
        /\ \A u \in Writers : tx'[u] = IF u = w THEN t ELSE tx[u]
    BY <1>0, <2>1 DEF Start
  <2>3. CheckedIsStillSo'
    <3> SUFFICES ASSUME NEW u \in Writers
                 PROVE  /\ tx'[u].op \in Locking => tx'[u].node \in Present
                        /\ tx'[u].op \in Locking \ {"restore"} => IsLive(tx'[u].node)
                        /\ tx'[u].op = "put" => nodes[tx'[u].node].sha = tx'[u].base
                        /\ tx'[u].op \in {"delete", "move"} =>
                                nodes[tx'[u].node].rev = tx'[u].rev
      BY <2>2 DEF CheckedIsStillSo, IsLive, Present
    <3>1. CASE u = w
      BY <2>1, <2>2, <3>1 DEF FoundAsAsked
    <3>2. CASE u # w
      BY <2>2, <3>2 DEF LockInv, CheckedIsStillSo
    <3> QED
      BY <3>1, <3>2
  <2>4. LocksApart'
    <3> SUFFICES ASSUME NEW u \in Writers, NEW v \in Writers, u # v,
                        tx'[u].op \in Locking, tx'[v].op \in Locking,
                        tx'[u].node = tx'[v].node
                 PROVE  FALSE
      BY DEF LocksApart, Held
    <3>1. CASE u # w /\ v # w
      BY <2>2, <3>1 DEF LockInv, LocksApart, Held
    <3>2. CASE u = w
      BY <2>1, <2>2, <3>2 DEF FoundAsAsked, Locked, Held
    <3>3. CASE v = w
      BY <2>1, <2>2, <3>3 DEF FoundAsAsked, Locked, Held
    <3> QED
      BY <3>1, <3>2, <3>3
  <2> QED
    BY <2>3, <2>4 DEF LockInv
<1>2. ASSUME NEW w \in Writers, Finish(w)
      PROVE  LockInv'
  <2>1. /\ tx'[w].op \notin Locking
        /\ \A u \in Writers \ {w} : tx'[u] = tx[u]
    <3>1. tx' = [tx EXCEPT ![w] = Idle]
      BY <1>2, FinishFrame
    <3>2. Idle.op \notin Locking
      BY DEF Idle, Locking
    <3> QED
      BY <1>0, <3>1, <3>2
  <2>2. LocksApart'
    BY <2>1 DEF LockInv, LocksApart, Held
  <2>3. ASSUME NEW u \in Writers \ {w}, tx[u].op \in Locking
        PROVE  tx[u].node \in DOMAIN nodes' /\ nodes'[tx[u].node] = nodes[tx[u].node]
    BY <1>2, <2>3, LockedRowsKept DEF Held
  <2>4. CheckedIsStillSo'
    BY <2>1, <2>3 DEF LockInv, CheckedIsStillSo, IsLive, Present, Locking
  <2> QED
    BY <2>2, <2>4 DEF LockInv
<1>3. CASE SettleFreeze \/ UNCHANGED vars
  <2>1. UNCHANGED <<nodes, tx>>
    BY <1>3 DEF SettleFreeze, vars
  <2> QED
    BY <2>1 DEF LockInv, LocksApart, CheckedIsStillSo, Held, IsLive, Present
<1> QED
  BY <1>1, <1>2, <1>3 DEF Next

\* However many requests queue for the vault row, and whatever those before
\* them commit, a put, a delete and a move still find the base or the revision
\* they were checked against when their own turn comes.
THEOREM CheckedStaysSo == Spec => []CheckedIsStillSo
<1>1. Init => LockInv
  BY DEF Init, LockInv, LocksApart, CheckedIsStillSo, Held, Idle, Locking
<1>2. LockInv => CheckedIsStillSo
  BY DEF LockInv
<1> QED
  BY <1>1, <1>2, InitTree, NextKeepsTree, NextKeepsLocks, PTL DEF Spec

-----------------------------------------------------------------------------
(* The journal.                                                             *)

\* The folders a restore will lift are each named once, and the journal has
\* told of every one of them.
LiftIsTold(lift) ==
    /\ \A i, j \in DOMAIN lift : lift[i] = lift[j] => i = j
    /\ \A a \in Range(lift) : a # Root /\ \E e \in journal : e.node = a

\* The inductive invariant: the last entry of a node is its row's because no
\* entry is ahead of head_rev, and an entry of a node that is not there yet
\* would be told of the node made under that id.
JournalInv ==
    /\ JournalTellsTrash
    /\ \A e \in journal : e.rev <= head
    /\ \A w \in Writers :
        /\ tx[w].op = "create" => \A e \in journal : e.node # tx[w].node
        /\ tx[w].op = "restore" => LiftIsTold(tx[w].lift)

\* A write that tells of every row it changes, under the revision the row gets.
LEMMA StoryKept ==
    ASSUME TypeInv, JournalTellsTrash, \A e \in journal : e.rev <= head,
           NEW added, journal' = journal \cup added,
           \A e \in added : e.rev \in Nat /\ e.rev > head,
           \A n \in DOMAIN nodes' \ {Root} :
              \/ /\ n \in Present
                 /\ nodes'[n].rev = nodes[n].rev /\ nodes'[n].deleted = nodes[n].deleted
                 /\ \A e \in added : e.node # n
              \/ \E e \in added : /\ e.node = n /\ e.rev = nodes'[n].rev
                                  /\ e.op = "del" <=> nodes'[n].deleted
                                  /\ \A f \in added : f.node = n => f.rev <= e.rev
    PROVE  JournalTellsTrash'
<1>0. head \in Nat /\ \A e \in journal : e.rev \in Nat
  BY DEF TypeInv, TypeOK
<1> SUFFICES ASSUME NEW n \in DOMAIN nodes' \ {Root}
             PROVE  \E e \in journal' :
                        /\ e.node = n /\ e.rev = nodes'[n].rev
                        /\ e.op = "del" <=> nodes'[n].deleted
                        /\ \A f \in journal' : f.node = n => f.rev <= e.rev
  BY DEF JournalTellsTrash, Present
<1>1. CASE /\ n \in Present
           /\ nodes'[n].rev = nodes[n].rev /\ nodes'[n].deleted = nodes[n].deleted
           /\ \A e \in added : e.node # n
  <2>1. PICK e \in journal : /\ e.node = n /\ e.rev = nodes[n].rev
                             /\ e.op = "del" <=> nodes[n].deleted
                             /\ \A f \in journal : f.node = n => f.rev <= e.rev
    BY <1>1 DEF JournalTellsTrash
  <2> QED
    BY <1>1, <2>1
<1>2. CASE \E e \in added : /\ e.node = n /\ e.rev = nodes'[n].rev
                            /\ e.op = "del" <=> nodes'[n].deleted
                            /\ \A f \in added : f.node = n => f.rev <= e.rev
  <2>1. PICK e \in added : /\ e.node = n /\ e.rev = nodes'[n].rev
                           /\ e.op = "del" <=> nodes'[n].deleted
                           /\ \A f \in added : f.node = n => f.rev <= e.rev
    BY <1>2
  <2>2. \A f \in journal : f.rev <= e.rev
    BY <1>0, <2>1
  <2> QED
    BY <2>1, <2>2
<1> QED
  BY <1>1, <1>2

\* What a restore makes of the rows, as the journal has to tell it.
LEMMA RestoredRows ==
    ASSUME TypeInv, NEW w \in Writers, tx[w].op = "restore"
    PROVE  LET t == tx[w]
               new == Restored(t) IN
           /\ DOMAIN new = Present
           /\ t.lift \in Seq(Nodes) /\ t.node \in Nodes
           /\ \A n \in Present :
                /\ n = t.node => new[n].rev = head + Len(t.lift) + 1 /\ ~new[n].deleted
                /\ n # t.node /\ n \in Range(t.lift) =>
                     /\ ~new[n].deleted
                     /\ \E i \in DOMAIN t.lift : t.lift[i] = n /\ new[n].rev = head + i
                /\ n # t.node /\ n \notin Range(t.lift) => new[n] = nodes[n]
<1> DEFINE t == tx[w]
           new == Restored(t)
<1>1. t \in [op : {"restore"}, node : Nodes, rev : Nat, sha : Contents \cup {None},
             lift : Seq(Nodes)]
  BY DEF TypeInv, TypeOK, Txs, Idle
<1>2. nodes \in [Present -> Row]
  BY DEF TypeInv, TypeOK
<1>3. ASSUME NEW n \in Present, n = t.node
      PROVE  new[n].rev = head + Len(t.lift) + 1 /\ ~new[n].deleted
  <2>1. new[n] = [nodes[n] EXCEPT !.deleted = FALSE, !.sha = t.sha,
                                  !.rev = head + Len(t.lift) + 1]
    BY <1>3 DEF Restored
  <2>2. nodes[n] \in Row
    BY <1>2
  <2> QED
    BY <2>1, <2>2 DEF Row
<1>4. ASSUME NEW n \in Present, n # t.node, n \in Range(t.lift)
      PROVE  /\ ~new[n].deleted
             /\ \E i \in DOMAIN t.lift : t.lift[i] = n /\ new[n].rev = head + i
  <2> DEFINE i == CHOOSE i \in DOMAIN t.lift : t.lift[i] = n
  <2>1. i \in DOMAIN t.lift /\ t.lift[i] = n
    BY <1>4 DEF Range
  <2>2. new[n] = [nodes[n] EXCEPT !.deleted = FALSE, !.rev = head + i]
    BY <1>4 DEF Restored
  <2>3. nodes[n] \in Row
    BY <1>2
  <2> HIDE DEF i
  <2>4. ~new[n].deleted /\ new[n].rev = head + i
    BY <2>2, <2>3 DEF Row
  <2> QED
    BY <2>1, <2>4
<1>5. ASSUME NEW n \in Present, n # t.node, n \notin Range(t.lift)
      PROVE  new[n] = nodes[n]
  BY <1>5 DEF Restored
<1>6. DOMAIN new = Present /\ t.lift \in Seq(Nodes) /\ t.node \in Nodes
  BY <1>1 DEF Restored
<1> QED
  BY <1>3, <1>4, <1>5, <1>6

\* What a request finishes with: entries ahead of head_rev, each of a node the
\* request knows of, and the rows they tell of.
LEMMA FinishKeepsStory ==
    ASSUME TreeInv, LockInv, JournalInv, NEW w \in Writers, Finish(w)
    PROVE  /\ JournalTellsTrash'
           /\ \A e \in journal' : e.rev <= head'
           /\ \A e \in journal' \ journal :
                \/ tx[w].op \in Locking \cup {"create"} /\ e.node = tx[w].node
                \/ tx[w].op = "restore" /\ e.node \in Range(tx[w].lift)
           /\ journal \subseteq journal'
<1> DEFINE t == tx[w]
           Told == /\ JournalTellsTrash'
                   /\ \A e \in journal' : e.rev <= head'
                   /\ \A e \in journal' \ journal :
                        \/ t.op \in Locking \cup {"create"} /\ e.node = t.node
                        \/ t.op = "restore" /\ e.node \in Range(t.lift)
                   /\ journal \subseteq journal'
<1>0. /\ TypeInv /\ JournalTellsTrash /\ head \in Nat
      /\ \A e \in journal : e.rev \in Nat /\ e.rev <= head
      /\ nodes \in [Present -> Row]
  BY DEF TreeInv, TypeInv, TypeOK, JournalInv
\* One entry, for one row that is put, trashed or moved.
<1>1. ASSUME NEW op \in {"put", "del", "move"}, t.op \in Locking \cup {"create"},
             head' = head + 1, journal' = journal \cup {Entry(head + 1, t.node, op)},
             \A n \in DOMAIN nodes' \ {t.node} :
                 /\ n \in Present
                 /\ nodes'[n].rev = nodes[n].rev /\ nodes'[n].deleted = nodes[n].deleted,
             t.node \in DOMAIN nodes' => /\ nodes'[t.node].rev = head + 1
                                         /\ nodes'[t.node].deleted <=> op = "del"
      PROVE  Told
  <2> DEFINE e == Entry(head + 1, t.node, op)
  <2>1. e.rev = head + 1 /\ e.node = t.node /\ e.op = op
    BY DEF Entry
  <2> HIDE DEF e
  <2>2. journal' = journal \cup {e}
    BY <1>1 DEF e
  <2>3. \A f \in {e} : f.rev \in Nat /\ f.rev > head
    BY <1>0, <2>1
  <2>4. ASSUME NEW n \in DOMAIN nodes' \ {Root}
        PROVE  \/ /\ n \in Present
                  /\ nodes'[n].rev = nodes[n].rev /\ nodes'[n].deleted = nodes[n].deleted
                  /\ \A f \in {e} : f.node # n
               \/ \E f \in {e} : /\ f.node = n /\ f.rev = nodes'[n].rev
                                 /\ f.op = "del" <=> nodes'[n].deleted
                                 /\ \A g \in {e} : g.node = n => g.rev <= f.rev
    <3>1. CASE n = t.node
      <4>1. e.rev <= e.rev
        BY <1>0, <2>1
      <4> QED
        BY <1>1, <2>1, <3>1, <4>1
    <3>2. CASE n # t.node
      BY <1>1, <2>1, <3>2
    <3> QED
      BY <3>1, <3>2
  <2>5. JournalTellsTrash'
    <3> DEFINE added == {e}
    <3>1. /\ journal' = journal \cup added
          /\ \A f \in added : f.rev \in Nat /\ f.rev > head
      BY <2>2, <2>3
    <3>2. \A n \in DOMAIN nodes' \ {Root} :
            \/ /\ n \in Present
               /\ nodes'[n].rev = nodes[n].rev /\ nodes'[n].deleted = nodes[n].deleted
               /\ \A f \in added : f.node # n
            \/ \E f \in added : /\ f.node = n /\ f.rev = nodes'[n].rev
                                /\ f.op = "del" <=> nodes'[n].deleted
                                /\ \A g \in added : g.node = n => g.rev <= f.rev
      BY <2>4
    <3> HIDE DEF added
    <3> QED
      BY <1>0, <3>1, <3>2, StoryKept
  <2> QED
    BY <1>0, <1>1, <2>1, <2>2, <2>5
<1>2. CASE CommitCreate(w)
  <2>1. nodes' = Created(t) /\ t.node \notin Present
    BY <1>2 DEF CommitCreate, Commits, TreeInv, FreshInv
  <2>2. /\ \A n \in DOMAIN nodes' \ {t.node} : n \in Present /\ nodes'[n] = nodes[n]
        /\ nodes'[t.node].rev = head + 1 /\ ~nodes'[t.node].deleted
    BY <2>1 DEF Created
  <2> QED
    BY <1>1, <1>2, <2>2 DEF CommitCreate, Commits
<1>3. CASE CommitPut(w)
  <2>1. IsLive(t.node)
    BY <1>3 DEF CommitPut, Commits, LockInv, CheckedIsStillSo, Locking
  <2>2. /\ DOMAIN nodes' = Present
        /\ \A n \in Present \ {t.node} : nodes'[n] = nodes[n]
        /\ nodes'[t.node].rev = head + 1 /\ ~nodes'[t.node].deleted
    BY <1>0, <1>3, <2>1 DEF CommitPut, Put, IsLive, Row
  <2> QED
    BY <1>1, <1>3, <2>2 DEF CommitPut, Commits, Locking
<1>4. CASE CommitDelete(w)
  <2>1. IsLive(t.node)
    BY <1>4 DEF CommitDelete, Commits, LockInv, CheckedIsStillSo, Locking
  <2>2. /\ DOMAIN nodes' = Present
        /\ \A n \in Present \ {t.node} : nodes'[n] = nodes[n]
        /\ nodes'[t.node].rev = head + 1 /\ nodes'[t.node].deleted
    BY <1>0, <1>4, <2>1 DEF CommitDelete, Deleted, IsLive, Row
  <2> QED
    BY <1>1, <1>4, <2>2 DEF CommitDelete, Commits, Locking
<1>5. CASE CommitMove(w)
  <2>1. IsLive(t.node) /\ t.op = "move" /\ nodes' = Moved(t)
    BY <1>5 DEF CommitMove, Commits, LockInv, CheckedIsStillSo, Locking
  <2>2. /\ DOMAIN nodes' = Present
        /\ \A n \in Present \ {t.node} : nodes'[n].rev = nodes[n].rev
        /\ \A n \in Present : nodes'[n].deleted = nodes[n].deleted
        /\ nodes'[t.node].rev = head + 1 /\ ~nodes'[t.node].deleted
    BY <2>1, MovedRows DEF IsLive
  <2> QED
    BY <1>1, <1>5, <2>2 DEF CommitMove, Commits, Locking
<1>6. CASE CommitRestore(w)
  <2> DEFINE last == head + Len(t.lift) + 1
             lifted == {Entry(head + i, t.lift[i], "put") : i \in DOMAIN t.lift}
             added == lifted \cup {Entry(last, t.node, "put")}
  <2>1. /\ t.op = "restore" /\ nodes' = Restored(t) /\ head' = last
        /\ journal' = journal \cup added
    BY <1>6 DEF CommitRestore, Commits
  <2>2. /\ DOMAIN nodes' = Present
        /\ t.lift \in Seq(Nodes) /\ t.node \in Nodes
        /\ \A n \in Present :
             /\ n = t.node => nodes'[n].rev = last /\ ~nodes'[n].deleted
             /\ n # t.node /\ n \in Range(t.lift) =>
                  /\ ~nodes'[n].deleted
                  /\ \E i \in DOMAIN t.lift : t.lift[i] = n /\ nodes'[n].rev = head + i
             /\ n # t.node /\ n \notin Range(t.lift) => nodes'[n] = nodes[n]
    BY <1>0, <2>1, RestoredRows
  <2>3. /\ DOMAIN t.lift = 1..Len(t.lift) /\ Len(t.lift) \in Nat
        /\ \A i, j \in DOMAIN t.lift : t.lift[i] = t.lift[j] => i = j
    BY <2>1, <2>2, LenProperties DEF JournalInv, LiftIsTold
  <2>4. \A e \in added :
          /\ e.op = "put" /\ e.rev \in Nat /\ head < e.rev /\ e.rev <= last
          /\ \/ e.node = t.node /\ e.rev = last
             \/ \E i \in DOMAIN t.lift : e.node = t.lift[i] /\ e.rev = head + i
    BY <1>0, <2>3 DEF Entry
  <2>5. \E e \in added : e.node = t.node /\ e.rev = last
    <3>1. Entry(last, t.node, "put") \in added
      OBVIOUS
    <3>2. /\ Entry(last, t.node, "put").node = t.node
          /\ Entry(last, t.node, "put").rev = last
      BY DEF Entry
    <3> HIDE DEF added, last
    <3> QED
      BY <3>1, <3>2
  <2>6. ASSUME NEW i \in DOMAIN t.lift
        PROVE  \E e \in added : e.node = t.lift[i] /\ e.rev = head + i
    <3>1. Entry(head + i, t.lift[i], "put") \in added
      OBVIOUS
    <3>2. /\ Entry(head + i, t.lift[i], "put").node = t.lift[i]
          /\ Entry(head + i, t.lift[i], "put").rev = head + i
      BY DEF Entry
    <3> HIDE DEF added
    <3> QED
      BY <3>1, <3>2
  <2> HIDE DEF added, last
  <2>7. ASSUME NEW n \in DOMAIN nodes' \ {Root}
        PROVE  \/ /\ n \in Present
                  /\ nodes'[n].rev = nodes[n].rev /\ nodes'[n].deleted = nodes[n].deleted
                  /\ \A f \in added : f.node # n
               \/ \E e \in added : /\ e.node = n /\ e.rev = nodes'[n].rev
                                   /\ e.op = "del" <=> nodes'[n].deleted
                                   /\ \A g \in added : g.node = n => g.rev <= e.rev
    <3>1. CASE n = t.node
      <4>1. PICK e \in added : e.node = t.node /\ e.rev = last
        BY <2>5
      <4>2. e.op = "put" /\ \A g \in added : g.rev <= e.rev
        BY <2>4, <4>1
      <4> QED
        BY <2>2, <3>1, <4>1, <4>2
    <3>2. CASE n # t.node /\ n \in Range(t.lift)
      <4>1. PICK i \in DOMAIN t.lift : t.lift[i] = n /\ nodes'[n].rev = head + i
        BY <2>2, <3>2
      <4>2. PICK e \in added : e.node = t.lift[i] /\ e.rev = head + i
        BY <2>6, <4>1
      <4>3. \A g \in added : g.node = n => g.rev = head + i
        BY <2>3, <2>4, <3>2, <4>1
      <4>4. e.rev <= e.rev /\ e.op = "put"
        BY <2>4
      <4> QED
        BY <2>2, <3>2, <4>1, <4>2, <4>3, <4>4
    <3>3. CASE n # t.node /\ n \notin Range(t.lift)
      <4>1. \A f \in added : f.node # n
        BY <2>4, <3>3 DEF Range
      <4> QED
        BY <2>2, <3>3, <4>1
    <3> QED
      BY <3>1, <3>2, <3>3
  <2>8. JournalTellsTrash'
    BY <1>0, <2>1, <2>4, <2>7, StoryKept
  <2>9. \A e \in journal' : e.rev <= head'
    <3>1. last \in Nat /\ head < last
      BY <1>0, <2>3 DEF last
    <3> QED
      BY <1>0, <2>1, <2>4, <3>1
  <2>10. \A e \in journal' \ journal : e.node = t.node \/ e.node \in Range(t.lift)
    BY <2>1, <2>4 DEF Range
  <2> QED
    BY <2>1, <2>8, <2>9, <2>10 DEF Locking
<1>7. CASE CommitPurge(w) \/ CommitReset(w)
  <2>1. PICK gone : nodes' = Without(gone) /\ UNCHANGED <<head, journal>>
    BY <1>7 DEF CommitPurge, CommitReset
  <2>2. DOMAIN nodes' = Present \ gone /\ \A n \in Present \ gone : nodes'[n] = nodes[n]
    BY <2>1 DEF Without
  <2>3. JournalTellsTrash'
    BY <1>0, <2>1, <2>2 DEF JournalTellsTrash, Present
  <2> QED
    BY <1>0, <2>1, <2>3
<1>8. CASE Refuse(w) \/ DeadlockAbort(w)
  <2>1. UNCHANGED <<nodes, head, journal>>
    BY <1>8 DEF Refuse, DeadlockAbort, Rollback
  <2>2. JournalTellsTrash'
    BY <1>0, <2>1 DEF JournalTellsTrash, Present
  <2> QED
    BY <1>0, <2>1, <2>2
<1> QED
  BY <1>2, <1>3, <1>4, <1>5, <1>6, <1>7, <1>8 DEF Finish

\* The folders to lift are found trashed, in the order of their depth.
LEMMA BeginFindsTold ==
    ASSUME TreeInv, JournalInv, NEW w \in Writers, Begin(w)
    PROVE  \E t : /\ Start(w, t)
                  /\ t.op = "create" => FreshId(t.node)
                  /\ t.op = "restore" => LiftIsTold(t.lift)
<1> DEFINE Found == \E t : /\ Start(w, t)
                           /\ t.op = "create" => FreshId(t.node)
                           /\ t.op = "restore" => LiftIsTold(t.lift)
<1>1. ASSUME NEW n, NEW p, NEW name, NEW sha, BeginCreate(w, n, p, name, sha)
      PROVE  Found
  BY <1>1 DEF BeginCreate
<1>2. ASSUME NEW n, NEW base, NEW sha, BeginPut(w, n, base, sha)
      PROVE  Found
  BY <1>2 DEF BeginPut
<1>3. ASSUME NEW n, NEW rev, BeginDelete(w, n, rev)
      PROVE  Found
  BY <1>3 DEF BeginDelete
<1>4. ASSUME NEW n, NEW p, NEW name, NEW rev, BeginMove(w, n, p, name, rev)
      PROVE  Found
  BY <1>4 DEF BeginMove
<1>5. ASSUME NEW v \in versions, NEW k \in 0..Len(nodes[v.node].ancestry),
             NEW lift \in [1..k -> Range(nodes[v.node].ancestry)],
             BeginRestore(w, v.node, v, lift)
      PROVE  Found
  <2>1. /\ Range(lift) = {a \in Range(nodes[v.node].ancestry) \cap Present :
                                nodes[a].deleted}
        /\ \A i, j \in DOMAIN lift : i < j =>
                Len(nodes[lift[i]].ancestry) < Len(nodes[lift[j]].ancestry)
    BY <1>5 DEF BeginRestore
  <2>2. DOMAIN lift \subseteq Int
    OBVIOUS
  <2>3. ASSUME NEW i \in DOMAIN lift, NEW j \in DOMAIN lift, lift[i] = lift[j]
        PROVE  i = j
    <3>1. lift[i] \in Present
      BY <2>1 DEF Range
    <3>2. Len(nodes[lift[i]].ancestry) \in Nat
      BY <3>1, LenProperties DEF TreeInv, TypeInv, TypeOK, Row
    <3> QED
      BY <2>1, <2>2, <2>3, <3>2
  <2>4. ASSUME NEW a \in Range(lift)
        PROVE  a # Root /\ \E e \in journal : e.node = a
    BY <2>1, <2>4 DEF TreeInv, TypeInv, RootInv, JournalInv, JournalTellsTrash
  <2>5. LiftIsTold(lift)
    BY <2>3, <2>4 DEF LiftIsTold
  <2> DEFINE t == [op |-> "restore", node |-> v.node, rev |-> v.rev,
                   sha |-> v.sha, lift |-> lift]
  <2>6. Start(w, t) /\ t.op = "restore" /\ t.lift = lift
    BY <1>5 DEF BeginRestore
  <2> QED
    BY <2>5, <2>6
<1>6. ASSUME NEW target, BeginPurge(w, target)
      PROVE  Found
  BY <1>6 DEF BeginPurge
<1>7. ASSUME BeginReset(w)
      PROVE  Found
  BY <1>7 DEF BeginReset
<1> QED
  BY <1>1, <1>2, <1>3, <1>4, <1>5, <1>6, <1>7 DEF Begin

LEMMA NextKeepsJournal == TreeInv /\ LockInv /\ JournalInv /\ [Next]_vars => JournalInv'
<1> SUFFICES ASSUME TreeInv, LockInv, JournalInv, [Next]_vars PROVE JournalInv'
  OBVIOUS
<1>0. tx \in [Writers -> Txs]
  BY DEF TreeInv, TypeInv, TypeOK
<1>1. ASSUME NEW w \in Writers, Begin(w)
      PROVE  JournalInv'
  <2>1. PICK t : /\ Start(w, t)
                 /\ t.op = "create" => FreshId(t.node)
                 /\ t.op = "restore" => LiftIsTold(t.lift)
    BY <1>1, BeginFindsTold
  <2>2. /\ UNCHANGED <<nodes, head, journal>>
        /\ \A u \in Writers : tx'[u] = IF u = w THEN t ELSE tx[u]
    BY <1>0, <2>1 DEF Start
  <2>3. JournalTellsTrash'
    BY <2>2 DEF JournalInv, JournalTellsTrash, Present
  <2>4. ASSUME NEW u \in Writers
        PROVE  /\ tx'[u].op = "create" => \A e \in journal : e.node # tx'[u].node
               /\ tx'[u].op = "restore" => LiftIsTold(tx'[u].lift)
    BY <2>1, <2>2 DEF FreshId, JournalInv
  <2> QED
    BY <2>2, <2>3, <2>4 DEF JournalInv, LiftIsTold
<1>2. ASSUME NEW w \in Writers, Finish(w)
      PROVE  JournalInv'
  <2>1. /\ JournalTellsTrash' /\ journal \subseteq journal'
        /\ \A e \in journal' : e.rev <= head'
        /\ \A e \in journal' \ journal :
             \/ tx[w].op \in Locking \cup {"create"} /\ e.node = tx[w].node
             \/ tx[w].op = "restore" /\ e.node \in Range(tx[w].lift)
    BY <1>2, FinishKeepsStory
  <2>2. tx'[w] = Idle /\ \A u \in Writers \ {w} : tx'[u] = tx[u]
    BY <1>0, <1>2, FinishFrame
  <2>3. ASSUME NEW u \in Writers, tx'[u].op = "create", NEW e \in journal'
        PROVE  e.node # tx'[u].node
    <3>1. u # w /\ tx'[u] = tx[u] /\ tx[u].op = "create"
      BY <2>2, <2>3 DEF Idle
    <3>2. CASE e \in journal
      BY <3>1, <3>2 DEF JournalInv
    <3>3. CASE e \notin journal
      <4>1. tx[u].node \notin Present
        BY <3>1 DEF TreeInv, FreshInv
      <4>2. CASE tx[w].op \in Locking /\ e.node = tx[w].node
        BY <3>1, <4>1, <4>2 DEF LockInv, CheckedIsStillSo
      <4>3. CASE tx[w].op = "create" /\ e.node = tx[w].node
        BY <3>1, <4>3 DEF TreeInv, FreshInv
      <4>4. CASE tx[w].op = "restore" /\ e.node \in Range(tx[w].lift)
        BY <3>1, <4>4 DEF JournalInv, LiftIsTold
      <4> QED
        BY <2>1, <3>3, <4>2, <4>3, <4>4
    <3> QED
      BY <3>2, <3>3
  <2>4. ASSUME NEW u \in Writers, tx'[u].op = "restore"
        PROVE  /\ \A i, j \in DOMAIN tx'[u].lift :
                      tx'[u].lift[i] = tx'[u].lift[j] => i = j
               /\ \A a \in Range(tx'[u].lift) :
                      a # Root /\ \E e \in journal' : e.node = a
    <3>1. tx'[u] = tx[u] /\ LiftIsTold(tx[u].lift)
      BY <2>2, <2>4 DEF Idle, JournalInv
    <3> QED
      BY <2>1, <3>1 DEF LiftIsTold
  <2> QED
    BY <2>1, <2>3, <2>4 DEF JournalInv, LiftIsTold
<1>3. CASE SettleFreeze \/ UNCHANGED vars
  <2>1. UNCHANGED <<nodes, head, journal, tx>>
    BY <1>3 DEF SettleFreeze, vars
  <2> QED
    BY <2>1 DEF JournalInv, JournalTellsTrash, LiftIsTold, Present
<1> QED
  BY <1>1, <1>2, <1>3 DEF Next

\* Whatever is created, written, moved, trashed, lifted out of the trash and
\* removed for good at once, the journal's last word on a node is its row's.
THEOREM JournalAlwaysTellsTrash == Spec => []JournalTellsTrash
<1>1. Init => JournalInv
  BY DEF Init, JournalInv, JournalTellsTrash, Present, Idle
<1>2. Init => LockInv
  BY DEF Init, LockInv, LocksApart, CheckedIsStillSo, Held, Idle, Locking
<1>3. JournalInv => JournalTellsTrash
  BY DEF JournalInv
<1> QED
  BY <1>1, <1>2, <1>3, InitTree, NextKeepsTree, NextKeepsLocks, NextKeepsJournal, PTL
  DEF Spec

=============================================================================
