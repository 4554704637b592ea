------------------------------ MODULE VaultTree ------------------------------
(***************************************************************************)
(* One vault of the server and the requests that write its tree: the       *)
(* handlers of server/src/nodes/service.ts, history/service.ts,            *)
(* history/purge.ts and vaults/reset.ts, each one database transaction at  *)
(* READ COMMITTED.                                                         *)
(*                                                                         *)
(* A handler first reads and checks, then takes the vault row with         *)
(* nextRev and holds it to its commit.  What it read before that lock may  *)
(* be stale by the time it writes, so a request is two steps here: Begin,  *)
(* which does the reads, the early returns and the row lock (FOR UPDATE),  *)
(* and a commit step, which does every statement from nextRev on, the      *)
(* statement triggers and the deferred ones, and ends in COMMIT or in a    *)
(* rollback.  The commit step is atomic because the vault row is held      *)
(* throughout it; purgeTrash, which never takes that row, waits for the    *)
(* row locks of the others like everybody else.                            *)
(*                                                                         *)
(* The vault is in no share (fanOut returns at once); names are name_hmac  *)
(* values, content is its address; sizes, times and key material are left  *)
(* out.                                                                    *)
(***************************************************************************)
EXTENDS Naturals, Sequences, FiniteSets, Functions

CONSTANTS
    Nodes,      \* node ids (nodes.id)
    Root,       \* vaults.root_node_id
    Names,      \* values of name_hmac
    Contents,   \* blob addresses (sha256)
    Writers,    \* server connections, each serving one request at a time
    None,       \* SQL NULL: no parent, no name, no content, no target
    MaxRev,     \* bound: no request begins once head_rev has reached it
    MaxResets   \* bound: the resets a vault is given

ASSUME ConstantsAssumption ==
    /\ Root \in Nodes
    /\ None \notin Nodes \cup Names \cup Contents
    /\ MaxRev \in Nat /\ MaxResets \in Nat

VARIABLES
    nodes,      \* the committed rows of `nodes`, by id
    head,       \* vaults.head_rev
    journal,    \* the rows of `journal`
    versions,   \* the rows of `versions`
    resetEpoch, \* vaults.reset_epoch
    frozen,     \* the account is over quota (users.frozen_at)
    tx          \* what each connection has read and is about to write

vars == <<nodes, head, journal, versions, resetEpoch, frozen, tx>>

-----------------------------------------------------------------------------
(* Rows and reads. *)

Row == [parent : Nodes \cup {None}, name : Names \cup {None}, file : BOOLEAN,
        sha : Contents \cup {None}, rev : Nat, deleted : BOOLEAN,
        ancestry : Seq(Nodes)]

Present == DOMAIN nodes
IsLive(n) == n \in Present /\ ~nodes[n].deleted

\* "everything strictly under X" is `ancestry @> ARRAY[X]`.
Under(rows, n) == {m \in DOMAIN rows : n \in Range(rows[m].ancestry)}

\* The chain a node placed under p carries: [...parent.ancestry, parentId].
ChainUnder(rows, p) == Append(rows[p].ancestry, p)

\* A live sibling other than `self` that already has the name.
NameTaken(rows, p, name, self) ==
    \E m \in DOMAIN rows \ {self} :
        rows[m].parent = p /\ rows[m].name = name /\ ~rows[m].deleted

-----------------------------------------------------------------------------
(* Row locks.  FOR UPDATE is taken by the four handlers that read the row   *)
(* they are about to change.                                               *)

Idle == [op |-> "idle"]
Locking == {"put", "delete", "move", "restore"}

\* Faulty: putContent reads the row without FOR UPDATE.
HeldWithoutPut(w) == IF tx[w].op \in Locking \ {"put"} THEN {tx[w].node} ELSE {}

Held(w) == IF tx[w].op \in Locking THEN {tx[w].node} ELSE {}
Locked(n) == \E w \in Writers : n \in Held(w)

\* The rows of others a commit has to lock: the parent of an inserted or
\* moved row (the foreign key takes KEY SHARE on it, which FOR UPDATE
\* excludes), and every row an UPDATE or DELETE touches.
Needs(t) ==
    CASE t.op = "create"  -> {t.parent}
      [] t.op = "move"    -> Under(nodes, t.node)
                                \cup ({t.parent} \ {nodes[t.node].parent})
      [] t.op = "restore" -> Range(t.lift)
      [] t.op = "purge"   -> t.doomed \cap Present
      [] t.op = "reset"   -> Present \ {Root}
      [] OTHER            -> {}

Blockers(w) == {u \in Writers \ {w} : Held(u) \cap Needs(tx[w]) # {}}

-----------------------------------------------------------------------------
(* What the schema checks.                                                 *)

\* nodes_check_ancestry, deferred: the row's chain is its parent's chain and
\* the parent, and its children have not kept an older one.
ChainsHold(rows, moved) ==
    \A n \in moved \cap DOMAIN rows :
        /\ rows[n].ancestry = IF rows[n].parent = None THEN <<>>
                              ELSE ChainUnder(rows, rows[n].parent)
        /\ \A c \in DOMAIN rows : rows[c].parent = n =>
                rows[c].ancestry = ChainUnder(rows, n)

\* nodes_check_live_under_live, deferred.
LiveHolds(rows, touched) ==
    \A n \in touched \cap DOMAIN rows :
        IF rows[n].deleted
        THEN \A c \in DOMAIN rows : rows[c].parent = n => rows[c].deleted
        ELSE rows[n].parent # None => ~rows[rows[n].parent].deleted

\* The index nodes_unique_sibling.
NamesHold(rows, touched) ==
    \A n \in touched : ~rows[n].deleted =>
        ~NameTaken(rows, rows[n].parent, rows[n].name, n)

\* parent_id references nodes ON DELETE RESTRICT.
ParentsHold(rows) ==
    \A n \in DOMAIN rows : rows[n].parent # None => rows[n].parent \in DOMAIN rows

-----------------------------------------------------------------------------
(* What each write makes of the rows.  head + 1 is what nextRev returns.    *)

Created(t) ==
    [n \in Present \cup {t.node} |->
        IF n = t.node
        THEN [parent |-> t.parent, name |-> t.name, file |-> t.sha # None,
              sha |-> t.sha, rev |-> head + 1, deleted |-> FALSE,
              ancestry |-> t.chain]
        ELSE nodes[n]]

Put(t) == [nodes EXCEPT ![t.node].sha = t.sha, ![t.node].rev = head + 1]

Deleted(t) == [nodes EXCEPT ![t.node].deleted = TRUE, ![t.node].rev = head + 1]

\* What stands below n in a chain that passes through it.
Below(chain, n) ==
    LET at == CHOOSE i \in DOMAIN chain : chain[i] = n
    IN  SubSeq(chain, at + 1, Len(chain))

\* rewriteSubtreeAncestry: every row with the moved node in its ancestry, the
\* trashed ones too, takes the new chain above it.
RewriteSubtreeAncestry(rows, n, chain) ==
    [m \in DOMAIN rows |->
        IF n \in Range(rows[m].ancestry)
        THEN [rows[m] EXCEPT !.ancestry = Append(chain, n) \o Below(rows[m].ancestry, n)]
        ELSE rows[m]]

Moved(t) ==
    RewriteSubtreeAncestry(
        [nodes EXCEPT ![t.node] = [@ EXCEPT !.parent = t.parent, !.name = t.name,
                                            !.rev = head + 1, !.ancestry = t.chain]],
        t.node, t.chain)

\* The deleted ancestors come back outermost first, each under a revision of
\* its own, and then the node, with the content of the version asked for.
Restored(t) ==
    [n \in Present |->
        IF n = t.node
        THEN [nodes[n] EXCEPT !.deleted = FALSE, !.sha = t.sha,
                              !.rev = head + Len(t.lift) + 1]
        ELSE IF n \in Range(t.lift)
        THEN [nodes[n] EXCEPT !.deleted = FALSE,
                              !.rev = head + (CHOOSE i \in DOMAIN t.lift : t.lift[i] = n)]
        ELSE nodes[n]]

Without(gone) == [n \in Present \ gone |-> nodes[n]]

\* The versions of a removed row go with it (ON DELETE CASCADE).
VersionsWithout(gone) == {v \in versions : v.node \notin gone}

-----------------------------------------------------------------------------
(* Whether a write reaches COMMIT: its statement triggers, its constraints  *)
(* and the deferred checks, all read the rows as they stand then.           *)

\* Faulty: no deferred check that the parent is still live.
CreateAcceptedAnywhere(t) ==
    /\ ~frozen
    /\ t.parent \in Present
    /\ NamesHold(Created(t), {t.node})
    /\ ChainsHold(Created(t), {t.node})

CreateAccepted(t) ==
    /\ ~frozen
    /\ t.parent \in Present
    /\ NamesHold(Created(t), {t.node})
    /\ ChainsHold(Created(t), {t.node})
    /\ LiveHolds(Created(t), {t.node})

PutAccepted(t) == frozen => t.sha = nodes[t.node].sha

DeleteAccepted(t) == LiveHolds(Deleted(t), {t.node})

MoveAccepted(t) ==
    /\ t.parent \in Present \ {t.node}
    /\ t.node \notin Range(nodes[t.parent].ancestry)        \* nodes_reject_cycle
    /\ NamesHold(Moved(t), {t.node})
    /\ ChainsHold(Moved(t), {t.node} \cup Under(nodes, t.node))
    /\ LiveHolds(Moved(t), {t.node})

RestoreAccepted(t) ==
    /\ frozen => t.sha = nodes[t.node].sha
    /\ NamesHold(Restored(t), {t.node} \cup Range(t.lift))
    /\ LiveHolds(Restored(t), {t.node} \cup Range(t.lift))

\* A purge is refused by a row that hangs off what it removes.
PurgeAccepted(t) == ParentsHold(Without(t.doomed))

Accepted(t) ==
    CASE t.op = "create"  -> CreateAccepted(t)
      [] t.op = "put"     -> PutAccepted(t)
      [] t.op = "delete"  -> DeleteAccepted(t)
      [] t.op = "move"    -> MoveAccepted(t)
      [] t.op = "restore" -> RestoreAccepted(t)
      [] t.op = "purge"   -> PurgeAccepted(t)
      [] t.op = "reset"   -> TRUE

-----------------------------------------------------------------------------
(* The first half of each request: reads, early returns, the row lock.      *)

Start(w, t) ==
    /\ tx' = [tx EXCEPT ![w] = t]
    /\ UNCHANGED <<nodes, head, journal, versions, resetEpoch, frozen>>

MayBegin(w) == tx[w] = Idle /\ head < MaxRev

\* gen_random_uuid(): an id no row, no journal entry and no request has had.
FreshId(n) ==
    /\ n \notin Present
    /\ \A e \in journal : e.node # n
    /\ \A u \in Writers : tx[u].op = "create" => tx[u].node # n

\* createNode up to nextRev.  Clients place nodes in folders only.
BeginCreate(w, n, parent, name, sha) ==
    /\ MayBegin(w)
    /\ FreshId(n)
    /\ ~frozen
    /\ IsLive(parent) /\ ~nodes[parent].file
    /\ Start(w, [op |-> "create", node |-> n, parent |-> parent, name |-> name,
                 sha |-> sha, chain |-> ChainUnder(nodes, parent)])

\* putContent up to nextRev: base_mismatch unless the client's base is the
\* content the locked row has.
BeginPut(w, n, base, sha) ==
    /\ MayBegin(w)
    /\ ~frozen
    /\ ~Locked(n)
    /\ IsLive(n) /\ nodes[n].file
    /\ nodes[n].sha = base
    /\ Start(w, [op |-> "put", node |-> n, base |-> base, sha |-> sha])

\* deleteNode up to nextRev: rev_mismatch, folder_not_empty.  Not refused to
\* a frozen account.
BeginDelete(w, n, ifMatchRev) ==
    /\ MayBegin(w)
    /\ ~Locked(n)
    /\ n # Root /\ IsLive(n)
    /\ nodes[n].rev = ifMatchRev
    /\ \A c \in Present : nodes[c].parent = n => nodes[c].deleted
    /\ Start(w, [op |-> "delete", node |-> n, rev |-> ifMatchRev])

\* moveNode up to nextRev.  The destination is read without a lock, and the
\* chain the node will carry is made from that read.
BeginMove(w, n, parent, name, ifMatchRev) ==
    /\ MayBegin(w)
    /\ ~Locked(n)
    /\ n # Root /\ IsLive(n)
    /\ nodes[n].rev = ifMatchRev
    /\ IsLive(parent) /\ ~nodes[parent].file
    /\ Start(w, [op |-> "move", node |-> n, parent |-> parent, name |-> name,
                 rev |-> ifMatchRev, chain |-> ChainUnder(nodes, parent)])

\* restoreNode up to its first nextRev: the version must exist, and no live
\* sibling may have the name of the node or of an ancestor to be lifted.
\* `lift` is the deleted ancestors, ORDER BY array_length(ancestry, 1).
BeginRestore(w, n, v, lift) ==
    /\ MayBegin(w)
    /\ ~frozen
    /\ ~Locked(n)
    /\ n \in Present
    /\ v \in versions /\ v.node = n
    /\ Range(lift) = {a \in Range(nodes[n].ancestry) \cap Present : nodes[a].deleted}
    /\ \A i, j \in DOMAIN lift : i < j =>
            Len(nodes[lift[i]].ancestry) < Len(nodes[lift[j]].ancestry)
    /\ \A a \in Range(lift) \cup {n} :
            ~NameTaken(nodes, nodes[a].parent, nodes[a].name, a)
    /\ Start(w, [op |-> "restore", node |-> n, rev |-> v.rev,
                 sha |-> v.sha, lift |-> lift])

\* The rows a purge of `target` (None: the whole trash) will remove: trashed,
\* and with nothing live below.
Doomed(target) ==
    {n \in Present :
        /\ nodes[n].deleted
        /\ target # None => n = target \/ target \in Range(nodes[n].ancestry)
        /\ \A m \in Under(nodes, n) : nodes[m].deleted}

\* purgeTrash up to its first DELETE.  It locks nothing it has read.
BeginPurge(w, target) ==
    /\ MayBegin(w)
    /\ target # None => target \in Present /\ nodes[target].deleted
    /\ Doomed(target) # {}
    /\ Start(w, [op |-> "purge", doomed |-> Doomed(target)])

\* resetVault reads nothing before it locks the vault row.
BeginReset(w) ==
    /\ MayBegin(w)
    /\ resetEpoch <= MaxResets
    /\ \A u \in Writers : tx[u].op # "reset"
    /\ Start(w, [op |-> "reset"])

-----------------------------------------------------------------------------
(* The second half: from the vault row's lock to COMMIT.                    *)

Commits(w, op) ==
    /\ tx[w].op = op
    /\ Blockers(w) = {}
    /\ Accepted(tx[w])
    /\ tx' = [tx EXCEPT ![w] = Idle]

Entry(rev, n, op) == [rev |-> rev, node |-> n, op |-> op]
Version(n, rev, sha) == [node |-> n, rev |-> rev, sha |-> sha]

CommitCreate(w) ==
    LET t == tx[w] IN
    /\ Commits(w, "create")
    /\ nodes' = Created(t)
    /\ head' = head + 1
    /\ journal' = journal \cup {Entry(head + 1, t.node, "put")}
    /\ versions' = IF t.sha = None THEN versions
                   ELSE versions \cup {Version(t.node, head + 1, t.sha)}
    /\ UNCHANGED <<resetEpoch, frozen>>

CommitPut(w) ==
    LET t == tx[w] IN
    /\ Commits(w, "put")
    /\ nodes' = Put(t)
    /\ head' = head + 1
    /\ journal' = journal \cup {Entry(head + 1, t.node, "put")}
    /\ versions' = versions \cup {Version(t.node, head + 1, t.sha)}
    /\ UNCHANGED <<resetEpoch, frozen>>

CommitDelete(w) ==
    LET t == tx[w] IN
    /\ Commits(w, "delete")
    /\ nodes' = Deleted(t)
    /\ head' = head + 1
    /\ journal' = journal \cup {Entry(head + 1, t.node, "del")}
    /\ UNCHANGED <<versions, resetEpoch, frozen>>

CommitMove(w) ==
    LET t == tx[w] IN
    /\ Commits(w, "move")
    /\ nodes' = Moved(t)
    /\ head' = head + 1
    /\ journal' = journal \cup {Entry(head + 1, t.node, "move")}
    /\ UNCHANGED <<versions, resetEpoch, frozen>>

\* Faulty: the lifted ancestors are not journalled.
RestoreJournalsNodeOnly(w) ==
    LET t == tx[w]
        last == head + Len(t.lift) + 1 IN
    /\ Commits(w, "restore")
    /\ nodes' = Restored(t)
    /\ head' = last
    /\ journal' = journal \cup {Entry(last, t.node, "put")}
    /\ versions' = versions \cup {Version(t.node, last, t.sha)}
    /\ UNCHANGED <<resetEpoch, frozen>>

CommitRestore(w) ==
    LET t == tx[w]
        last == head + Len(t.lift) + 1 IN
    /\ Commits(w, "restore")
    /\ nodes' = Restored(t)
    /\ head' = last
    /\ journal' = journal \cup {Entry(head + i, t.lift[i], "put") : i \in DOMAIN t.lift}
                          \cup {Entry(last, t.node, "put")}
    /\ versions' = versions \cup {Version(t.node, last, t.sha)}
    /\ UNCHANGED <<resetEpoch, frozen>>

\* Nothing is journalled.
CommitPurge(w) ==
    LET t == tx[w] IN
    /\ Commits(w, "purge")
    /\ nodes' = Without(t.doomed)
    /\ versions' = VersionsWithout(t.doomed)
    /\ UNCHANGED <<head, journal, resetEpoch, frozen>>

\* Faulty: KEEP without its `parent_id IS NULL`.
ResetTakesRoot(w) ==
    /\ Commits(w, "reset")
    /\ nodes' = Without(Present)
    /\ versions' = VersionsWithout(Present)
    /\ resetEpoch' = resetEpoch + 1
    /\ UNCHANGED <<head, journal, frozen>>

CommitReset(w) ==
    /\ Commits(w, "reset")
    /\ nodes' = Without(Present \ {Root})
    /\ versions' = VersionsWithout(Present \ {Root})
    /\ resetEpoch' = resetEpoch + 1
    /\ UNCHANGED <<head, journal, frozen>>

Rollback(w) ==
    /\ tx' = [tx EXCEPT ![w] = Idle]
    /\ UNCHANGED <<nodes, head, journal, versions, resetEpoch, frozen>>

\* txGuarded: a constraint or a trigger refuses, and nothing was written.
Refuse(w) ==
    /\ tx[w] # Idle
    /\ Blockers(w) = {}
    /\ ~Accepted(tx[w])
    /\ Rollback(w)

\* w has the vault row and wants a row that u has locked, and u will want the
\* vault row: PostgreSQL's deadlock detector aborts one of the two.
DeadlockAbort(w) ==
    /\ \E u \in Writers :
          \/ tx[w].op # "purge" /\ u \in Blockers(w)
          \/ tx[u].op # "purge" /\ w \in Blockers(u)
    /\ Rollback(w)

\* freezeIfOverQuota and settleFreeze, called by requests on the account's
\* other vaults.
SettleFreeze ==
    /\ frozen' = ~frozen
    /\ UNCHANGED <<nodes, head, journal, versions, resetEpoch, tx>>

-----------------------------------------------------------------------------
Init ==
    /\ nodes = [n \in {Root} |->
                    [parent |-> None, name |-> None, file |-> FALSE, sha |-> None,
                     rev |-> 0, deleted |-> FALSE, ancestry |-> <<>>]]
    /\ head = 0
    /\ journal = {}
    /\ versions = {}
    /\ resetEpoch = 1
    /\ frozen = FALSE
    /\ tx = [w \in Writers |-> Idle]

Begin(w) ==
    \/ \E n, p \in Nodes, name \in Names, sha \in Contents \cup {None} :
            BeginCreate(w, n, p, name, sha)
    \/ \E n \in Nodes, base, sha \in Contents : BeginPut(w, n, base, sha)
    \/ \E n \in Present : BeginDelete(w, n, nodes[n].rev)
    \/ \E n \in Present, p \in Nodes, name \in Names :
            BeginMove(w, n, p, name, nodes[n].rev)
    \/ \E v \in versions : \E k \in 0..Len(nodes[v.node].ancestry) :
        \E lift \in [1..k -> Range(nodes[v.node].ancestry)] :
            BeginRestore(w, v.node, v, lift)
    \/ \E target \in Nodes \cup {None} : BeginPurge(w, target)
    \/ BeginReset(w)

Finish(w) ==
    \/ CommitCreate(w)
    \/ CommitPut(w)
    \/ CommitDelete(w)
    \/ CommitMove(w)
    \/ CommitRestore(w)
    \/ CommitPurge(w)
    \/ CommitReset(w)
    \/ Refuse(w)
    \/ DeadlockAbort(w)

Next ==
    \/ \E w \in Writers : Begin(w) \/ Finish(w)
    \/ SettleFreeze

Spec == Init /\ [][Next]_vars

-----------------------------------------------------------------------------
(* Types.                                                                   *)

Txs ==
    {Idle}
    \cup [op : {"create"}, node : Nodes, parent : Nodes, name : Names,
          sha : Contents \cup {None}, chain : Seq(Nodes)]
    \cup [op : {"put"}, node : Nodes, base : Contents, sha : Contents]
    \cup [op : {"delete"}, node : Nodes, rev : Nat]
    \cup [op : {"move"}, node : Nodes, parent : Nodes, name : Names, rev : Nat,
          chain : Seq(Nodes)]
    \cup [op : {"restore"}, node : Nodes, rev : Nat, sha : Contents \cup {None},
          lift : Seq(Nodes)]
    \cup [op : {"purge"}, doomed : SUBSET Nodes]
    \cup [op : {"reset"}]

\* The shape of the state.  The vault keeps its one root
\* (vaults_root_is_exactly_one_node), and nothing else is without a parent.
TypeOK ==
    /\ Present \subseteq Nodes
    /\ nodes \in [Present -> Row]
    /\ Root \in Present
    /\ \A n \in Present : nodes[n].parent = None <=> n = Root
    /\ head \in Nat
    /\ journal \subseteq [rev : Nat, node : Nodes, op : {"put", "del", "move"}]
    /\ versions \subseteq [node : Nodes, rev : Nat, sha : Contents \cup {None}]
    /\ resetEpoch \in Nat
    /\ frozen \in BOOLEAN
    /\ tx \in [Writers -> Txs]

-----------------------------------------------------------------------------
(* Safety.                                                                  *)

\* No interleaving of requests leaves a row whose ancestry is not the chain of
\* its parents, whatever destination a move had read before it queued for the
\* vault row: the subtree access rule, the share boundary and every listing
\* read that column (db/schema.sql, nodes_check_ancestry).
AncestryIsParentChain ==
    /\ ParentsHold(nodes)
    /\ ChainsHold(nodes, Present)

\* A live node never hangs under a trashed folder, although a create, a move
\* and a restore look at the folder before they hold the vault row and a
\* delete looks for children before it does (nodes_check_live_under_live).
LiveUnderLive ==
    \A n \in Present \ {Root} :
        ~nodes[n].deleted => IsLive(nodes[n].parent)

\* Two live siblings never share a name, restored and lifted ones included.
SiblingNamesUnique ==
    \A n \in Present \ {Root} : ~nodes[n].deleted =>
        ~NameTaken(nodes, nodes[n].parent, nodes[n].name, n)

\* A node's row and its last journal entry tell one story: the entry is at the
\* row's revision and says `del` exactly when the row is trashed.  A client
\* that follows the journal therefore ends where the tree is.
JournalTellsTrash ==
    \A n \in Present \ {Root} : \E e \in journal :
        /\ e.node = n /\ e.rev = nodes[n].rev
        /\ e.op = "del" <=> nodes[n].deleted
        /\ \A f \in journal : f.node = n => f.rev <= e.rev

\* What a write was checked against is still so when it is written: the base
\* a put named, the revision a delete or a move named, and that the node is
\* live.  This is what makes base_mismatch and rev_mismatch worth anything
\* while requests queue for the vault row.
CheckedIsStillSo ==
    \A w \in Writers : LET t == tx[w] IN
        /\ t.op \in Locking => t.node \in Present
        /\ t.op \in Locking \ {"restore"} => IsLive(t.node)
        /\ t.op = "put" => nodes[t.node].sha = t.base
        /\ t.op \in {"delete", "move"} => nodes[t.node].rev = t.rev

\* What a purge takes for good was in the trash.  docs/12-sharing-scenarios.md
\* says "A purge deletes nothing that is alive anywhere".
PurgeTakesOnlyTrash ==
    [][\A n \in DOMAIN nodes \ DOMAIN nodes' :
            nodes[n].deleted \/ resetEpoch' # resetEpoch]_vars
=============================================================================
