------------------------------ MODULE DeltaFeed ------------------------------
(***************************************************************************)
(* How a device learns what changed in its vault: the journal, the signed  *)
(* cursor and its two epochs, the pages of /delta and the walk of /list    *)
(* (server/src/delta), against everything that moves the vault meanwhile:  *)
(* writes, purges, resets, the pruning of the journal, a restore of the    *)
(* server from a backup and a rotation of its secret.                      *)
(*                                                                         *)
(* A /delta and a /list are two statements with no transaction around      *)
(* them, readPosition and then the rows, so each is two steps here.        *)
(* Between two requests of a pass anything may happen too.                 *)
(*                                                                         *)
(* A reader uses the feed in both ways there are: it pages (the contract   *)
(* of docs/04), or it probes with limit 1 and, unless the answer is quiet, *)
(* walks (plugin/src/engine/engine.ts, sync).  The tree is flat here: what *)
(* VaultTree proves of places, names and revisions is taken from there.    *)
(***************************************************************************)
EXTENDS Naturals, FiniteSets, FiniteSetsExt

CONSTANTS
    Nodes,          \* node ids other than the root's
    Contents,       \* blob addresses (sha256)
    Readers,        \* devices of the account
    None,           \* no cursor, no bound, no backup
    Limit,          \* nodes a page holds (MAX_LIMIT)
    MaxRev,         \* bound: revisions given out in one history
    MaxResets,      \* bound: resets
    MaxRestores,    \* bound: restores of the server from its backup
    MaxRotations,   \* bound: rotations of SERVER_SECRET
    Purging,        \* whether purgeTrash is called
    Pruning,        \* "never", "some" or "all" of the journal is pruned
    Kinds,          \* how a reader uses /delta: "page", "probe" or both
    RestoreMidPass, \* whether a restore may fall between a verdict and its walk
    Unraised        \* whether a restored copy may be served under the epoch in use

ASSUME ConstantsAssumption ==
    /\ None \notin Nodes \cup Contents
    /\ Limit \in Nat \ {0}
    /\ MaxRev \in Nat /\ MaxResets \in Nat
    /\ MaxRestores \in Nat /\ MaxRotations \in Nat
    /\ Kinds \subseteq {"page", "probe"}
    /\ Purging \in BOOLEAN /\ Pruning \in {"never", "some", "all"}
    /\ RestoreMidPass \in BOOLEAN /\ Unraised \in BOOLEAN

VARIABLES
    nodes,      \* the rows of `nodes`, by id
    head,       \* vaults.head_rev
    journal,    \* the rows of `journal`
    epoch,      \* server_meta.restore_epoch and vaults.reset_epoch
    secret,     \* which SERVER_SECRET signs
    backup,     \* the database as the last backup has it
    cursor,     \* the cursor each reader holds
    mirror,     \* the server's tree as each reader has it
    request,    \* what each reader is in the middle of
    removed,    \* history: the nodes ever trashed or reset, in any history
    taken       \* history: the nodes a reader has taken for deleted

server == <<nodes, head, journal, epoch, secret, backup, removed>>
client == <<cursor, mirror, request, taken>>
vars == <<server, client>>

-----------------------------------------------------------------------------
(* The server's rows.                                                       *)

Row == [rev : Nat, sha : Contents, deleted : BOOLEAN]
Entry == [rev : Nat, node : Nodes, op : {"put", "del"}]
Present == DOMAIN nodes
Live == {n \in Present : ~nodes[n].deleted}
Listing == [n \in Live |-> nodes[n].sha]

Epoch == [restore : Nat, reset : Nat]
Cursor == [epoch : Epoch, rev : Nat, hwm : Nat \cup {None}, signed : Nat]
Mirror == UNION {[known -> Contents] : known \in SUBSET Nodes}
Idle == [kind |-> "idle"]

\* No cursor is none of the cursors, and no bound none of the bounds.
ASSUME NoneIsApart == None \notin Cursor \cup Nat

\* Faulty: LIMIT keeps the newest rows.
CutNewest(rows, limit) == {j \in rows : Cardinality({k \in rows : k.rev > j.rev}) < limit}

\* LIMIT, over rows in the order of their revisions.
Cut(rows, limit) == {j \in rows : Cardinality({k \in rows : k.rev < j.rev}) < limit}

\* readChanges: the latest entry of each node within the bounds, joined to the
\* node's row as it is now, so an entry whose node is gone is not returned.
ReadChanges(after, upTo, limit) ==
    LET within == {j \in journal : after < j.rev /\ j.rev <= upTo}
        last == {j \in within : \A l \in within : l.node = j.node => l.rev <= j.rev}
    IN  Cut({j \in last : j.node \in Present}, limit)

\* rejectionFor.
Rejection(c) ==
    CASE c.epoch.restore # epoch.restore -> "restore"
      [] c.epoch.restore = epoch.restore /\ c.epoch.reset # epoch.reset -> "reset"
      [] OTHER -> IF journal # {} /\ Min({j.rev : j \in journal}) > c.rev + 1
                  THEN "journal_ttl" ELSE "none"

-----------------------------------------------------------------------------
(* What moves the vault.                                                    *)

Journalled(n, op) == journal \cup {[rev |-> head + 1, node |-> n, op |-> op]}

\* A create, a new content, or a restore from the trash.
Put(n, sha) ==
    /\ head < MaxRev
    /\ n \in Present \/ n \notin removed
    /\ \A j \in journal : j.node = n => n \in Present
    /\ \A r \in Readers : n \in DOMAIN mirror[r] => n \in Present
    /\ backup # None => (n \in DOMAIN backup.nodes => n \in Present)
    /\ nodes' = [m \in Present \cup {n} |->
                    IF m = n THEN [rev |-> head + 1, sha |-> sha, deleted |-> FALSE]
                             ELSE nodes[m]]
    /\ head' = head + 1
    /\ journal' = Journalled(n, "put")
    /\ UNCHANGED <<epoch, secret, backup, removed, client>>

Trash(n) ==
    /\ head < MaxRev
    /\ n \in Live
    /\ nodes' = [nodes EXCEPT ![n].deleted = TRUE, ![n].rev = head + 1]
    /\ head' = head + 1
    /\ journal' = Journalled(n, "del")
    /\ removed' = removed \cup {n}
    /\ UNCHANGED <<epoch, secret, backup, client>>

\* purgeTrash, and removeSpentTrash of the nightly pass: no revision and no
\* journal entry.
Purge(n) ==
    /\ Purging
    /\ n \in Present /\ nodes[n].deleted
    /\ nodes' = [m \in Present \ {n} |-> nodes[m]]
    /\ UNCHANGED <<head, journal, epoch, secret, backup, removed, client>>

\* resetVault: the tree goes, the journal stays, the epoch moves.
Reset ==
    /\ epoch.reset <= MaxResets
    /\ nodes' = [n \in {} |-> {}]
    /\ epoch' = [epoch EXCEPT !.reset = @ + 1]
    /\ removed' = removed \cup Present
    /\ UNCHANGED <<head, journal, secret, backup, client>>

\* The collector drops the entries older than JOURNAL_TTL_SECONDS.
Prune(upTo) ==
    /\ Pruning # "never"
    /\ \E j \in journal : j.rev <= upTo
    /\ journal' = {j \in journal : j.rev > upTo}
    /\ Pruning = "some" => journal' # {}
    /\ UNCHANGED <<nodes, head, epoch, secret, backup, removed, client>>

BackUp ==
    /\ epoch.restore <= MaxRestores
    /\ backup' = [nodes |-> nodes, head |-> head, journal |-> journal,
                   restore |-> epoch.restore, reset |-> epoch.reset]
    /\ UNCHANGED <<nodes, head, journal, epoch, secret, removed, client>>

\* restoreStatus: the database is behind the state file, which holds the epoch
\* the server ran with last.
Pending == backup.restore < epoch.restore

\* Faulty: the next of the copy's epoch, which may have been given out.
NextOfTheCopy == {backup.restore + 1}

\* The epochs a restored server may answer under.  While a restore is pending
\* nothing is answered but its confirmation, which raises the epoch.  One that
\* is not pending is refused confirmation and served at once: under a new epoch
\* where the operator has raised it by hand (the third step of docs/08), or
\* else under the epoch of the copy.
RestoreEpochs ==
    {epoch.restore + 1} \cup {e \in {backup.restore} : Unraised /\ ~Pending}

\* The server is stopped and its database replaced: requests in flight are lost.
Restore ==
    /\ backup # None
    /\ epoch.restore <= MaxRestores
    /\ RestoreMidPass \/ \A r \in Readers : request[r].kind # "walk"
    /\ nodes' = backup.nodes
    /\ head' = backup.head
    /\ journal' = backup.journal
    /\ \E next \in RestoreEpochs : epoch' = [restore |-> next, reset |-> backup.reset]
    /\ request' = [r \in Readers |->
                        IF request[r].kind = "walk" THEN request[r] ELSE Idle]
    /\ UNCHANGED <<secret, backup, removed, cursor, mirror, taken>>

Rotate ==
    /\ secret < MaxRotations
    /\ secret' = secret + 1
    /\ UNCHANGED <<nodes, head, journal, epoch, backup, removed, client>>

-----------------------------------------------------------------------------
(* A reader.                                                                *)

\* The cursor a device that has none is given.
FreshCursor == [epoch |-> epoch, rev |-> 0, hwm |-> None, signed |-> secret]
Presented(r) == IF cursor[r] = None THEN FreshCursor ELSE cursor[r]

\* The bound is pinned on the first page of a series.
Bound(c) == IF c.hwm = None THEN head ELSE c.hwm

\* How an absence is read after each verdict (POLICY).
Reading(verdict) == IF verdict \in {"none", "journal_ttl"} THEN "apply" ELSE "keep"

\* GET /delta, first statement.  A cursor that does not verify and one that is
\* rejected send the reader to walk.
Ask(r, kind) ==
    LET c == Presented(r)
        verdict == IF c.signed # secret THEN "unverifiable" ELSE Rejection(c)
    IN
    /\ request[r] = Idle
    /\ kind = "probe" => cursor[r] # None
    /\ request' = [request EXCEPT ![r] =
                        IF verdict = "none"
                        THEN [kind |-> kind, epoch |-> epoch, hwm |-> Bound(c)]
                        ELSE [kind |-> "walk", reading |-> Reading(verdict)]]
    /\ UNCHANGED <<server, cursor, mirror, taken>>

\* A device with no cursor has nothing to ask about and walks.
FirstWalk(r) ==
    /\ request[r] = Idle /\ cursor[r] = None
    /\ request' = [request EXCEPT ![r] = [kind |-> "walk", reading |-> "apply"]]
    /\ UNCHANGED <<server, cursor, mirror, taken>>

\* Faulty: the position is the bound while there is more.
PositionAtBound(page, hasMore, hwm) == hwm

\* The last row's revision while there is more, the bound when there is not.
Position(page, hasMore, hwm) ==
    IF hasMore THEN Max({j.rev : j \in page}) ELSE hwm

\* GET /delta, second statement: a row more than the page is asked for.
RowsFor(r) == ReadChanges(Presented(r).rev, request[r].hwm, Limit + 1)
Page(r) == Cut(RowsFor(r), Limit)

\* Answered to a reader that pages.
AnswerPage(r) ==
    LET q == request[r]
        hasMore == Cardinality(RowsFor(r)) > Limit
        gone == {j.node : j \in {k \in Page(r) : k.op = "del"}}
        here == {j.node : j \in Page(r)} \ gone
    IN
    /\ q.kind = "page"
    /\ cursor' = [cursor EXCEPT ![r] =
            [epoch |-> q.epoch, signed |-> secret,
             rev |-> Position(Page(r), hasMore, q.hwm),
             hwm |-> IF hasMore THEN q.hwm ELSE None]]
    /\ mirror' = [mirror EXCEPT ![r] =
            [n \in (DOMAIN @ \ gone) \cup here |->
                IF n \in here THEN nodes[n].sha ELSE mirror[r][n]]]
    /\ taken' = taken \cup (gone \cap DOMAIN mirror[r])
    /\ request' = [request EXCEPT ![r] = Idle]
    /\ UNCHANGED server

\* The same, answered to a probe: quiet, and the remembered tree is used, or a
\* walk.  The cursor that came with the answer is not kept.
AnswerProbe(r) ==
    LET q == request[r]
        quiet == ReadChanges(cursor[r].rev, q.hwm, 2) = {}
    IN
    /\ q.kind = "probe"
    /\ request' = [request EXCEPT ![r] =
                        IF quiet THEN Idle ELSE [kind |-> "walk", reading |-> "apply"]]
    /\ UNCHANGED <<server, cursor, mirror, taken>>

\* GET /list, first statement.
StartList(r) ==
    /\ request[r].kind = "walk"
    /\ request' = [request EXCEPT ![r] =
            [kind |-> "list", reading |-> @.reading, epoch |-> epoch, rev |-> head]]
    /\ UNCHANGED <<server, cursor, mirror, taken>>

\* GET /list, second statement, and the end of the pass: what the device knew
\* and does not find is deleted here too, where the verdict allows it.
Listed(r) ==
    LET q == request[r] IN
    /\ q.kind = "list"
    /\ mirror' = [mirror EXCEPT ![r] = Listing]
    /\ cursor' = [cursor EXCEPT ![r] =
            [epoch |-> q.epoch, rev |-> q.rev, hwm |-> None, signed |-> secret]]
    /\ taken' = IF q.reading = "apply"
                THEN taken \cup (DOMAIN mirror[r] \ Live) ELSE taken
    /\ request' = [request EXCEPT ![r] = Idle]
    /\ UNCHANGED server

\* A request or its answer is lost, or the app is closed: nothing was saved.
GiveUp(r) ==
    /\ request[r] # Idle
    /\ request' = [request EXCEPT ![r] = Idle]
    /\ UNCHANGED <<server, cursor, mirror, taken>>

-----------------------------------------------------------------------------
Init ==
    /\ nodes = [n \in {} |-> {}]
    /\ head = 0
    /\ journal = {}
    /\ epoch = [restore |-> 1, reset |-> 1]
    /\ secret = 0
    /\ backup = None
    /\ cursor = [r \in Readers |-> None]
    /\ mirror = [r \in Readers |-> [n \in {} |-> {}]]
    /\ request = [r \in Readers |-> Idle]
    /\ removed = {}
    /\ taken = {}

Server ==
    \/ \E n \in Nodes, sha \in Contents : Put(n, sha)
    \/ \E n \in Nodes : Trash(n)
    \/ \E n \in Nodes : Purge(n)
    \/ Reset
    \/ \E upTo \in 1..MaxRev : Prune(upTo)
    \/ BackUp
    \/ Restore
    \/ Rotate

Reader(r) ==
    \/ \E kind \in Kinds : Ask(r, kind)
    \/ FirstWalk(r)
    \/ AnswerPage(r)
    \/ AnswerProbe(r)
    \/ StartList(r)
    \/ Listed(r)

Next == Server \/ \E r \in Readers : Reader(r) \/ GiveUp(r)

Spec == Init /\ [][Next]_vars

-----------------------------------------------------------------------------
Requests ==
    {Idle}
    \cup [kind : {"page", "probe"}, epoch : Epoch, hwm : Nat]
    \cup [kind : {"walk"}, reading : {"apply", "keep"}]
    \cup [kind : {"list"}, reading : {"apply", "keep"}, epoch : Epoch, rev : Nat]

\* The shape of the state; in a series of pages the bound is ahead of the
\* position.
TypeOK ==
    /\ Present \subseteq Nodes /\ nodes \in [Present -> Row]
    /\ head \in Nat
    /\ journal \subseteq Entry
    /\ epoch \in Epoch
    /\ secret \in Nat
    /\ backup # None =>
        /\ DOMAIN backup.nodes \subseteq Nodes
        /\ backup.nodes \in [DOMAIN backup.nodes -> Row]
        /\ backup.head \in Nat /\ backup.journal \subseteq Entry
        /\ backup.restore \in Nat /\ backup.reset \in Nat
    /\ cursor \in [Readers -> Cursor \cup {None}]
    /\ \A r \in Readers : cursor[r] # None =>
            (cursor[r].hwm # None => cursor[r].rev < cursor[r].hwm)
    /\ mirror \in [Readers -> Mirror]
    /\ request \in [Readers -> Requests]
    /\ removed \subseteq Nodes /\ taken \subseteq Nodes

-----------------------------------------------------------------------------
(* Safety.                                                                  *)

SameHistory(r) == cursor[r] # None /\ cursor[r].epoch = epoch

\* What the journal still tells of a node as it is now, up to a revision.
Told(rev) == {j \in journal : /\ j.node \in Present
                              /\ j.rev = nodes[j.node].rev /\ j.rev <= rev}

Has(r, rev) ==
    \A j \in Told(rev) :
        IF nodes[j.node].deleted
        THEN j.node \notin DOMAIN mirror[r]
        ELSE j.node \in DOMAIN mirror[r] /\ mirror[r][j.node] = nodes[j.node].sha

\* Whatever is written, purged, pruned, reset or restored between two pages, a
\* reader past a node's revision has that node as it is: no page boundary
\* steps over a node, no write made during a series or a walk is lost, and no
\* cursor of an earlier history is answered.  Only what the journal no longer
\* has may be missed.  That is so where every restore raises the epoch, by its
\* confirmation or by hand.  With Unraised it fails: a cursor of the history
\* that was lost is answered, and is ahead of revisions given out again.
NothingJournalledIsMissed ==
    \A r \in Readers : SameHistory(r) => Has(r, cursor[r].rev)

\* A device removes its copy of a node only when the server once trashed or
\* reset that node, never because a restore had taken the server back to before
\* the node was made (D-70), whatever mix of resets, rotations, prunings and
\* restores that raise the epoch it was away for.  With RestoreMidPass it fails,
\* and with Unraised: the verdict is then that of a history which goes on, and
\* what the server lost is taken for deleted.
DeletionsAreReal == taken \subseteq removed
=============================================================================
