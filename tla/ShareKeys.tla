------------------------------ MODULE ShareKeys ------------------------------
(***************************************************************************)
(* The key material of one shared folder.  A file's name is under a key    *)
(* scope, its content key is wrapped (an envelope) for each scope that may *)
(* open it, and a dedup tag says of a text, in a scope, at which address   *)
(* it is held.  Sharing the folder moves what is in it from the vault key  *)
(* of its owner to the key of the share, in requests of a few nodes each;  *)
(* whoever leaves moves their own copy back.  Only a device can convert,   *)
(* and only the server knows what is owed, so each side works from what    *)
(* the other said a while ago, and other devices write in between.         *)
(*                                                                         *)
(* Sealing uses a fresh content key: the address of a text is new whenever *)
(* it is sealed.  Members and departures in full are in Sharing.           *)
(***************************************************************************)
EXTENDS Naturals, Sequences, FiniteSetsExt, Functions

CONSTANTS Users,      \* accounts, one vault each; also the names of the vault keys
          Initiator,  \* whose folder it is
          Items,      \* files of the folder, numbered in the order of their node ids
          Texts,      \* what a file may say
          Said,       \* what the one file of the folder said first, and says
          None,
          MaxBlobs,   \* bound on the addresses sealed
          MaxOthersWrites, \* bound on the writes of other devices
          Mishaps     \* what the conversions do not survive, see Risk

ASSUME InitiatorIsAUser == Initiator \in Users /\ "KS" \notin Users
ASSUME ItemsAreNumbered == Items \subseteq Nat /\ IsFiniteSet(Items)
ASSUME TextsWereWritten == Said \in Texts \X Texts /\ Said[1] # Said[2]
ASSUME KeyBoundsAreNaturals == MaxBlobs \in Nat \ {0, 1} /\ MaxOthersWrites \in Nat
ASSUME MishapsAreKnown ==
  Mishaps \subseteq {"same text twice", "trash in the folder"}

VARIABLES share,   \* shares.state, and "none" before there is a row
          member,  \* share_members: what its columns say of each account
          node,    \* the folder in each vault: nodes and versions
          sealed,  \* blob_keys: which address opens under which scope
          tag,     \* dedup_index: scope and text to address
          text,    \* what each address decrypts to
          op,      \* the conversion under way on the device of each account
          writes   \* writes of other devices so far

keysVars == <<share, member, node, sealed, tag, text, op, writes>>

Scopes == Users \cup {"KS"}
Blobs == 1..MaxBlobs
Held == 1..Len(text)

\* A file: its key scope, its head, and the addresses of its versions.
Node == [live : BOOLEAN, marked : BOOLEAN, key : Scopes, head : Blobs,
         kept : SUBSET Blobs]

\* One line of the listing a departure works from.
Row == [deleted : BOOLEAN, address : Blobs \cup {None}, history : SUBSET Blobs]

Conversion ==
  [doing : {"share"}, step : {"create", "owed", "prepare", "activate"},
   walk : [Items -> Blobs \cup {None}], owed : [Items -> SUBSET Blobs],
   todo : SUBSET Items, calm : BOOLEAN]
  \cup [doing : {"leave"}, step : {"begin", "finalize"},
        rows : UNION {[S -> Row] : S \in SUBSET Items}]

ASSUME NoneIsApart == None \notin Blobs \cup Node \cup Conversion

\* Every variable has its type, no envelope or tag names an address nothing was
\* sealed at, and a share is under way exactly while its initiator is in it.
KeysTypeOK ==
  /\ share \in {"none", "preparing", "active", "cancelled", "ended"}
  /\ member \in [Users -> {"none", "invited", "joined", "finalizing", "left"}]
  /\ share \in {"preparing", "active"} <=> member[Initiator] = "joined"
  /\ node \in [Users -> [Items -> Node \cup {None}]]
  /\ sealed \subseteq Held \X Scopes
  /\ tag \in [Scopes -> [Texts -> Held \cup {None}]]
  /\ text \in Seq(Texts) /\ Len(text) <= MaxBlobs
  /\ op \in [Users -> Conversion \cup {None}]
  /\ writes \in 0..MaxOthersWrites

\* One file, written twice under the vault key, and no other.
KeysInit ==
  /\ share = "none"
  /\ member = [u \in Users |-> "none"]
  /\ text = Said
  /\ tag = [s \in Scopes |-> [t \in Texts |->
              IF s = Initiator /\ t \in Range(Said)
              THEN CHOOSE b \in 1..2 : Said[b] = t ELSE None]]
  /\ \E i \in Items :
       node = [u \in Users |-> [j \in Items |->
                 IF u = Initiator /\ j = i
                 THEN [live |-> TRUE, marked |-> FALSE, key |-> u,
                       head |-> 2, kept |-> {1, 2}]
                 ELSE None]]
  /\ sealed = {<<1, Initiator>>, <<2, Initiator>>}
  /\ op = [u \in Users |-> None]
  /\ writes = 0

-----------------------------------------------------------------------------
(* What the server checks of a node: the triggers on nodes and versions.   *)

Sealed(s, b) == <<b, s>> \in sealed

\* What the server and a device read of the dedup index.
Tagged(tags, s, b) == \E t \in Texts : tags[s][t] = b

Live == {u \in Users : member[u] = "joined"}
Inside(u) == member[u] \in {"joined", "finalizing"}

\* The scopes whose keys GET /vaults/:id offers an account, and which its device
\* can therefore open: the share's until the pass is recorded.
Offered(u) == {u} \cup (IF Inside(u) THEN {"KS"} ELSE {})

\* nodes_check_share_membership: what is in the folder of a participant carries
\* the mark of the share, and nothing else does.
MarkAccepted(u, n) == n.marked <=> Inside(u)

\* envelopesFor: an address opens for an account by a scope it is offered.
OpensFor(u, b) == \E s \in Offered(u) : Sealed(s, b)

\* nodes_check_name_key.
NameAccepted(u, n) ==
  /\ n.marked /\ share = "active" => n.key = "KS"
  /\ n.marked /\ share = "preparing" => n.key \in {u, "KS"}
  /\ ~n.marked \/ share \notin {"active", "preparing"} => n.key = u

\* nodes_check_private_material, nodes_check_active_share_material: envelope and
\* tag of the head a write gives a node.
MaterialAccepted(u, n, envelopes, tags) ==
  LET has(s) == <<n.head, s>> \in envelopes /\ Tagged(tags, s, n.head)
  IN  /\ ~n.marked => has(u)
      /\ n.marked /\ share = "active" => has("KS")

\* Mutant: the check of a mark's removal asks for the head alone.
UnmarkAcceptsHead(u, n, envelopes, tags) ==
  /\ <<n.head, u>> \in envelopes
  /\ n.live => Tagged(tags, u, n.head)

\* nodes_check_finalization_material: what the node points at when its mark goes.
UnmarkAccepted(u, n, envelopes, tags) ==
  /\ \A b \in n.kept \cup {n.head} : <<b, u>> \in envelopes
  /\ n.live => Tagged(tags, u, n.head)

Marked(u) == {i \in Items : node[u][i] # None /\ node[u][i].marked}

\* owedUnder: what is missing under scope s of the head and of the versions.
NeedsMaterial(n, s) ==
  ~(Sealed(s, n.head) /\ (~n.live \/ Tagged(tag, s, n.head)))

\* Mutant: the listing names the head of a file and none of its versions.
NoHistoryOwed(n, s) == {}

HistoryOwed(n, s) == {b \in n.kept \ {n.head} : ~Sealed(s, b)}

\* preparationGaps: the trash need not be renamed, but its bytes are asked for.
Gaps == {i \in Marked(Initiator) :
           LET n == node[Initiator][i]
           IN  \/ n.live /\ n.key # "KS"
               \/ NeedsMaterial(n, "KS")
               \/ HistoryOwed(n, "KS") # {}}

\* shares_check_activation_material: the names of the trash too.
ActivationAccepted ==
  /\ Gaps = {}
  /\ \A i \in Marked(Initiator) :
       LET n == node[Initiator][i]
       IN  /\ n.key = "KS"
           /\ \A b \in n.kept \cup {n.head} : Sealed("KS", b)
           /\ n.live => Tagged(tag, "KS", n.head)

-----------------------------------------------------------------------------
(* Writes of other devices.  A device opened its vault a while ago: it     *)
(* seals for the share if it saw one and for the vault key otherwise.      *)

\* What goes wrong, where it is admitted.
Risk(taken, mishap) == taken => mishap \in Mishaps

\* Scopes a device of u may believe the folder is under.
Believed(u) == {u} \cup (IF member[u] \in {"none", "invited"} THEN {} ELSE {"KS"})

\* resolveContent: the address a tag answers, or a new one with its envelope and
\* its tag.  The lookup is made once, before the pass, and another device may
\* seal the same text meanwhile.
Reused(s, t) == [at |-> tag[s][t], sealed |-> sealed, tag |-> tag, text |-> text]
SealedAnew(s, t) ==
  LET b == Len(text) + 1
  IN  [at |-> b, sealed |-> sealed \cup {<<b, s>>},
       tag |-> [tag EXCEPT ![s][t] = b], text |-> Append(text, t)]
Stored(s, t) ==
  {w \in {Reused(s, t), SealedAnew(s, t)} :
     /\ w.at # None /\ Len(w.text) <= MaxBlobs
     /\ Risk(w.at # tag[s][t] /\ tag[s][t] # None, "same text twice")}

\* Two files of one vault say the same at two addresses.
TwiceHeld(nodes, texts) ==
  \E u \in Users : \E i, j \in {k \in Items : nodes[u][k] # None /\ nodes[u][k].live} :
    nodes[u][i].head # nodes[u][j].head
    /\ texts[nodes[u][i].head] = texts[nodes[u][j].head]

\* A write that reaches the server: it disturbs a conversion of that folder.
Counted(u) ==
  /\ writes < MaxOthersWrites /\ writes' = writes + 1
  /\ op' = [op EXCEPT ![u] = IF @ # None /\ @.doing = "share"
                             THEN [@ EXCEPT !.calm = FALSE] ELSE @]
  /\ Risk(TwiceHeld(node', text'), "same text twice")
  /\ UNCHANGED <<share, member>>

\* fanOut: what happened to the file of u happens to the copies of those live.
Fanned(u, i, n, theirs) ==
  [v \in Users |->
     CASE v = u -> [node[v] EXCEPT ![i] = n]
       [] n.marked /\ v \in Live \ {u} -> [node[v] EXCEPT ![i] = theirs[v]]
       [] OTHER -> node[v]]

CreateNode(u, i, t, s) ==
  /\ node[u][i] = None /\ (u = Initiator \/ Inside(u)) /\ s \in Believed(u)
  /\ \E w \in Stored(s, t) :
       \E n \in [live : {TRUE}, marked : BOOLEAN, key : {s}, head : {w.at}, kept : {{w.at}}] :
         /\ MarkAccepted(u, n) /\ NameAccepted(u, n)
         /\ MaterialAccepted(u, n, w.sealed, w.tag)
         /\ node' = Fanned(u, i, n, [v \in Users |-> n])
         /\ sealed' = w.sealed /\ tag' = w.tag /\ text' = w.text
  /\ Counted(u)

\* A put into a file: the head moves and a version is added.
Put(old, b) == IF old = None \/ ~old.live THEN old
               ELSE [old EXCEPT !.head = b, !.kept = @ \cup {b}]

PutContent(u, i, t, s) ==
  /\ node[u][i] # None /\ node[u][i].live /\ s \in Believed(u)
  /\ \E w \in Stored(s, t) :
       LET n == Put(node[u][i], w.at)
       IN  /\ MaterialAccepted(u, n, w.sealed, w.tag)
           /\ node' = Fanned(u, i, n, [v \in Users |-> Put(node[v][i], w.at)])
           /\ sealed' = w.sealed /\ tag' = w.tag /\ text' = w.text
  /\ Counted(u)

Trashed(old) == IF old = None THEN old ELSE [old EXCEPT !.live = FALSE]

DeleteNode(u, i) ==
  /\ node[u][i] # None /\ node[u][i].live
  /\ Risk(u = Initiator /\ share \in {"none", "preparing"}, "trash in the folder")
  /\ node' = Fanned(u, i, Trashed(node[u][i]), [v \in Users |-> Trashed(node[v][i])])
  /\ UNCHANGED <<sealed, tag, text>> /\ Counted(u)

\* A restore is an undelete and then a put of an address the file has kept.  It
\* brings no material.
Restored(old, b) ==
  IF old = None THEN old ELSE Put([old EXCEPT !.live = TRUE], b)
RestoreNode(u, i, b) ==
  /\ node[u][i] # None /\ b \in node[u][i].kept
  /\ MaterialAccepted(u, Restored(node[u][i], b), sealed, tag)
  /\ node' = Fanned(u, i, Restored(node[u][i], b), [v \in Users |-> Restored(node[v][i], b)])
  /\ UNCHANGED <<sealed, tag, text>> /\ Counted(u)

-----------------------------------------------------------------------------
(* One conversion of one node, in either direction.                        *)

\* The plaintext a tag is computed over is the file on disk, which is taken to
\* say what the server's head does.
OnDisk(b) == text[b]

\* Envelopes rekey adds for scope `to`: those that open under `from`.
Moved(addresses, from, to) == {<<b, to>> : b \in {a \in addresses : Sealed(from, a)}}

Addresses(address, history) == ({address} \ {None}) \cup history

-----------------------------------------------------------------------------
(* shareFolder: create, ask what is owed, prepare in batches, activate.    *)

Converts(u, what) == op[u] # None /\ op[u].doing = what
AtStep(u, what, step) == Converts(u, what) /\ op[u].step = step

\* The tree as the engine read it: the heads of what is live.
BeginSharing ==
  /\ share = "none" /\ op[Initiator] = None
  /\ op' = [op EXCEPT ![Initiator] =
       [doing |-> "share", step |-> "create", calm |-> TRUE, todo |-> {},
        owed |-> [i \in Items |-> {}],
        walk |-> [i \in Items |->
                    LET n == node[Initiator][i]
                    IN  IF n = None \/ ~n.live THEN None ELSE n.head]]]
  /\ UNCHANGED <<share, member, node, sealed, tag, text, writes>>

\* shares_check_root: nothing of it is in a share already.
RootAccepted == \A i \in Items : node[Initiator][i] # None => ~node[Initiator][i].marked

\* createShare: the whole subtree is marked, the trash with it.
CreateShare ==
  /\ AtStep(Initiator, "share", "create") /\ share = "none" /\ RootAccepted
  /\ share' = "preparing" /\ member' = [member EXCEPT ![Initiator] = "joined"]
  /\ node' = [node EXCEPT ![Initiator] = [i \in Items |->
                IF @[i] = None THEN None ELSE [@[i] EXCEPT !.marked = TRUE]]]
  /\ op' = [op EXCEPT ![Initiator].step = "owed"]
  /\ UNCHANGED <<sealed, tag, text, writes>>

\* preparationOwed, and the plan: what was walked, with the history owed.
AskWhatIsOwed ==
  /\ AtStep(Initiator, "share", "owed")
  /\ op' = [op EXCEPT ![Initiator] =
       IF share # "preparing" THEN None
       ELSE [op[Initiator] EXCEPT
               !.step = "prepare",
               !.todo = {i \in Items : op[Initiator].walk[i] # None},
               !.owed = [i \in Items |-> IF i \in Marked(Initiator)
                           THEN HistoryOwed(node[Initiator][i], "KS") ELSE {}]]]
  /\ UNCHANGED <<share, member, node, sealed, tag, text, writes>>

\* rekey refuses what has no envelope under the vault key; prepareShare refuses
\* when the share is not preparing and a node that is not live.
BatchRefused(i) ==
  \/ share # "preparing" \/ node[Initiator][i] = None \/ ~node[Initiator][i].live
  \/ \E b \in Addresses(op[Initiator].walk[i], op[Initiator].owed[i]) :
       ~Sealed(Initiator, b)

PrepareBatch(i) ==
  /\ AtStep(Initiator, "share", "prepare") /\ i \in op[Initiator].todo
  /\ LET o == op[Initiator]
     IN  IF BatchRefused(i)
         THEN /\ op' = [op EXCEPT ![Initiator] = None]
              /\ UNCHANGED <<node, sealed, tag>>
         ELSE /\ node' = [node EXCEPT ![Initiator][i].key = "KS"]
              /\ sealed' = sealed \cup
                   Moved(Addresses(o.walk[i], o.owed[i]), Initiator, "KS")
              /\ tag' = [tag EXCEPT !["KS"][OnDisk(o.walk[i])] = o.walk[i]]
              /\ op' = [op EXCEPT ![Initiator].todo = @ \ {i}]
  /\ UNCHANGED <<share, member, text, writes>>

\* activateShare, when every batch has been sent.
EndBatches ==
  /\ AtStep(Initiator, "share", "prepare") /\ op[Initiator].todo = {}
  /\ op' = [op EXCEPT ![Initiator].step = "activate"]
  /\ UNCHANGED <<share, member, node, sealed, tag, text, writes>>

Activate ==
  /\ AtStep(Initiator, "share", "activate")
  /\ share' = IF share = "preparing" /\ ActivationAccepted THEN "active" ELSE share
  /\ op' = [op EXCEPT ![Initiator] = None]
  /\ UNCHANGED <<member, node, sealed, tag, text, writes>>

\* cancelShare: its UPDATE removes the mark of every node, under the checks of one.
CancelAccepted ==
  \A i \in Marked(Initiator) :
    LET n == node[Initiator][i]
    IN  n.key = Initiator /\ UnmarkAccepted(Initiator, n, sealed, tag)

CancelShare ==
  /\ share = "preparing" /\ member[Initiator] = "joined" /\ CancelAccepted
  /\ share' = "cancelled" /\ member' = [member EXCEPT ![Initiator] = "left"]
  /\ node' = [node EXCEPT ![Initiator] = [i \in Items |->
                IF @[i] = None THEN None ELSE [@[i] EXCEPT !.marked = FALSE]]]
  /\ UNCHANGED <<sealed, tag, text, op, writes>>

-----------------------------------------------------------------------------
(* Members: an invitation carries the key of the share, a join copies what *)
(* is live with its versions.                                              *)

Invite(u) ==
  /\ share = "active" /\ Initiator \in Live /\ member[u] = "none"
  /\ member' = [member EXCEPT ![u] = "invited"]
  /\ UNCHANGED <<share, node, sealed, tag, text, op, writes>>

\* A declined or a withdrawn invitation leaves no row.
Decline(u) ==
  /\ member[u] = "invited"
  /\ member' = [member EXCEPT ![u] = "none"]
  /\ UNCHANGED <<share, node, sealed, tag, text, op, writes>>

\* The triggers ask of each copy what they ask of a write.
JoinAccepted(copies) ==
  \A i \in Items : copies[i] # None =>
    /\ Sealed("KS", copies[i].head) /\ Tagged(tag, "KS", copies[i].head)
    /\ \A b \in copies[i].kept : Sealed("KS", b)

JoinShare(u) ==
  /\ share = "active" /\ member[u] = "invited"
  /\ LET copies == [i \in Items |->
           LET n == node[Initiator][i] IN IF n = None \/ ~n.live THEN None ELSE n]
     IN  JoinAccepted(copies) /\ node' = [node EXCEPT ![u] = copies]
  /\ member' = [member EXCEPT ![u] = "joined"]
  /\ UNCHANGED <<share, sealed, tag, text, op, writes>>

\* departMember: the initiator's departure ends the share, and that of the last
\* other member.  It does not go through while an invitation is open.
\* Mutant: only the last other member ends it.
EndsWithTheLast(u) == Live \ {u, Initiator} = {}

EndsShare(u) == u = Initiator \/ Live \ {u, Initiator} = {}

MayDepart(u) ==
  /\ member[u] = "joined"
  /\ ~(EndsShare(u) /\ \E v \in Users : member[v] = "invited")

Depart(u) ==
  /\ MayDepart(u)
  /\ IF EndsShare(u)
     THEN /\ share' = IF share = "preparing" THEN "cancelled" ELSE "ended"
          /\ member' = [v \in Users |->
               IF member[v] = "joined" THEN "finalizing" ELSE member[v]]
     ELSE share' = share /\ member' = [member EXCEPT ![u] = "finalizing"]

RemoveMember(u) ==
  /\ u # Initiator /\ Depart(u)
  /\ UNCHANGED <<node, sealed, tag, text, op, writes>>

-----------------------------------------------------------------------------
(* leaveShare: list the copy, begin, convert all of it in one request.     *)

\* replicaOf, and replicaForLeave: what of each marked node is still owed.
Listing(u) ==
  [i \in Marked(u) |->
     LET n == node[u][i]
     IN  [deleted |-> ~n.live,
          address |-> IF NeedsMaterial(n, u) THEN n.head ELSE None,
          history |-> HistoryOwed(n, u)]]

\* requireEveryNameReadable, before anything is begun.
ListReplica(u) ==
  /\ Inside(u) /\ op[u] = None
  /\ \A i \in Marked(u) : node[u][i].key \in Offered(u)
  /\ op' = [op EXCEPT ![u] = [doing |-> "leave", step |-> "begin", rows |-> Listing(u)]]
  /\ UNCHANGED <<share, member, node, sealed, tag, text, writes>>

\* leaveShare of the server: one begun is answered, one refused ends the attempt.
BeginLeave(u) ==
  /\ AtStep(u, "leave", "begin")
  /\ \/ /\ Depart(u)
        /\ op' = [op EXCEPT ![u].step = "finalize"]
     \/ /\ member[u] = "finalizing"
        /\ op' = [op EXCEPT ![u].step = "finalize"] /\ UNCHANGED <<share, member>>
     \/ /\ ~MayDepart(u) /\ member[u] # "finalizing"
        /\ op' = [op EXCEPT ![u] = None] /\ UNCHANGED <<share, member>>
  /\ UNCHANGED <<node, sealed, tag, text, writes>>

\* Rows that bring a dedup tag: the head, if it moved and is not in the trash.
Tags(rows) ==
  {i \in DOMAIN rows : rows[i].address # None /\ ~rows[i].deleted
                       /\ Sealed("KS", rows[i].address)}

\* writeMaterial: the tags as they are after the rows up to i, each repointed by
\* the last row that names its text.
TagsAfter(u, rows, i) ==
  [tag EXCEPT ![u] = [t \in Texts |->
     LET by == {j \in Tags(rows) : j <= i /\ OnDisk(rows[j].address) = t}
     IN  IF by = {} THEN @[t] ELSE rows[Max(by)].address]]

EnvelopesAfter(u, rows) ==
  sealed \cup UNION {Moved(Addresses(rows[i].address, rows[i].history), "KS", u) :
                       i \in DOMAIN rows}

\* A node as the pass leaves it; one who joined keeps the file and no history.
Returned(u, n) == [n EXCEPT !.marked = FALSE, !.key = u,
                            !.kept = IF u = Initiator THEN @ ELSE {}]

\* share_members_check_marks_cleared: who leaves had begun to, and keeps no mark.
MayLeave(u, cleared) == member[u] = "finalizing" /\ Marked(u) \subseteq cleared

FinalizeAccepted(u, rows) ==
  /\ DOMAIN rows \subseteq Marked(u) /\ MayLeave(u, DOMAIN rows)
  /\ \A i \in DOMAIN rows :
       UnmarkAccepted(u, Returned(u, node[u][i]), EnvelopesAfter(u, rows),
                      TagsAfter(u, rows, i))

\* finalizeLeave: the whole copy or nothing.
FinalizeLeave(u) ==
  /\ AtStep(u, "leave", "finalize")
  /\ LET rows == op[u].rows
     IN  IF FinalizeAccepted(u, rows)
         THEN /\ node' = [node EXCEPT ![u] = [i \in Items |->
                   IF i \in Marked(u) THEN Returned(u, @[i]) ELSE @[i]]]
              /\ sealed' = EnvelopesAfter(u, rows)
              /\ tag' = TagsAfter(u, rows, Max(Items))
              /\ member' = [member EXCEPT ![u] = "left"]
         ELSE UNCHANGED <<node, sealed, tag, member>>
  /\ op' = [op EXCEPT ![u] = None]
  /\ UNCHANGED <<share, text, writes>>

\* The device stops, or an answer is lost, between two requests of a conversion.
GiveUp(u) ==
  /\ op[u] # None
  /\ op' = [op EXCEPT ![u] = None]
  /\ UNCHANGED <<share, member, node, sealed, tag, text, writes>>

-----------------------------------------------------------------------------

KeysNext ==
  \/ \E u \in Users, i \in Items, t \in Texts, s \in Scopes :
       CreateNode(u, i, t, s) \/ PutContent(u, i, t, s)
  \/ \E u \in Users, i \in Items :
       DeleteNode(u, i) \/ \E b \in Blobs : RestoreNode(u, i, b)
  \/ BeginSharing \/ CreateShare \/ AskWhatIsOwed
  \/ \E i \in Items : PrepareBatch(i)
  \/ EndBatches \/ Activate \/ CancelShare
  \/ \E u \in Users : Invite(u) \/ Decline(u) \/ JoinShare(u) \/ RemoveMember(u)
  \/ \E u \in Users : ListReplica(u) \/ BeginLeave(u) \/ FinalizeLeave(u) \/ GiveUp(u)

KeysSpec == KeysInit /\ [][KeysNext]_keysVars

\* The folder stays in the list of shares until its departure is recorded, and
\* the person asks again until it is.
KeysFairSpec ==
  KeysSpec /\ \A u \in Users : WF_keysVars(ListReplica(u))
                             /\ SF_keysVars(BeginLeave(u)) /\ SF_keysVars(FinalizeLeave(u))

-----------------------------------------------------------------------------

\* Every name and every version of every copy opens with a key its owner is
\* offered, at every moment of a conversion; once the folder is shared, and once
\* it is private again, under the one scope everybody looks for it under.
EveryFileOpens ==
  \A u \in Users, i \in Items :
    LET n == node[u][i]
        home == IF n.marked THEN "KS" ELSE u
    IN  n # None =>
          /\ n.key \in Offered(u)
          /\ \A b \in n.kept \cup {n.head} : OpensFor(u, b)
          /\ (~n.marked \/ share = "active") =>
               n.key = home /\ \A b \in n.kept \cup {n.head} : Sealed(home, b)

\* A folder nobody wrote to since the device walked it is complete when the last
\* batch has been sent: what the device converts is what the server asks for.
PreparedIsAccepted ==
  AtStep(Initiator, "share", "activate") /\ op[Initiator].calm => ActivationAccepted

\* A departure that began ends, whatever other devices wrote meanwhile.
EveryDepartureEnds ==
  \A u \in Users : member[u] = "finalizing" ~> member[u] = "left"
=============================================================================
