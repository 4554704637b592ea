------------------------------ MODULE Sharing ------------------------------
(***************************************************************************)
(* One shared folder and the copies of it: who is in the share, and one    *)
(* file of the folder in the vault of each of them.  A write goes to every *)
(* copy in the transaction that makes it; an account without room is       *)
(* passed over and brought level when it has room again; whoever goes      *)
(* keeps the file and converts its name back to a key of their own.        *)
(*                                                                         *)
(* A request is one transaction with two steps: the first reads and takes  *)
(* its row locks, the second writes and commits.  What a request reads     *)
(* without a lock may have changed before it commits.  The tree inside the *)
(* folder is the subject of VaultTree and is one file here.                *)
(***************************************************************************)
EXTENDS Naturals, Sequences, SequencesExt, FiniteSets

CONSTANTS Users,      \* accounts; each has one vault, and one request in flight
          Initiator,  \* the account whose folder is shared
          Contents,   \* content addresses, each the size of one unit of room
          None,
          MaxWrites,  \* bound on the versions written
          Quota,      \* the contents each account has room for at first
          Rooms,      \* bound: what room each account may come to have
          MaxGaps,    \* bound on the changes of an account's room
          Mishaps     \* what the copies do not survive, see Apart and Risk

ASSUME InitiatorIsAUser == Initiator \in Users
ASSUME BoundsAreNaturals == {MaxWrites, MaxGaps} \subseteq Nat
ASSUME RoomIsNatural == /\ Quota \in [Users -> Nat]
                        /\ Rooms \in [Users -> SUBSET Nat]
ASSUME MishapsAreKnown ==
  Mishaps \subseteq {"write in a join", "write in a thaw", "two departures",
                     "join from a frozen copy", "nobody to catch up from",
                     "catch up from a copy that lacks it",
                     "restore of what a copy lacks"}

VARIABLES share,   \* shares.state, and "none" before there is a row
          member,  \* share_members: what its columns say of each account
          copy,    \* the file in each vault: nodes and versions
          room,    \* users.quota_bytes less what is held outside the folder
          frozen,  \* users.frozen_at
          tx,      \* the request of each account between its two steps
          writes,  \* versions written so far; the clock of the history
          gaps     \* changes of room so far

vars == <<share, member, copy, room, frozen, tx, writes, gaps>>

\* A version: when it was written (a write has a number of its own, a join the
\* number of the last write and the joiner), what, and who wrote it.
Entry == [at : (0..MaxWrites) \X (Users \cup {None}), content : Contents, by : Users]

\* A node and its versions, oldest first.  The key its name is under is the
\* share's or the vault key of an account.
Copy == [content : Contents, live : BOOLEAN, name : Users \cup {"KS"},
         history : Seq(Entry)]

WriteOps == {"create", "put", "delete", "restore"}

Request ==
  [op : WriteOps, content : Contents \cup {None}, name : Users \cup {"KS", None},
   to : SUBSET Users]
  \cup [op : {"join"}, source : Contents \cup {None}]
  \cup [op : {"thaw"}, source : Copy \cup {None}, room : UNION Range(Rooms)]
  \cup [op : {"leave", "revoke"}, target : Users, ends : BOOLEAN]
  \cup [op : {"withdraw"}, target : Users]

ASSUME NoneIsApart == None \notin Users \cup Contents \cup Copy \cup Request

\* Every variable has its type: a copy holds only what was written, and a request
\* in flight is one of the requests there are.
TypeOK ==
  /\ share \in {"none", "preparing", "active", "ended", "cancelled"}
  /\ member \in [Users -> {"none", "invited", "joined", "finalizing", "left"}]
  /\ copy \in [Users -> Copy \cup {None}]
  /\ \A u \in Users : room[u] \in Rooms[u] \cup {Quota[u]}
  /\ room \in [Users -> Nat] /\ frozen \in [Users -> BOOLEAN]
  /\ tx \in [Users -> Request \cup {None}]
  /\ writes \in 0..MaxWrites /\ gaps \in 0..MaxGaps

Init ==
  /\ share = "none"
  /\ member = [u \in Users |-> "none"]
  /\ copy = [u \in Users |-> None]
  /\ room = Quota
  /\ frozen = [u \in Users |-> FALSE]
  /\ tx = [u \in Users |-> None]
  /\ writes = 0 /\ gaps = 0

-----------------------------------------------------------------------------
(* Populations and locks.                                                  *)

\* JOINED: the folder in the vault of u carries the mark of the share.
Inside(u) == member[u] \in {"joined", "finalizing"}

Live == {u \in Users : member[u] = "joined"}

\* Mutant: the population of the member list is taken for that of the fan-out.
JoinedUnfrozen == {u \in Users : Inside(u) /\ ~frozen[u]}

LiveUnfrozen == {u \in Live : ~frozen[u]}

\* Whose folder the model follows: a copy, or the folder before it is shared.
InFolder(u) == Inside(u) \/ (u = Initiator /\ share = "none")

Doing(u, ops) == tx[u] # None /\ tx[u].op \in ops

\* Row locks another request holds: on the share, on the membership of v, on
\* the node of v.
ShareLocked(u) == \E w \in Users \ {u} : Doing(w, {"join", "leave"})
MemberLocked(u, v) ==
  \/ u # v /\ Doing(v, {"join", "leave"})
  \/ \E w \in Users \ {u} : Doing(w, WriteOps) /\ v \in tx[w].to
NodeLocked(u, v) == u # v /\ Doing(v, {"put", "delete", "restore", "thaw"})

\* Two requests at once, and a step taken in a state, that go wrong.
Apart(ops, mishap) == mishap \in Mishaps \/ \A v \in Users : ~Doing(v, ops)
Risk(taken, mishap) == taken => mishap \in Mishaps

\* Contents an account holds through its copy, and whether they fit.
Holds(c) == IF c = None THEN {}
            ELSE {c.content} \cup {e.content : e \in Range(c.history)}
Over(c, r) == Cardinality(Holds(c)) > r
Fits(u, content) == Cardinality(Holds(copy[u]) \cup {content}) <= room[u]

\* The step that begins request r of u and only takes locks.
Begin(u, r) ==
  /\ tx[u] = None
  /\ tx' = [tx EXCEPT ![u] = r]
  /\ UNCHANGED <<share, member, copy, room, frozen, writes, gaps>>

\* A refusal, a deadlock, a lost connection or a crash: nothing was written.
RollBack(u) ==
  /\ tx[u] # None
  /\ tx' = [tx EXCEPT ![u] = None]
  /\ UNCHANGED <<share, member, copy, room, frozen, writes, gaps>>

-----------------------------------------------------------------------------
(* The life of the share.                                                  *)

\* createShare: the folder and all that is in it take the mark as they are.
CreateShare(u) ==
  /\ u = Initiator /\ tx[u] = None /\ share = "none"
  /\ share' = "preparing"
  /\ member' = [member EXCEPT ![u] = "joined"]
  /\ UNCHANGED <<copy, room, frozen, tx, writes, gaps>>

\* prepareShare: one batch; only what is live has its name converted.
Prepare(u) ==
  /\ u = Initiator /\ tx[u] = None /\ share = "preparing" /\ ~frozen[u]
  /\ copy[u] # None /\ copy[u].live
  /\ copy' = [copy EXCEPT ![u].name = "KS"]
  /\ UNCHANGED <<share, member, room, frozen, tx, writes, gaps>>

\* cancelShare: refused once a name was converted, since a node keeps its mark
\* until its name is under the vault key again.
CancelShare(u) ==
  /\ u = Initiator /\ tx[u] = None /\ share = "preparing"
  /\ copy[u] # None => copy[u].name = u
  /\ share' = "cancelled"
  /\ member' = [member EXCEPT ![u] = "left"]
  /\ UNCHANGED <<copy, room, frozen, tx, writes, gaps>>

\* activateShare: the trigger wants every name converted, the trash included.
Activate(u) ==
  /\ u = Initiator /\ tx[u] = None /\ share = "preparing"
  /\ copy[u] # None => copy[u].name = "KS"
  /\ share' = "active"
  /\ UNCHANGED <<member, copy, room, frozen, tx, writes, gaps>>

\* invite: never a second row for one account.
Invite(u, v) ==
  /\ u = Initiator /\ tx[u] = None /\ share = "active" /\ ~ShareLocked(u)
  /\ member[v] = "none"
  /\ member' = [member EXCEPT ![v] = "invited"]
  /\ UNCHANGED <<share, copy, room, frozen, tx, writes, gaps>>

Decline(u) ==
  /\ tx[u] = None /\ member[u] = "invited"
  /\ member' = [member EXCEPT ![u] = "none"]
  /\ UNCHANGED <<share, copy, room, frozen, tx, writes, gaps>>

-----------------------------------------------------------------------------
(* Joining.                                                                *)

\* joinShare reads the initiator's live nodes and asks the room for the heads.
StartJoin(u) ==
  LET c == copy[Initiator]
      source == IF c # None /\ c.live THEN c.content ELSE None
  IN /\ share = "active" /\ ~ShareLocked(u) /\ member[u] = "invited"
     /\ source # None => Fits(u, source)
     /\ Apart(WriteOps, "write in a join")
     /\ Risk(frozen[Initiator], "join from a frozen copy")
     /\ Begin(u, [op |-> "join", source |-> source])

\* Versions are read node by node, later than the nodes; the head is recorded
\* as a version of its own, at the moment of the join.
JoinedCopy(u, source) ==
  LET past == copy[Initiator].history
  IN [content |-> source, live |-> TRUE, name |-> "KS",
      history |-> Front(past) \o
        <<[at |-> <<writes, u>>, content |-> source, by |-> Last(past).by]>>]

CommitJoin(u) ==
  /\ Doing(u, {"join"}) /\ share = "active"
  /\ member' = [member EXCEPT ![u] = "joined"]
  /\ copy' = [copy EXCEPT ![u] = IF tx[u].source = None THEN None
                                 ELSE JoinedCopy(u, tx[u].source)]
  /\ tx' = [tx EXCEPT ![u] = None]
  /\ UNCHANGED <<share, room, frozen, writes, gaps>>

-----------------------------------------------------------------------------
(* Writing.                                                                *)

Targets(u) == IF Inside(u) THEN LiveUnfrozen \ {u} ELSE {}

\* What every write reads and locks: the rows of the copies it will go to.
StartWrite(u, op, content, name) ==
  /\ InFolder(u)
  /\ \A v \in Targets(u) : ~MemberLocked(u, v)
  /\ Apart({"join"}, "write in a join")
  /\ Apart({"thaw"}, "write in a thaw")
  /\ Begin(u, [op |-> op, content |-> content, name |-> name, to |-> Targets(u)])

\* nodes_check_name_key: the keys a name in the folder of u may be under.
NameKeys(u) == CASE ~Inside(u) -> {u}
                 [] share = "preparing" -> {u, "KS"}
                 [] share = "active" -> {"KS"}
                 [] OTHER -> {u}

NobodyHoldsIt == \A v \in Users : InFolder(v) => copy[v] = None

StartCreate(u, content) ==
  /\ ~frozen[u] /\ NobodyHoldsIt /\ Fits(u, content)
  /\ \E name \in NameKeys(u) : StartWrite(u, "create", content, name)

StartPut(u, content) ==
  /\ ~frozen[u] /\ copy[u] # None /\ copy[u].live
  /\ content # copy[u].content /\ Fits(u, content)
  /\ StartWrite(u, "put", content, None)

StartDelete(u) ==
  /\ copy[u] # None /\ copy[u].live
  /\ StartWrite(u, "delete", None, None)

StartRestore(u, content) ==
  /\ ~frozen[u] /\ copy[u] # None
  /\ \E e \in Range(copy[u].history) : e.content = content
  /\ Risk(\E v \in Targets(u) : copy[v] = None, "restore of what a copy lacks")
  /\ StartWrite(u, "restore", content, None)

Written(c, w, u) ==
  [c EXCEPT !.content = w.content, !.live = TRUE,
            !.history = Append(@, [at |-> <<writes + 1, None>>,
                                   content |-> w.content, by |-> u])]

\* createCounterpart: the node another copy gets, without a version yet.
Created(w) == [content |-> w.content, live |-> TRUE, name |-> w.name, history |-> <<>>]

\* Mutant: a deletion is delivered as a put is, with the content it has none of.
DeliveredAlike(c, w, u) ==
  CASE w.op = "create" -> Written(Created(w), w, u)
    [] w.op # "create" /\ c = None -> c
    [] w.op # "create" /\ c # None ->
         IF c.live \/ w.op = "restore" THEN [Written(c, w, u) EXCEPT !.live = w.op # "delete"]
         ELSE c

\* What write w of u leaves of copy c: a copy without the file has nothing to
\* change, and a file in the trash has nothing to change but to leave it.
Delivered(c, w, u) ==
  CASE w.op = "create" -> Written(Created(w), w, u)
    [] w.op # "create" /\ c = None -> c
    [] w.op = "put" /\ c # None -> IF c.live THEN Written(c, w, u) ELSE c
    [] w.op = "delete" /\ c # None -> [c EXCEPT !.live = FALSE]
    [] w.op = "restore" /\ c # None -> Written(c, w, u)

\* nodes_reject_frozen_write refuses the whole of a write one copy cannot take.
Accepted(u, w) ==
  /\ \A v \in w.to : ~frozen[v] /\ ~NodeLocked(u, v)
  /\ frozen[u] => w.op = "delete" /\ ~Inside(u)
  /\ w.op = "create" => w.name \in NameKeys(u) /\ NobodyHoldsIt

\* The write, its fan-out, and the freeze of whom it leaves without room.
CommitWrite(u) ==
  LET w == tx[u]
      reached == {u} \cup w.to
      next == [v \in Users |-> IF v \in reached THEN Delivered(copy[v], w, u)
                               ELSE copy[v]]
  IN /\ Doing(u, WriteOps) /\ Accepted(u, w)
     /\ IF w.op = "delete" THEN UNCHANGED writes
        ELSE writes < MaxWrites /\ writes' = writes + 1
     /\ copy' = next
     /\ frozen' = [v \in Users |-> \/ frozen[v]
                                   \/ /\ v \in w.to /\ w.op # "delete"
                                      /\ next[v] # copy[v] /\ Over(next[v], room[v])]
     /\ tx' = [tx EXCEPT ![u] = None]
     /\ UNCHANGED <<share, member, room, gaps>>

-----------------------------------------------------------------------------
(* Departing.                                                              *)

\* departMember asks who else is live without locking them.
Ends(going) == going = Initiator \/ Live \subseteq {going, Initiator}

StartLeave(u) ==
  /\ member[u] = "joined" /\ ~ShareLocked(u) /\ ~MemberLocked(u, u)
  /\ Apart({"revoke"}, "two departures")
  /\ Begin(u, [op |-> "leave", target |-> u, ends |-> Ends(u)])

\* removeMember reads the row of the target without locking it.
StartRemove(u, v) ==
  /\ u = Initiator /\ v # u /\ member[v] \in {"invited", "joined", "finalizing"}
  /\ Apart({"leave"}, "two departures")
  /\ Begin(u, IF member[v] = "invited" THEN [op |-> "withdraw", target |-> v]
              ELSE [op |-> "revoke", target |-> v, ends |-> Ends(v)])

\* A row that joined meanwhile is not deleted: the trigger refuses.
CommitWithdraw(u) ==
  /\ Doing(u, {"withdraw"})
  /\ LET v == tx[u].target
     IN /\ member[v] \in {"invited", "none"} /\ ~MemberLocked(u, v)
        /\ member' = [member EXCEPT ![v] = "none"]
  /\ tx' = [tx EXCEPT ![u] = None]
  /\ UNCHANGED <<share, copy, room, frozen, writes, gaps>>

\* Everybody who has not begun to go begins when the share ends; that includes
\* whoever was asked and has not answered, and finalization_after_join refuses
\* the whole departure on their row.
CommitDeparture(u) ==
  LET d == tx[u]
      going == IF d.ends THEN {v \in Users : member[v] \in {"invited", "joined"}}
               ELSE {d.target} \cap Live
  IN /\ Doing(u, {"leave", "revoke"})
     /\ \A v \in going : member[v] = "joined" /\ ~MemberLocked(u, v)
     /\ IF d.ends THEN /\ ~ShareLocked(u)
                       /\ share' = IF share = "preparing" THEN "cancelled" ELSE "ended"
        ELSE UNCHANGED share
     /\ member' = [v \in Users |-> IF v \in going THEN "finalizing" ELSE member[v]]
     /\ tx' = [tx EXCEPT ![u] = None]
     /\ UNCHANGED <<copy, room, frozen, writes, gaps>>

\* finalizeLeave: every marked node, the trash included, has its name converted
\* and loses its mark; only the initiator keeps the versions.
Private(c, u) ==
  IF c = None THEN None
  ELSE [c EXCEPT !.name = u, !.history = IF u = Initiator THEN @ ELSE <<>>]

Finalize(u) ==
  /\ tx[u] = None /\ member[u] = "finalizing" /\ ~MemberLocked(u, u)
  /\ copy' = [copy EXCEPT ![u] = Private(@, u)]
  /\ member' = [member EXCEPT ![u] = "left"]
  /\ UNCHANGED <<share, room, frozen, tx, writes, gaps>>

-----------------------------------------------------------------------------
(* Room, the freeze and the catch-up.                                      *)

\* An administrator sets the quota, or what the account stores elsewhere grows
\* or goes: settleFreeze with nothing to lift.
SetRoom(u, r) ==
  /\ tx[u] = None /\ gaps < MaxGaps /\ r # room[u]
  /\ frozen[u] => Over(copy[u], r)
  /\ room' = [room EXCEPT ![u] = r]
  /\ frozen' = [frozen EXCEPT ![u] = Over(copy[u], r)]
  /\ gaps' = gaps + 1
  /\ UNCHANGED <<share, member, copy, tx, writes>>

\* Mutant: any live member's copy will do, frozen or not.
SourcesThatLive(u) == Live \ {u}

\* sourceOf: a live copy that is not frozen, the initiator's if it is one.
Sources(u) == LET others == LiveUnfrozen \ {u}
              IN IF Initiator \in others THEN {Initiator} ELSE others

\* settleFreeze lifts the freeze and catchUpShare reads what there is to catch
\* up from.
StartThaw(u, r) ==
  LET owed == member[u] = "joined" /\ share = "active"
  IN /\ gaps < MaxGaps /\ frozen[u] /\ ~Over(copy[u], r)
     /\ Apart(WriteOps, "write in a thaw")
     /\ Risk(owed /\ Sources(u) = {}, "nobody to catch up from")
     /\ IF owed /\ Sources(u) # {}
        THEN \E s \in Sources(u) :
               /\ Risk(copy[s] = None /\ copy[u] # None,
                       "catch up from a copy that lacks it")
               /\ Begin(u, [op |-> "thaw", source |-> copy[s], room |-> r])
        ELSE Begin(u, [op |-> "thaw", source |-> None, room |-> r])

\* historyOwed: their versions after the last one this copy already has, the
\* same content written at the same moment.
Owed(mine, theirs) ==
  LET has(i) == \E e \in Range(mine) : e.at = theirs[i].at /\ e.content = theirs[i].content
      reached == {i \in DOMAIN theirs : has(i)}
  IN SubSeq(theirs, 1 + (IF reached = {} THEN 0
                         ELSE CHOOSE i \in reached : \A j \in reached : j <= i),
            Len(theirs))

\* Mutant: the content of the gap and none of its versions.
CaughtUpRecopied(mine, source) ==
  IF source = None \/ mine = None THEN mine
  ELSE [mine EXCEPT !.live = source.live,
                    !.content = IF source.live THEN source.content ELSE @]

\* catchUpShare: what has come and gone is not delivered; content arrives only
\* with a live file.
CaughtUp(mine, source) ==
  CASE source = None -> mine
    [] source # None /\ mine = None -> IF source.live THEN source ELSE None
    [] source # None /\ mine # None ->
         [mine EXCEPT !.live = source.live,
                      !.content = IF source.live THEN source.content ELSE @,
                      !.history = @ \o Owed(@, source.history)]

CommitThaw(u) ==
  LET now == CaughtUp(copy[u], tx[u].source)
  IN /\ Doing(u, {"thaw"}) /\ gaps < MaxGaps
     /\ copy' = [copy EXCEPT ![u] = now]
     /\ room' = [room EXCEPT ![u] = tx[u].room]
     /\ frozen' = [frozen EXCEPT ![u] = Over(now, tx[u].room)]
     /\ tx' = [tx EXCEPT ![u] = None]
     /\ gaps' = gaps + 1
     /\ UNCHANGED <<share, member, writes>>

-----------------------------------------------------------------------------
(* The specification.                                                      *)

\* A request ends: its second step, or nothing.
EndRequest(u) ==
  \/ CommitJoin(u) \/ CommitWrite(u) \/ CommitWithdraw(u)
  \/ CommitDeparture(u) \/ CommitThaw(u) \/ RollBack(u)

Next ==
  \E u \in Users :
    \/ CreateShare(u) \/ Prepare(u) \/ CancelShare(u) \/ Activate(u)
    \/ Decline(u) \/ StartJoin(u)
    \/ StartDelete(u)
    \/ StartLeave(u) \/ Finalize(u)
    \/ \E r \in Rooms[u] : SetRoom(u, r) \/ StartThaw(u, r)
    \/ \E v \in Users : Invite(u, v) \/ StartRemove(u, v)
    \/ \E content \in Contents :
         StartCreate(u, content) \/ StartPut(u, content) \/ StartRestore(u, content)
    \/ EndRequest(u)

Spec == Init /\ [][Next]_vars

-----------------------------------------------------------------------------
(* What holds.                                                             *)

\* The copies every write is delivered to while the share lives.
Level == IF share = "active" THEN LiveUnfrozen ELSE {}
Shown(c) == IF c # None /\ c.live THEN c.content ELSE None

\* There is no queue and no window: whoever is in the share, has room and has
\* nothing to catch up with sees the same file as everybody else, after any
\* interleaving of writes, freezes, catch-ups, joins and departures.
CopiesAgree == \A u, v \in Level : Shown(copy[u]) = Shown(copy[v])

\* That c holds the version e of another copy, as it was written or as the head
\* of a later join.
Has(c, e) == \E f \in Range(c.history) :
  f.content = e.content /\ (f.at = e.at \/ (f.at[2] # None /\ f.at[1] >= e.at[1]))

\* A freeze leaves no hole in the record, and a join begins none: a copy that is
\* level has every write another level copy has.
RecordHasNoHole ==
  \A u, v \in Level : copy[u] # None /\ copy[v] # None =>
    \A e \in Range(copy[v].history) : e.at[2] = None => Has(copy[u], e)

\* Propagation stops with the departure, before the pass that completes it:
\* what changes in the copy of somebody who goes, they change.
DepartedReceiveNothing ==
  [][\A u \in Users : member[u] \in {"finalizing", "left"} /\ copy'[u] # copy[u]
       => tx[u] # None \/ member'[u] = "left"]_vars
=============================================================================
